----------------------------- MODULE RolesPage -----------------------------
(***************************************************************************)
(* The roles: role_service.py on the server, whose requests of several      *)
(* users overlap, and features/roles with RolesService in the browser of    *)
(* one user who may manage them.                                            *)
(*                                                                         *)
(* The code of a role is the slug of its first name and a number, 1 for no   *)
(* suffix; no slug is another one with a suffix.  A list of roles maps an id    *)
(* to its role, or to Null.  Nobody on this page joins a load of RolesService,  *)
(* so its promise is left out.                                              *)
(***************************************************************************)
EXTENDS FiniteSetsExt, Integers

CONSTANTS
  Names,          \* the names of roles, "" for an empty field
  Slug,           \* _slugify_code of a name
  Room,           \* how many codes a slug has, see UniqueCode
  Texts,          \* the descriptions
  Perms,          \* the permission codes of the catalog
  Employees,      \* the users who have a role
  Null,
  MaxId,          \* how many roles are ever made (a bound)
  MaxActs, MaxRivals \* how often the user and the others act (bounds)

VARIABLES
  roles,      \* the table roles
  lastId,     \* the sequence of its ids
  assigned,   \* users.role_id
  cache,      \* the roles RolesService holds
  shown,      \* roles() of the page
  catalog,    \* catalog(), the permissions of the matrix
  loading,
  editing,    \* editingId: Null for no editor, 0 for a new role
  form,       \* what the editor says, empty when it is closed
  saving,
  confirm,    \* confirmDeleteId
  calls,      \* the HTTP requests in flight
  stale,      \* (history) what is shown may differ from the table, see DeliverList
  acts, rivals \* how often the user and the others still act

table == <<roles, lastId, assigned>>
editor == <<editing, form, saving, confirm>>
vars == <<table, cache, shown, catalog, loading, editor, calls, stale, acts, rivals>>

-----------------------------------------------------------------------------
Forms == [name : Names, desc : Texts \cup {Null}, perms : SUBSET Perms]

Ids == 1..MaxId

Codes == [slug : {Slug[n] : n \in Names}, n : Nat]

Roles ==
  [code : Codes, name : Names, desc : Texts \cup {Null}, perms : SUBSET Perms,
   super : BOOLEAN, system : BOOLEAN]

Lists == [Ids -> Roles \cup {Null}]

None == [i \in Ids |-> Null]

Listed(f) == {i \in Ids : f[i] # Null}

ASSUME RolesAssumption ==
  /\ "" \in Names /\ Null \notin Texts \cup Roles /\ DOMAIN Slug = Names
  /\ IsFiniteSet(Employees)
  /\ \A n \in Names : Room[Slug[n]] \in Nat \ {0}
  /\ MaxId \in Nat /\ MaxActs \in Nat /\ MaxRivals \in Nat

\* own: the page that sent it is still open; live: it is of this browser; stage:
\* how far the server is; row: the role a save has read, then the one it answers;
\* code: the one of a new role; first: the list of ngOnInit; fills: it sets
\* roles(); old: a later list was asked for, passed: one that sets roles(); overtaken:
\* the table has changed since it was read (history).
Calls ==
  [id : Nat, op : {"list", "catalog", "save", "delete"}, own : BOOLEAN, live : BOOLEAN,
   role : Ids \cup {0}, form : Forms,
   stage : {"sent", "read", "ok", "refused"}, row : Roles \cup {Null}, code : Codes \cup {Null},
   rows : Lists, first : BOOLEAN, fills : BOOLEAN, old : BOOLEAN, passed : BOOLEAN,
   overtaken : BOOLEAN]

EmptyForm == [name |-> "", desc |-> Null, perms |-> {}]

Call(op) ==
  [id |-> 0, op |-> op, own |-> TRUE, live |-> TRUE, role |-> 0, form |-> EmptyForm,
   stage |-> "sent", row |-> Null, code |-> Null, rows |-> None, first |-> FALSE,
   fills |-> FALSE, old |-> FALSE, passed |-> FALSE, overtaken |-> FALSE]

Plus(S, c) ==
  S \cup {[c EXCEPT !.id = CHOOSE n \in 0..Cardinality(S) :
                               \A d \in S : d.op = c.op => d.id # n]}

\* load: the lists on their way are older from now on.
Older(S, fills) ==
  {IF d.op = "list" THEN [d EXCEPT !.old = TRUE, !.passed = @ \/ fills] ELSE d : d \in S}

PlusList(S, c) == Plus(Older(S, c.fills /\ c.own), c)

InFlight(op) == {c \in calls : c.op = op /\ c.live}

TypeOK ==
  /\ roles \in Lists /\ lastId \in 0..MaxId
  /\ assigned \in [Employees -> Ids]
  /\ cache \in Lists /\ shown \in Lists
  /\ catalog \in SUBSET Perms /\ loading \in BOOLEAN
  /\ editing \in Ids \cup {0, Null} /\ form \in Forms
  /\ saving \in BOOLEAN /\ confirm \in Ids \cup {Null}
  /\ calls \subseteq Calls
  /\ stale \in BOOLEAN /\ acts \in 0..MaxActs /\ rivals \in 0..MaxRivals

-----------------------------------------------------------------------------
(* The page is opened: the catalog, and a list whose error empties the page; *)
(* the first time the service loads one of its own before.                  *)

Opening(S) ==
  PlusList(Plus(S, Call("catalog")), [Call("list") EXCEPT !.first = TRUE, !.fills = TRUE])

Init ==
  /\ roles \in Lists /\ assigned \in [Employees -> Listed(roles)]
  /\ \A i, j \in Listed(roles) : roles[i].code = roles[j].code => i = j
  /\ lastId \in 0..MaxId /\ \A i \in Listed(roles) : i <= lastId
  /\ cache = None /\ shown = None /\ catalog = {} /\ loading = TRUE
  /\ editing = Null /\ form = EmptyForm /\ saving = FALSE /\ confirm = Null
  /\ calls = Opening(PlusList({}, Call("list")))
  /\ stale = FALSE /\ acts \in 0..MaxActs /\ rivals \in 0..MaxRivals

-----------------------------------------------------------------------------
(* What the user does; the dialog about a deletion covers the page.         *)

Act == acts > 0 /\ acts' = acts - 1 /\ UNCHANGED rivals

Editing ==
  UNCHANGED <<table, cache, shown, catalog, loading, saving, confirm, calls, stale>>

StartCreate ==
  /\ confirm = Null
  /\ editing' = 0 /\ form' = EmptyForm
  /\ Editing /\ UNCHANGED <<acts, rivals>>

\* startEdit: a click on a row, also while a save is on its way.
StartEdit(i) ==
  /\ confirm = Null /\ i \in Listed(shown)
  /\ editing' = i
  /\ form' = [name |-> shown[i].name, desc |-> shown[i].desc, perms |-> shown[i].perms]
  /\ Editing /\ UNCHANGED <<acts, rivals>>

CloseEditor ==
  /\ confirm = Null /\ editing # Null
  /\ editing' = Null /\ form' = EmptyForm
  /\ Editing /\ UNCHANGED <<acts, rivals>>

EditorLocked == editing \in Listed(shown) /\ shown[editing].super

Type(n, d) ==
  /\ confirm = Null /\ editing # Null /\ Act
  /\ form' = [form EXCEPT !.name = n, !.desc = d] /\ UNCHANGED editing
  /\ Editing

TogglePerm(p) ==
  /\ confirm = Null /\ editing # Null /\ p \in catalog /\ ~EditorLocked /\ Act
  /\ form' = [form EXCEPT !.perms = IF p \in @ THEN @ \ {p} ELSE @ \cup {p}]
  /\ UNCHANGED editing
  /\ Editing

Save ==
  /\ confirm = Null /\ editing # Null /\ form.name # "" /\ ~saving /\ Act
  /\ saving' = TRUE
  /\ calls' = Plus(calls, [Call("save") EXCEPT !.role = editing, !.form = form])
  /\ UNCHANGED <<table, cache, shown, catalog, loading, editing, form, confirm, stale>>

AskDelete(i) ==
  /\ confirm = Null /\ i \in Listed(shown) /\ ~shown[i].system /\ Act
  /\ confirm' = i
  /\ UNCHANGED <<table, cache, shown, catalog, loading, editing, form, saving, calls, stale>>

\* confirmDelete, or cancelDelete.
AnswerConfirm(yes) ==
  /\ confirm # Null
  /\ confirm' = Null
  /\ calls' = IF yes THEN Plus(calls, [Call("delete") EXCEPT !.role = confirm]) ELSE calls
  /\ UNCHANGED <<table, cache, shown, catalog, loading, editing, form, saving, stale, acts, rivals>>

\* The page is left and opened again; the service remains.
Reopen ==
  /\ Act
  /\ shown' = None /\ catalog' = {} /\ loading' = TRUE
  /\ editing' = Null /\ form' = EmptyForm /\ saving' = FALSE /\ confirm' = Null
  /\ calls' = Opening({[c EXCEPT !.own = FALSE] : c \in calls})
  /\ UNCHANGED <<table, cache, stale>>

-----------------------------------------------------------------------------
(* The server.  A request reads first and is committed later.               *)

page == <<cache, shown, catalog, loading, editor, acts>>

Replace(c, d) == calls' = (calls \ {c}) \cup {e \in {d} : e.live \/ e.stage = "read"}

\* The table has changed: the lists that were read are not up to date.
Outdated(S) == {IF d.op = "list" /\ d.stage = "ok" THEN [d EXCEPT !.overtaken = TRUE] ELSE d : d \in S}

\* Another administrator gives a user a role, ...
Assign(e, i) ==
  /\ rivals > 0 /\ rivals' = rivals - 1
  /\ i \in Listed(roles)
  /\ assigned' = [assigned EXCEPT ![e] = i]
  /\ UNCHANGED <<roles, lastId, page, calls, stale>>

\* ... or asks to delete one, or to save one.
Rival(op, i, f) ==
  /\ rivals > 0 /\ rivals' = rivals - 1
  /\ i \in Listed(roles)
  /\ calls' = Plus(calls, [Call(op) EXCEPT !.live = FALSE, !.own = FALSE, !.role = i, !.form = f])
  /\ UNCHANGED <<table, page, stale>>

ServeList(c) ==
  /\ c.op = "list" /\ c.stage = "sent"
  /\ Replace(c, [c EXCEPT !.stage = "ok", !.rows = roles])
  /\ UNCHANGED <<table, page, stale, rivals>>

\* _unique_code: codes are cut after 50 characters, so a slug of 50 has one code,
\* one of 49 two (its suffix is "_"), of 48 ten, of 47 ninety-nine and so on; when
\* they are taken the search repeats them and has no end.
UniqueCode(n) ==
  LET s == Slug[n]
      free == {k \in 1..Room[s] :
                 \A i \in Listed(roles) : roles[i].code # [slug |-> s, n |-> k]}
  IN  IF free = {} THEN Null
      ELSE [slug |-> s, n |-> CHOOSE k \in free : \A j \in free : k <= j]

\* create_role up to its flush.
ReadCreate(c) ==
  LET code == UniqueCode(c.form.name) IN
  /\ c.op = "save" /\ c.role = 0 /\ c.stage = "sent" /\ code # Null
  /\ Replace(c, [c EXCEPT !.stage = "read", !.code = code])
  /\ UNCHANGED <<table, page, stale, rivals>>

\* update_role up to its flush.
ReadUpdate(c) ==
  /\ c.op = "save" /\ c.role # 0 /\ c.stage = "sent"
  /\ IF c.role \in Listed(roles)
       THEN Replace(c, [c EXCEPT !.stage = "read", !.row = roles[c.role]])
       ELSE Replace(c, [c EXCEPT !.stage = "refused"])
  /\ UNCHANGED <<table, page, stale, rivals>>

Users(i) == {e \in Employees : assigned[e] = i}

\* delete_role: the role must exist, not be a system role, and have no user.
ReadDelete(c) ==
  /\ c.op = "delete" /\ c.stage = "sent"
  /\ IF c.role \in Listed(roles) /\ ~roles[c.role].system /\ Users(c.role) = {}
       THEN Replace(c, [c EXCEPT !.stage = "read", !.row = roles[c.role]])
       ELSE Replace(c, [c EXCEPT !.stage = "refused"])
  /\ UNCHANGED <<table, page, stale, rivals>>

\* c is committed and answered with the row of role i; the page that sent it will
\* ask for a list, another one will not.
Committed(c, i, row) ==
  /\ calls' = Outdated((calls \ {c}) \cup
                         {d \in {[c EXCEPT !.stage = "ok", !.role = i, !.row = row]} : d.live})
  /\ stale' = (stale \/ ~c.own)
  /\ UNCHANGED <<assigned, page, rivals>>

Failed(c) ==
  /\ Replace(c, [c EXCEPT !.stage = "refused"])
  /\ UNCHANGED <<table, page, stale, rivals>>

\* The unique key of the codes, and the sequence of the ids.
CommitCreate(c) ==
  /\ c.op = "save" /\ c.role = 0 /\ c.stage = "read"
  /\ IF \E i \in Listed(roles) : roles[i].code = c.code
       THEN Failed(c)
       ELSE /\ lastId < MaxId /\ lastId' = lastId + 1
            /\ roles' = [roles EXCEPT ![lastId'] =
                 [code |-> c.code, name |-> c.form.name, desc |-> c.form.desc,
                  perms |-> c.form.perms, super |-> FALSE, system |-> FALSE]]
            /\ Committed(c, lastId', roles'[lastId'])

\* Mutant: the permissions of a superuser are taken from the form.
Updated_super(c, r) ==
  [r EXCEPT
     !.name = IF c.form.name = c.row.name THEN @ ELSE c.form.name,
     !.desc = IF c.form.desc \in {Null, c.row.desc} THEN @ ELSE c.form.desc,
     !.perms = (@ \ (c.row.perms \ c.form.perms)) \cup (c.form.perms \ c.row.perms)]

\* The session writes what differs from what it has read; no description is no
\* change of it, and the permissions of a superuser are not touched.
Updated(c, r) ==
  [r EXCEPT
     !.name = IF c.form.name = c.row.name THEN @ ELSE c.form.name,
     !.desc = IF c.form.desc \in {Null, c.row.desc} THEN @ ELSE c.form.desc,
     !.perms = IF c.row.super THEN @
               ELSE (@ \ (c.row.perms \ c.form.perms)) \cup (c.form.perms \ c.row.perms)]

\* role_permissions of a role.
Links(i) == IF roles[i] = Null THEN {} ELSE roles[i].perms

\* A role that is gone, or a link that is there already, is an error; a link that
\* is gone already may be one.
CommitUpdate(c) ==
  LET added == c.form.perms \ c.row.perms
      removed == c.row.perms \ c.form.perms
      found == c.role \in Listed(roles)
  IN
  /\ c.op = "save" /\ c.role # 0 /\ c.stage = "read"
  /\ \/ /\ found
        /\ c.row.super \/ added \cap Links(c.role) = {}
        /\ roles' = [roles EXCEPT ![c.role] = Updated(c, @)] /\ UNCHANGED lastId
        /\ Committed(c, c.role, roles'[c.role])
     \/ /\ \/ ~found
           \/ ~c.row.super /\ \/ added \cap Links(c.role) # {}
                              \/ ~(removed \subseteq Links(c.role))
        /\ Failed(c)

\* Mutant: the users keep the id of a role that is gone.
CommitDelete_noForeignKey(c) ==
  /\ c.op = "delete" /\ c.stage = "read"
  /\ roles' = [roles EXCEPT ![c.role] = Null] /\ UNCHANGED lastId
  /\ Committed(c, c.role, Null)

\* The foreign key of the users; a role or a link that is gone already is no
\* error, or one.
CommitDelete(c) ==
  /\ c.op = "delete" /\ c.stage = "read"
  /\ \/ /\ Users(c.role) = {}
        /\ roles' = [roles EXCEPT ![c.role] = Null] /\ UNCHANGED lastId
        /\ Committed(c, c.role, Null)
     \/ /\ \/ Users(c.role) # {} \/ c.role \notin Listed(roles)
           \/ ~(c.row.perms \subseteq Links(c.role))
        /\ Failed(c)

-----------------------------------------------------------------------------
(* The answers; a request may be lost before or after it is served.         *)

Answered(c, op, ok) ==
  c.live /\ c.op = op /\ c.stage # "read" /\ (ok => c.stage = "ok" \/ op = "catalog")

\* refresh, added to the requests S; a page that is gone keeps its own signals.
Refresh(c, S) == calls' = PlusList(S, [Call("list") EXCEPT !.fills = TRUE, !.own = c.own])

DeliverCatalog(c, ok) ==
  /\ Answered(c, "catalog", ok)
  /\ catalog' = IF ~c.own THEN catalog ELSE IF ok THEN Perms ELSE {}
  /\ calls' = calls \ {c}
  /\ UNCHANGED <<table, cache, shown, loading, editor, stale, acts, rivals>>

\* What is shown is current again when the list asked for last comes last and
\* nothing was committed after it was read; a list that comes when no later one is
\* still on its way leaves what it sets out of date.
DeliverList(c, ok) ==
  LET fills == c.fills /\ c.own IN
  /\ Answered(c, "list", ok)
  /\ cache' = IF ok THEN c.rows ELSE cache
  /\ shown' = IF ~fills THEN shown
              ELSE IF ok THEN c.rows
              ELSE IF c.first THEN None ELSE shown
  /\ loading' = (loading /\ ~(c.first /\ c.own))
  /\ calls' = calls \ {c}
  /\ stale' = CASE ~ok                      -> TRUE
                [] ok /\ fills /\ ~c.old -> c.overtaken
                [] OTHER -> \/ stale
                            \/ c.old /\ \A d \in calls : d.op = "list" => d.old
                            \/ fills /\ c.passed /\ \A d \in calls :
                                 d.op = "list" /\ d.fills /\ d.own => d.passed
  /\ UNCHANGED <<table, catalog, editor, acts, rivals>>

\* The taps of create and update.
Patched(c) ==
  IF c.code # Null \/ cache[c.role] # Null THEN [cache EXCEPT ![c.role] = c.row] ELSE cache

\* Mutant: the page trusts that the service knows.
DeliverSave_noRefresh(c, ok) ==
  /\ Answered(c, "save", ok)
  /\ cache' = IF ok THEN Patched(c) ELSE cache
  /\ saving' = (saving /\ ~c.own)
  /\ IF ok /\ c.own THEN editing' = Null /\ form' = EmptyForm ELSE UNCHANGED <<editing, form>>
  /\ calls' = calls \ {c}
  /\ stale' = (stale \/ (~ok /\ c.stage = "ok"))
  /\ UNCHANGED <<table, shown, catalog, loading, confirm, acts, rivals>>

\* The answer to a save closes whichever editor is open by now.
DeliverSave(c, ok) ==
  /\ Answered(c, "save", ok)
  /\ cache' = IF ok THEN Patched(c) ELSE cache
  /\ saving' = (saving /\ ~c.own)
  /\ IF ok /\ c.own THEN editing' = Null /\ form' = EmptyForm ELSE UNCHANGED <<editing, form>>
  /\ IF ok THEN Refresh(c, calls \ {c}) ELSE calls' = calls \ {c}
  /\ stale' = (stale \/ (~ok /\ c.stage = "ok"))
  /\ UNCHANGED <<table, shown, catalog, loading, confirm, acts, rivals>>

DeliverDelete(c, ok) ==
  /\ Answered(c, "delete", ok)
  /\ cache' = IF ok THEN [cache EXCEPT ![c.role] = Null] ELSE cache
  /\ IF ok /\ c.own /\ editing = c.role THEN editing' = Null /\ form' = EmptyForm
     ELSE UNCHANGED <<editing, form>>
  /\ IF ok THEN Refresh(c, calls \ {c}) ELSE calls' = calls \ {c}
  /\ stale' = (stale \/ (~ok /\ c.stage = "ok"))
  /\ UNCHANGED <<table, shown, catalog, loading, saving, confirm, acts, rivals>>

-----------------------------------------------------------------------------
Click ==
  \/ StartCreate \/ CloseEditor \/ Save \/ Reopen
  \/ \E i \in Listed(shown) : StartEdit(i) \/ AskDelete(i)
  \/ \E n \in Names, d \in Texts \cup {Null} : Type(n, d)
  \/ \E p \in Perms : TogglePerm(p)
  \/ \E yes \in BOOLEAN : AnswerConfirm(yes)

Others ==
  \E i \in Listed(roles) :
    \/ \E e \in Employees : Assign(e, i)
    \/ Rival("delete", i, EmptyForm)
    \/ \E P \in SUBSET Perms : Rival("save", i, [name |-> roles[i].name, desc |-> Null, perms |-> P])

Serve(c) ==
  \/ ServeList(c)
  \/ ReadCreate(c) \/ ReadUpdate(c) \/ ReadDelete(c)
  \/ CommitCreate(c) \/ CommitUpdate(c) \/ CommitDelete(c)

Deliver(c, ok) ==
  DeliverCatalog(c, ok) \/ DeliverList(c, ok) \/ DeliverSave(c, ok) \/ DeliverDelete(c, ok)

Next ==
  \/ Click
  \/ Others
  \/ \E c \in calls : Serve(c)
  \/ \E c \in calls, ok \in BOOLEAN : Deliver(c, ok)

Spec == Init /\ [][Next]_vars

-----------------------------------------------------------------------------
(* Properties                                                               *)

\* Whatever the administrators do at the same time, the role of every user exists
\* and no two roles have the same code (role_service.py:44-53, 70-84, 101-112;
\* models/user.py:18-22).
TableIsSound ==
  /\ \A e \in Employees : assigned[e] \in Listed(roles)
  /\ \A i, j \in Listed(roles) : roles[i].code = roles[j].code => i = j
  /\ \A i \in Listed(roles) : i <= lastId

\* No commit takes a system role away, makes a superuser or a system role, or
\* changes the permissions of a superuser (role_service.py:72-84, 93-98, 103).
SystemRolesStay ==
  [][/\ \A i \in Listed(roles) : roles[i].system => i \in Listed(roles')
     /\ \A i \in Listed(roles') :
          IF i \in Listed(roles)
            THEN /\ roles'[i].system = roles[i].system /\ roles'[i].super = roles[i].super
                 /\ roles[i].super => roles'[i].perms = roles[i].perms
            ELSE ~roles'[i].system /\ ~roles'[i].super]_vars

\* Once everything is answered, the page and the service hold the roles of the
\* table, and nothing says that it is busy; the exceptions are a change of another
\* page, a lost answer, and a list that is overtaken by a later one
\* (users.service.ts:130-175; roles.component.ts:100-111, 162-212).
RolesFollow ==
  /\ (\A c \in calls : c.live => c.op = "catalog") /\ ~stale => shown = roles /\ cache = roles
  /\ saving => \E c \in InFlight("save") : c.own
  /\ loading => \E c \in InFlight("list") : c.own /\ c.first

=============================================================================
