----------------------------- MODULE UsersPage -----------------------------
(***************************************************************************)
(* The users page (features/users) in the browser of one administrator,    *)
(* and the part of the users endpoints it calls.  Like LookupsPage, it     *)
(* sends requests without waiting, and an answer meets whatever the page   *)
(* shows by then.  Unlike it, the dialog's user and the dialog's form are  *)
(* two signals, set by different clicks and reset by different answers.    *)
(*                                                                         *)
(* A user is an id and whether the account is active; the other fields of  *)
(* the form are told by whom they were read from.  An edit does not move a  *)
(* user in or out of the other filters, and typing a field back to what it *)
(* was still counts as an edit.  Which managers the form offers and toasts *)
(* are left out; the server's rules about users are in OrgChart, here they *)
(* show as Fail.                                                           *)
(***************************************************************************)
EXTENDS Nothing, FiniteSets, Naturals

CONSTANTS
  Ids,        \* ids of users
  PageSize,   \* rows on a page of the table
  MaxActs     \* how many requests the administrator causes (a bound)

ASSUME PageAssumption ==
  /\ IsFiniteSet(Ids)
  /\ Null \notin Ids
  /\ PageSize \in Nat \ {0}
  /\ MaxActs \in Nat

VARIABLES
  rows,       \* the users table: the state of each id
  version,    \* how many changes are committed
  filter,     \* statusFilter, and the users the other filters let through
  page,
  shown,      \* items, and (history) the filter and version they were read with
  loading, saving,
  creating,   \* the dialog is for a new user
  selected,   \* the user the dialog is for
  form,       \* form and originalForm
  opened,     \* (history) what opened the dialog: a row or an icon in it
  confirm,    \* the user the confirmation dialog is about
  reset,      \* the user the password dialog is about
  addingTeam, \* the dialog for a new team
  calls,      \* the HTTP requests in flight
  acked,      \* (history) the last own change that was answered
  calm,       \* (history) no list has failed or met another one
  acts        \* how many requests the administrator has caused

server == <<rows, version>>
list == <<filter, page, shown, loading>>
dialog == <<creating, selected, form, opened>>
small == <<confirm, reset, addingTeam>>
history == <<acked, calm>>
vars == <<server, list, saving, dialog, small, calls, history, acts>>

-----------------------------------------------------------------------------
Tables == [Ids -> {"none", "on", "off"}]

NoRows == [i \in Ids |-> "none"]

FirstFilter == [status |-> "active", others |-> Ids]

Filters == [status : {"active", "inactive", "all"}, others : SUBSET Ids]

\* of is (history) the user the fields were read from, Null for empty fields.
Forms == [of : Ids \cup {Null}, dirty : BOOLEAN, active : BOOLEAN]

EmptyForm == [of |-> Null, dirty |-> FALSE, active |-> TRUE]

Calls ==
  [id     : Nat,
   op     : {"list", "create", "update", "delete", "activate", "password", "team"},
   row    : Ids \cup {Null},
   form   : Forms,
   opened : {"row", "icon"},
   filter : Filters,
   served : BOOLEAN,
   at     : Nat,
   rows   : Tables,
   ok     : BOOLEAN]

Call(op, i) ==
  [id |-> CHOOSE n \in 0..Cardinality(calls) : \A c \in calls : c.id # n,
   op |-> op, row |-> i, form |-> EmptyForm, opened |-> "row", filter |-> FirstFilter,
   served |-> FALSE, at |-> 0, rows |-> NoRows, ok |-> TRUE]

SaveCall ==
  [Call(IF creating THEN "create" ELSE "update", selected)
     EXCEPT !.form = form, !.opened = opened]

ListCall(f) == [Call("list", Null) EXCEPT !.filter = f]

TypeOK ==
  /\ rows \in Tables
  /\ version \in Nat
  /\ filter \in Filters
  /\ page \in Nat \ {0}
  /\ shown \in [filter : Filters, rows : Tables, at : Nat, ok : BOOLEAN]
  /\ loading \in BOOLEAN
  /\ saving \in BOOLEAN
  /\ creating \in BOOLEAN
  /\ selected \in Ids \cup {Null}
  /\ form \in Forms
  /\ opened \in {"row", "icon"}
  /\ confirm \in Ids \cup {Null}
  /\ reset \in Ids \cup {Null}
  /\ addingTeam \in BOOLEAN
  /\ calls \in SUBSET Calls
  /\ acked \in Nat
  /\ calm \in BOOLEAN
  /\ acts \in 0..MaxActs

\* The page has just been opened: active users, the first list on the way.
Init ==
  /\ rows \in Tables
  /\ version = 0
  /\ filter = FirstFilter
  /\ page = 1
  /\ shown = [filter |-> filter, rows |-> NoRows, at |-> 0, ok |-> TRUE]
  /\ loading = TRUE
  /\ saving = FALSE
  /\ creating = FALSE
  /\ selected = Null
  /\ form = EmptyForm
  /\ opened = "row"
  /\ confirm = Null
  /\ reset = Null
  /\ addingTeam = FALSE
  /\ calls = {[id |-> 0, op |-> "list", row |-> Null, form |-> EmptyForm,
               opened |-> "row", filter |-> filter, served |-> FALSE, at |-> 0,
               rows |-> NoRows, ok |-> TRUE]}
  /\ acked = 0
  /\ calm = TRUE
  /\ acts = 0

-----------------------------------------------------------------------------
(* Pages of the table.                                                      *)

Least(m, n) == IF m < n THEN m ELSE n
Most(m, n) == IF m > n THEN m ELSE n

\* totalPages of n items: how many pages they need, at least one.
TotalPages(n) == Most(1, (n + PageSize - 1) \div PageSize)

\* Mutant: the page beyond the last one is not clamped.
PageOf_unclamped(n, p) ==
  ((p - 1) * PageSize + 1)..Least(p * PageSize, n)

\* pagedItems of n items: the positions of the slice that page p shows.
PageOf(n, p) ==
  LET first == (Least(p, TotalPages(n)) - 1) * PageSize
  IN  (first + 1)..Least(first + PageSize, n)

\* paginationWindow: up to five page buttons round page p.
Window(n, p) ==
  LET end == Least(TotalPages(n), Most(1, IF p > 2 THEN p - 2 ELSE 1) + 4)
  IN  Most(1, IF end > 4 THEN end - 4 ELSE 1)..end

Items == {i \in Ids : shown.rows[i] # "none"}

-----------------------------------------------------------------------------
(* What the administrator does.                                             *)

InFlight(op) == {c \in calls : c.op = op}

Act ==
  /\ acts < MaxActs
  /\ acts' = acts + 1

Send(c) == calls' = calls \cup {c}

\* The dialogs lie over the page, the two small ones over the large one too.
DialogOpen == creating \/ selected # Null
OnTop == confirm = Null /\ reset = Null
PageFree == ~DialogOpen /\ OnTop /\ ~addingTeam
InDialog == DialogOpen /\ OnTop

\* The effect of a filter: a list is asked for, the first page is shown.
Reload(f, rest) ==
  /\ filter' = f
  /\ page' = 1
  /\ loading' = TRUE
  /\ calls' = rest \cup {ListCall(f)}
  /\ calm' = (calm /\ InFlight("list") = {})
  /\ UNCHANGED shown

SetFilter(f) ==
  /\ PageFree
  /\ Act
  /\ f # filter
  /\ Reload(f, calls)
  /\ UNCHANGED <<server, saving, dialog, small, acked>>

\* The buttons of the table: previous, next and those of the window; a page
\* that lies beyond the last one is still page() for the first two.
SetPage(p) ==
  LET n == Cardinality(Items) IN
  /\ PageFree
  /\ n > 0
  /\ \/ p = page - 1 /\ page # 1
     \/ p = page + 1 /\ page # TotalPages(n)
     \/ p \in Window(n, page)
  /\ page' = Most(1, Least(p, TotalPages(n)))
  /\ UNCHANGED <<server, filter, shown, loading, saving, dialog, small, calls,
                 history, acts>>

\* Only a table that is not loading shows rows, and those of its page only.
\* Which ids they are depends on an order of the users that is not modelled.
Clickable(i) == PageFree /\ ~loading /\ i \in Items

StartCreate ==
  /\ PageFree
  /\ creating' = TRUE
  /\ form' = EmptyForm
  /\ opened' = "row"
  /\ UNCHANGED <<server, list, saving, selected, small, calls, history, acts>>

\* Mutant: the form is left as it was.
SelectUser_keepForm(i) ==
  /\ Clickable(i)
  /\ selected' = i
  /\ opened' = "row"
  /\ UNCHANGED <<server, list, saving, creating, form, small, calls, history, acts>>

SelectUser(i) ==
  /\ Clickable(i)
  /\ selected' = i
  /\ form' = [of |-> i, dirty |-> FALSE, active |-> shown.rows[i] = "on"]
  /\ opened' = "row"
  /\ UNCHANGED <<server, list, saving, creating, small, calls, history, acts>>

\* The key and power icons of a row set selectedId first: they leave an edit
\* dialog open, with the form as it was.
ResetIcon(i) ==
  /\ Clickable(i)
  /\ shown.rows[i] = "on"
  /\ selected' = i
  /\ opened' = "icon"
  /\ reset' = i
  /\ UNCHANGED <<server, list, saving, creating, form, confirm, addingTeam, calls,
                 history, acts>>

ReactivateIcon(i) ==
  /\ Clickable(i)
  /\ shown.rows[i] = "off"
  /\ Act
  /\ selected' = i
  /\ opened' = "icon"
  /\ Send(Call("activate", i))
  /\ UNCHANGED <<server, list, saving, creating, form, small, history>>

Edit ==
  /\ InDialog
  /\ \E a \in BOOLEAN : form' = [form EXCEPT !.dirty = TRUE, !.active = a]
  /\ UNCHANGED <<server, list, saving, creating, selected, opened, small, calls,
                 history, acts>>

\* closeDialog
Closed ==
  /\ creating' = FALSE
  /\ selected' = Null
  /\ form' = EmptyForm
  /\ opened' = "row"

CloseDialog ==
  /\ InDialog
  /\ Closed
  /\ UNCHANGED <<server, list, saving, small, calls, history, acts>>

\* An empty new form fails the check of the required fields, an unchanged form
\* has its button disabled: both need an edit.
Save ==
  /\ InDialog
  /\ ~saving
  /\ form.dirty
  /\ Act
  /\ saving' = TRUE
  /\ Send(SaveCall)
  /\ UNCHANGED <<server, list, dialog, small, history>>

\* The buttons of the dialog are those of selected(), the user as listed now.
Listed(i, state) == InDialog /\ selected = i /\ shown.rows[i] = state

AskDelete(i) ==
  /\ (Clickable(i) /\ shown.rows[i] = "on") \/ Listed(i, "on")
  /\ confirm' = i
  /\ UNCHANGED <<server, list, saving, dialog, reset, addingTeam, calls, history, acts>>

CancelDelete ==
  /\ confirm # Null
  /\ confirm' = Null
  /\ UNCHANGED <<server, list, saving, dialog, reset, addingTeam, calls, history, acts>>

ConfirmDelete ==
  /\ confirm # Null
  /\ Act
  /\ confirm' = Null
  /\ Send(Call("delete", confirm))
  /\ UNCHANGED <<server, list, saving, dialog, reset, addingTeam, history>>

Reactivate(i) ==
  /\ Listed(i, "off")
  /\ Act
  /\ Send(Call("activate", i))
  /\ UNCHANGED <<server, list, saving, dialog, small, history>>

OpenPasswordReset(i) ==
  /\ Listed(i, "on")
  /\ reset' = i
  /\ UNCHANGED <<server, list, saving, dialog, confirm, addingTeam, calls, history, acts>>

CancelPasswordReset ==
  /\ reset # Null
  /\ reset' = Null
  /\ UNCHANGED <<server, list, saving, dialog, confirm, addingTeam, calls, history, acts>>

ApplyPasswordReset ==
  /\ reset # Null
  /\ Act
  /\ reset' = Null
  /\ Send(Call("password", reset))
  /\ UNCHANGED <<server, list, saving, dialog, confirm, addingTeam, history>>

OpenAddTeam ==
  /\ PageFree
  /\ addingTeam' = TRUE
  /\ UNCHANGED <<server, list, saving, dialog, confirm, reset, calls, history, acts>>

CancelAddTeam ==
  /\ addingTeam
  /\ addingTeam' = FALSE
  /\ UNCHANGED <<server, list, saving, dialog, confirm, reset, calls, history, acts>>

\* Nothing stops a second click before the answer.
SubmitAddTeam ==
  /\ addingTeam
  /\ Act
  /\ Send(Call("team", Null))
  /\ UNCHANGED <<server, list, saving, dialog, small, history>>

-----------------------------------------------------------------------------
(* The server: each call is handled in one transaction.                     *)

client == <<list, saving, dialog, small, history, acts>>

Replace(c, d) == calls' = (calls \ {c}) \cup {d}

\* The query for all users has no is_active, which the endpoint reads as TRUE.
Queried(status) == IF status = "inactive" THEN "off" ELSE "on"

\* GET: the users the filter lets through.
ServeList(c) ==
  /\ c.op = "list" /\ ~c.served
  /\ Replace(c, [c EXCEPT !.served = TRUE, !.at = version,
                          !.rows = [i \in Ids |->
                            IF i \in c.filter.others /\ rows[i] = Queried(c.filter.status)
                              THEN rows[i] ELSE "none"]])
  /\ UNCHANGED <<server, client>>

Commit(c, i, state) ==
  /\ rows' = [rows EXCEPT ![i] = state]
  /\ version' = version + 1
  /\ Replace(c, [c EXCEPT !.served = TRUE, !.at = version + 1])
  /\ UNCHANGED client

State(active) == IF active THEN "on" ELSE "off"

ServeCreate(c) ==
  /\ c.op = "create" /\ ~c.served
  /\ \E i \in Ids : rows[i] = "none" /\ Commit(c, i, State(c.form.active))

\* PATCH sends the whole form, so it decides about is_active too.
ServeChange(c) ==
  /\ c.op \in {"update", "delete", "activate"} /\ ~c.served
  /\ Commit(c, c.row, CASE c.op = "delete" -> "off"
                         [] c.op = "activate" -> "on"
                         [] OTHER -> State(c.form.active))

\* A new password or a new team shows in no field of the table.
ServeOther(c) ==
  /\ c.op \in {"password", "team"} /\ ~c.served
  /\ Replace(c, [c EXCEPT !.served = TRUE])
  /\ UNCHANGED <<server, client>>

\* A rule about users (OrgChart), a missing permission, a lost connection.
Fail(c) ==
  /\ ~c.served
  /\ Replace(c, [c EXCEPT !.served = TRUE, !.ok = FALSE])
  /\ UNCHANGED <<server, client>>

-----------------------------------------------------------------------------
(* The answers.                                                             *)

Answered(c, op) == c.op \in op /\ c.served

\* Mutant: a selection that is no longer listed is kept.
DeliverList_keep(c) ==
  /\ Answered(c, {"list"})
  /\ shown' = [filter |-> c.filter, rows |-> IF c.ok THEN c.rows ELSE NoRows,
               at |-> c.at, ok |-> c.ok]
  /\ loading' = FALSE
  /\ calls' = calls \ {c}
  /\ calm' = (calm /\ c.ok)
  /\ UNCHANGED <<server, filter, page, saving, dialog, small, acked, acts>>

\* A dialog for a user the list lacks is closed, and so is one for a new user,
\* who is in no list; the form stays.
DeliverList(c) ==
  /\ Answered(c, {"list"})
  /\ shown' = [filter |-> c.filter, rows |-> IF c.ok THEN c.rows ELSE NoRows,
               at |-> c.at, ok |-> c.ok]
  /\ loading' = FALSE
  /\ calls' = calls \ {c}
  /\ calm' = (calm /\ c.ok)
  /\ IF c.ok /\ \A i \in Ids : c.rows[i] = "none" \/ i # selected
       THEN creating' = FALSE /\ selected' = Null
       ELSE UNCHANGED <<creating, selected>>
  /\ UNCHANGED <<server, filter, page, saving, form, opened, small, acked, acts>>

Acked(c) == acked' = IF c.ok THEN Most(acked, c.at) ELSE acked

\* refetch, with the filters as they are now; only a change that was made is
\* followed by it.
\* Mutant: the table is left to a list that is on the way.
Refetch_lazy(c) ==
  IF c.ok /\ ~loading
    THEN /\ loading' = TRUE
         /\ calls' = (calls \ {c}) \cup {ListCall(filter)}
         /\ UNCHANGED calm
    ELSE /\ calls' = calls \ {c}
         /\ UNCHANGED <<loading, calm>>

Refetch(c) ==
  IF c.ok
    THEN /\ loading' = TRUE
         /\ calls' = (calls \ {c}) \cup {ListCall(filter)}
         /\ calm' = (calm /\ InFlight("list") = {})
    ELSE /\ calls' = calls \ {c}
         /\ UNCHANGED <<loading, calm>>

\* The answer to a save closes the dialog, whoever it is for by then.
DeliverSave(c) ==
  /\ Answered(c, {"create", "update"})
  /\ saving' = FALSE
  /\ IF c.ok THEN Closed ELSE UNCHANGED dialog
  /\ Acked(c)
  /\ Refetch(c)
  /\ UNCHANGED <<server, filter, page, shown, small, acts>>

DeliverChange(c) ==
  /\ Answered(c, {"delete", "activate"})
  /\ Acked(c)
  /\ Refetch(c)
  /\ UNCHANGED <<server, filter, page, shown, saving, dialog, small, acts>>

DeliverPassword(c) ==
  /\ Answered(c, {"password"})
  /\ calls' = calls \ {c}
  /\ UNCHANGED <<server, client>>

\* The list is narrowed to the new team, which has nobody yet.
DeliverTeam(c) ==
  /\ Answered(c, {"team"})
  /\ IF c.ok
       THEN /\ addingTeam' = FALSE
            /\ Reload([filter EXCEPT !.others = {}], calls \ {c})
       ELSE /\ calls' = calls \ {c}
            /\ UNCHANGED <<addingTeam, list, calm>>
  /\ UNCHANGED <<server, saving, dialog, confirm, reset, acked, acts>>

-----------------------------------------------------------------------------
Click ==
  \/ \E f \in Filters : SetFilter(f)
  \/ \E p \in 0..(page + Cardinality(Ids)) : SetPage(p)
  \/ StartCreate
  \/ Edit
  \/ CloseDialog
  \/ Save
  \/ CancelDelete
  \/ ConfirmDelete
  \/ CancelPasswordReset
  \/ ApplyPasswordReset
  \/ OpenAddTeam
  \/ CancelAddTeam
  \/ SubmitAddTeam
  \/ \E i \in Ids :
       \/ SelectUser(i)
       \/ ResetIcon(i)
       \/ ReactivateIcon(i)
       \/ AskDelete(i)
       \/ Reactivate(i)
       \/ OpenPasswordReset(i)

Serve(c) == ServeList(c) \/ ServeCreate(c) \/ ServeChange(c) \/ ServeOther(c) \/ Fail(c)

Deliver(c) ==
  \/ DeliverList(c)
  \/ DeliverSave(c)
  \/ DeliverChange(c)
  \/ DeliverPassword(c)
  \/ DeliverTeam(c)

Next ==
  \/ Click
  \/ \E c \in calls : Serve(c) \/ Deliver(c)

Spec == Init /\ [][Next]_vars

-----------------------------------------------------------------------------
(* Properties                                                               *)

\* A dialog for a user closes when an answer no longer lists the user
\* (users.component.ts:223-227), so its buttons, which need the listed user,
\* are missing only after a list that failed.
SelectedIsListed ==
  selected # Null /\ shown.ok => selected \in Items

\* Once everything is answered the page shows its filters as the table is after
\* the last of its own changes (refetch, users.component.ts:236-243).
OwnChangesShown ==
  calls = {} /\ calm =>
    shown.filter = filter /\ shown.at >= acked

\* The fields of another user, or of nobody, are written over a user only from
\* a dialog that an icon opened; one opened by a row or for a new user sends
\* what it was filled with, whichever lists and saves were answered meanwhile.
ForeignFormNeedsIcon ==
  \A c \in InFlight("create") \cup InFlight("update") :
    c.opened = "row" => c.form.of = c.row

\* However the list shrinks under the page number, a list with users shows some
\* of them, and a page button that leads to them (users.component.ts:123-129,
\* 206-215).
PageShowsUsers ==
  LET n == Cardinality(Items)
      p == Least(page, TotalPages(n))
  IN  n > 0 => PageOf(n, page) # {} /\ p \in Window(n, page)

=============================================================================
