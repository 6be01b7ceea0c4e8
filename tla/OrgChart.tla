------------------------------ MODULE OrgChart ------------------------------
(***************************************************************************)
(* The users API (backend/app/services/user_service.py) beside the         *)
(* positions API: who holds which position, who reports to whom, who is    *)
(* active.  PositionTree runs inside this module; what it sees of the      *)
(* users table is the set of positions that active users hold.             *)
(*                                                                         *)
(* A request's session keeps the rows it has loaded (the identity map), so *)
(* a later SELECT of the same row returns the values of the first one: the *)
(* row of the actor, loaded at authentication, the row to change and the   *)
(* positions joined to them.  view holds those positions.                  *)
(*                                                                         *)
(* Of a role only what lets its holders send these requests is kept: it is *)
(* a superuser role, or its permissions list users.manage.  Left out:      *)
(* e-mails, names, passwords and teams; an e-mail clash shows as UserAbort.*)
(***************************************************************************)
EXTENDS Nothing, FiniteSets, Naturals

CONSTANTS
  Positions, Slots, Keep, MaxRequests,   \* see PositionTree
  Users,            \* account ids
  Roles,            \* role ids
  Superusers,       \* the roles with is_superuser, which no request changes
  UserSlots,        \* requests to the users API in flight at once
  MaxUserRequests,  \* how many of them a behaviour starts (a bound)
  MaxInFlight,      \* requests to either API that clients overlap (a bound)
  WalkGuard         \* the limit of the ancestor walk, 50 in the code

ASSUME UserAssumption ==
  /\ Superusers \subseteq Roles
  /\ Null \notin Users \cup Positions \cup Roles
  /\ Keep \notin Users \cup Positions \cup Roles \cup {Null}
  /\ MaxRequests \in Nat /\ MaxUserRequests \in Nat /\ MaxInFlight \in Nat
  /\ WalkGuard \in Nat \ {0}

VARIABLES
  exists, parent, active, req, started,   \* see PositionTree
  accounts,    \* the users that have a row
  enabled,     \* the rows with is_active
  position,    \* position_id
  manager,     \* manager_account_id
  role,        \* role_id
  granted,     \* the other roles whose permissions list users.manage
  ureq,        \* what each user slot is doing
  ustarted     \* how many user requests have been started

treeVars == <<exists, parent, active, req, started>>
userRows == <<accounts, enabled, position, manager, role, granted>>
userVars == <<userRows, ureq, ustarted>>
orgVars == <<treeVars, userVars>>

Held == {position[u] : u \in enabled} \ {Null}

Tree == INSTANCE PositionTree WITH held <- Held

\* Who may send a request to the users API.
Administrators == {u \in enabled : role[u] \in Superusers \cup granted}

-----------------------------------------------------------------------------
(* A position row as a session may hold it. *)
PositionRow == [parent : Positions \cup {Null}, active : BOOLEAN]

UserRequests ==
  [pc        : {"idle", "load", "position", "manager", "climb", "reports", "write"},
   op        : {"none", "create", "update", "delete", "activate"},
   actor     : Users \cup {Null},
   actorPos  : Positions \cup {Null},
   target    : Users \cup {Null},
   newPos    : Positions \cup {Null, Keep},
   newMgr    : Users \cup {Null, Keep},
   newRole   : Roles \cup {Keep},
   setActive : {"keep", "on", "off"},
   oldPos    : Positions \cup {Null},
   oldMgr    : Users \cup {Null},
   oldRole   : Roles \cup {Null},
   oldActive : BOOLEAN,
   view      : [Positions -> PositionRow \cup {Null}],
   mgrPos    : Positions \cup {Null},
   cursor    : Positions \cup {Null},
   above     : SUBSET Positions,
   guard     : 0..WalkGuard]

NothingLoaded == [p \in Positions |-> Null]

UserIdle ==
  [pc |-> "idle", op |-> "none", actor |-> Null, actorPos |-> Null,
   target |-> Null, newPos |-> Keep, newMgr |-> Keep, newRole |-> Keep,
   setActive |-> "keep", oldPos |-> Null, oldMgr |-> Null, oldRole |-> Null,
   oldActive |-> FALSE,
   view |-> NothingLoaded, mgrPos |-> Null, cursor |-> Null, above |-> {},
   guard |-> 0]

OrgTypeOK ==
  /\ Tree!TypeOK
  /\ accounts \in SUBSET Users
  /\ enabled \in SUBSET accounts
  /\ position \in [Users -> exists \cup {Null}]
  /\ manager \in [Users -> accounts \cup {Null}]
  /\ role \in [Users -> Roles \cup {Null}]
  /\ granted \in SUBSET (Roles \ Superusers)
  /\ ureq \in [UserSlots -> UserRequests]
  /\ ustarted \in 0..MaxUserRequests

-----------------------------------------------------------------------------
(* The org chart as the rows describe it. *)

\* The positions above p: whatever is closed under parent and holds p's parent
\* holds them.
Above(p) ==
  {q \in exists : \A T \in SUBSET exists :
     parent[p] \in T /\ (\A x \in T : parent[x] \in T \cup {Null}) => q \in T}

Reports(u) == {w \in accounts : manager[w] = u}

\* The rule of the module's docstring.
ReportsUpwards(u) ==
  \/ position[u] = Null
  \/ parent[position[u]] = Null /\ manager[u] = Null
  \/ /\ parent[position[u]] # Null
     /\ manager[u] # Null
     /\ position[manager[u]] \in Above(position[u])

\* The seed migrations build an org chart that follows the rules, with an
\* administrator.
OrgInit ==
  /\ Tree!InitRows
  /\ req = [s \in Slots |-> Tree!Idle]
  /\ started = 0
  /\ accounts \in SUBSET Users
  /\ enabled = accounts
  /\ position \in {f \in [Users -> exists \cup {Null}] :
                     \A u \in Users \ accounts : f[u] = Null}
  /\ manager \in {f \in [Users -> accounts \cup {Null}] :
                    \A u \in Users : f[u] # Null => u \in accounts /\ f[u] # u}
  /\ \A u \in accounts : ReportsUpwards(u)
  /\ role \in {f \in [Users -> Roles \cup {Null}] :
                 \A u \in Users : f[u] = Null <=> u \notin accounts}
  /\ granted \in SUBSET (Roles \ Superusers)
  /\ Administrators # {}
  /\ ureq = [s \in UserSlots |-> UserIdle]
  /\ ustarted = 0

-----------------------------------------------------------------------------
Pending ==
  Cardinality({s \in Slots : req[s].pc # "idle"})
    + Cardinality({s \in UserSlots : ureq[s].pc # "idle"})

\* What a session sees of a position, and what it remembers of it.
Seen(r, p) ==
  IF r.view[p] # Null THEN r.view[p]
  ELSE [parent |-> parent[p], active |-> p \in active]

Remember(r, p) ==
  IF p = Null THEN r.view ELSE [r.view EXCEPT ![p] = Seen(r, p)]

\* The row to change, with the position joined to it.
LoadTarget(r) ==
  [r EXCEPT !.oldPos = position[r.target],
            !.oldMgr = manager[r.target],
            !.oldRole = role[r.target],
            !.oldActive = r.target \in enabled,
            !.view = Remember(r, position[r.target])]

\* get_current_user loads the actor, who must be active and whose role must grant
\* users.manage; if the request is about the actor, the row to change is loaded
\* with it.
StartUser(s, a, r) ==
  /\ ustarted' = ustarted + 1
  /\ LET auth == [r EXCEPT !.pc = "load",
                           !.actor = a,
                           !.actorPos = position[a],
                           !.view = Remember(r, position[a])]
     IN ureq' = [ureq EXCEPT ![s] =
                   IF r.target = a THEN LoadTarget(auth) ELSE auth]
  /\ UNCHANGED <<treeVars, userRows>>

StartCreateUser(s, a, u, p, m, g, on) ==
  StartUser(s, a, [UserIdle EXCEPT !.op = "create", !.target = u, !.newPos = p,
                                   !.newMgr = m, !.newRole = g, !.setActive = on])

StartUpdateUser(s, a, u, p, m, g, on) ==
  StartUser(s, a, [UserIdle EXCEPT !.op = "update", !.target = u, !.newPos = p,
                                   !.newMgr = m, !.newRole = g, !.setActive = on])

StartDeleteUser(s, a, u) ==
  StartUser(s, a, [UserIdle EXCEPT !.op = "delete", !.target = u,
                                   !.setActive = "off"])

StartActivateUser(s, a, u) ==
  StartUser(s, a, [UserIdle EXCEPT !.op = "activate", !.target = u,
                                   !.setActive = "on"])

-----------------------------------------------------------------------------
UserGoto(s, r) ==
  /\ ureq' = [ureq EXCEPT ![s] = r]
  /\ UNCHANGED <<treeVars, userRows, ustarted>>

UserReject(s) == UserGoto(s, UserIdle)

\* The position, the manager and the role the row would have.
NewPos(r) == IF r.newPos = Keep THEN r.oldPos ELSE r.newPos
NewMgr(r) == IF r.newMgr = Keep THEN r.oldMgr ELSE r.newMgr
NewRole(r) == IF r.newRole = Keep THEN r.oldRole ELSE r.newRole

\* Where a request goes once it has its row: _validate_hierarchy runs only if
\* the body names the position or the manager, and asks nothing of a user
\* without position.
AfterLoad(r) ==
  IF r.op = "delete" THEN "reports"
  ELSE IF r.op = "activate" \/ NewPos(r) = Null
          \/ (r.newPos = Keep /\ r.newMgr = Keep) THEN "write"
  ELSE "position"

\* Mutant: nothing stops an actor from switching themselves off.
LoadUser_selfAllowed(s) ==
  LET r == ureq[s] IN
  /\ r.pc = "load"
  /\ r.op # "create"
  /\ IF r.target \notin accounts
       THEN UserReject(s)
       ELSE LET l == IF r.target = r.actor THEN r ELSE LoadTarget(r) IN
            UserGoto(s, [l EXCEPT !.pc = AfterLoad(l)])

\* A new account id must be free.
LoadForCreate(s) ==
  LET r == ureq[s] IN
  /\ r.pc = "load"
  /\ r.op = "create"
  /\ IF r.target \in accounts
       THEN UserReject(s)
       ELSE UserGoto(s, [r EXCEPT !.pc = AfterLoad(r)])

\* get_user, then the guard that nobody deactivates or deletes themselves.
LoadUser(s) ==
  LET r == ureq[s] IN
  /\ r.pc = "load"
  /\ r.op # "create"
  /\ IF r.target \notin accounts \/ (r.setActive = "off" /\ r.actor = r.target)
       THEN UserReject(s)
       ELSE LET l == IF r.target = r.actor THEN r ELSE LoadTarget(r) IN
            UserGoto(s, [l EXCEPT !.pc = AfterLoad(l)])

\* _get_position of the new position: a root wants no manager, any other one.
CheckPosition(s) ==
  LET r == ureq[s]
      row == Seen(r, NewPos(r))
  IN
  /\ r.pc = "position"
  /\ IF \/ NewPos(r) \notin exists
        \/ ~row.active
        \/ (row.parent = Null) # (NewMgr(r) = Null)
       THEN UserReject(s)
       ELSE UserGoto(s, [r EXCEPT
              !.view = Remember(r, NewPos(r)),
              !.cursor = row.parent,
              !.pc = IF row.parent = Null THEN "write" ELSE "manager"])

\* The manager's row: the one the session has loaded, or a fresh one.
ManagerRow(r) ==
  LET m == NewMgr(r) IN
  IF m = r.target /\ r.op # "create" THEN [pos |-> r.oldPos, on |-> r.oldActive]
  ELSE IF m = r.actor THEN [pos |-> r.actorPos, on |-> TRUE]
  ELSE [pos |-> position[m], on |-> m \in enabled]

CheckManager(s) ==
  LET r == ureq[s] IN
  /\ r.pc = "manager"
  /\ IF NewMgr(r) \notin accounts \/ ~ManagerRow(r).on
       THEN UserReject(s)
       ELSE UserGoto(s, [r EXCEPT !.mgrPos = ManagerRow(r).pos,
                                  !.view = Remember(r, ManagerRow(r).pos),
                                  !.guard = WalkGuard,
                                  !.pc = "climb"])

\* Mutant: the walk is not followed by the membership test.
ClimbAncestors_noTest(s) ==
  LET r == ureq[s]
      row == Seen(r, r.cursor)
      last == row.parent = Null \/ r.guard = 1
  IN
  /\ r.pc = "climb"
  /\ IF ~row.active
       THEN UserReject(s)
       ELSE UserGoto(s, [r EXCEPT !.above = @ \cup {r.cursor},
                                  !.cursor = row.parent,
                                  !.guard = @ - 1,
                                  !.pc = IF last THEN "write" ELSE "climb"])

\* One turn of _ancestor_position_ids; the last one is followed by the test
\* that the manager's position was met.
ClimbAncestors(s) ==
  LET r == ureq[s]
      row == Seen(r, r.cursor)
      met == r.above \cup {r.cursor}
      last == row.parent = Null \/ r.guard = 1
  IN
  /\ r.pc = "climb"
  /\ IF ~row.active \/ (last /\ r.mgrPos \notin met)
       THEN UserReject(s)
       ELSE UserGoto(s, [r EXCEPT !.above = met,
                                  !.cursor = row.parent,
                                  !.guard = @ - 1,
                                  !.pc = IF last THEN "write" ELSE "climb"])

\* Mutant: the query filters on the wrong flag.
CheckReports_inactive(s) ==
  LET r == ureq[s] IN
  /\ r.pc = "reports"
  /\ IF Reports(r.target) \ enabled # {}
       THEN UserReject(s)
       ELSE UserGoto(s, [r EXCEPT !.pc = "write"])

\* The SELECT of the active users that report to the one to delete.
CheckReports(s) ==
  LET r == ureq[s] IN
  /\ r.pc = "reports"
  /\ IF Reports(r.target) \cap enabled # {}
       THEN UserReject(s)
       ELSE UserGoto(s, [r EXCEPT !.pc = "write"])

-----------------------------------------------------------------------------
\* The foreign keys hold at the flush.
ForeignKeys(r) ==
  /\ r.newPos \in exists \cup {Null, Keep}
  /\ \/ r.newMgr \in accounts \cup {Null, Keep}
     \/ r.op = "create" /\ r.newMgr = r.target

SetEnabled(r) ==
  IF r.setActive = "on" /\ ~r.oldActive THEN enabled \cup {r.target}
  ELSE IF r.setActive = "off" /\ r.oldActive THEN enabled \ {r.target}
  ELSE enabled

\* flush and commit of an update, a soft delete or an activation: the columns
\* whose value differs from the loaded one.
CommitUser(s) ==
  LET r == ureq[s] IN
  /\ r.pc = "write"
  /\ r.op # "create"
  /\ ForeignKeys(r)
  /\ position' = IF NewPos(r) # r.oldPos
                   THEN [position EXCEPT ![r.target] = NewPos(r)] ELSE position
  /\ manager' = IF NewMgr(r) # r.oldMgr
                  THEN [manager EXCEPT ![r.target] = NewMgr(r)] ELSE manager
  /\ role' = IF NewRole(r) # r.oldRole
               THEN [role EXCEPT ![r.target] = NewRole(r)] ELSE role
  /\ enabled' = SetEnabled(r)
  /\ ureq' = [ureq EXCEPT ![s] = UserIdle]
  /\ UNCHANGED <<treeVars, accounts, granted, ustarted>>

\* flush and commit of a create; the account id is unique in the table.
CommitNewUser(s) ==
  LET r == ureq[s] IN
  /\ r.pc = "write"
  /\ r.op = "create"
  /\ r.target \notin accounts
  /\ ForeignKeys(r)
  /\ accounts' = accounts \cup {r.target}
  /\ position' = [position EXCEPT ![r.target] = r.newPos]
  /\ manager' = [manager EXCEPT ![r.target] = r.newMgr]
  /\ role' = [role EXCEPT ![r.target] = r.newRole]
  /\ enabled' = SetEnabled(r)
  /\ ureq' = [ureq EXCEPT ![s] = UserIdle]
  /\ UNCHANGED <<treeVars, granted, ustarted>>

\* An integrity error at the flush, an e-mail clash, a lost connection or a
\* crash: the session is rolled back.
UserAbort(s) ==
  /\ ureq[s].pc # "idle"
  /\ UserReject(s)

-----------------------------------------------------------------------------
\* PATCH of a role that is no superuser role changes what its holders may do;
\* RolesPage has that request in detail, here it is one step.
ChangeGrants ==
  /\ Pending < MaxInFlight
  /\ ustarted < MaxUserRequests
  /\ ustarted' = ustarted + 1
  /\ \E g \in Roles \ Superusers :
       granted' = IF g \in granted THEN granted \ {g} ELSE granted \cup {g}
  /\ UNCHANGED <<treeVars, accounts, enabled, position, manager, role, ureq>>

StartUserRequest(s) ==
  /\ ureq[s].pc = "idle"
  /\ Pending < MaxInFlight
  /\ ustarted < MaxUserRequests
  /\ \E a \in Administrators, u \in Users :
       \/ \E p \in Positions \cup {Null}, m \in Users \cup {Null}, g \in Roles,
             on \in {"on", "off"} : StartCreateUser(s, a, u, p, m, g, on)
       \/ \E p \in Positions \cup {Null, Keep}, m \in Users \cup {Null, Keep},
             g \in Roles \cup {Keep}, on \in {"keep", "on", "off"} :
               StartUpdateUser(s, a, u, p, m, g, on)
       \/ StartDeleteUser(s, a, u)
       \/ StartActivateUser(s, a, u)

UserProceed(s) ==
  \/ LoadForCreate(s)
  \/ LoadUser(s)
  \/ CheckPosition(s)
  \/ CheckManager(s)
  \/ ClimbAncestors(s)
  \/ CheckReports(s)
  \/ CommitUser(s)
  \/ CommitNewUser(s)

UserStep(s) == StartUserRequest(s) \/ UserProceed(s) \/ UserAbort(s)

\* A step of the positions API; starting one counts as a request in flight.
TreeStep(s) ==
  /\ UNCHANGED userVars
  /\ \/ Pending < MaxInFlight /\ Tree!StartSome(s)
     \/ Tree!Proceed(s)
     \/ Tree!Abort(s)

OrgNext ==
  \/ \E s \in Slots : TreeStep(s)
  \/ \E s \in UserSlots : UserStep(s)
  \/ ChangeGrants

OrgSpec == OrgInit /\ [][OrgNext]_orgVars

-----------------------------------------------------------------------------
(* Properties                                                               *)

\* The positions keep the two promises of PositionTree among the requests of the
\* users API, which read the tree and hold positions: no position is its own
\* ancestor (_check_no_cycle, positions.py:34-60), and every step is one that
\* OrgForest allows.
Acyclic == Tree!Acyclic
ImplementsForest == Tree!ImplementsForest

\* When requests do not overlap, a request that changes a user's position or
\* manager leaves that user reporting to an active manager higher up the tree
\* (_validate_hierarchy, user_service.py:48-104), unless the user has become
\* their own manager (OwnManager below says when).
ChangesFollowTheRule ==
  [][ \A u \in accounts' :
        \/ u \in accounts /\ position'[u] = position[u] /\ manager'[u] = manager[u]
        \/ manager'[u] = u
        \/ /\ ReportsUpwards(u)'
           /\ position'[u] # Null /\ manager'[u] # Null => manager'[u] \in enabled'
    ]_orgVars

\* DELETE of a user is refused while active users report to them
\* (user_service.py:238-254), and DELETE of a position while active users hold
\* it (positions.py:162-177).
DeletesSpareDependents ==
  [][ /\ \A s \in UserSlots :
           ureq[s].op = "delete" /\ ureq[s].pc = "write" /\ enabled' # enabled =>
             Reports(ureq[s].target) \cap enabled = {}
      /\ \A s \in Slots :
           req[s].op = "delete" /\ req[s].pc = "write" /\ active' # active =>
             req[s].target \notin Held ]_orgVars

\* When requests do not overlap, the last administrator is lost in two ways only:
\* by changing their own role, which update_user does not guard
\* (user_service.py:208-209), or by a PATCH of the role that made them one
\* (role_service.py:94-95).  No deletion, deactivation, move or creation ends it:
\* its sender is an administrator (deps.py:54-77), whom it cannot switch off
\* (user_service.py:186 and 235).
AdministratorsRemain ==
  [][ Administrators # {} /\ Administrators' = {} =>
        \/ granted' # granted
        \/ \E s \in UserSlots :
             /\ ureq[s].pc = "write" /\ ureq[s].op = "update"
             /\ ureq[s].target = ureq[s].actor /\ Administrators = {ureq[s].actor}
             /\ ureq[s].newRole \notin {Keep} \cup Superusers \cup granted
    ]_orgVars

=============================================================================
