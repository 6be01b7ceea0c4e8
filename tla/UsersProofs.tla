----------------------------- MODULE UsersProofs -----------------------------
(***************************************************************************)
(* What the users API and the positions API keep together: for any         *)
(* positions, users and number of requests, what the positions API sees of  *)
(* the other one is what PositionTree allows; and while no two requests     *)
(* overlap, dependents are spared, the last administrator goes only by a     *)
(* change of roles, and a change of a user keeps the rule of the hierarchy. *)
(*                                                                         *)
(* And what the users page promises before that server: why a dialog opened *)
(* by a row saves the fields of that row, why the user a dialog is for is    *)
(* listed, and why a page of the table is never empty, for any users, page  *)
(* size and number of requests, whatever order the answers take and         *)
(* whichever of them fail; and why the table shows the administrator's own  *)
(* changes once all is answered.                                            *)
(***************************************************************************)
EXTENDS OrgChart, UsersPage, Integers, FiniteSetTheorems, TLAPS

UserFields ==
  {"pc", "op", "actor", "actorPos", "target", "newPos", "newMgr", "newRole",
   "setActive", "oldPos", "oldMgr", "oldRole", "oldActive", "view", "mgrPos",
   "cursor", "above", "guard"}

TreeFields ==
  {"pc", "op", "target", "newParent", "setActive", "oldParent", "oldActive",
   "cursor", "seen", "dirty"}

\* A request past the load of the row that it is about.
Loaded(r) == r.pc \notin {"idle", "load"} /\ r.op # "create"

\* Users hold positions that exist, and a request is about a user id.
HoldersInv ==
  /\ DOMAIN ureq = UserSlots /\ \A s \in UserSlots : DOMAIN ureq[s] = UserFields
  /\ \A s \in UserSlots :
       /\ ureq[s].pc # "idle" => ureq[s].target \in Users
       /\ Loaded(ureq[s]) => ureq[s].target \in accounts
       /\ ureq[s].op = "create" => ureq[s].newPos # Keep
  /\ accounts \subseteq Users /\ enabled \subseteq accounts
  /\ position \in [Users -> exists \cup {Null}] /\ DOMAIN role = Users

-----------------------------------------------------------------------------
(* The steps of the positions API, seen from here.                          *)

LEMMA TreeKeepsRows ==
  ASSUME NEW s \in Slots, TreeStep(s)
  PROVE  UNCHANGED userVars /\ exists \subseteq exists'
<1>1. UNCHANGED userVars
  BY DEF TreeStep
<1>2. ASSUME Tree!StartSome(s)
      PROVE  exists \subseteq exists'
  BY <1>2 DEF Tree!StartSome, Tree!StartCreate, Tree!StartUpdate, Tree!StartDelete,
     Tree!StartActivate, Tree!Start, Tree!posVars
<1>3. ASSUME Tree!Proceed(s)
      PROVE  exists \subseteq exists'
  BY <1>3 DEF Tree!Proceed, Tree!Load, Tree!GetParent, Tree!CheckNoCycle, Tree!Climb,
     Tree!CountHolders, Tree!CommitChange, Tree!CommitCreate, Tree!Reject, Tree!Goto, Tree!posVars
<1>4. ASSUME Tree!Abort(s)
      PROVE  exists \subseteq exists'
  BY <1>4 DEF Tree!Abort, Tree!Reject, Tree!Goto, Tree!posVars
<1> QED BY <1>1, <1>2, <1>3, <1>4 DEF TreeStep

-----------------------------------------------------------------------------
(* The steps of the users API that write nothing.                           *)

LEMMA UserIdleFields ==
  DOMAIN UserIdle = UserFields /\ UserIdle.pc = "idle" /\ UserIdle.op = "none"
  BY DEF UserIdle, UserFields

\* r is what slot s turns into; the rows stay.
LEMMA GotoKeepsHolders ==
  ASSUME HoldersInv, NEW s \in UserSlots, NEW r, ureq' = [ureq EXCEPT ![s] = r],
         DOMAIN r = UserFields, r.pc # "idle" => r.target \in Users,
         Loaded(r) => r.target \in accounts, r.op = "create" => r.newPos # Keep,
         UNCHANGED <<exists, userRows>>
  PROVE  HoldersInv'
  BY DEF HoldersInv, userRows, Loaded

\* What a start sends: the request of a client, with the actor's row loaded.
Sent(a, r) ==
  LET auth == [r EXCEPT !.pc = "load", !.actor = a, !.actorPos = position[a],
                        !.view = Remember(r, position[a])]
  IN IF r.target = a THEN LoadTarget(auth) ELSE auth

LEMMA SentFields ==
  ASSUME NEW a, NEW r, DOMAIN r = UserFields
  PROVE  /\ DOMAIN Sent(a, r) = UserFields /\ Sent(a, r).pc = "load"
         /\ Sent(a, r).actor = a /\ Sent(a, r).op = r.op /\ Sent(a, r).target = r.target
         /\ Sent(a, r).setActive = r.setActive /\ Sent(a, r).newPos = r.newPos
         /\ Sent(a, r).newRole = r.newRole
  BY DEF Sent, LoadTarget, UserFields

\* A new user names a role, and a position and a manager or none; a deletion and an
\* activation ask for no others; and no position has been seen yet.
AsSent(r) ==
  /\ r.op = "create" => r.newPos # Keep /\ r.newMgr # Keep
  /\ r.op \in {"delete", "activate"} =>
       r.newPos = Keep /\ r.newMgr = Keep /\ r.newRole = Keep
  /\ r.view = NothingLoaded /\ r.above = {}

LEMMA StartSends ==
  ASSUME NEW s, StartUserRequest(s)
  PROVE  \E a \in Administrators, u \in Users : \E r :
           /\ DOMAIN r = UserFields /\ r.target = u
           /\ r.op \in {"create", "update", "delete", "activate"}
           /\ AsSent(r)
           /\ ureq[s].pc = "idle" /\ Pending < MaxInFlight
           /\ ureq' = [ureq EXCEPT ![s] = Sent(a, r)]
           /\ UNCHANGED <<treeVars, userRows>>
<1>0. ureq[s].pc = "idle" /\ Pending < MaxInFlight
  BY DEF StartUserRequest
<1>1. PICK a \in Administrators, u \in Users :
        \/ \E p \in Positions \cup {Null}, m \in Users \cup {Null}, g \in Roles,
              on \in {"on", "off"} : StartCreateUser(s, a, u, p, m, g, on)
        \/ \E p \in Positions \cup {Null, Keep}, m \in Users \cup {Null, Keep},
              g \in Roles \cup {Keep}, on \in {"keep", "on", "off"} :
                StartUpdateUser(s, a, u, p, m, g, on)
        \/ StartDeleteUser(s, a, u)
        \/ StartActivateUser(s, a, u)
  BY DEF StartUserRequest
<1>2. ASSUME NEW r, StartUser(s, a, r)
      PROVE  ureq' = [ureq EXCEPT ![s] = Sent(a, r)] /\ UNCHANGED <<treeVars, userRows>>
  BY <1>2 DEF StartUser, Sent
<1> DEFINE Fits(r) == /\ DOMAIN r = UserFields /\ r.target = u
                      /\ r.op \in {"create", "update", "delete", "activate"}
                      /\ AsSent(r)
<1>3. \E r : StartUser(s, a, r) /\ Fits(r)
  <2>1. CASE \E p \in Positions \cup {Null}, m \in Users \cup {Null}, g \in Roles,
                on \in {"on", "off"} : StartCreateUser(s, a, u, p, m, g, on)
    <3>1. PICK p \in Positions \cup {Null}, m \in Users \cup {Null}, g \in Roles,
               on \in {"on", "off"} : StartCreateUser(s, a, u, p, m, g, on)
      BY <2>1
    <3> DEFINE q == [UserIdle EXCEPT !.op = "create", !.target = u, !.newPos = p,
                                     !.newMgr = m, !.newRole = g, !.setActive = on]
    <3>2. StartUser(s, a, q)
      BY <3>1 DEF StartCreateUser
    <3>3. Fits(q)
      BY UserAssumption DEF UserIdle, UserFields, AsSent
    <3> HIDE DEF q
    <3> QED BY <3>2, <3>3
  <2>2. CASE \E p \in Positions \cup {Null, Keep}, m \in Users \cup {Null, Keep},
                g \in Roles \cup {Keep}, on \in {"keep", "on", "off"} :
                  StartUpdateUser(s, a, u, p, m, g, on)
    <3>1. PICK p, m, g, on : StartUpdateUser(s, a, u, p, m, g, on)
      BY <2>2
    <3> DEFINE q == [UserIdle EXCEPT !.op = "update", !.target = u, !.newPos = p,
                                     !.newMgr = m, !.newRole = g, !.setActive = on]
    <3>2. StartUser(s, a, q)
      BY <3>1 DEF StartUpdateUser
    <3>3. Fits(q)
      BY DEF UserIdle, UserFields, AsSent
    <3> HIDE DEF q
    <3> QED BY <3>2, <3>3
  <2>3. CASE StartDeleteUser(s, a, u)
    <3> DEFINE q == [UserIdle EXCEPT !.op = "delete", !.target = u, !.setActive = "off"]
    <3>1. StartUser(s, a, q)
      BY <2>3 DEF StartDeleteUser
    <3>2. Fits(q)
      BY DEF UserIdle, UserFields, AsSent
    <3> HIDE DEF q
    <3> QED BY <3>1, <3>2
  <2>4. CASE StartActivateUser(s, a, u)
    <3> DEFINE q == [UserIdle EXCEPT !.op = "activate", !.target = u, !.setActive = "on"]
    <3>1. StartUser(s, a, q)
      BY <2>4 DEF StartActivateUser
    <3>2. Fits(q)
      BY DEF UserIdle, UserFields, AsSent
    <3> HIDE DEF q
    <3> QED BY <3>1, <3>2
  <2> QED BY <1>1, <2>1, <2>2, <2>3, <2>4
<1> QED BY <1>0, <1>2, <1>3

\* A check rejects the request, or passes it on with its payload as it is.
Passes(r, d) ==
  /\ DOMAIN d = UserFields /\ d.op = r.op /\ d.actor = r.actor /\ d.target = r.target
  /\ d.setActive = r.setActive /\ d.newPos = r.newPos /\ d.newMgr = r.newMgr
  /\ d.newRole = r.newRole

\* What the guards on the way let through: the row is there, nobody switches
\* themselves off, and a deletion asks for the reports before it writes.
Guarded(r, d) ==
  /\ r.pc # "write" /\ d.pc \notin {"idle", "load"}
  /\ r.pc = "load" /\ r.op # "create" =>
       r.target \in accounts /\ (r.setActive = "off" => r.actor # r.target)
  /\ r.pc = "load" /\ r.op = "delete" => d.pc = "reports"
  /\ r.pc = "reports" => d.pc = "write" /\ Reports(r.target) \cap enabled = {}

Checks(s) ==
  LoadForCreate(s) \/ LoadUser(s) \/ CheckPosition(s) \/ CheckManager(s)
    \/ ClimbAncestors(s) \/ CheckReports(s)

LEMMA ChecksPass ==
  ASSUME NEW s, DOMAIN ureq[s] = UserFields, Checks(s)
  PROVE  /\ UNCHANGED <<treeVars, userRows>> /\ ureq[s].pc # "idle"
         /\ \E d : /\ ureq' = [ureq EXCEPT ![s] = d]
                   /\ d = UserIdle \/ (Passes(ureq[s], d) /\ Guarded(ureq[s], d))
<1> DEFINE r == ureq[s]
           Ends(d) == UserGoto(s, d) /\ (d = UserIdle \/ (Passes(r, d) /\ Guarded(r, d)))
<1>1. SUFFICES (\E d : Ends(d)) /\ r.pc # "idle"
  BY DEF UserGoto
<1>2. r.pc # "idle"
  BY DEF Checks, LoadForCreate, LoadUser, CheckPosition, CheckManager, ClimbAncestors,
     CheckReports
<1>3. ASSUME UserReject(s)
      PROVE  \E d : Ends(d)
  BY <1>3 DEF UserReject
<1>4. CASE LoadForCreate(s)
  <2> DEFINE d == [r EXCEPT !.pc = AfterLoad(r)]
  <2>1. Passes(r, d)
    BY DEF Passes, UserFields
  <2>2. UserReject(s) \/ (UserGoto(s, d) /\ Guarded(r, d))
    BY <1>4 DEF LoadForCreate, Guarded, AfterLoad, UserFields
  <2> HIDE DEF d
  <2> QED BY <1>2, <1>3, <2>1, <2>2
<1>5. CASE LoadUser(s)
  <2> DEFINE l == IF r.target = r.actor THEN r ELSE LoadTarget(r)
             d == [l EXCEPT !.pc = AfterLoad(l)]
  <2>1. Passes(r, l)
    BY DEF Passes, LoadTarget, UserFields
  <2>2. UserReject(s) \/ (UserGoto(s, d) /\ Guarded(r, d))
    BY <1>5 DEF LoadUser, LoadTarget, Guarded, AfterLoad, UserFields
  <2> HIDE DEF l
  <2>3. Passes(r, d)
    BY <2>1 DEF Passes, UserFields
  <2> HIDE DEF d
  <2> QED BY <1>2, <1>3, <2>2, <2>3
<1>6. CASE CheckPosition(s)
  <2> DEFINE row == Seen(r, NewPos(r))
             d == [r EXCEPT !.view = Remember(r, NewPos(r)), !.cursor = row.parent,
                            !.pc = IF row.parent = Null THEN "write" ELSE "manager"]
  <2>1. Passes(r, d)
    BY DEF Passes, UserFields
  <2>2. UserReject(s) \/ (UserGoto(s, d) /\ Guarded(r, d))
    BY <1>6 DEF CheckPosition, Guarded, UserFields
  <2> HIDE DEF d
  <2> QED BY <1>2, <1>3, <2>1, <2>2
<1>7. CASE CheckManager(s)
  <2> DEFINE d == [r EXCEPT !.mgrPos = ManagerRow(r).pos,
                            !.view = Remember(r, ManagerRow(r).pos),
                            !.guard = WalkGuard, !.pc = "climb"]
  <2>1. Passes(r, d)
    BY DEF Passes, UserFields
  <2>2. UserReject(s) \/ (UserGoto(s, d) /\ Guarded(r, d))
    BY <1>7 DEF CheckManager, Guarded, UserFields
  <2> HIDE DEF d
  <2> QED BY <1>2, <1>3, <2>1, <2>2
<1>8. CASE ClimbAncestors(s)
  <2> DEFINE row == Seen(r, r.cursor)
             d == [r EXCEPT !.above = r.above \cup {r.cursor}, !.cursor = row.parent,
                            !.guard = @ - 1,
                            !.pc = IF row.parent = Null \/ r.guard = 1 THEN "write" ELSE "climb"]
  <2>1. Passes(r, d)
    BY DEF Passes, UserFields
  <2>2. UserReject(s) \/ (UserGoto(s, d) /\ Guarded(r, d))
    BY <1>8 DEF ClimbAncestors, Guarded, UserFields
  <2> HIDE DEF d
  <2> QED BY <1>2, <1>3, <2>1, <2>2
<1>9. CASE CheckReports(s)
  <2> DEFINE d == [r EXCEPT !.pc = "write"]
  <2>1. Passes(r, d)
    BY DEF Passes, UserFields
  <2>2. UserReject(s) \/ (UserGoto(s, d) /\ Guarded(r, d))
    BY <1>9 DEF CheckReports, Guarded, UserFields
  <2> HIDE DEF d
  <2> QED BY <1>2, <1>3, <2>1, <2>2
<1> QED BY <1>2, <1>4, <1>5, <1>6, <1>7, <1>8, <1>9 DEF Checks

-----------------------------------------------------------------------------
(* The rows the two APIs share.                                             *)

LEMMA CommitKeepsHolders ==
  ASSUME HoldersInv, NEW s \in UserSlots, CommitUser(s) \/ CommitNewUser(s)
  PROVE  HoldersInv' /\ UNCHANGED treeVars
<1> DEFINE r == ureq[s]
<1>1. /\ r.pc = "write" /\ r.target \in Users /\ UNCHANGED treeVars /\ UNCHANGED exists
      /\ ForeignKeys(r) /\ ureq' = [ureq EXCEPT ![s] = UserIdle] /\ enabled' = SetEnabled(r)
  BY DEF HoldersInv, CommitUser, CommitNewUser, treeVars
<1>2. accounts \subseteq accounts' /\ accounts' \subseteq Users /\ r.target \in accounts'
  <2>1. CASE CommitUser(s)
    BY <1>1, <2>1 DEF CommitUser, HoldersInv, Loaded
  <2>2. CASE CommitNewUser(s)
    BY <1>1, <2>2 DEF CommitNewUser, HoldersInv
  <2> QED BY <2>1, <2>2
<1>3. enabled' \subseteq accounts'
  BY <1>1, <1>2 DEF SetEnabled, HoldersInv
<1>4. position' \in [Users -> exists' \cup {Null}]
  <2>1. CASE CommitUser(s)
    <3>1. NewPos(r) # r.oldPos => NewPos(r) \in exists \cup {Null}
      BY <1>1 DEF NewPos, ForeignKeys
    <3> QED BY <1>1, <2>1, <3>1 DEF CommitUser, HoldersInv
  <2>2. CASE CommitNewUser(s)
    <3>1. position' = [position EXCEPT ![r.target] = r.newPos] /\ r.newPos # Keep
      BY <2>2 DEF CommitNewUser, HoldersInv
    <3> QED BY <1>1, <3>1 DEF ForeignKeys, HoldersInv
  <2> QED BY <2>1, <2>2
<1>5. (\A t \in UserSlots : t # s => ureq'[t] = ureq[t]) /\ DOMAIN role' = Users
  BY <1>1 DEF HoldersInv, CommitUser, CommitNewUser
<1>6. DOMAIN ureq' = UserSlots /\ ureq'[s] = UserIdle
  BY <1>1 DEF HoldersInv
<1>7. \A t \in UserSlots : /\ DOMAIN ureq'[t] = UserFields
                           /\ ureq'[t].pc # "idle" => ureq'[t].target \in Users
                           /\ Loaded(ureq'[t]) => ureq'[t].target \in accounts'
                           /\ ureq'[t].op = "create" => ureq'[t].newPos # Keep
  BY <1>2, <1>5, <1>6, UserIdleFields DEF HoldersInv, Loaded
<1> QED BY <1>1, <1>2, <1>3, <1>4, <1>5, <1>6, <1>7 DEF HoldersInv

LEMMA UserKeepsHolders ==
  ASSUME HoldersInv, NEW s \in UserSlots, UserStep(s)
  PROVE  HoldersInv' /\ UNCHANGED treeVars
<1>1. CASE StartUserRequest(s)
  <2>1. PICK a, u, r :
           /\ u \in Users /\ DOMAIN r = UserFields /\ r.target = u
           /\ r.op = "create" => r.newPos # Keep
           /\ ureq' = [ureq EXCEPT ![s] = Sent(a, r)] /\ UNCHANGED <<treeVars, userRows>>
    BY <1>1, StartSends DEF AsSent
  <2>2. UNCHANGED exists
    BY <2>1 DEF treeVars
  <2>3. /\ ~Loaded(Sent(a, r)) /\ Sent(a, r).target = u /\ DOMAIN Sent(a, r) = UserFields
        /\ Sent(a, r).op = "create" => Sent(a, r).newPos # Keep
    BY <2>1, SentFields DEF Loaded
  <2> QED BY <2>1, <2>2, <2>3, GotoKeepsHolders
<1>2. CASE Checks(s)
  <2>1. DOMAIN ureq[s] = UserFields
    BY DEF HoldersInv
  <2>2. ureq[s].pc # "idle" /\ UNCHANGED <<treeVars, userRows>> /\ UNCHANGED exists
    BY <1>2, <2>1, ChecksPass DEF treeVars
  <2>3. PICK d : /\ ureq' = [ureq EXCEPT ![s] = d]
                 /\ d = UserIdle \/ (Passes(ureq[s], d) /\ Guarded(ureq[s], d))
    BY <1>2, <2>1, ChecksPass
  <2>4. CASE d = UserIdle
    BY <2>2, <2>3, <2>4, UserIdleFields, GotoKeepsHolders DEF Loaded
  <2>5. CASE Passes(ureq[s], d) /\ Guarded(ureq[s], d)
    <3>1. DOMAIN d = UserFields /\ d.target \in Users /\ (d.op = "create" => d.newPos # Keep)
      BY <2>2, <2>5 DEF Passes, HoldersInv
    <3>2. Loaded(d) => d.target \in accounts
      BY <2>2, <2>5 DEF Passes, Guarded, Loaded, HoldersInv
    <3> QED BY <2>2, <2>3, <3>1, <3>2, GotoKeepsHolders
  <2> QED BY <2>3, <2>4, <2>5
<1>3. CASE UserAbort(s)
  <2>1. ureq' = [ureq EXCEPT ![s] = UserIdle] /\ UNCHANGED <<treeVars, userRows>> /\ UNCHANGED exists
    BY <1>3 DEF UserAbort, UserReject, UserGoto, treeVars
  <2> QED BY <2>1, UserIdleFields, GotoKeepsHolders DEF Loaded
<1> QED BY <1>1, <1>2, <1>3, CommitKeepsHolders DEF UserStep, UserProceed, Checks

LEMMA HoldersInit == OrgInit => HoldersInv
  BY UserIdleFields DEF OrgInit, HoldersInv, Loaded

LEMMA HoldersStep ==
  ASSUME HoldersInv, [OrgNext]_orgVars
  PROVE  HoldersInv'
<1>1. ASSUME NEW s \in Slots, TreeStep(s)
      PROVE  HoldersInv'
  BY <1>1, TreeKeepsRows DEF HoldersInv, userVars, userRows, Loaded
<1>2. CASE UNCHANGED orgVars
  BY <1>2 DEF orgVars, treeVars, userVars, userRows, HoldersInv, Loaded
<1>3. CASE ChangeGrants
  BY <1>3 DEF ChangeGrants, treeVars, HoldersInv, Loaded
<1> QED BY <1>1, <1>2, <1>3, UserKeepsHolders DEF OrgNext

-----------------------------------------------------------------------------
(* What the positions API sees.                                             *)

LEMMA HeldExist ==
  ASSUME HoldersInv
  PROVE  Held \subseteq exists
  BY DEF HoldersInv, Held

\* However the requests of the two APIs overlap, the positions API runs as
\* PositionTree says: the users API only changes which of the existing positions
\* are held (user_service.py; positions.py:34-177).
THEOREM OrgImplementsTree == OrgSpec => Tree!Spec
<1>1. OrgInit => Tree!Init
  <2>1. OrgInit => Held \subseteq exists
    BY HoldersInit, HeldExist
  <2> QED BY <2>1 DEF OrgInit, Tree!Init
<1>2. HoldersInv /\ [OrgNext]_orgVars => HoldersInv'
  BY HoldersStep
<1>3. HoldersInv /\ HoldersInv' /\ [OrgNext]_orgVars => [Tree!Next]_(Tree!vars)
  <2> SUFFICES ASSUME HoldersInv, HoldersInv', [OrgNext]_orgVars
               PROVE  [Tree!Next]_(Tree!vars)
    OBVIOUS
  <2>1. ASSUME NEW s \in Slots, TreeStep(s)
        PROVE  Tree!Next
    BY <2>1 DEF TreeStep, Tree!Next, Tree!RequestStep
  <2>2. ASSUME NEW s \in UserSlots, UserStep(s)
        PROVE  [Tree!Next]_(Tree!vars)
    <3>1. UNCHANGED treeVars
      BY <2>2, UserKeepsHolders
    <3>2. Held' \subseteq exists
      BY <3>1, HeldExist DEF HoldersInv, Held, treeVars
    <3> QED BY <3>1, <3>2 DEF treeVars, Tree!Next, Tree!HoldersChange, Tree!posVars, Tree!vars
  <2>3. CASE UNCHANGED orgVars
    BY <2>3 DEF orgVars, treeVars, userVars, userRows, Tree!vars, Held
  <2>4. CASE ChangeGrants
    BY <2>4 DEF ChangeGrants, treeVars, Tree!vars, Held
  <2> QED BY <2>1, <2>2, <2>3, <2>4 DEF OrgNext
<1> QED BY HoldersInit, <1>1, <1>2, <1>3, PTL DEF OrgSpec, Tree!Spec

\* What is proved about the positions API therefore holds beside the users API.
TreeProofs == INSTANCE PositionTreeProofs WITH held <- Held

LEMMA SameTree == Tree!Spec => TreeProofs!Spec
<1>1. Tree!Init => TreeProofs!Init
  BY DEF Tree!Init, TreeProofs!Init, Tree!InitRows, TreeProofs!InitRows, Tree!Idle,
     TreeProofs!Idle, Tree!Acyclic, TreeProofs!Acyclic
<1>2. ASSUME NEW s \in Slots, Tree!RequestStep(s)
      PROVE  TreeProofs!RequestStep(s)
  BY <1>2
     DEF Tree!RequestStep, Tree!StartSome, Tree!StartCreate, Tree!StartUpdate,
         Tree!StartDelete, Tree!StartActivate, Tree!Start, Tree!posVars, Tree!Idle,
         Tree!Proceed, Tree!Load, Tree!GetParent, Tree!CheckNoCycle, Tree!Climb,
         Tree!CountHolders, Tree!CommitChange, Tree!CommitCreate, Tree!Reject,
         Tree!Goto, Tree!Abort, Tree!WritesParent, Tree!NewActive, Tree!MarkDirty,
         TreeProofs!RequestStep, TreeProofs!StartSome, TreeProofs!StartCreate,
         TreeProofs!StartUpdate, TreeProofs!StartDelete, TreeProofs!StartActivate,
         TreeProofs!Start, TreeProofs!posVars, TreeProofs!Idle, TreeProofs!Proceed,
         TreeProofs!Load, TreeProofs!GetParent, TreeProofs!CheckNoCycle,
         TreeProofs!Climb, TreeProofs!CountHolders, TreeProofs!CommitChange,
         TreeProofs!CommitCreate, TreeProofs!Reject, TreeProofs!Goto, TreeProofs!Abort,
         TreeProofs!WritesParent, TreeProofs!NewActive, TreeProofs!MarkDirty
<1>3. [Tree!Next]_(Tree!vars) => [TreeProofs!Next]_(TreeProofs!vars)
  BY <1>2 DEF Tree!Next, TreeProofs!Next, Tree!HoldersChange, TreeProofs!HoldersChange,
     Tree!posVars, TreeProofs!posVars, Tree!vars, TreeProofs!vars
<1> QED BY <1>1, <1>3, PTL DEF Tree!Spec, TreeProofs!Spec

LEMMA TreeAssumptions ==
  MaxRequests \in Nat /\ Null \notin Positions /\ Keep \notin Positions \cup {Null}
  BY UserAssumption

\* With one request to the positions API at a time no position becomes its own
\* ancestor, whatever the users API does meanwhile (_check_no_cycle,
\* positions.py:34-60).
THEOREM OrgStaysForest ==
  ASSUME TreeProofs!OneSlot
  PROVE  OrgSpec => []Acyclic
<1>1. TreeProofs!Spec => []TreeProofs!Acyclic
  BY TreeAssumptions, TreeProofs!SerialAcyclic, PTL
<1>2. TreeProofs!Acyclic => Acyclic
  BY DEF Acyclic, Tree!Acyclic, TreeProofs!Acyclic
<1> QED BY <1>1, <1>2, OrgImplementsTree, SameTree, PTL

\* With one request to the positions API at a time every step of the two APIs is
\* one that OrgForest allows, or leaves the positions alone (positions.py:34-177).
THEOREM OrgImplementsForest ==
  ASSUME TreeProofs!OneSlot
  PROVE  OrgSpec => ImplementsForest
<1>1. TreeProofs!Spec => TreeProofs!ImplementsForest
  BY TreeAssumptions, TreeProofs!SerialImplementsForest, PTL
<1>2. TreeProofs!Abstract!Init => Tree!Abstract!Init
  BY DEF TreeProofs!Abstract!Init, Tree!Abstract!Init, TreeProofs!Abstract!Forest,
     Tree!Abstract!Forest
<1>3. [TreeProofs!Abstract!Next]_(TreeProofs!Abstract!vars)
        => [Tree!Abstract!Next]_(Tree!Abstract!vars)
  BY DEF TreeProofs!Abstract!Next, Tree!Abstract!Next, TreeProofs!Abstract!vars,
     Tree!Abstract!vars, TreeProofs!Abstract!Grow, Tree!Abstract!Grow,
     TreeProofs!Abstract!Move, Tree!Abstract!Move, TreeProofs!Abstract!Switch,
     Tree!Abstract!Switch, TreeProofs!Abstract!NotAbove, Tree!Abstract!NotAbove
<1>4. TreeProofs!ImplementsForest => ImplementsForest
  BY <1>2, <1>3, PTL DEF ImplementsForest, Tree!ImplementsForest,
     TreeProofs!ImplementsForest, Tree!Abstract!Spec, TreeProofs!Abstract!Spec
<1> QED BY <1>1, <1>4, OrgImplementsTree, SameTree, PTL

-----------------------------------------------------------------------------
(* While no two requests overlap.                                           *)

OneAtATime == MaxInFlight <= 1 /\ IsFiniteSet(Slots) /\ IsFiniteSet(UserSlots)

\* What the only request relies on: its sender is an administrator, whom it does not
\* switch off; only a creation or an update names a role; and what a deletion has
\* counted is still so.
Sound(r) ==
  /\ r.pc # "idle" => r.actor \in Administrators
  /\ r.pc # "idle" => r.newRole = Keep \/ r.op \in {"create", "update"}
  /\ Loaded(r) /\ r.setActive = "off" => r.actor # r.target
  /\ r.op = "delete" =>
       /\ r.pc \in {"load", "reports", "write"}
       /\ r.pc = "write" => Reports(r.target) \cap enabled = {}

TreeSound(r) ==
  /\ DOMAIN r = TreeFields
  /\ r.op = "delete" => r.pc \in {"load", "count", "write"}
  /\ r.op = "delete" /\ r.pc = "write" => r.target \notin Held

Alone ==
  /\ \A s, t \in UserSlots : ureq[s].pc # "idle" /\ ureq[t].pc # "idle" => s = t
  /\ \A s \in Slots, t \in UserSlots : req[s].pc = "idle" \/ ureq[t].pc = "idle"

AloneInv ==
  /\ HoldersInv /\ Alone
  /\ \A s \in UserSlots : Sound(ureq[s])
  /\ DOMAIN req = Slots /\ \A s \in Slots : TreeSound(req[s])

LEMMA NoneInFlight ==
  ASSUME OneAtATime, Pending < MaxInFlight
  PROVE  /\ \A s \in Slots : req[s].pc = "idle"
         /\ \A s \in UserSlots : ureq[s].pc = "idle"
<1> DEFINE A == {s \in Slots : req[s].pc # "idle"}
           B == {s \in UserSlots : ureq[s].pc # "idle"}
<1>1. /\ IsFiniteSet(A) /\ Cardinality(A) \in Nat
      /\ IsFiniteSet(B) /\ Cardinality(B) \in Nat
  BY FS_Subset, FS_CardinalityType DEF OneAtATime
<1>2. Cardinality(A) + Cardinality(B) < MaxInFlight /\ MaxInFlight <= 1 /\ MaxInFlight \in Nat
  BY UserAssumption DEF OneAtATime, Pending
<1>3. Cardinality(A) = 0 /\ Cardinality(B) = 0
  <2> HIDE DEF A, B
  <2> QED BY <1>1, <1>2
<1>4. A = {} /\ B = {}
  BY <1>1, <1>3, FS_EmptySet
<1> QED BY <1>4

LEMMA TreeIdleFields ==
  DOMAIN Tree!Idle = TreeFields /\ Tree!Idle.pc = "idle" /\ Tree!Idle.op = "none"
  BY DEF Tree!Idle, TreeFields

\* A step of the positions API leaves its deletions sound.
LEMMA TreeStaysSound ==
  ASSUME NEW s \in Slots, TreeStep(s), DOMAIN req = Slots, \A t \in Slots : TreeSound(req[t])
  PROVE  DOMAIN req' = Slots /\ \A t \in Slots : TreeSound(req'[t])
<1>1. ASSUME NEW d, req' = [req EXCEPT ![s] = d], TreeSound(d)
      PROVE  DOMAIN req' = Slots /\ \A t \in Slots : TreeSound(req'[t])
  BY <1>1
<1>2. TreeSound(Tree!Idle)
  BY TreeIdleFields DEF TreeSound
<1>3. TreeSound(req[s])
  OBVIOUS
<1>4. CASE Tree!StartSome(s)
  <2>1. PICK r : Tree!Start(s, r) /\ TreeSound(r)
    <3>1. \A q : TreeSound([Tree!Idle EXCEPT !.pc = IF q = Null THEN "write" ELSE "getParent",
                                             !.op = "create", !.newParent = q])
      BY DEF TreeSound, Tree!Idle, TreeFields
    <3>2. \A q, a, u : TreeSound([Tree!Idle EXCEPT !.pc = "load", !.op = "update", !.target = u,
                                                   !.newParent = q, !.setActive = a])
      BY DEF TreeSound, Tree!Idle, TreeFields
    <3>3. \A u : /\ TreeSound([Tree!Idle EXCEPT !.pc = "load", !.op = "delete", !.target = u,
                                                !.setActive = "off"])
                 /\ TreeSound([Tree!Idle EXCEPT !.pc = "load", !.op = "activate", !.target = u,
                                                !.setActive = "on"])
      BY DEF TreeSound, Tree!Idle, TreeFields
    <3> QED BY <1>4, <3>1, <3>2, <3>3 DEF Tree!StartSome, Tree!StartCreate, Tree!StartUpdate,
               Tree!StartDelete, Tree!StartActivate
  <2> QED BY <1>1, <2>1 DEF Tree!Start
<1>5. ASSUME Tree!Reject(s)
      PROVE  DOMAIN req' = Slots /\ \A t \in Slots : TreeSound(req'[t])
  BY <1>1, <1>2, <1>5 DEF Tree!Reject, Tree!Goto
<1>6. ASSUME NEW d, Tree!Goto(s, d), TreeSound(d)
      PROVE  DOMAIN req' = Slots /\ \A t \in Slots : TreeSound(req'[t])
  BY <1>1, <1>6 DEF Tree!Goto
<1>7. CASE Tree!Load(s)
  <2> DEFINE d == [req[s] EXCEPT !.oldParent = parent[req[s].target],
                                 !.oldActive = req[s].target \in active,
                                 !.pc = IF req[s].op = "delete" THEN "count"
                                        ELSE IF req[s].newParent \in Positions THEN "getParent"
                                        ELSE "write"]
  <2>1. TreeSound(d)
    BY <1>3 DEF TreeSound, TreeFields
  <2>2. Tree!Reject(s) \/ Tree!Goto(s, d)
    BY <1>7 DEF Tree!Load
  <2> HIDE DEF d
  <2> QED BY <1>5, <1>6, <2>1, <2>2
<1>8. CASE Tree!GetParent(s)
  <2> DEFINE d == IF req[s].op = "create" THEN [req[s] EXCEPT !.pc = "write"]
                  ELSE [req[s] EXCEPT !.pc = "walk", !.cursor = req[s].newParent]
  <2>1. req[s].op # "delete"
    BY <1>3, <1>8 DEF TreeSound, Tree!GetParent
  <2>2. TreeSound(d)
    BY <1>3, <2>1 DEF TreeSound, TreeFields
  <2>3. Tree!Reject(s) \/ Tree!Goto(s, d)
    BY <1>8 DEF Tree!GetParent
  <2> HIDE DEF d
  <2> QED BY <1>5, <1>6, <2>2, <2>3
<1>9. CASE Tree!CheckNoCycle(s)
  <2> DEFINE up == parent[req[s].cursor]
             d == [req[s] EXCEPT !.seen = @ \cup {req[s].cursor}, !.cursor = up,
                                 !.pc = IF up = Null THEN "write" ELSE "walk"]
  <2>1. req[s].op # "delete"
    BY <1>3, <1>9 DEF TreeSound, Tree!CheckNoCycle
  <2>2. TreeSound(d)
    BY <1>3, <2>1 DEF TreeSound, TreeFields
  <2>3. Tree!Reject(s) \/ Tree!Goto(s, d)
    BY <1>9 DEF Tree!CheckNoCycle, Tree!Climb
  <2> HIDE DEF d
  <2> QED BY <1>5, <1>6, <2>2, <2>3
<1>10. CASE Tree!CountHolders(s)
  <2> DEFINE d == [req[s] EXCEPT !.pc = "write"]
  <2>1. Tree!Reject(s) \/ (Tree!Goto(s, d) /\ req[s].target \notin Held)
    BY <1>10 DEF Tree!CountHolders
  <2>2. req[s].target \notin Held => TreeSound(d)
    BY <1>3 DEF TreeSound, TreeFields
  <2> HIDE DEF d
  <2> QED BY <1>5, <1>6, <2>1, <2>2
<1>11. CASE Tree!CommitChange(s)
  <2>1. \A t \in Slots : TreeSound([req[t] EXCEPT !.dirty = TRUE])
    BY DEF TreeSound, TreeFields
  <2>2. CASE req' = Tree!MarkDirty(s)
    BY <1>2, <2>1, <2>2 DEF Tree!MarkDirty
  <2>3. CASE req' = [req EXCEPT ![s] = Tree!Idle]
    BY <1>1, <1>2, <2>3
  <2> QED BY <1>11, <2>2, <2>3 DEF Tree!CommitChange
<1>12. CASE Tree!CommitCreate(s)
  BY <1>1, <1>2, <1>12 DEF Tree!CommitCreate
<1>13. CASE Tree!Abort(s)
  BY <1>5, <1>13 DEF Tree!Abort
<1> QED BY <1>4, <1>7, <1>8, <1>9, <1>10, <1>11, <1>12, <1>13 DEF TreeStep, Tree!Proceed

\* Whoever takes a step is alone.
LEMMA TreeStepAlone ==
  ASSUME OneAtATime, AloneInv, NEW s \in Slots, TreeStep(s)
  PROVE  \A t \in UserSlots : ureq[t].pc = "idle"
<1>1. CASE Pending < MaxInFlight
  BY <1>1, NoneInFlight
<1>2. CASE req[s].pc # "idle"
  BY <1>2 DEF AloneInv, Alone
<1>3. ASSUME Tree!Proceed(s) \/ Tree!Abort(s)
      PROVE  req[s].pc # "idle"
  BY <1>3 DEF Tree!Proceed, Tree!Load, Tree!GetParent, Tree!CheckNoCycle, Tree!CountHolders,
     Tree!CommitChange, Tree!CommitCreate, Tree!Abort
<1> QED BY <1>1, <1>2, <1>3 DEF TreeStep

LEMMA UserStepAlone ==
  ASSUME OneAtATime, AloneInv, NEW s \in UserSlots, UserStep(s)
  PROVE  /\ \A t \in Slots : req[t].pc = "idle"
         /\ \A t \in UserSlots \ {s} : ureq[t].pc = "idle"
<1>1. CASE StartUserRequest(s)
  BY <1>1, StartSends, NoneInFlight
<1>2. CASE UserProceed(s) \/ UserAbort(s)
  <2>1. ureq[s].pc # "idle"
    BY <1>2 DEF UserProceed, LoadForCreate, LoadUser, CheckPosition, CheckManager,
       ClimbAncestors, CheckReports, CommitUser, CommitNewUser, UserAbort
  <2> QED BY <2>1 DEF AloneInv, Alone
<1> QED BY <1>1, <1>2 DEF UserStep

\* What a step of the users API has to show of its slot and of the rows.
LEMMA UserStepKeeps ==
  ASSUME OneAtATime, AloneInv, NEW s \in UserSlots, UserStep(s), NEW d,
         ureq' = [ureq EXCEPT ![s] = d], Sound(d)'
  PROVE  AloneInv'
<1>1. /\ \A t \in Slots : req[t].pc = "idle"
      /\ \A t \in UserSlots \ {s} : ureq[t].pc = "idle"
  BY UserStepAlone
<1>2. HoldersInv' /\ UNCHANGED req
  BY UserKeepsHolders DEF AloneInv, treeVars
<1>3. ureq'[s] = d /\ \A t \in UserSlots \ {s} : ureq'[t] = ureq[t]
  BY DEF AloneInv, HoldersInv
<1>4. \A t \in UserSlots \ {s} : Sound(ureq[t])'
  <2> TAKE t \in UserSlots \ {s}
  <2>1. Sound(ureq[t]) /\ ureq[t].pc = "idle" /\ ureq'[t] = ureq[t]
    BY <1>1, <1>3 DEF AloneInv
  <2>2. ureq[t].op # "delete"
    BY <2>1 DEF Sound
  <2> QED BY <2>1, <2>2 DEF Sound, Loaded
<1>5. Alone'
  BY <1>1, <1>2, <1>3 DEF Alone
<1>6. DOMAIN req' = Slots /\ \A t \in Slots : TreeSound(req[t])'
  BY <1>1, <1>2 DEF AloneInv, TreeSound
<1>7. Sound(ureq[s])'
  BY <1>3 DEF Sound, Loaded
<1> QED BY <1>2, <1>4, <1>5, <1>6, <1>7 DEF AloneInv

LEMMA IdleIsSound == Sound(UserIdle) /\ Sound(UserIdle)'
  BY UserIdleFields DEF Sound, Loaded, UserIdle

LEMMA UserStaysAlone ==
  ASSUME OneAtATime, AloneInv, NEW s \in UserSlots, UserStep(s)
  PROVE  AloneInv'
<1>0. Sound(ureq[s]) /\ DOMAIN ureq[s] = UserFields
  BY DEF AloneInv, HoldersInv
<1>1. CASE StartUserRequest(s)
  <2>1. PICK a, u, r :
           /\ a \in Administrators /\ DOMAIN r = UserFields
           /\ r.newRole = Keep \/ r.op \in {"create", "update"}
           /\ ureq' = [ureq EXCEPT ![s] = Sent(a, r)] /\ UNCHANGED userRows
    BY <1>1, StartSends DEF AsSent
  <2>2. PICK d : d = Sent(a, r)
    OBVIOUS
  <2>3. /\ d.pc = "load" /\ d.actor \in Administrators'
        /\ d.newRole = Keep \/ d.op \in {"create", "update"}
    BY <2>1, <2>2, SentFields DEF userRows, Administrators
  <2>4. Sound(d)'
    BY <2>1, <2>3 DEF Sound, Loaded
  <2> QED BY <2>1, <2>2, <2>4, UserStepKeeps
<1>2. CASE Checks(s)
  <2>1. PICK d : /\ ureq' = [ureq EXCEPT ![s] = d]
                 /\ d = UserIdle \/ (Passes(ureq[s], d) /\ Guarded(ureq[s], d))
    BY <1>0, <1>2, ChecksPass
  <2>2. UNCHANGED userRows /\ ureq[s].pc # "idle"
    BY <1>0, <1>2, ChecksPass
  <2>4. ASSUME Passes(ureq[s], d), Guarded(ureq[s], d)
        PROVE  Sound(d)
    BY <1>0, <2>2, <2>4 DEF Sound, Loaded, Passes, Guarded
  <2>5. Sound(d) => Sound(d)'
    BY <2>2 DEF Sound, Loaded, Reports, Administrators, userRows
  <2> QED BY <2>1, <2>4, <2>5, IdleIsSound, UserStepKeeps
<1>3. CASE UserAbort(s)
  <2>1. ureq' = [ureq EXCEPT ![s] = UserIdle]
    BY <1>3 DEF UserAbort, UserReject, UserGoto
  <2> QED BY <2>1, IdleIsSound, UserStepKeeps
<1>4. CASE CommitUser(s) \/ CommitNewUser(s)
  <2>1. ureq' = [ureq EXCEPT ![s] = UserIdle]
    BY <1>4 DEF CommitUser, CommitNewUser
  <2> QED BY <2>1, IdleIsSound, UserStepKeeps
<1> QED BY <1>1, <1>2, <1>3, <1>4 DEF UserStep, UserProceed, Checks

LEMMA TreeStaysAlone ==
  ASSUME OneAtATime, AloneInv, NEW s \in Slots, TreeStep(s)
  PROVE  AloneInv'
<1>1. \A t \in UserSlots : ureq[t].pc = "idle"
  BY TreeStepAlone
<1>2. UNCHANGED userVars
  BY TreeKeepsRows
<1>3. HoldersInv'
  <2>1. exists \subseteq exists'
    BY TreeKeepsRows
  <2> QED BY <1>2, <2>1 DEF AloneInv, HoldersInv, userVars, userRows, Loaded
<1>4. Alone' /\ \A t \in UserSlots : Sound(ureq[t])'
  BY <1>1, <1>2 DEF AloneInv, Alone, Sound, Loaded, Reports, userVars, userRows
<1>5. DOMAIN req' = Slots /\ \A t \in Slots : TreeSound(req'[t])
  BY TreeStaysSound DEF AloneInv
<1>6. \A t \in Slots : TreeSound(req[t])'
  BY <1>2, <1>5 DEF TreeSound, Held, userVars, userRows
<1> QED BY <1>3, <1>4, <1>5, <1>6 DEF AloneInv

LEMMA AloneInit == OrgInit => AloneInv
<1> SUFFICES ASSUME OrgInit
             PROVE  AloneInv
  OBVIOUS
<1>1. HoldersInv
  BY HoldersInit
<1>2. Alone /\ \A s \in UserSlots : Sound(ureq[s])
  BY UserIdleFields, TreeIdleFields, IdleIsSound DEF OrgInit, Alone
<1>3. DOMAIN req = Slots /\ \A s \in Slots : TreeSound(req[s])
  BY TreeIdleFields DEF OrgInit, TreeSound
<1> QED BY <1>1, <1>2, <1>3 DEF AloneInv

LEMMA GrantsStayAlone ==
  ASSUME OneAtATime, AloneInv, ChangeGrants
  PROVE  AloneInv'
<1>1. \A t \in UserSlots : ureq[t].pc = "idle"
  BY NoneInFlight DEF ChangeGrants
<1>2. UNCHANGED <<treeVars, accounts, enabled, position, manager, role, ureq>>
  BY DEF ChangeGrants
<1>3. HoldersInv' /\ Alone' /\ \A t \in UserSlots : Sound(ureq[t])'
  BY <1>1, <1>2 DEF treeVars, AloneInv, HoldersInv, Alone, Sound, Loaded, Reports
<1>4. DOMAIN req' = Slots /\ \A t \in Slots : TreeSound(req[t])'
  BY <1>2 DEF treeVars, AloneInv, TreeSound, Held
<1> QED BY <1>3, <1>4 DEF AloneInv

LEMMA AloneStep ==
  ASSUME OneAtATime, AloneInv, [OrgNext]_orgVars
  PROVE  AloneInv'
<1>1. CASE UNCHANGED orgVars
  BY <1>1 DEF orgVars, treeVars, userVars, userRows, AloneInv, HoldersInv, Loaded,
     Administrators, Alone, Sound, Reports, TreeSound, Held
<1> QED BY <1>1, UserStaysAlone, TreeStaysAlone, GrantsStayAlone DEF OrgNext

\* The last administrator is about to give up the role that made them one.
StepsDown(r) ==
  /\ r.pc = "write" /\ r.op = "update"
  /\ r.target = r.actor /\ Administrators = {r.actor}
  /\ r.newRole \notin {Keep} \cup Superusers \cup granted

\* A commit leaves everybody but its target as they are, and its sender too unless
\* they change their own role.
LEMMA CommitKeepsAdministrators ==
  ASSUME AloneInv, NEW s \in UserSlots, CommitUser(s) \/ CommitNewUser(s),
         Administrators' = {}
  PROVE  StepsDown(ureq[s])
<1> DEFINE r == ureq[s]
           a == r.actor
<1>1. /\ r.pc = "write" /\ a \in Administrators /\ DOMAIN role = Users
      /\ r.newRole = Keep \/ r.op \in {"create", "update"}
      /\ enabled \subseteq accounts /\ accounts \subseteq Users
  BY DEF AloneInv, HoldersInv, Sound, CommitUser, CommitNewUser
<1>2. \A u \in enabled \ {r.target} : u \in enabled' /\ role'[u] = role[u]
  BY <1>1 DEF CommitUser, CommitNewUser, SetEnabled
<1>3. UNCHANGED granted
  BY DEF CommitUser, CommitNewUser
<1>4. Administrators \subseteq {r.target}
  BY <1>2, <1>3 DEF Administrators
<1>5. a = r.target /\ Administrators = {a} /\ a \in enabled
  BY <1>1, <1>4 DEF Administrators
<1>6. CommitUser(s) /\ r.op # "create"
  BY <1>1, <1>5 DEF CommitNewUser, CommitUser
<1>7. a \in enabled'
  <2>1. r.setActive # "off"
    BY <1>1, <1>5, <1>6 DEF AloneInv, Sound, Loaded
  <2> QED BY <1>5, <1>6, <2>1 DEF CommitUser, SetEnabled
<1>8. role'[a] \notin Superusers \cup granted
  BY <1>3, <1>7 DEF Administrators
<1>9. role[a] \in Superusers \cup granted
  BY <1>1 DEF Administrators
<1>10. role'[a] = NewRole(r) /\ r.newRole # Keep
  BY <1>1, <1>5, <1>6, <1>8, <1>9 DEF CommitUser, NewRole
<1>11. r.newRole \notin {Keep} \cup Superusers \cup granted
  BY <1>8, <1>10 DEF NewRole
<1>12. r.op = "update"
  BY <1>1, <1>6, <1>10
<1> QED BY <1>1, <1>5, <1>11, <1>12 DEF StepsDown

\* While no two requests overlap, the last administrator is lost only by changing
\* their own role (user_service.py:208-209) or by a PATCH of the role that made them
\* one (role_service.py:94-95): a request needs an administrator to send it, whom it
\* cannot switch off (user_service.py:186 and 235).
THEOREM AdministratorsKept ==
  ASSUME OneAtATime
  PROVE  OrgSpec => AdministratorsRemain
<1> DEFINE Remain ==
      Administrators # {} /\ Administrators' = {} =>
        granted' # granted \/ \E s \in UserSlots : StepsDown(ureq[s])
<1>1. AloneInv /\ [OrgNext]_orgVars => AloneInv'
  BY AloneStep
<1>2. AloneInv /\ [OrgNext]_orgVars => [Remain]_orgVars
  <2> SUFFICES ASSUME AloneInv, OrgNext
               PROVE  Remain
    OBVIOUS
  <2>1. UNCHANGED userRows => Remain
    BY DEF userRows, Administrators
  <2>2. ASSUME NEW s \in Slots, TreeStep(s)
        PROVE  Remain
    BY <2>1, <2>2 DEF TreeStep, userVars
  <2>3. ASSUME NEW s \in UserSlots, UserStep(s)
        PROVE  Remain
    <3>1. CASE StartUserRequest(s) \/ Checks(s) \/ UserAbort(s)
      <4>1. DOMAIN ureq[s] = UserFields
        BY DEF AloneInv, HoldersInv
      <4> QED BY <2>1, <3>1, <4>1, StartSends, ChecksPass DEF UserAbort, UserReject, UserGoto
    <3>2. CASE CommitUser(s) \/ CommitNewUser(s)
      BY <3>2, CommitKeepsAdministrators
    <3> QED BY <2>3, <3>1, <3>2 DEF UserStep, UserProceed, Checks
  <2>4. CASE ChangeGrants
    BY <2>4 DEF ChangeGrants
  <2> QED BY <2>2, <2>3, <2>4 DEF OrgNext
<1>3. [Remain]_orgVars =>
        [ Administrators # {} /\ Administrators' = {} =>
            \/ granted' # granted
            \/ \E s \in UserSlots :
                 /\ ureq[s].pc = "write" /\ ureq[s].op = "update"
                 /\ ureq[s].target = ureq[s].actor /\ Administrators = {ureq[s].actor}
                 /\ ureq[s].newRole \notin {Keep} \cup Superusers \cup granted ]_orgVars
  BY DEF StepsDown
<1> HIDE DEF Remain
<1> QED BY AloneInit, <1>1, <1>2, <1>3, PTL DEF OrgSpec, AdministratorsRemain

\* While no two requests overlap, no user is deleted under active reports
\* (user_service.py:238-254) and no position under its active holders
\* (positions.py:162-177).
THEOREM DependentsAreSpared ==
  ASSUME OneAtATime
  PROVE  OrgSpec => DeletesSpareDependents
<1>1. AloneInv /\ [OrgNext]_orgVars => AloneInv'
  BY AloneStep
<1> DEFINE Spares ==
      /\ \A s \in UserSlots :
           ureq[s].op = "delete" /\ ureq[s].pc = "write" /\ enabled' # enabled =>
             Reports(ureq[s].target) \cap enabled = {}
      /\ \A s \in Slots :
           req[s].op = "delete" /\ req[s].pc = "write" /\ active' # active =>
             req[s].target \notin Held
<1>2. AloneInv => [Spares]_orgVars
  BY DEF AloneInv, Sound, TreeSound
<1> QED BY AloneInit, <1>1, <1>2, PTL DEF OrgSpec, DeletesSpareDependents

-----------------------------------------------------------------------------
(* The rule of the hierarchy.                                               *)

\* A parent exists.
TreeShape == exists \subseteq Positions /\ parent \in [Positions -> exists \cup {Null}]

\* What the only request has loaded is as it is in the tables: the positions, ...
Row(p) == [parent |-> parent[p], active |-> p \in active]

ViewRight(v) ==
  DOMAIN v = Positions /\ \A p \in Positions : v[p] # Null => v[p] = Row(p)

\* ... the row to change, ...
TargetRead(r) == r.oldPos = position[r.target] /\ r.oldMgr = manager[r.target]

\* ... and the manager it would have, unless that is the target itself.
ManagerMet(r) ==
  \/ NewMgr(r) = r.target
  \/ NewMgr(r) \in enabled /\ r.mgrPos = position[NewMgr(r)]

\* What _validate_hierarchy lets through.
RuleKept(r) ==
  \/ r.newPos = Keep /\ r.newMgr = Keep
  \/ NewPos(r) = Null
  \/ parent[NewPos(r)] = Null /\ NewMgr(r) = Null
  \/ /\ parent[NewPos(r)] # Null /\ NewMgr(r) # Null
     /\ \/ NewMgr(r) = r.target
        \/ NewMgr(r) \in enabled /\ position[NewMgr(r)] \in Above(NewPos(r))

Payload(r) ==
  /\ ViewRight(r.view)
  /\ r.actorPos = position[r.actor]
  /\ r.op # "create" /\ (r.pc # "load" \/ r.target = r.actor) => TargetRead(r)
  /\ r.op = "create" => r.newPos # Keep /\ r.newMgr # Keep
  /\ r.op \in {"delete", "activate"} => r.newPos = Keep /\ r.newMgr = Keep

\* How far the validation has come.
Stage(r) ==
  /\ r.pc = "reports" => r.op = "delete"
  /\ r.pc = "position" => NewPos(r) # Null
  /\ r.pc \in {"load", "position", "manager"} => r.above = {}
  /\ r.pc \in {"manager", "climb"} =>
       NewPos(r) \in exists /\ parent[NewPos(r)] # Null /\ NewMgr(r) # Null
  /\ r.pc = "manager" => r.cursor = parent[NewPos(r)]
  /\ r.pc = "climb" =>
       ManagerMet(r) /\ r.cursor \in Above(NewPos(r)) /\ r.above \subseteq Above(NewPos(r))
  /\ r.pc = "write" => RuleKept(r)

Faithful(r) == r.pc # "idle" => Payload(r) /\ Stage(r)

RuleInv ==
  /\ AloneInv
  /\ DOMAIN manager = Users
  /\ \A s \in UserSlots : Faithful(ureq[s])

LEMMA IdleIsFaithful == Faithful(UserIdle) /\ Faithful(UserIdle)'
  BY UserIdleFields DEF Faithful

LEMMA SeeingRight ==
  ASSUME NEW r, ViewRight(r.view), NEW p
  PROVE  /\ p \in Positions => Seen(r, p) = Row(p)
         /\ ViewRight(Remember(r, p))
<1>1. p \in Positions => Seen(r, p) = Row(p)
  BY DEF ViewRight, Seen, Row
<1>2. PICK x : x = Seen(r, p)
  OBVIOUS
<1>3. Remember(r, p) = IF p = Null THEN r.view ELSE [r.view EXCEPT ![p] = x]
  BY <1>2 DEF Remember
<1>4. QED
  BY <1>1, <1>2, <1>3 DEF ViewRight

LEMMA RowFields ==
  ASSUME NEW p
  PROVE  Row(p).parent = parent[p]
  BY DEF Row

\* The parent is above, and so is the parent of a position above.
LEMMA ParentIsAbove ==
  ASSUME TreeShape, NEW p \in Positions, parent[p] # Null
  PROVE  parent[p] \in Above(p)
  BY DEF TreeShape, Above

LEMMA AboveIsClosed ==
  ASSUME TreeShape, NEW p, NEW q \in Above(p), parent[q] # Null
  PROVE  parent[q] \in Above(p)
<1>1. q \in exists /\ parent[q] \in exists
  BY DEF TreeShape, Above
<1>2. ASSUME NEW T \in SUBSET exists, parent[p] \in T,
             \A x \in T : parent[x] \in T \cup {Null}
      PROVE  parent[q] \in T
  <2>1. q \in T
    BY <1>2 DEF Above
  <2>2. QED
    BY <1>2, <2>1
<1>3. QED
  BY <1>1, <1>2 DEF Above

-----------------------------------------------------------------------------
\* A check after the load keeps what was loaded.
LEMMA PayloadKept ==
  ASSUME NEW r, NEW d, Payload(r), r.pc \notin {"idle", "load"}, d.pc \notin {"idle", "load"},
         Passes(r, d), d.actorPos = r.actorPos, d.oldPos = r.oldPos, d.oldMgr = r.oldMgr,
         ViewRight(d.view)
  PROVE  Payload(d) /\ NewPos(d) = NewPos(r) /\ NewMgr(d) = NewMgr(r)
  BY DEF Payload, TargetRead, Passes, NewPos, NewMgr

\* Where a request goes from its load is what is left to check.
LEMMA StageAfterLoad ==
  ASSUME NEW l, DOMAIN l = UserFields, l.above = {},
         l.op = "create" => l.newPos # Keep /\ l.newMgr # Keep,
         l.op \in {"delete", "activate"} => l.newPos = Keep /\ l.newMgr = Keep
  PROVE  Stage([l EXCEPT !.pc = AfterLoad(l)])
<1> DEFINE d == [l EXCEPT !.pc = AfterLoad(l)]
<1>1. /\ d.pc = AfterLoad(l) /\ d.op = l.op /\ d.newPos = l.newPos /\ d.newMgr = l.newMgr
      /\ d.oldPos = l.oldPos /\ d.oldMgr = l.oldMgr /\ d.above = l.above
  BY DEF UserFields
<1> HIDE DEF d
<1>2. NewPos(d) = NewPos(l)
  BY <1>1 DEF NewPos
<1>3. CASE AfterLoad(l) = "reports"
  BY <1>1, <1>3 DEF Stage, AfterLoad
<1>4. CASE AfterLoad(l) = "write"
  <2>1. (l.newPos = Keep /\ l.newMgr = Keep) \/ NewPos(l) = Null
    BY <1>4 DEF AfterLoad
  <2>2. RuleKept(d)
    BY <1>1, <1>2, <2>1 DEF RuleKept
  <2>3. d.pc = "write"
    BY <1>1, <1>4
  <2>4. QED
    BY <2>2, <2>3 DEF Stage, d
<1>5. CASE AfterLoad(l) = "position"
  <2>1. NewPos(l) # Null
    BY <1>5 DEF AfterLoad
  <2>2. d.pc = "position" /\ NewPos(d) # Null /\ d.above = {}
    BY <1>1, <1>2, <1>5, <2>1
  <2>3. QED
    BY <2>2 DEF Stage, d
<1>6. AfterLoad(l) \in {"reports", "write", "position"}
  BY DEF AfterLoad
<1>7. QED
  BY <1>3, <1>4, <1>5, <1>6 DEF d

LEMMA LoadIsFaithful ==
  ASSUME NEW s, DOMAIN ureq[s] = UserFields, Faithful(ureq[s]),
         LoadForCreate(s) \/ LoadUser(s)
  PROVE  UserReject(s) \/ \E d : UserGoto(s, d) /\ Faithful(d)
<1> DEFINE r == ureq[s]
<1>0. r.pc = "load" /\ Payload(r) /\ r.above = {}
  BY DEF Faithful, Stage, LoadForCreate, LoadUser
<1>1. CASE LoadForCreate(s)
  <2> DEFINE d == [r EXCEPT !.pc = AfterLoad(r)]
  <2>1. Stage(d)
    BY <1>0, StageAfterLoad DEF Payload
  <2>2. /\ d.view = r.view /\ d.actorPos = r.actorPos /\ d.actor = r.actor
        /\ d.op = r.op /\ d.newPos = r.newPos /\ d.newMgr = r.newMgr
    BY DEF UserFields
  <2>3. (UserReject(s) \/ UserGoto(s, d)) /\ r.op = "create"
    BY <1>1 DEF LoadForCreate
  <2> HIDE DEF d
  <2>4. Payload(d)
    BY <1>0, <2>2, <2>3 DEF Payload
  <2>5. QED
    BY <2>1, <2>3, <2>4 DEF Faithful
<1>2. CASE LoadUser(s)
  <2> DEFINE l == IF r.target = r.actor THEN r ELSE LoadTarget(r)
             d == [l EXCEPT !.pc = AfterLoad(l)]
  <2>1. PICK v : v = Remember(r, position[r.target])
    OBVIOUS
  <2>2. ViewRight(v)
    BY <1>0, <2>1, SeeingRight DEF Payload
  <2>3. LoadTarget(r) = [r EXCEPT !.oldPos = position[r.target], !.oldMgr = manager[r.target],
                                  !.oldRole = role[r.target], !.oldActive = r.target \in enabled, !.view = v]
    BY <2>1 DEF LoadTarget
  <2>4. (UserReject(s) \/ UserGoto(s, d)) /\ r.op # "create"
    BY <1>2 DEF LoadUser
  <2>5. /\ DOMAIN l = UserFields /\ l.actorPos = r.actorPos /\ l.actor = r.actor
        /\ l.op = r.op /\ l.target = r.target /\ l.newPos = r.newPos
        /\ l.newMgr = r.newMgr /\ l.above = r.above
        /\ l.view \in {r.view, v}
    BY <2>3 DEF UserFields
  <2>6. TargetRead(l)
    <3>1. CASE r.target = r.actor
      BY <1>0, <2>4, <3>1 DEF Payload
    <3>2. CASE r.target # r.actor
      BY <2>3, <3>2 DEF TargetRead, UserFields
    <3>3. QED
      BY <3>1, <3>2
  <2> HIDE DEF l
  <2>7. Stage(d)
    BY <1>0, <2>5, StageAfterLoad DEF Payload
  <2>8. /\ d.view = l.view /\ d.actorPos = l.actorPos /\ d.actor = l.actor
        /\ d.op = l.op /\ d.newPos = l.newPos /\ d.newMgr = l.newMgr
        /\ d.target = l.target /\ d.oldPos = l.oldPos /\ d.oldMgr = l.oldMgr
    BY <2>5 DEF UserFields
  <2> HIDE DEF d
  <2>9. Payload(d)
    BY <1>0, <2>2, <2>4, <2>5, <2>6, <2>8 DEF Payload, TargetRead
  <2>10. QED
    BY <2>4, <2>7, <2>9 DEF Faithful
<1>3. QED
  BY <1>1, <1>2

LEMMA PositionCheckIsFaithful ==
  ASSUME TreeShape, NEW s, DOMAIN ureq[s] = UserFields, Faithful(ureq[s]), CheckPosition(s)
  PROVE  UserReject(s) \/ \E d : UserGoto(s, d) /\ Faithful(d)
<1> DEFINE r == ureq[s]
           p == NewPos(r)
<1>1. r.pc = "position" /\ Payload(r) /\ p # Null /\ r.above = {}
  BY DEF Faithful, Stage, CheckPosition
<1>2. PICK row, v : row = Seen(r, p) /\ v = Remember(r, p)
  OBVIOUS
<1>3. ViewRight(v)
  BY <1>1, <1>2, SeeingRight DEF Payload
<1> DEFINE d == [r EXCEPT !.view = v, !.cursor = row.parent,
                          !.pc = IF row.parent = Null THEN "write" ELSE "manager"]
<1>4. \/ UserReject(s)
      \/ /\ UserGoto(s, d) /\ p \in exists
         /\ (row.parent = Null) <=> (NewMgr(r) = Null)
  BY <1>2 DEF CheckPosition
<1>5. SUFFICES ASSUME p \in exists, (row.parent = Null) <=> (NewMgr(r) = Null)
               PROVE  Faithful(d)
  <2> HIDE DEF d
  <2>1. QED
    BY <1>4
<1>6. row.parent = parent[p]
  BY <1>1, <1>2, <1>5, SeeingRight, RowFields DEF Payload, TreeShape
<1>7. /\ Passes(r, d) /\ d.actorPos = r.actorPos /\ d.oldPos = r.oldPos
      /\ d.oldMgr = r.oldMgr /\ d.view = v /\ d.cursor = row.parent /\ d.above = r.above
      /\ d.pc = (IF row.parent = Null THEN "write" ELSE "manager")
  BY DEF Passes, UserFields
<1> HIDE DEF d
<1>8. Payload(d) /\ NewPos(d) = p /\ NewMgr(d) = NewMgr(r)
  BY <1>1, <1>3, <1>7, PayloadKept
<1>9. CASE row.parent = Null
  BY <1>5, <1>6, <1>7, <1>8, <1>9 DEF Faithful, Stage, RuleKept
<1>10. CASE row.parent # Null
  BY <1>1, <1>5, <1>6, <1>7, <1>8, <1>10 DEF Faithful, Stage
<1>11. QED
  BY <1>9, <1>10

LEMMA ManagerCheckIsFaithful ==
  ASSUME TreeShape, NEW s, DOMAIN ureq[s] = UserFields, Faithful(ureq[s]),
         ureq[s].actor \in enabled, CheckManager(s)
  PROVE  UserReject(s) \/ \E d : UserGoto(s, d) /\ Faithful(d)
<1> DEFINE r == ureq[s]
           p == NewPos(r)
           m == NewMgr(r)
<1>1. /\ r.pc = "manager" /\ Payload(r) /\ r.above = {}
      /\ p \in exists /\ parent[p] # Null /\ m # Null /\ r.cursor = parent[p]
  BY DEF Faithful, Stage, CheckManager
<1>2. PICK q, v : q = ManagerRow(r).pos /\ v = Remember(r, q)
  OBVIOUS
<1>3. ViewRight(v)
  BY <1>1, <1>2, SeeingRight DEF Payload
<1> DEFINE d == [r EXCEPT !.mgrPos = q, !.view = v, !.guard = WalkGuard, !.pc = "climb"]
<1>4. UserReject(s) \/ (UserGoto(s, d) /\ ManagerRow(r).on)
  BY <1>2 DEF CheckManager
<1>5. SUFFICES ASSUME ManagerRow(r).on
               PROVE  Faithful(d)
  <2> HIDE DEF d
  <2>1. QED
    BY <1>4
<1>6. m = r.target \/ (m \in enabled /\ q = position[m])
  <2>1. CASE m = r.target
    BY <2>1
  <2>2. CASE m # r.target /\ m = r.actor
    BY <1>1, <1>2, <2>2 DEF ManagerRow, Payload
  <2>3. CASE m # r.target /\ m # r.actor
    <3>1. ManagerRow(r) = [pos |-> position[m], on |-> m \in enabled]
      BY <2>3 DEF ManagerRow
    <3>2. PICK b : b = (m \in enabled)
      OBVIOUS
    <3>3. ManagerRow(r) = [pos |-> position[m], on |-> b]
      BY <3>1, <3>2
    <3>4. q = position[m] /\ b
      BY <1>2, <1>5, <3>3
    <3>5. QED
      BY <3>2, <3>4
  <2>4. QED
    BY <2>1, <2>2, <2>3
<1>7. /\ Passes(r, d) /\ d.actorPos = r.actorPos /\ d.oldPos = r.oldPos
      /\ d.oldMgr = r.oldMgr /\ d.view = v /\ d.mgrPos = q /\ d.cursor = r.cursor
      /\ d.above = r.above /\ d.pc = "climb" /\ d.target = r.target
  BY DEF Passes, UserFields
<1> HIDE DEF d
<1>8. Payload(d) /\ NewPos(d) = p /\ NewMgr(d) = m
  BY <1>1, <1>3, <1>7, PayloadKept
<1>9. parent[p] \in Above(p)
  BY <1>1, ParentIsAbove DEF TreeShape
<1>10. ManagerMet(d)
  BY <1>6, <1>7, <1>8 DEF ManagerMet
<1>11. QED
  BY <1>1, <1>7, <1>8, <1>9, <1>10 DEF Faithful, Stage

LEMMA ClimbIsFaithful ==
  ASSUME TreeShape, NEW s, DOMAIN ureq[s] = UserFields, Faithful(ureq[s]), ClimbAncestors(s)
  PROVE  UserReject(s) \/ \E d : UserGoto(s, d) /\ Faithful(d)
<1> DEFINE r == ureq[s]
           p == NewPos(r)
           met == r.above \cup {r.cursor}
<1>1. /\ r.pc = "climb" /\ Payload(r) /\ ManagerMet(r)
      /\ p \in exists /\ parent[p] # Null /\ NewMgr(r) # Null
      /\ r.cursor \in Above(p) /\ r.above \subseteq Above(p)
  BY DEF Faithful, Stage, ClimbAncestors
<1>2. PICK row : row = Seen(r, r.cursor)
  OBVIOUS
<1> DEFINE last == row.parent = Null \/ r.guard = 1
           d == [r EXCEPT !.above = met, !.cursor = row.parent, !.guard = @ - 1,
                          !.pc = IF last THEN "write" ELSE "climb"]
<1>3. UserReject(s) \/ (UserGoto(s, d) /\ (last => r.mgrPos \in met))
  BY <1>2 DEF ClimbAncestors
<1>4. SUFFICES ASSUME last => r.mgrPos \in met
               PROVE  Faithful(d)
  <2> HIDE DEF d, last
  <2>1. QED
    BY <1>3
<1>5. row.parent = parent[r.cursor]
  BY <1>1, <1>2, SeeingRight, RowFields DEF Payload, TreeShape, Above
<1>6. /\ Passes(r, d) /\ d.actorPos = r.actorPos /\ d.oldPos = r.oldPos
      /\ d.oldMgr = r.oldMgr /\ d.view = r.view /\ d.mgrPos = r.mgrPos
      /\ d.cursor = row.parent /\ d.above = met /\ d.target = r.target
      /\ d.newPos = r.newPos /\ d.newMgr = r.newMgr
      /\ d.pc = (IF last THEN "write" ELSE "climb")
  BY DEF Passes, UserFields
<1> HIDE DEF d
<1>7. Payload(d) /\ NewPos(d) = p /\ NewMgr(d) = NewMgr(r)
  <2> HIDE DEF last
  <2>1. QED
    BY <1>1, <1>6, PayloadKept DEF Payload
<1>8. met \subseteq Above(p)
  BY <1>1
<1>9. CASE last
  <2>1. r.mgrPos \in Above(p)
    BY <1>4, <1>8, <1>9
  <2>2. RuleKept(d)
    BY <1>1, <1>6, <1>7, <2>1 DEF RuleKept, ManagerMet
  <2>3. QED
    BY <1>6, <1>7, <1>9, <2>2 DEF Faithful, Stage
<1>10. CASE ~last
  <2>1. d.cursor \in Above(p)
    BY <1>1, <1>5, <1>6, <1>10, AboveIsClosed
  <2>2. ManagerMet(d)
    BY <1>1, <1>6, <1>7 DEF ManagerMet
  <2>3. d.pc = "climb"
    BY <1>6, <1>10
  <2> HIDE DEF last
  <2>4. QED
    BY <1>1, <1>6, <1>7, <1>8, <2>1, <2>2, <2>3 DEF Faithful, Stage
<1>11. QED
  BY <1>9, <1>10

LEMMA ReportsCheckIsFaithful ==
  ASSUME NEW s, DOMAIN ureq[s] = UserFields, Faithful(ureq[s]), CheckReports(s)
  PROVE  UserReject(s) \/ \E d : UserGoto(s, d) /\ Faithful(d)
<1> DEFINE r == ureq[s]
           d == [r EXCEPT !.pc = "write"]
<1>1. r.pc = "reports" /\ Payload(r) /\ r.op = "delete"
  BY DEF Faithful, Stage, CheckReports
<1>2. UserReject(s) \/ UserGoto(s, d)
  BY DEF CheckReports
<1>3. /\ Passes(r, d) /\ d.actorPos = r.actorPos /\ d.oldPos = r.oldPos
      /\ d.oldMgr = r.oldMgr /\ d.view = r.view /\ d.pc = "write"
      /\ d.newPos = r.newPos /\ d.newMgr = r.newMgr
  BY DEF Passes, UserFields
<1> HIDE DEF d
<1>4. Payload(d)
  BY <1>1, <1>3, PayloadKept DEF Payload
<1>5. RuleKept(d)
  BY <1>1, <1>3 DEF RuleKept, Payload
<1>6. QED
  BY <1>2, <1>3, <1>4, <1>5 DEF Faithful, Stage

LEMMA ChecksAreFaithful ==
  ASSUME RuleInv, TreeShape, NEW s \in UserSlots, Checks(s)
  PROVE  \E d : ureq' = [ureq EXCEPT ![s] = d] /\ Faithful(d)
<1>1. DOMAIN ureq[s] = UserFields /\ Faithful(ureq[s])
  BY DEF RuleInv, AloneInv, HoldersInv
<1>2. CheckManager(s) => ureq[s].actor \in enabled
  BY DEF RuleInv, AloneInv, Sound, Administrators, CheckManager
<1>3. UserReject(s) \/ \E d : UserGoto(s, d) /\ Faithful(d)
  BY <1>1, <1>2, LoadIsFaithful, PositionCheckIsFaithful, ManagerCheckIsFaithful,
     ClimbIsFaithful, ReportsCheckIsFaithful DEF Checks
<1>4. QED
  BY <1>3, IdleIsFaithful DEF UserReject, UserGoto

-----------------------------------------------------------------------------
\* A start loads the actor's row, and the target's if they are the same.
LEMMA SentIsFaithful ==
  ASSUME NEW a, NEW r, DOMAIN r = UserFields, AsSent(r)
  PROVE  Faithful(Sent(a, r))
<1>1. PICK v : v = Remember(r, position[a])
  OBVIOUS
<1>2. ViewRight(r.view)
  BY DEF AsSent, ViewRight, NothingLoaded
<1>3. ViewRight(v)
  BY <1>1, <1>2, SeeingRight
<1> DEFINE auth == [r EXCEPT !.pc = "load", !.actor = a, !.actorPos = position[a],
                             !.view = v]
<1>4. /\ DOMAIN auth = UserFields
      /\ auth.pc = "load" /\ auth.actor = a /\ auth.actorPos = position[a] /\ auth.view = v
      /\ auth.op = r.op /\ auth.target = r.target /\ auth.above = r.above
      /\ auth.newPos = r.newPos /\ auth.newMgr = r.newMgr
  BY DEF UserFields
<1>5. Sent(a, r) = IF r.target = a THEN LoadTarget(auth) ELSE auth
  BY <1>1 DEF Sent
<1> HIDE DEF auth
<1>6. PICK w : w = Remember(auth, position[auth.target])
  OBVIOUS
<1>7. ViewRight(w)
  BY <1>3, <1>4, <1>6, SeeingRight
<1> DEFINE l == [auth EXCEPT !.oldPos = position[auth.target],
                             !.oldMgr = manager[auth.target],
                             !.oldRole = role[auth.target],
                             !.oldActive = auth.target \in enabled, !.view = w]
<1>8. LoadTarget(auth) = l
  BY <1>6 DEF LoadTarget
<1>9. /\ l.pc = "load" /\ l.actor = a /\ l.actorPos = position[a] /\ l.view = w
      /\ l.op = r.op /\ l.target = r.target /\ l.above = r.above
      /\ l.newPos = r.newPos /\ l.newMgr = r.newMgr
      /\ l.oldPos = position[r.target] /\ l.oldMgr = manager[r.target]
  BY <1>4 DEF UserFields
<1> HIDE DEF l
<1>10. CASE r.target = a
  <2>1. Payload(l) /\ Stage(l)
    BY <1>7, <1>9 DEF Payload, Stage, TargetRead, AsSent
  <2>2. QED
    BY <1>5, <1>8, <1>10, <2>1 DEF Faithful
<1>11. CASE r.target # a
  <2>1. Payload(auth) /\ Stage(auth)
    BY <1>3, <1>4, <1>11 DEF Payload, Stage, AsSent
  <2>2. QED
    BY <1>5, <1>11, <2>1 DEF Faithful
<1>12. QED
  BY <1>10, <1>11

-----------------------------------------------------------------------------
\* What a step may do to the position and the manager of user u.
FollowsTheRule(u) ==
  \/ u \in accounts /\ position'[u] = position[u] /\ manager'[u] = manager[u]
  \/ manager'[u] = u
  \/ /\ ReportsUpwards(u)'
     /\ position'[u] # Null /\ manager'[u] # Null => manager'[u] \in enabled'

\* A commit gives the target, and nobody else, what the request asks for.
LEMMA CommitWrites ==
  ASSUME RuleInv, NEW s \in UserSlots, CommitUser(s) \/ CommitNewUser(s)
  PROVE  LET r == ureq[s] IN
         /\ r.pc = "write" /\ Payload(r) /\ Stage(r) /\ r.target \in Users
         /\ position'[r.target] = NewPos(r) /\ manager'[r.target] = NewMgr(r)
         /\ \A u \in Users \ {r.target} : position'[u] = position[u] /\ manager'[u] = manager[u]
         /\ DOMAIN manager' = Users
         /\ enabled \ {r.target} \subseteq enabled'
         /\ accounts' \subseteq accounts \cup {r.target} /\ accounts' \subseteq Users
         /\ r.op # "create" => r.target \in accounts
         /\ UNCHANGED <<exists, parent>>
         /\ ureq' = [ureq EXCEPT ![s] = UserIdle]
<1> DEFINE r == ureq[s]
<1>1. /\ HoldersInv /\ DOMAIN position = Users /\ DOMAIN manager = Users
  BY DEF RuleInv, AloneInv, HoldersInv
<1>2. /\ r.pc = "write" /\ Payload(r) /\ Stage(r) /\ r.target \in Users
      /\ r.op # "create" => r.target \in accounts
  BY <1>1 DEF RuleInv, Faithful, HoldersInv, Loaded, CommitUser, CommitNewUser
<1>3. enabled \ {r.target} \subseteq enabled' /\ UNCHANGED <<exists, parent>>
      /\ ureq' = [ureq EXCEPT ![s] = UserIdle]
  BY DEF CommitUser, CommitNewUser, SetEnabled, treeVars
<1>4. accounts' \subseteq accounts \cup {r.target} /\ accounts' \subseteq Users
  BY <1>1, <1>2 DEF CommitUser, CommitNewUser, HoldersInv
<1>5. CASE CommitUser(s)
  <2>1. r.oldPos = position[r.target] /\ r.oldMgr = manager[r.target]
    BY <1>2, <1>5 DEF CommitUser, Payload, TargetRead
  <2>2. /\ position' = IF NewPos(r) # r.oldPos
                         THEN [position EXCEPT ![r.target] = NewPos(r)] ELSE position
        /\ manager' = IF NewMgr(r) # r.oldMgr
                        THEN [manager EXCEPT ![r.target] = NewMgr(r)] ELSE manager
    BY <1>5 DEF CommitUser
  <2>3. QED
    BY <1>1, <1>2, <1>3, <1>4, <2>1, <2>2
<1>6. CASE CommitNewUser(s)
  <2>1. NewPos(r) = r.newPos /\ NewMgr(r) = r.newMgr
    BY <1>2, <1>6 DEF CommitNewUser, Payload, NewPos, NewMgr
  <2>2. /\ position' = [position EXCEPT ![r.target] = r.newPos]
        /\ manager' = [manager EXCEPT ![r.target] = r.newMgr]
    BY <1>6 DEF CommitNewUser
  <2>3. QED
    BY <1>1, <1>2, <1>3, <1>4, <2>1, <2>2
<1>7. QED
  BY <1>5, <1>6

LEMMA CommitFollowsTheRule ==
  ASSUME RuleInv, NEW s \in UserSlots, CommitUser(s) \/ CommitNewUser(s),
         NEW u \in accounts'
  PROVE  FollowsTheRule(u)
<1> DEFINE r == ureq[s]
           p == NewPos(r)
           m == NewMgr(r)
<1>1. /\ r.pc = "write" /\ Payload(r) /\ Stage(r) /\ r.target \in Users
      /\ position'[r.target] = p /\ manager'[r.target] = m
      /\ \A w \in Users \ {r.target} : position'[w] = position[w] /\ manager'[w] = manager[w]
      /\ enabled \ {r.target} \subseteq enabled'
      /\ accounts' \subseteq accounts \cup {r.target} /\ accounts' \subseteq Users
      /\ r.op # "create" => r.target \in accounts
      /\ UNCHANGED <<exists, parent>>
  BY CommitWrites
<1>2. CASE u # r.target
  BY <1>1, <1>2 DEF FollowsTheRule
<1>3. CASE u = r.target
  <2>1. RuleKept(r)
    BY <1>1 DEF Stage
  <2>2. CASE r.newPos = Keep /\ r.newMgr = Keep
    <3>1. r.op # "create" /\ p = position[u] /\ m = manager[u]
      BY <1>1, <1>3, <2>2 DEF Payload, TargetRead, NewPos, NewMgr
    <3>2. QED
      BY <1>1, <1>3, <3>1 DEF FollowsTheRule
  <2>3. CASE p = Null
    BY <1>1, <1>3, <2>3 DEF FollowsTheRule, ReportsUpwards
  <2>4. CASE parent[p] = Null /\ m = Null
    BY <1>1, <1>3, <2>4 DEF FollowsTheRule, ReportsUpwards
  <2>5. CASE m = r.target
    BY <1>1, <1>3, <2>5 DEF FollowsTheRule
  <2>6. CASE /\ parent[p] # Null /\ m # Null /\ m # r.target
             /\ m \in enabled /\ position[m] \in Above(p)
    <3>1. m \in Users /\ m \in enabled'
      BY <1>1, <2>6 DEF RuleInv, AloneInv, HoldersInv
    <3>2. position'[m] = position[m]
      BY <1>1, <2>6, <3>1
    <3>3. position'[manager'[u]] \in Above(position[u])'
      BY <1>1, <1>3, <2>6, <3>2 DEF Above
    <3>4. QED
      BY <1>1, <1>3, <2>6, <3>1, <3>3 DEF FollowsTheRule, ReportsUpwards
  <2>7. QED
    BY <2>1, <2>2, <2>3, <2>4, <2>5, <2>6 DEF RuleKept
<1>4. QED
  BY <1>2, <1>3

\* Only a commit changes the users.
LEMMA OthersKeepUsers ==
  ASSUME RuleInv, NEW s \in UserSlots,
         StartUserRequest(s) \/ Checks(s) \/ UserAbort(s)
  PROVE  UNCHANGED <<treeVars, userRows>>
<1>1. DOMAIN ureq[s] = UserFields
  BY DEF RuleInv, AloneInv, HoldersInv
<1>2. QED
  BY <1>1, StartSends, ChecksPass DEF UserAbort, UserReject, UserGoto

LEMMA RuleUserStep ==
  ASSUME OneAtATime, RuleInv, TreeShape, NEW s \in UserSlots, UserStep(s)
  PROVE  RuleInv'
<1>1. AloneInv'
  BY UserStaysAlone DEF RuleInv
<1>2. \A t \in UserSlots \ {s} : ureq[t].pc = "idle"
  BY UserStepAlone DEF RuleInv
<1>3. ASSUME NEW d, ureq' = [ureq EXCEPT ![s] = d], Faithful(d)', DOMAIN manager' = Users
      PROVE  RuleInv'
  <2>1. ureq'[s] = d /\ \A t \in UserSlots \ {s} : ureq'[t] = ureq[t]
    BY <1>3 DEF RuleInv, AloneInv, HoldersInv
  <2>2. Faithful(ureq[s])'
    BY <1>3, <2>1 DEF Faithful, Payload, Stage, TargetRead, ManagerMet, RuleKept, NewPos, NewMgr
  <2>3. \A t \in UserSlots \ {s} : Faithful(ureq[t])'
    BY <1>2, <2>1 DEF Faithful
  <2>4. QED
    BY <1>1, <1>3, <2>2, <2>3 DEF RuleInv
<1>4. ASSUME NEW d, Faithful(d), UNCHANGED <<treeVars, userRows>>
      PROVE  Faithful(d)'
  BY <1>4 DEF treeVars, userRows, Faithful, Payload, Stage, ViewRight, Row, TargetRead,
     ManagerMet, RuleKept, Above
<1>5. UNCHANGED userRows => DOMAIN manager' = Users
  BY DEF userRows, RuleInv
<1>6. CASE StartUserRequest(s)
  <2>1. PICK a, r : /\ DOMAIN r = UserFields /\ AsSent(r)
                    /\ ureq' = [ureq EXCEPT ![s] = Sent(a, r)]
    BY <1>6, StartSends
  <2>2. PICK d : d = Sent(a, r) /\ Faithful(d)
    BY <2>1, SentIsFaithful
  <2>3. QED
    BY <1>3, <1>4, <1>5, <1>6, <2>1, <2>2, OthersKeepUsers
<1>7. CASE Checks(s)
  <2>1. PICK d : ureq' = [ureq EXCEPT ![s] = d] /\ Faithful(d)
    BY <1>7, ChecksAreFaithful
  <2>2. QED
    BY <1>3, <1>4, <1>5, <1>7, <2>1, OthersKeepUsers
<1>8. CASE UserAbort(s)
  <2>1. ureq' = [ureq EXCEPT ![s] = UserIdle]
    BY <1>8 DEF UserAbort, UserReject, UserGoto
  <2>2. QED
    BY <1>3, <1>5, <1>8, <2>1, OthersKeepUsers, IdleIsFaithful
<1>9. CASE CommitUser(s) \/ CommitNewUser(s)
  <2>1. ureq' = [ureq EXCEPT ![s] = UserIdle] /\ DOMAIN manager' = Users
    BY <1>9, CommitWrites
  <2>2. QED
    BY <1>3, <2>1, IdleIsFaithful
<1>10. QED
  BY <1>6, <1>7, <1>8, <1>9 DEF UserStep, UserProceed, Checks

LEMMA RuleTreeStep ==
  ASSUME OneAtATime, RuleInv, NEW s \in Slots, TreeStep(s)
  PROVE  RuleInv'
<1>1. AloneInv'
  BY TreeStaysAlone DEF RuleInv
<1>2. UNCHANGED userVars /\ \A t \in UserSlots : ureq[t].pc = "idle"
  BY TreeKeepsRows, TreeStepAlone DEF RuleInv
<1>3. \A t \in UserSlots : Faithful(ureq[t])'
  BY <1>2 DEF Faithful, userVars
<1>4. QED
  BY <1>1, <1>2, <1>3 DEF RuleInv, userVars, userRows

LEMMA RuleStep ==
  ASSUME OneAtATime, RuleInv, TreeShape, [OrgNext]_orgVars
  PROVE  RuleInv' /\ [\A u \in accounts' : FollowsTheRule(u)]_orgVars
<1>1. ASSUME UNCHANGED userRows
      PROVE  \A u \in accounts' : FollowsTheRule(u)
  BY <1>1 DEF userRows, FollowsTheRule
<1>2. ASSUME NEW s \in UserSlots, UserStep(s)
      PROVE  RuleInv' /\ \A u \in accounts' : FollowsTheRule(u)
  BY <1>1, <1>2, RuleUserStep, CommitFollowsTheRule, OthersKeepUsers
     DEF UserStep, UserProceed, Checks
<1>3. ASSUME NEW s \in Slots, TreeStep(s)
      PROVE  RuleInv' /\ \A u \in accounts' : FollowsTheRule(u)
  BY <1>1, <1>3, RuleTreeStep, TreeKeepsRows DEF userVars
<1>4. CASE UNCHANGED orgVars
  <2>1. AloneInv'
    BY <1>4, AloneStep DEF RuleInv
  <2>2. UNCHANGED <<treeVars, userRows, ureq>>
    BY <1>4 DEF orgVars, userVars
  <2>3. \A t \in UserSlots : Faithful(ureq[t])'
    BY <2>2 DEF RuleInv, treeVars, userRows, Faithful, Payload, Stage, ViewRight, Row,
       TargetRead, ManagerMet, RuleKept, Above, NewPos, NewMgr
  <2>4. QED
    BY <1>4, <2>1, <2>2, <2>3 DEF RuleInv, userRows
<1>5. CASE ChangeGrants
  <2>1. AloneInv'
    BY <1>5, AloneStep DEF RuleInv
  <2>2. UNCHANGED <<treeVars, accounts, enabled, position, manager, ureq>>
    BY <1>5 DEF ChangeGrants
  <2>3. \A t \in UserSlots : ureq[t].pc = "idle"
    BY <1>5, NoneInFlight DEF ChangeGrants
  <2>4. QED
    BY <2>1, <2>2, <2>3 DEF RuleInv, Faithful, FollowsTheRule
<1>6. QED
  BY <1>2, <1>3, <1>4, <1>5 DEF OrgNext

LEMMA RuleInit == OrgInit => RuleInv
<1> SUFFICES ASSUME OrgInit
             PROVE  RuleInv
  OBVIOUS
<1>1. DOMAIN manager = Users
  BY DEF OrgInit
<1>2. \A s \in UserSlots : Faithful(ureq[s])
  BY IdleIsFaithful DEF OrgInit
<1>3. QED
  BY <1>1, <1>2, AloneInit DEF RuleInv

LEMMA TreeKeepsShape == OrgSpec => []TreeShape
<1>1. TreeProofs!Spec => []TreeProofs!IInv
  BY TreeAssumptions, TreeProofs!Invariance, PTL
<1>2. TreeProofs!IInv => TreeShape
  BY DEF TreeProofs!IInv, TreeProofs!TypeOK, TreeProofs!RowInv, TreeShape
<1> QED BY <1>1, <1>2, OrgImplementsTree, SameTree, PTL

\* While no two requests overlap, whoever is given a position or a manager then
\* reports to an active manager higher up the tree, or heads it without one, or
\* is their own manager (_validate_hierarchy and _ancestor_position_ids,
\* user_service.py:48-104): what the session has loaded is still what the tables
\* hold when the row is written.
THEOREM HierarchyIsKept ==
  ASSUME OneAtATime
  PROVE  OrgSpec => ChangesFollowTheRule
<1> DEFINE Follows == \A u \in accounts' : FollowsTheRule(u)
<1>1. RuleInv /\ TreeShape /\ [OrgNext]_orgVars => RuleInv' /\ [Follows]_orgVars
  BY RuleStep
<1>2. [Follows]_orgVars =>
        [ \A u \in accounts' :
            \/ u \in accounts /\ position'[u] = position[u] /\ manager'[u] = manager[u]
            \/ manager'[u] = u
            \/ /\ ReportsUpwards(u)'
               /\ position'[u] # Null /\ manager'[u] # Null => manager'[u] \in enabled' ]_orgVars
  BY DEF FollowsTheRule
<1> HIDE DEF Follows
<1> QED BY RuleInit, TreeKeepsShape, <1>1, <1>2, PTL DEF OrgSpec, ChangesFollowTheRule

-----------------------------------------------------------------------------
(* The types, however the requests overlap.                                 *)

\* A walk stands on a position and has turns left, and a new user's manager is
\* named or none, and the role named.
Walks(r) ==
  /\ r.pc \in {"manager", "climb"} => r.cursor # Null
  /\ r.pc = "climb" => r.guard # 0
  /\ r.op = "create" => r.newMgr # Keep /\ r.newRole # Keep

TypeInv ==
  /\ manager \in [Users -> accounts \cup {Null}]
  /\ role \in [Users -> Roles \cup {Null}] /\ granted \in SUBSET (Roles \ Superusers)
  /\ ureq \in [UserSlots -> UserRequests]
  /\ ustarted \in 0..MaxUserRequests
  /\ \A s \in UserSlots : Walks(ureq[s])

LEMMA NothingLoadedTyped == NothingLoaded \in [Positions -> PositionRow \cup {Null}]
  BY DEF NothingLoaded

LEMMA UserIdleTyped == UserIdle \in UserRequests /\ Walks(UserIdle)
  BY UserAssumption, NothingLoadedTyped DEF UserIdle, UserRequests, Walks

LEMMA SeenTyped ==
  ASSUME TreeShape, NEW r \in UserRequests, NEW p \in Positions
  PROVE  Seen(r, p) \in PositionRow
<1>1. r.view \in [Positions -> PositionRow \cup {Null}]
  BY DEF UserRequests
<1>2. parent[p] \in Positions \cup {Null}
  BY DEF TreeShape
<1> QED BY <1>1, <1>2 DEF Seen, PositionRow

LEMMA RememberTyped ==
  ASSUME TreeShape, NEW r \in UserRequests, NEW p \in Positions \cup {Null}
  PROVE  Remember(r, p) \in [Positions -> PositionRow \cup {Null}]
<1>1. r.view \in [Positions -> PositionRow \cup {Null}]
  BY DEF UserRequests
<1>2. CASE p = Null
  BY <1>1, <1>2 DEF Remember
<1>3. CASE p # Null
  <2> DEFINE row == Seen(r, p)
  <2>1. row \in PositionRow
    BY <1>3, SeenTyped
  <2> HIDE DEF row
  <2>2. Remember(r, p) = [r.view EXCEPT ![p] = row]
    BY <1>3 DEF Remember, row
  <2> QED BY <1>1, <2>1, <2>2
<1> QED BY <1>2, <1>3

\* What a load fills in; one field at a time.
LEMMA LoadsTyped ==
  ASSUME NEW r \in UserRequests
  PROVE  /\ [r EXCEPT !.pc = "load"] \in UserRequests
         /\ \A u \in Users : [r EXCEPT !.actor = u] \in UserRequests
         /\ \A p \in Positions \cup {Null} : /\ [r EXCEPT !.actorPos = p] \in UserRequests
                                             /\ [r EXCEPT !.oldPos = p] \in UserRequests
         /\ \A m \in Users \cup {Null} : [r EXCEPT !.oldMgr = m] \in UserRequests
         /\ \A g \in Roles \cup {Null} : [r EXCEPT !.oldRole = g] \in UserRequests
         /\ \A on \in BOOLEAN : [r EXCEPT !.oldActive = on] \in UserRequests
         /\ \A v \in [Positions -> PositionRow \cup {Null}] :
              [r EXCEPT !.view = v] \in UserRequests
<1>1. /\ [r EXCEPT !.pc = "load"] \in UserRequests
      /\ \A u \in Users : [r EXCEPT !.actor = u] \in UserRequests
  BY DEF UserRequests
<1>2. /\ \A p \in Positions \cup {Null} : [r EXCEPT !.actorPos = p] \in UserRequests
      /\ \A p \in Positions \cup {Null} : [r EXCEPT !.oldPos = p] \in UserRequests
  BY DEF UserRequests
<1>3. \A m \in Users \cup {Null} : [r EXCEPT !.oldMgr = m] \in UserRequests
  BY DEF UserRequests
<1>4. \A g \in Roles \cup {Null} : [r EXCEPT !.oldRole = g] \in UserRequests
  BY DEF UserRequests
<1>5. \A on \in BOOLEAN : [r EXCEPT !.oldActive = on] \in UserRequests
  BY DEF UserRequests
<1>6. \A v \in [Positions -> PositionRow \cup {Null}] : [r EXCEPT !.view = v] \in UserRequests
  BY DEF UserRequests
<1> QED BY <1>1, <1>2, <1>3, <1>4, <1>5, <1>6

LEMMA LoadTargetTyped ==
  ASSUME TreeShape, HoldersInv, manager \in [Users -> accounts \cup {Null}],
         role \in [Users -> Roles \cup {Null}],
         NEW r \in UserRequests, r.target \in Users
  PROVE  LoadTarget(r) \in UserRequests
<1> DEFINE v == Remember(r, position[r.target])
           p == position[r.target]
           m == manager[r.target]
           g == role[r.target]
           on == r.target \in enabled
<1>1. /\ p \in Positions \cup {Null} /\ m \in Users \cup {Null}
      /\ g \in Roles \cup {Null} /\ on \in BOOLEAN
  BY DEF HoldersInv, TreeShape
<1>2. v \in [Positions -> PositionRow \cup {Null}]
  BY <1>1, RememberTyped
<1>3. LoadTarget(r) = [r EXCEPT !.oldPos = p, !.oldMgr = m, !.oldRole = g, !.oldActive = on,
                                !.view = v]
  BY DEF LoadTarget
<1> HIDE DEF v, p, m, g, on
<1>4. [r EXCEPT !.oldPos = p] \in UserRequests
  BY <1>1, LoadsTyped
<1>5. [r EXCEPT !.oldPos = p, !.oldMgr = m] \in UserRequests
  BY <1>1, <1>4, LoadsTyped
<1>6. [r EXCEPT !.oldPos = p, !.oldMgr = m, !.oldRole = g] \in UserRequests
  BY <1>1, <1>5, LoadsTyped
<1>7. [r EXCEPT !.oldPos = p, !.oldMgr = m, !.oldRole = g, !.oldActive = on] \in UserRequests
  BY <1>1, <1>6, LoadsTyped
<1> QED BY <1>2, <1>3, <1>7, LoadsTyped

LEMMA SentTyped ==
  ASSUME TreeShape, HoldersInv, manager \in [Users -> accounts \cup {Null}],
         role \in [Users -> Roles \cup {Null}], NEW a \in Users, NEW r \in UserRequests, r.target \in Users
  PROVE  Sent(a, r) \in UserRequests
<1> DEFINE v == Remember(r, position[a])
           p == position[a]
           auth == [r EXCEPT !.pc = "load", !.actor = a, !.actorPos = p, !.view = v]
<1>1. p \in Positions \cup {Null}
  BY DEF HoldersInv, TreeShape
<1>2. v \in [Positions -> PositionRow \cup {Null}]
  BY <1>1, RememberTyped
<1>3. Sent(a, r) = IF r.target = a THEN LoadTarget(auth) ELSE auth
  BY DEF Sent
<1> HIDE DEF v, p
<1>4. auth \in UserRequests
  <2>1. [r EXCEPT !.pc = "load", !.actor = a] \in UserRequests
    BY LoadsTyped
  <2>2. [r EXCEPT !.pc = "load", !.actor = a, !.actorPos = p] \in UserRequests
    BY <1>1, <2>1, LoadsTyped
  <2> QED BY <1>2, <2>2, LoadsTyped
<1>5. auth.target = r.target
  BY DEF UserRequests
<1> HIDE DEF auth
<1> QED BY <1>3, <1>4, <1>5, LoadTargetTyped

\* r is what slot s turns into; what a start adds is a number below the bound.
LEMMA GotoKeepsTypes ==
  ASSUME TypeInv, NEW s \in UserSlots, NEW r \in UserRequests, Walks(r),
         ureq' = [ureq EXCEPT ![s] = r], UNCHANGED <<accounts, manager, role, granted>>,
         ustarted' \in 0..MaxUserRequests
  PROVE  TypeInv'
<1>1. ureq' \in [UserSlots -> UserRequests] /\ \A t \in UserSlots : Walks(ureq'[t])
  BY DEF TypeInv
<1> QED BY <1>1 DEF TypeInv, Walks, UserRequests, PositionRow

\* What a client sends is a request; one field at a time.
LEMMA FieldsTyped ==
  ASSUME NEW r \in UserRequests
  PROVE  /\ \A op \in {"create", "update", "delete", "activate"} :
              [r EXCEPT !.op = op] \in UserRequests
         /\ \A u \in Users : [r EXCEPT !.target = u] \in UserRequests
         /\ \A p \in Positions \cup {Null, Keep} : [r EXCEPT !.newPos = p] \in UserRequests
         /\ \A m \in Users \cup {Null, Keep} : [r EXCEPT !.newMgr = m] \in UserRequests
         /\ \A g \in Roles \cup {Keep} : [r EXCEPT !.newRole = g] \in UserRequests
         /\ \A on \in {"keep", "on", "off"} : [r EXCEPT !.setActive = on] \in UserRequests
<1>1. \A op \in {"create", "update", "delete", "activate"} :
        [r EXCEPT !.op = op] \in UserRequests
  BY DEF UserRequests
<1>2. \A u \in Users : [r EXCEPT !.target = u] \in UserRequests
  BY DEF UserRequests
<1>3. \A p \in Positions \cup {Null, Keep} : [r EXCEPT !.newPos = p] \in UserRequests
  BY DEF UserRequests
<1>4. \A m \in Users \cup {Null, Keep} : [r EXCEPT !.newMgr = m] \in UserRequests
  BY DEF UserRequests
<1>5. \A on \in {"keep", "on", "off"} : [r EXCEPT !.setActive = on] \in UserRequests
  BY DEF UserRequests
<1>6. \A g \in Roles \cup {Keep} : [r EXCEPT !.newRole = g] \in UserRequests
  BY DEF UserRequests
<1> QED BY <1>1, <1>2, <1>3, <1>4, <1>5, <1>6

LEMMA PayloadTyped ==
  ASSUME NEW r \in UserRequests, NEW u \in Users,
         NEW op \in {"create", "update", "delete", "activate"},
         NEW on \in {"keep", "on", "off"}
  PROVE  [r EXCEPT !.op = op, !.target = u, !.setActive = on] \in UserRequests
<1>1. [r EXCEPT !.op = op] \in UserRequests
  BY FieldsTyped
<1>2. [r EXCEPT !.op = op, !.target = u] \in UserRequests
  BY <1>1, FieldsTyped
<1> QED BY <1>2, FieldsTyped

LEMMA StartKeepsTypes ==
  ASSUME TreeShape, HoldersInv, TypeInv, NEW s \in UserSlots, StartUserRequest(s)
  PROVE  TypeInv'
<1>0. UserIdle \in UserRequests
  BY UserIdleTyped
<1>1. PICK a \in Administrators, u \in Users :
        \/ \E p \in Positions \cup {Null}, m \in Users \cup {Null}, g \in Roles,
              on \in {"on", "off"} : StartCreateUser(s, a, u, p, m, g, on)
        \/ \E p \in Positions \cup {Null, Keep}, m \in Users \cup {Null, Keep},
              g \in Roles \cup {Keep}, on \in {"keep", "on", "off"} :
                StartUpdateUser(s, a, u, p, m, g, on)
        \/ StartDeleteUser(s, a, u)
        \/ StartActivateUser(s, a, u)
  BY DEF StartUserRequest
<1> DEFINE Fits(r) == /\ r.target = u /\ DOMAIN r = UserFields
                      /\ r.op = "create" => r.newMgr # Keep /\ r.newRole # Keep
<1>2. \E r \in UserRequests : StartUser(s, a, r) /\ Fits(r)
  <2>1. CASE \E p \in Positions \cup {Null}, m \in Users \cup {Null}, g \in Roles,
                on \in {"on", "off"} : StartCreateUser(s, a, u, p, m, g, on)
    <3>1. PICK p \in Positions \cup {Null}, m \in Users \cup {Null}, g \in Roles,
               on \in {"on", "off"} : StartCreateUser(s, a, u, p, m, g, on)
      BY <2>1
    <3> DEFINE q == [UserIdle EXCEPT !.op = "create", !.target = u, !.newPos = p,
                                     !.newMgr = m, !.newRole = g, !.setActive = on]
    <3>2. StartUser(s, a, q)
      BY <3>1, Zenon DEF StartCreateUser
    <3>3. q \in UserRequests
      <4>1. [UserIdle EXCEPT !.op = "create", !.target = u] \in UserRequests
        BY <1>0, FieldsTyped
      <4>2. [UserIdle EXCEPT !.op = "create", !.target = u, !.newPos = p] \in UserRequests
        BY <4>1, FieldsTyped
      <4>3. [UserIdle EXCEPT !.op = "create", !.target = u, !.newPos = p, !.newMgr = m]
              \in UserRequests
        BY <4>2, FieldsTyped
      <4>4. [UserIdle EXCEPT !.op = "create", !.target = u, !.newPos = p, !.newMgr = m,
                             !.newRole = g] \in UserRequests
        BY <4>3, FieldsTyped
      <4> QED BY <4>4, FieldsTyped
    <3>4. Fits(q)
      BY UserIdleFields, UserAssumption DEF UserFields
    <3> HIDE DEF q, Fits
    <3> QED BY <3>2, <3>3, <3>4
  <2>2. CASE \E p \in Positions \cup {Null, Keep}, m \in Users \cup {Null, Keep},
                g \in Roles \cup {Keep}, on \in {"keep", "on", "off"} :
                  StartUpdateUser(s, a, u, p, m, g, on)
    <3>1. PICK p \in Positions \cup {Null, Keep}, m \in Users \cup {Null, Keep},
               g \in Roles \cup {Keep}, on \in {"keep", "on", "off"} :
                 StartUpdateUser(s, a, u, p, m, g, on)
      BY <2>2
    <3> DEFINE q == [UserIdle EXCEPT !.op = "update", !.target = u, !.newPos = p,
                                     !.newMgr = m, !.newRole = g, !.setActive = on]
    <3>2. StartUser(s, a, q)
      BY <3>1 DEF StartUpdateUser
    <3>3. q \in UserRequests
      <4>1. [UserIdle EXCEPT !.op = "update", !.target = u] \in UserRequests
        BY <1>0, FieldsTyped
      <4>2. [UserIdle EXCEPT !.op = "update", !.target = u, !.newPos = p] \in UserRequests
        BY <4>1, FieldsTyped
      <4>3. [UserIdle EXCEPT !.op = "update", !.target = u, !.newPos = p, !.newMgr = m]
              \in UserRequests
        BY <4>2, FieldsTyped
      <4>4. [UserIdle EXCEPT !.op = "update", !.target = u, !.newPos = p, !.newMgr = m,
                             !.newRole = g] \in UserRequests
        BY <4>3, FieldsTyped
      <4> QED BY <4>4, FieldsTyped
    <3>4. Fits(q)
      BY UserIdleFields DEF UserFields
    <3> HIDE DEF q, Fits
    <3> QED BY <3>2, <3>3, <3>4
  <2>3. CASE StartDeleteUser(s, a, u)
    <3> DEFINE q == [UserIdle EXCEPT !.op = "delete", !.target = u, !.setActive = "off"]
    <3>1. StartUser(s, a, q)
      BY <2>3 DEF StartDeleteUser
    <3>2. q \in UserRequests
      BY <1>0, PayloadTyped
    <3>3. Fits(q)
      BY UserIdleFields DEF UserFields
    <3> HIDE DEF q, Fits
    <3> QED BY <3>1, <3>2, <3>3
  <2>4. CASE StartActivateUser(s, a, u)
    <3> DEFINE q == [UserIdle EXCEPT !.op = "activate", !.target = u, !.setActive = "on"]
    <3>1. StartUser(s, a, q)
      BY <2>4, ZenonT(40) DEF StartActivateUser
    <3>2. q \in UserRequests
      BY <1>0, PayloadTyped
    <3>3. Fits(q)
      BY UserIdleFields DEF UserFields
    <3> HIDE DEF q, Fits
    <3> QED BY <3>1, <3>2, <3>3
  <2> HIDE DEF Fits
  <2> QED BY <1>1, <2>1, <2>2, <2>3, <2>4
<1>3. PICK r \in UserRequests : StartUser(s, a, r) /\ Fits(r)
  BY <1>2
<1>4. /\ ureq' = [ureq EXCEPT ![s] = Sent(a, r)]
      /\ UNCHANGED <<accounts, manager, role, granted>>
      /\ ustarted < MaxUserRequests /\ ustarted' = ustarted + 1
  BY <1>3 DEF StartUserRequest, StartUser, Sent, userRows
<1>5. ustarted' \in 0..MaxUserRequests
  BY <1>4, UserAssumption DEF TypeInv
<1>6. a \in Users
  BY DEF Administrators, HoldersInv
<1>7. Sent(a, r) \in UserRequests
  BY <1>3, <1>6, SentTyped DEF TypeInv
<1>8. Sent(a, r).pc = "load" /\ Sent(a, r).op = r.op
  BY <1>3, SentFields
<1>9. Sent(a, r).newMgr = r.newMgr /\ Sent(a, r).newRole = r.newRole
  BY <1>3 DEF Sent, LoadTarget, UserFields
<1>10. Walks(Sent(a, r))
  BY <1>3, <1>8, <1>9 DEF Walks
<1> HIDE DEF Fits
<1> QED BY <1>4, <1>5, <1>7, <1>10, GotoKeepsTypes

\* A check rejects its request or passes it on with what it has read.
LEMMA ChecksKeepTypes ==
  ASSUME TreeShape, HoldersInv, TypeInv, NEW s \in UserSlots, Checks(s)
  PROVE  TypeInv'
<1> DEFINE r == ureq[s]
<1>1. r \in UserRequests /\ Walks(r)
  BY DEF TypeInv
<1> DEFINE Goes(d) == d \in UserRequests /\ Walks(d) /\ UserGoto(s, d)
<1>2. SUFFICES \E d : Goes(d)
  <2>1. PICK d : Goes(d)
    BY <1>2
  <2>2. /\ d \in UserRequests /\ Walks(d) /\ ureq' = [ureq EXCEPT ![s] = d]
        /\ UNCHANGED <<accounts, manager, role, granted>> /\ ustarted' \in 0..MaxUserRequests
    BY <2>1 DEF UserGoto, userRows, TypeInv
  <2> QED BY <2>2, GotoKeepsTypes
<1>3. UserReject(s) => Goes(UserIdle)
  BY UserIdleTyped DEF UserReject
<1>4. AfterLoad(r) \in {"position", "reports", "write"}
  BY DEF AfterLoad
<1>5. ASSUME NEW l \in UserRequests, l.op = r.op, l.newMgr = r.newMgr, l.newRole = r.newRole,
             UserGoto(s, [l EXCEPT !.pc = AfterLoad(l)])
      PROVE  Goes([l EXCEPT !.pc = AfterLoad(l)])
  <2>1. AfterLoad(l) \in {"position", "reports", "write"}
    BY DEF AfterLoad
  <2> QED BY <1>1, <1>5, <2>1 DEF Walks, UserRequests
<1>6. CASE LoadForCreate(s)
  <2> HIDE DEF Goes
  <2> QED BY <1>1, <1>3, <1>5, <1>6 DEF LoadForCreate
<1>7. CASE LoadUser(s)
  <2> DEFINE l == IF r.target = r.actor THEN r ELSE LoadTarget(r)
  <2>1. r.target \in Users
    BY <1>7 DEF LoadUser, HoldersInv
  <2>2. l \in UserRequests
    BY <1>1, <2>1, LoadTargetTyped DEF TypeInv
  <2>3. l.op = r.op /\ l.newMgr = r.newMgr /\ l.newRole = r.newRole
    BY <1>1 DEF LoadTarget, UserRequests
  <2>4. UserReject(s) \/ UserGoto(s, [l EXCEPT !.pc = AfterLoad(l)])
    BY <1>7 DEF LoadUser
  <2> HIDE DEF l, Goes
  <2> QED BY <1>3, <1>5, <2>2, <2>3, <2>4
<1>8. CASE CheckPosition(s)
  <2> DEFINE p == NewPos(r)
             row == Seen(r, p)
             v == Remember(r, p)
             d == [r EXCEPT !.view = v, !.cursor = row.parent,
                            !.pc = IF row.parent = Null THEN "write" ELSE "manager"]
  <2>1. UserReject(s) \/ (p \in exists /\ UserGoto(s, d))
    BY <1>8 DEF CheckPosition
  <2>2. ASSUME p \in exists
        PROVE  d \in UserRequests /\ Walks(d)
    <3>1. p \in Positions
      BY <2>2 DEF TreeShape
    <3>2. row \in PositionRow
      BY <1>1, <3>1, SeenTyped
    <3>3. v \in [Positions -> PositionRow \cup {Null}]
      BY <1>1, <3>1, RememberTyped
    <3>4. row.parent \in Positions \cup {Null}
      BY <3>2 DEF PositionRow
    <3> DEFINE c == row.parent
               to == IF c = Null THEN "write" ELSE "manager"
    <3>5. c \in Positions \cup {Null} /\ to \in {"write", "manager"}
      BY <3>4
    <3>6. (to = "manager" => c # Null) /\ d = [r EXCEPT !.view = v, !.cursor = c, !.pc = to]
      OBVIOUS
    <3> HIDE DEF row, v, p, c, to, d
    <3>7. d \in UserRequests
      BY <1>1, <3>3, <3>5, <3>6 DEF UserRequests
    <3>8. /\ d.pc = to /\ d.cursor = c /\ d.op = r.op /\ d.newMgr = r.newMgr
          /\ d.newRole = r.newRole
      BY <1>1, <3>6 DEF UserRequests
    <3> QED BY <1>1, <3>5, <3>6, <3>7, <3>8 DEF Walks
  <2> HIDE DEF d
  <2> QED BY <1>3, <2>1, <2>2
<1>9. CASE CheckManager(s)
  <2> DEFINE p == ManagerRow(r).pos
             v == Remember(r, p)
             d == [r EXCEPT !.mgrPos = p, !.view = v, !.guard = WalkGuard, !.pc = "climb"]
  <2>1. r.pc = "manager" /\ (UserReject(s) \/ (NewMgr(r) \in accounts /\ UserGoto(s, d)))
    BY <1>9 DEF CheckManager
  <2>2. ASSUME NewMgr(r) \in accounts
        PROVE  d \in UserRequests /\ Walks(d)
    <3>1. position[NewMgr(r)] \in Positions \cup {Null}
      BY <2>2 DEF HoldersInv, TreeShape
    <3>2. p \in {r.oldPos, r.actorPos, position[NewMgr(r)]}
      BY DEF ManagerRow
    <3>3. p \in Positions \cup {Null}
      BY <1>1, <3>1, <3>2 DEF UserRequests
    <3>4. v \in [Positions -> PositionRow \cup {Null}]
      BY <1>1, <3>3, RememberTyped
    <3> HIDE DEF v, p
    <3>5. d \in UserRequests
      <4> DEFINE q == [r EXCEPT !.mgrPos = p, !.view = v]
      <4>1. q \in UserRequests
        BY <1>1, <3>3, <3>4 DEF UserRequests
      <4>2. WalkGuard \in 0..WalkGuard
        BY UserAssumption
      <4> HIDE DEF q
      <4>3. [q EXCEPT !.guard = WalkGuard, !.pc = "climb"] \in UserRequests
        BY <4>1, <4>2 DEF UserRequests
      <4> QED BY <4>3 DEF q
    <3>6. /\ d.pc = "climb" /\ d.cursor = r.cursor /\ d.guard = WalkGuard
          /\ d.op = r.op /\ d.newMgr = r.newMgr /\ d.newRole = r.newRole
      BY <1>1 DEF UserRequests
    <3> HIDE DEF d
    <3> QED BY <1>1, <2>1, <3>5, <3>6, UserAssumption DEF Walks
  <2> HIDE DEF d
  <2> QED BY <1>3, <2>1, <2>2
<1>10. CASE ClimbAncestors(s)
  <2> DEFINE row == Seen(r, r.cursor)
             above == r.above \cup {r.cursor}
             last == row.parent = Null \/ r.guard = 1
             d == [r EXCEPT !.above = above, !.cursor = row.parent, !.guard = @ - 1,
                            !.pc = IF last THEN "write" ELSE "climb"]
  <2>1. r.pc = "climb" /\ (UserReject(s) \/ UserGoto(s, d))
    BY <1>10 DEF ClimbAncestors
  <2>2. r.cursor \in Positions /\ r.guard \in 1..WalkGuard /\ r.above \in SUBSET Positions
    BY <1>1, <2>1, UserAssumption DEF Walks, UserRequests
  <2>3. row \in PositionRow
    BY <1>1, <2>2, SeenTyped
  <2>4. row.parent \in Positions \cup {Null}
    BY <2>3 DEF PositionRow
  <2>5. r.guard - 1 \in 0..WalkGuard /\ (r.guard # 1 => r.guard - 1 # 0)
    BY <2>2, UserAssumption
  <2>6. above \in SUBSET Positions
    BY <2>2
  <2>7. d \in UserRequests /\ Walks(d)
    <3> DEFINE c == row.parent
               g == r.guard - 1
               to == IF last THEN "write" ELSE "climb"
    <3>1. /\ to \in {"write", "climb"} /\ (to = "climb" => c # Null /\ g # 0)
          /\ c \in Positions \cup {Null} /\ g \in 0..WalkGuard
      BY <2>4, <2>5
    <3>2. d = [r EXCEPT !.above = above, !.cursor = c, !.guard = g, !.pc = to]
      BY <1>1 DEF UserRequests
    <3> HIDE DEF row, above, c, g, to, d, last
    <3>3. d \in UserRequests
      BY <1>1, <2>6, <3>1, <3>2 DEF UserRequests
    <3>4. /\ d.pc = to /\ d.cursor = c /\ d.guard = g /\ d.op = r.op /\ d.newMgr = r.newMgr
          /\ d.newRole = r.newRole
      BY <1>1, <3>2 DEF UserRequests
    <3> QED BY <1>1, <3>1, <3>3, <3>4 DEF Walks
  <2> HIDE DEF d
  <2> QED BY <1>3, <2>1, <2>7
<1>11. CASE CheckReports(s)
  <2> DEFINE d == [r EXCEPT !.pc = "write"]
  <2>1. UserReject(s) \/ UserGoto(s, d)
    BY <1>11 DEF CheckReports
  <2>2. d \in UserRequests /\ Walks(d)
    BY <1>1 DEF Walks, UserRequests
  <2> QED BY <1>3, <2>1, <2>2
<1> HIDE DEF Goes
<1> QED BY <1>6, <1>7, <1>8, <1>9, <1>10, <1>11 DEF Checks

LEMMA CommitKeepsTypes ==
  ASSUME HoldersInv, TypeInv, NEW s \in UserSlots, CommitUser(s) \/ CommitNewUser(s)
  PROVE  TypeInv'
<1> DEFINE r == ureq[s]
<1>1. r \in UserRequests /\ Walks(r) /\ r.pc = "write" /\ r.target \in Users
  BY DEF TypeInv, HoldersInv, CommitUser, CommitNewUser
<1>2. /\ ureq' \in [UserSlots -> UserRequests]
      /\ \A t \in UserSlots : Walks(ureq'[t])
      /\ UNCHANGED ustarted
  <2>1. ureq' = [ureq EXCEPT ![s] = UserIdle] /\ UNCHANGED ustarted
    BY DEF CommitUser, CommitNewUser
  <2> QED BY <2>1, UserIdleTyped DEF TypeInv
<1>3. manager' \in [Users -> accounts' \cup {Null}]
  <2>1. CASE CommitUser(s)
    <3>1. NewMgr(r) # r.oldMgr => NewMgr(r) \in accounts \cup {Null}
      BY <2>1 DEF CommitUser, ForeignKeys, NewMgr
    <3> QED BY <1>1, <2>1, <3>1 DEF CommitUser, TypeInv
  <2>2. CASE CommitNewUser(s)
    <3>1. r.newMgr \in accounts' \cup {Null} /\ accounts \subseteq accounts'
      BY <1>1, <2>2 DEF CommitNewUser, ForeignKeys, Walks
    <3> QED BY <1>1, <2>2, <3>1 DEF CommitNewUser, TypeInv
  <2> QED BY <2>1, <2>2
<1>4. role' \in [Users -> Roles \cup {Null}] /\ UNCHANGED granted
  <2>1. NewRole(r) # r.oldRole => NewRole(r) \in Roles
    BY <1>1 DEF NewRole, UserRequests
  <2>2. r.op = "create" => r.newRole \in Roles
    BY <1>1 DEF Walks, UserRequests
  <2> QED BY <1>1, <2>1, <2>2 DEF CommitUser, CommitNewUser, TypeInv
<1> QED BY <1>2, <1>3, <1>4 DEF TypeInv, Walks, UserRequests, PositionRow

LEMMA TypesStep ==
  ASSUME TreeShape, HoldersInv, TypeInv, [OrgNext]_orgVars
  PROVE  TypeInv'
<1>1. ASSUME UNCHANGED userVars
      PROVE  TypeInv'
  BY <1>1 DEF userVars, userRows, TypeInv, Walks, UserRequests, PositionRow
<1>2. ASSUME NEW s \in UserSlots, UserStep(s)
      PROVE  TypeInv'
  <2>1. ASSUME UserAbort(s)
        PROVE  TypeInv'
    <3>1. /\ ureq' = [ureq EXCEPT ![s] = UserIdle]
          /\ UNCHANGED <<accounts, manager, role, granted>>
          /\ ustarted' \in 0..MaxUserRequests
      BY <2>1 DEF UserAbort, UserReject, UserGoto, userRows, TypeInv
    <3> QED BY <3>1, UserIdleTyped, GotoKeepsTypes
  <2> QED
    BY <1>2, <2>1, StartKeepsTypes, ChecksKeepTypes, CommitKeepsTypes
       DEF UserStep, UserProceed, Checks
<1>3. CASE ChangeGrants
  <2>1. granted' \in SUBSET (Roles \ Superusers) /\ ustarted' \in 0..MaxUserRequests
    BY <1>3, UserAssumption DEF ChangeGrants, TypeInv
  <2>2. UNCHANGED <<accounts, manager, role, ureq>>
    BY <1>3 DEF ChangeGrants
  <2> QED BY <2>1, <2>2 DEF TypeInv, Walks, UserRequests, PositionRow
<1> QED BY <1>1, <1>2, <1>3, TreeKeepsRows DEF OrgNext, orgVars

LEMMA TypesInit == OrgInit => TypeInv
  BY UserIdleTyped, UserAssumption DEF OrgInit, TypeInv

\* Whatever requests overlap, accounts hold positions that have a row and report
\* to accounts that have one, and a request has of the rows it has loaded what
\* they can hold (the foreign keys of user.py, and user_service.py).
THEOREM OrgTypes == OrgSpec => []OrgTypeOK
<1>1. OrgSpec => []Tree!TypeOK
  <2>1. TreeProofs!Spec => []TreeProofs!TypeOK
    BY TreeAssumptions, TreeProofs!TypeCorrect, PTL
  <2>2. TreeProofs!TypeOK => Tree!TypeOK
    BY DEF TreeProofs!TypeOK, Tree!TypeOK, TreeProofs!Requests, Tree!Requests
  <2> QED BY <2>1, <2>2, OrgImplementsTree, SameTree, PTL
<1>2. HoldersInv /\ [OrgNext]_orgVars => HoldersInv'
  BY HoldersStep
<1>3. TreeShape /\ HoldersInv /\ TypeInv /\ [OrgNext]_orgVars => TypeInv'
  BY TypesStep
<1>4. HoldersInv /\ TypeInv /\ Tree!TypeOK => OrgTypeOK
  BY DEF HoldersInv, TypeInv, OrgTypeOK
<1> QED
  BY <1>1, <1>2, <1>3, <1>4, HoldersInit, TypesInit, TreeKeepsShape, PTL DEF OrgSpec

-----------------------------------------------------------------------------
(* The users page.                                                          *)

CallFields == {"id", "op", "row", "form", "opened", "filter", "served", "at", "rows", "ok"}

\* Between two answers: a dialog that no icon opened has the form it was opened
\* with, which a list can close but not exchange; the calls keep what they were
\* sent with.
Records ==
  /\ DOMAIN form = {"of", "dirty", "active"}
  /\ \A c \in calls : DOMAIN c = CallFields

RowDialogs == opened = "row" /\ selected # Null => form.of = selected

NewDialogs == creating => opened = "row" /\ selected = Null /\ form.of = Null

FormInv ==
  /\ Records
  /\ RowDialogs
  /\ NewDialogs
  /\ ForeignFormNeedsIcon
  /\ SelectedIsListed

Saves == {"create", "update"}

LEMMA FormInit == Init => FormInv
  BY DEF Init, FormInv, Records, CallFields, EmptyForm, RowDialogs, NewDialogs,
         ForeignFormNeedsIcon, SelectedIsListed, InFlight

-----------------------------------------------------------------------------
\* The calls a click or a callback sends.
LEMMA FreshCalls ==
  ASSUME NEW op, NEW i, NEW f
  PROVE  /\ DOMAIN Call(op, i) = CallFields
         /\ Call(op, i).op = op
         /\ DOMAIN ListCall(f) = CallFields
         /\ ListCall(f).op = "list"
<1>1. DOMAIN Call(op, i) = CallFields /\ Call(op, i).op = op
  BY DEF Call, CallFields
<1>2. DOMAIN Call("list", Null) = CallFields /\ Call("list", Null).op = "list"
  BY DEF Call, CallFields
<1>3. QED
  BY <1>1, <1>2 DEF ListCall, CallFields

LEMMA FreshSave ==
  /\ DOMAIN SaveCall = CallFields
  /\ SaveCall.op \in Saves
  /\ SaveCall.row = selected /\ SaveCall.form = form /\ SaveCall.opened = opened
<1> DEFINE op == IF creating THEN "create" ELSE "update"
<1>1. /\ DOMAIN Call(op, selected) = CallFields
      /\ Call(op, selected).op = op /\ Call(op, selected).row = selected
  BY DEF Call, CallFields
<1>2. op \in Saves
  BY DEF Saves
<1> HIDE DEF op
<1>3. SaveCall = [Call(op, selected) EXCEPT !.form = form, !.opened = opened]
  BY DEF SaveCall, op
<1>4. QED
  BY <1>1, <1>2, <1>3 DEF CallFields

\* A step that sends no save leaves the calls as they should be.
LEMMA NoNewSave ==
  ASSUME FormInv,
         \A d \in calls' \ calls : DOMAIN d = CallFields /\ d.op \notin Saves
  PROVE  /\ \A c \in calls' : DOMAIN c = CallFields
         /\ ForeignFormNeedsIcon'
  BY DEF FormInv, Records, ForeignFormNeedsIcon, InFlight, Saves

\* Such a step preserves the invariant if it leaves the dialog and the table.
LEMMA QuietStep ==
  ASSUME FormInv, UNCHANGED <<dialog, shown>>,
         \A d \in calls' \ calls : DOMAIN d = CallFields /\ d.op \notin Saves
  PROVE  FormInv'
  BY NoNewSave DEF FormInv, Records, RowDialogs, NewDialogs, SelectedIsListed, Items,
                   dialog

\* Or if it closes the dialog.
LEMMA ClosingStep ==
  ASSUME FormInv, Closed,
         \A d \in calls' \ calls : DOMAIN d = CallFields /\ d.op \notin Saves
  PROVE  FormInv'
  BY NoNewSave DEF FormInv, Records, RowDialogs, NewDialogs, SelectedIsListed, Closed,
                   EmptyForm

-----------------------------------------------------------------------------
\* The server writes into a call what it saw or did, never what it is about.
LEMMA ServedCall ==
  ASSUME FormInv, NEW c \in calls, NEW d, Replace(c, d), UNCHANGED client,
         DOMAIN d = CallFields, d.op = c.op, d.row = c.row, d.form = c.form,
         d.opened = c.opened
  PROVE  FormInv'
<1>1. Records' /\ ForeignFormNeedsIcon'
  BY DEF FormInv, Replace, client, dialog, Records, ForeignFormNeedsIcon, InFlight
<1>2. QED
  BY <1>1 DEF FormInv, client, dialog, list, RowDialogs, NewDialogs, SelectedIsListed,
              Items

LEMMA ServeStep ==
  ASSUME FormInv, NEW c \in calls, Serve(c)
  PROVE  FormInv'
<1>0. DOMAIN c = CallFields
  BY DEF FormInv, Records
<1>1. CASE ServeList(c)
  <2> DEFINE d == [c EXCEPT !.served = TRUE, !.at = version,
                          !.rows = [i \in Ids |->
                            IF i \in c.filter.others /\ rows[i] = Queried(c.filter.status)
                              THEN rows[i] ELSE "none"]]
  <2>1. /\ DOMAIN d = CallFields /\ d.op = c.op /\ d.row = c.row
        /\ d.form = c.form /\ d.opened = c.opened
    BY <1>0 DEF CallFields
  <2>2. Replace(c, d) /\ UNCHANGED client
    BY <1>1 DEF ServeList
  <2>3. QED
    BY <2>1, <2>2, ServedCall
<1>2. ASSUME NEW i, NEW state, Commit(c, i, state)
      PROVE  FormInv'
  <2> DEFINE d == [c EXCEPT !.served = TRUE, !.at = version + 1]
  <2>1. /\ DOMAIN d = CallFields /\ d.op = c.op /\ d.row = c.row
        /\ d.form = c.form /\ d.opened = c.opened
    BY <1>0 DEF CallFields
  <2>2. Replace(c, d) /\ UNCHANGED client
    BY <1>2 DEF Commit
  <2>3. QED
    BY <2>1, <2>2, ServedCall
<1>3. CASE ServeOther(c)
  <2> DEFINE d == [c EXCEPT !.served = TRUE]
  <2>1. /\ DOMAIN d = CallFields /\ d.op = c.op /\ d.row = c.row
        /\ d.form = c.form /\ d.opened = c.opened
    BY <1>0 DEF CallFields
  <2>2. Replace(c, d) /\ UNCHANGED client
    BY <1>3 DEF ServeOther
  <2>3. QED
    BY <2>1, <2>2, ServedCall
<1>4. CASE Fail(c)
  <2> DEFINE d == [c EXCEPT !.served = TRUE, !.ok = FALSE]
  <2>1. /\ DOMAIN d = CallFields /\ d.op = c.op /\ d.row = c.row
        /\ d.form = c.form /\ d.opened = c.opened
    BY <1>0 DEF CallFields
  <2>2. Replace(c, d) /\ UNCHANGED client
    BY <1>4 DEF Fail
  <2>3. QED
    BY <2>1, <2>2, ServedCall
<1>5. QED
  BY <1>1, <1>2, <1>3, <1>4 DEF Serve, ServeCreate, ServeChange

-----------------------------------------------------------------------------
LEMMA DeliverStep ==
  ASSUME FormInv, NEW c \in calls, Deliver(c)
  PROVE  FormInv'
<1>1. CASE DeliverList(c)
  <2>1. calls' = calls \ {c} /\ UNCHANGED <<form, opened>>
    BY <1>1 DEF DeliverList
  <2>2. Records' /\ ForeignFormNeedsIcon'
    BY <2>1 DEF FormInv, Records, ForeignFormNeedsIcon, InFlight
  <2>3. selected' \in {selected, Null} /\ (creating' => creating /\ selected' = selected)
    BY <1>1 DEF DeliverList
  <2>4. RowDialogs' /\ NewDialogs'
    BY <2>1, <2>3 DEF FormInv, RowDialogs, NewDialogs
  <2>5. ASSUME selected' # Null, shown'.ok
        PROVE  selected' \in Items'
    <3>1. c.ok /\ shown'.rows = c.rows
      BY <1>1, <2>5 DEF DeliverList
    <3>2. \E i \in Ids : c.rows[i] # "none" /\ i = selected /\ selected' = selected
      BY <1>1, <2>5, <3>1 DEF DeliverList
    <3>3. QED
      BY <3>1, <3>2 DEF Items
  <2>6. QED
    BY <2>2, <2>4, <2>5 DEF FormInv, SelectedIsListed
<1>2. ASSUME Refetch(c)
      PROVE  \A d \in calls' \ calls : DOMAIN d = CallFields /\ d.op \notin Saves
  BY <1>2, FreshCalls DEF Refetch, Saves
<1>3. CASE DeliverSave(c)
  <2>1. UNCHANGED shown /\ (Closed \/ UNCHANGED dialog)
    BY <1>3 DEF DeliverSave
  <2>2. QED
    BY <1>2, <1>3, <2>1, QuietStep, ClosingStep DEF DeliverSave
<1>4. CASE DeliverChange(c)
  BY <1>2, <1>4, QuietStep DEF DeliverChange
<1>5. CASE DeliverPassword(c)
  BY <1>5, QuietStep DEF DeliverPassword, client, list
<1>6. CASE DeliverTeam(c)
  <2>1. UNCHANGED <<dialog, shown>>
    BY <1>6 DEF DeliverTeam, Reload, list
  <2>2. \A d \in calls' \ calls : DOMAIN d = CallFields /\ d.op \notin Saves
    BY <1>6, FreshCalls DEF DeliverTeam, Reload, Saves
  <2>3. QED
    BY <2>1, <2>2, QuietStep
<1>7. QED
  BY <1>1, <1>3, <1>4, <1>5, <1>6 DEF Deliver

-----------------------------------------------------------------------------
LEMMA ClickStep ==
  ASSUME FormInv, Click
  PROVE  FormInv'
<1> USE DEF list, history
<1>1. ASSUME UNCHANGED <<dialog, shown, calls>>
      PROVE  FormInv'
  BY <1>1, QuietStep
<1>2. ASSUME NEW op, NEW i, Send(Call(op, i)), op \notin Saves
      PROVE  \A d \in calls' \ calls : DOMAIN d = CallFields /\ d.op \notin Saves
  BY <1>2, FreshCalls DEF Send
<1>3. ASSUME NEW f \in Filters, SetFilter(f)
      PROVE  FormInv'
  <2>1. \A d \in calls' \ calls : DOMAIN d = CallFields /\ d.op \notin Saves
    BY <1>3, FreshCalls DEF SetFilter, Reload, Saves
  <2>2. QED
    BY <1>3, <2>1, QuietStep DEF SetFilter, Reload
<1>4. ASSUME NEW p, SetPage(p)
      PROVE  FormInv'
  BY <1>1, <1>4 DEF SetPage
<1>5. CASE StartCreate
  <2>1. selected' = Null
    BY <1>5 DEF StartCreate, PageFree, DialogOpen
  <2>2. form' = EmptyForm /\ opened' = "row" /\ calls' = calls
    BY <1>5 DEF StartCreate
  <2>3. Records' /\ ForeignFormNeedsIcon'
    BY <2>2, NoNewSave DEF FormInv, Records, EmptyForm
  <2>4. QED
    BY <2>1, <2>2, <2>3 DEF FormInv, RowDialogs, NewDialogs, SelectedIsListed, EmptyForm
<1>6. CASE Edit
  <2>1. DOMAIN form' = DOMAIN form /\ form'.of = form.of
    BY <1>6 DEF Edit, FormInv, Records
  <2>2. UNCHANGED <<selected, creating, opened, shown, calls>>
    BY <1>6 DEF Edit
  <2>3. Records' /\ ForeignFormNeedsIcon'
    BY <2>1, <2>2, NoNewSave DEF FormInv, Records
  <2>4. QED
    BY <2>1, <2>2, <2>3 DEF FormInv, RowDialogs, NewDialogs, SelectedIsListed, Items
<1>7. CASE CloseDialog
  BY <1>7, ClosingStep DEF CloseDialog
<1>8. CASE Save
  <2>1. calls' = calls \cup {SaveCall} /\ UNCHANGED <<dialog, shown>> /\ InDialog
    BY <1>8 DEF Save, Send
  <2>2. opened = "row" => form.of = selected
    BY <2>1 DEF FormInv, RowDialogs, NewDialogs, InDialog, DialogOpen
  <2>3. ForeignFormNeedsIcon'
    BY <2>1, <2>2, FreshSave DEF FormInv, ForeignFormNeedsIcon, InFlight
  <2>4. Records'
    BY <2>1, FreshSave DEF FormInv, Records, dialog
  <2>5. QED
    BY <2>1, <2>3, <2>4 DEF FormInv, RowDialogs, NewDialogs, SelectedIsListed, Items, dialog
<1>9. CASE CancelDelete \/ CancelPasswordReset \/ OpenAddTeam \/ CancelAddTeam
  BY <1>1, <1>9 DEF CancelDelete, CancelPasswordReset, OpenAddTeam, CancelAddTeam
<1>10. CASE ConfirmDelete
  BY <1>2, <1>10, QuietStep DEF ConfirmDelete, Saves
<1>11. CASE ApplyPasswordReset
  BY <1>2, <1>11, QuietStep DEF ApplyPasswordReset, Saves
<1>12. CASE SubmitAddTeam
  BY <1>2, <1>12, QuietStep DEF SubmitAddTeam, Saves
<1>13. ASSUME NEW i \in Ids, SelectUser(i)
       PROVE  FormInv'
  <2>1. /\ ~creating' /\ i \in Items' /\ selected' = i
        /\ DOMAIN form' = {"of", "dirty", "active"} /\ form'.of = i
        /\ UNCHANGED <<calls, shown>>
    BY <1>13 DEF SelectUser, Clickable, PageFree, DialogOpen, Items
  <2>2. Records' /\ ForeignFormNeedsIcon'
    BY <2>1, NoNewSave DEF FormInv, Records
  <2>3. QED
    BY <2>1, <2>2 DEF FormInv, RowDialogs, NewDialogs, SelectedIsListed
<1>14. ASSUME NEW i \in Ids, ResetIcon(i) \/ ReactivateIcon(i)
       PROVE  FormInv'
  <2>1. /\ ~creating' /\ i \in Items' /\ selected' = i /\ opened' = "icon"
        /\ UNCHANGED <<form, shown>>
    BY <1>14 DEF ResetIcon, ReactivateIcon, Clickable, PageFree, DialogOpen, Items
  <2>2. \A d \in calls' \ calls : DOMAIN d = CallFields /\ d.op \notin Saves
    BY <1>2, <1>14 DEF ResetIcon, ReactivateIcon, Saves
  <2>3. Records' /\ ForeignFormNeedsIcon'
    BY <2>1, <2>2, NoNewSave DEF FormInv, Records
  <2>4. QED
    BY <2>1, <2>3 DEF FormInv, RowDialogs, NewDialogs, SelectedIsListed
<1>15. ASSUME NEW i \in Ids, AskDelete(i) \/ OpenPasswordReset(i)
       PROVE  FormInv'
  BY <1>1, <1>15 DEF AskDelete, OpenPasswordReset
<1>16. ASSUME NEW i \in Ids, Reactivate(i)
       PROVE  FormInv'
  BY <1>2, <1>16, QuietStep DEF Reactivate, Saves
<1>17. QED
  BY <1>3, <1>4, <1>5, <1>6, <1>7, <1>8, <1>9, <1>10, <1>11, <1>12, <1>13, <1>14,
     <1>15, <1>16 DEF Click

-----------------------------------------------------------------------------
LEMMA FormInductive == Spec => []FormInv
<1>1. FormInv /\ [Next]_vars => FormInv'
  <2> SUFFICES ASSUME FormInv, [Next]_vars PROVE FormInv'
    OBVIOUS
  <2>1. CASE Click
    BY <2>1, ClickStep
  <2>2. CASE \E c \in calls : Serve(c) \/ Deliver(c)
    BY <2>2, ServeStep, DeliverStep
  <2>3. CASE UNCHANGED vars
    BY <2>3, QuietStep DEF vars, list
  <2>4. QED
    BY <2>1, <2>2, <2>3 DEF Next
<1>2. QED
  BY FormInit, <1>1, PTL DEF Spec

\* A dialog that a row opened saves the fields of that row's user, and one for a
\* new user none of another's, whatever is answered or fails while it is open
\* (selectUser, startCreate, save and fetch, users.component.ts:217-338).
THEOREM RowFormsSaveTheirRow == Spec => []ForeignFormNeedsIcon
<1>1. FormInv => ForeignFormNeedsIcon
  BY DEF FormInv
<1>2. QED
  BY <1>1, FormInductive, PTL

\* The user of an open dialog is listed unless the last list failed, so the
\* dialog can show who it is for (fetch, users.component.ts:217-234).
THEOREM DialogUserIsListed == Spec => []SelectedIsListed
<1>1. FormInv => SelectedIsListed
  BY DEF FormInv
<1>2. QED
  BY <1>1, FormInductive, PTL

-----------------------------------------------------------------------------
(* The pages of the table.                                                  *)

\* The last page holds the last item: n - 1 divided by s, plus one.
LEMMA LastPage ==
  ASSUME NEW n \in Nat \ {0}, NEW s \in Nat \ {0}
  PROVE  LET q == (n + s - 1) \div s IN q \in Nat \ {0} /\ (q - 1) * s < n
<1> DEFINE m == n + s - 1
           q == m \div s
<1>1. m \in Nat /\ m >= s
  OBVIOUS
<1>2. q \in Int /\ q * s <= m /\ m < (q + 1) * s
  <2> HIDE DEF m
  <2>1. QED
    BY <1>1, SMTT(60)
<1>3. q >= 1
  <2> HIDE DEF q
  <2>1. CASE q <= 0
    <3>1. (q + 1) * s <= s
      BY <1>2, <2>1, SMTT(60)
    <3>2. QED
      BY <3>1, <1>1, <1>2
  <2>2. QED
    BY <2>1, <1>2
<1>4. (q - 1) * s = q * s - s
  <2> HIDE DEF q
  <2>1. QED
    BY <1>2
<1>5. q * s \in Int
  BY <1>2
<1>6. QED
  BY <1>2, <1>3, <1>4, <1>5

LEMMA PagesOfItems ==
  ASSUME NEW n \in Nat \ {0}, NEW p \in Nat \ {0}
  PROVE  PageOf(n, p) # {} /\ Least(p, TotalPages(n)) \in Window(n, p)
<1> DEFINE t == TotalPages(n)
           l == Least(p, t)
<1>1. PageSize \in Nat \ {0}
  BY PageAssumption
<1>2. t \in Nat \ {0} /\ (t - 1) * PageSize < n
  BY <1>1, LastPage DEF TotalPages, Most
<1> HIDE DEF t
<1>3. l \in Nat \ {0} /\ l <= t /\ l <= p
  BY <1>2 DEF Least
<1>4. l \in Window(n, p)
  BY <1>2, <1>3 DEF Window, Least, Most, t
<1>5. PageOf(n, p) # {}
  <2> DEFINE first == (l - 1) * PageSize
  <2> HIDE DEF l
  <2>1. first \in Nat /\ first <= (t - 1) * PageSize
    BY <1>1, <1>2, <1>3, SMTT(60)
  <2>2. (t - 1) * PageSize \in Int
    BY <1>1, <1>2
  <2> HIDE DEF first
  <2>3. first + 1 \in (first + 1)..Least(first + PageSize, n)
    BY <1>1, <1>2, <2>1, <2>2 DEF Least
  <2>4. QED
    BY <2>3 DEF PageOf, first, l, t
<1>6. QED
  BY <1>4, <1>5 DEF l, t

LEMMA ItemsAreFinite == Cardinality(Items) \in Nat
  BY PageAssumption, FS_Subset, FS_CardinalityType DEF Items

\* page is a page number; it may lie beyond the last page.
PageNumber == page \in Nat \ {0}

\* A table with users shows some of them and a button that leads to them, on
\* any page and however the list has shrunk (pagedItems, paginationWindow,
\* users.component.ts:119-129, 200-215).
THEOREM PagesAreNeverEmpty == Spec => []PageShowsUsers
<1>1. Init => PageNumber
  BY DEF Init, PageNumber
<1>2. ASSUME PageNumber, [Next]_vars
      PROVE  PageNumber'
  <2>1. ASSUME NEW f, NEW rest, Reload(f, rest)
        PROVE  PageNumber'
    BY <2>1 DEF Reload, PageNumber
  <2>2. ASSUME NEW p \in 0..(page + Cardinality(Ids)), SetPage(p)
        PROVE  PageNumber'
    <3>1. TotalPages(Cardinality(Items)) \in Nat \ {0}
      BY <2>2, ItemsAreFinite, PageAssumption, LastPage DEF SetPage, TotalPages, Most
    <3>2. p \in Int
      OBVIOUS
    <3>3. page' = Most(1, Least(p, TotalPages(Cardinality(Items))))
      BY <2>2 DEF SetPage
    <3>4. QED
      BY <3>1, <3>2, <3>3 DEF PageNumber, Most, Least
  <2>3. ASSUME UNCHANGED page
        PROVE  PageNumber'
    BY <1>2, <2>3 DEF PageNumber
  <2>4. CASE Click
    BY <2>1, <2>2, <2>3, <2>4
       DEF Click, SetFilter, StartCreate, Edit, CloseDialog, Save, CancelDelete,
           ConfirmDelete, CancelPasswordReset, ApplyPasswordReset, OpenAddTeam,
           CancelAddTeam, SubmitAddTeam, SelectUser, ResetIcon, ReactivateIcon,
           AskDelete, Reactivate, OpenPasswordReset, list
  <2>5. ASSUME NEW c \in calls, Serve(c)
        PROVE  PageNumber'
    BY <2>3, <2>5 DEF Serve, ServeList, ServeCreate, ServeChange, ServeOther, Fail,
                      Commit, client, list
  <2>6. ASSUME NEW c \in calls, Deliver(c)
        PROVE  PageNumber'
    BY <2>1, <2>3, <2>6 DEF Deliver, DeliverList, DeliverSave, DeliverChange,
                            DeliverPassword, DeliverTeam, client, list
  <2>7. CASE UNCHANGED vars
    BY <2>3, <2>7 DEF vars, list
  <2>8. QED
    BY <1>2, <2>4, <2>5, <2>6, <2>7 DEF Next
<1>3. PageNumber => PageShowsUsers
  <2> SUFFICES ASSUME PageNumber, Cardinality(Items) > 0
               PROVE  LET n == Cardinality(Items)
                          p == Least(page, TotalPages(n))
                      IN  PageOf(n, page) # {} /\ p \in Window(n, page)
    BY DEF PageShowsUsers
  <2>1. QED
    BY ItemsAreFinite, PagesOfItems DEF PageNumber
<1>4. QED
  BY <1>1, <1>2, <1>3, PTL DEF Spec

-----------------------------------------------------------------------------
(* What the page shows when everything is answered.                         *)

\* What is numbered: no call and no answer knows a change that is not made yet.
Numbers ==
  /\ version \in Nat
  /\ acked \in Nat /\ acked <= version
  /\ \A c \in calls : c.at \in Nat /\ c.at <= version

\* In calm at most one list is on its way.  It is for the filters as they are
\* and, once read, knows the own changes that were answered; with none on its
\* way the list that is shown is such a list.
ListIsForTheFilters(c) ==
  /\ c.filter = filter
  /\ c.served /\ c.ok => c.at >= acked

ListsFollow ==
  /\ \A c, d \in InFlight("list") : c = d
  /\ \A c \in InFlight("list") : ListIsForTheFilters(c)
  /\ InFlight("list") = {} => shown.filter = filter /\ shown.at >= acked

ShownInv ==
  /\ Records
  /\ Numbers
  /\ calm => ListsFollow

LEMMA ShownInit == Init => ShownInv
<1> SUFFICES ASSUME Init PROVE ShownInv
  OBVIOUS
<1>1. PICK c : /\ calls = {c}
               /\ DOMAIN c = CallFields /\ c.op = "list" /\ c.filter = filter
               /\ c.served = FALSE /\ c.at = 0
  <2> DEFINE c == [id |-> 0, op |-> "list", row |-> Null, form |-> EmptyForm,
                   opened |-> "row", filter |-> filter, served |-> FALSE, at |-> 0,
                   rows |-> NoRows, ok |-> TRUE]
  <2>1. DOMAIN c = CallFields /\ c.op = "list" /\ c.filter = filter
        /\ c.served = FALSE /\ c.at = 0
    BY DEF CallFields
  <2>2. calls = {c}
    BY DEF Init
  <2> HIDE DEF c
  <2>3. QED
    BY <2>1, <2>2
<1>2. Records
  BY <1>1 DEF Init, Records, EmptyForm
<1>3. Numbers
  BY <1>1 DEF Init, Numbers
<1>4. ListsFollow
  BY <1>1 DEF ListsFollow, ListIsForTheFilters, InFlight
<1>5. QED
  BY <1>2, <1>3, <1>4 DEF ShownInv

LEMMA FreshNumbers ==
  ASSUME NEW op, NEW i, NEW f
  PROVE  /\ Call(op, i).at = 0 /\ Call(op, i).served = FALSE
         /\ ListCall(f).at = 0 /\ ListCall(f).served = FALSE
         /\ ListCall(f).filter = f
<1>1. /\ Call(op, i).at = 0 /\ Call(op, i).served = FALSE
      /\ Call("list", Null).at = 0 /\ Call("list", Null).served = FALSE
      /\ DOMAIN Call("list", Null) = CallFields
  BY DEF Call, CallFields
<1>2. QED
  BY <1>1 DEF ListCall, CallFields

LEMMA FreshSaveNumber == SaveCall.at = 0
<1> DEFINE op == IF creating THEN "create" ELSE "update"
<1>1. Call(op, selected).at = 0 /\ DOMAIN Call(op, selected) = CallFields
  BY FreshCalls, FreshNumbers
<1> HIDE DEF op
<1>2. SaveCall = [Call(op, selected) EXCEPT !.form = form, !.opened = opened]
  BY DEF SaveCall, op
<1>3. QED
  BY <1>1, <1>2 DEF CallFields

-----------------------------------------------------------------------------
\* A step that neither sends nor answers a list, and brings no news of a change.
LEMMA OtherStep ==
  ASSUME ShownInv, Records', Numbers', UNCHANGED <<filter, shown, acked, calm>>,
         InFlight("list")' = InFlight("list")
  PROVE  ShownInv'
  BY DEF ShownInv, ListsFollow, ListIsForTheFilters

\* A step that asks for the list anew: in calm there was none on its way.
LEMMA AskingStep ==
  ASSUME Records', Numbers', NEW rest, rest \subseteq calls,
         calls' = rest \cup {ListCall(filter')},
         calm' => InFlight("list") = {}
  PROVE  ShownInv'
<1> DEFINE l == ListCall(filter')
<1>1. l.op = "list" /\ l.filter = filter' /\ l.served = FALSE
  BY FreshCalls, FreshNumbers
<1> HIDE DEF l
<1>2. calm' => InFlight("list")' = {l}
  BY <1>1 DEF InFlight, l
<1>3. calm' => ListsFollow'
  BY <1>1, <1>2 DEF ListsFollow, ListIsForTheFilters
<1>4. QED
  BY <1>3 DEF ShownInv

\* Calls that are sent know nothing yet.
LEMMA SentStep ==
  ASSUME ShownInv, NEW d, calls' = calls \cup {d}, DOMAIN d = CallFields, d.at = 0,
         d.op # "list", DOMAIN form' = DOMAIN form,
         UNCHANGED <<version, filter, shown, acked, calm>>
  PROVE  ShownInv'
<1>1. Records' /\ Numbers'
  BY DEF ShownInv, Records, Numbers
<1>2. InFlight("list")' = InFlight("list")
  BY DEF InFlight
<1>3. QED
  BY <1>1, <1>2, OtherStep

LEMMA ReloadStep ==
  ASSUME ShownInv, NEW f, NEW rest, rest \subseteq calls, Reload(f, rest),
         UNCHANGED <<version, acked, form>>
  PROVE  ShownInv'
<1>1. /\ filter' = f
      /\ calls' = rest \cup {ListCall(filter')}
      /\ calm' => InFlight("list") = {}
  BY DEF Reload
<1>2. DOMAIN ListCall(filter') = CallFields /\ ListCall(filter').at = 0
  BY FreshCalls, FreshNumbers
<1>3. Records' /\ Numbers'
  BY <1>1, <1>2 DEF ShownInv, Records, Numbers
<1>4. QED
  BY <1>1, <1>3, AskingStep

LEMMA ShownClickStep ==
  ASSUME ShownInv, Click
  PROVE  ShownInv'
<1> USE DEF server, list, history
<1>1. ASSUME UNCHANGED <<version, filter, shown, calls, history>>,
             DOMAIN form' = {"of", "dirty", "active"}
      PROVE  ShownInv'
  <2>1. Records' /\ Numbers'
    BY <1>1 DEF ShownInv, Records, Numbers
  <2>2. InFlight("list")' = InFlight("list")
    BY <1>1 DEF InFlight
  <2>3. QED
    BY <1>1, <2>1, <2>2, OtherStep
<1>2. DOMAIN form = {"of", "dirty", "active"}
  BY DEF ShownInv, Records
<1>3. ASSUME NEW op, NEW i, Send(Call(op, i)), op # "list",
             UNCHANGED <<version, filter, shown, history, form>>
      PROVE  ShownInv'
  <2> DEFINE d == Call(op, i)
  <2>1. DOMAIN d = CallFields /\ d.at = 0 /\ d.op # "list"
    BY <1>3, FreshCalls, FreshNumbers
  <2>2. calls' = calls \cup {d} /\ DOMAIN form' = DOMAIN form
    BY <1>3 DEF Send
  <2> HIDE DEF d
  <2>3. QED
    BY <1>3, <2>1, <2>2, SentStep
<1>4. ASSUME NEW f \in Filters, SetFilter(f)
      PROVE  ShownInv'
  BY <1>4, ReloadStep DEF SetFilter, dialog
<1>5. ASSUME NEW p, SetPage(p)
      PROVE  ShownInv'
  BY <1>1, <1>2, <1>5 DEF SetPage, dialog
<1>6. CASE StartCreate \/ CloseDialog
  <2>1. form' = EmptyForm
    BY <1>6 DEF StartCreate, CloseDialog, Closed
  <2>2. DOMAIN form' = {"of", "dirty", "active"}
    BY <2>1 DEF EmptyForm
  <2>3. QED
    BY <1>1, <1>6, <2>2 DEF StartCreate, CloseDialog
<1>7. CASE Edit
  <2>1. DOMAIN form' = DOMAIN form
    BY <1>7 DEF Edit
  <2>2. QED
    BY <1>1, <1>2, <1>7, <2>1 DEF Edit
<1>8. CASE Save
  <2>1. SaveCall.op # "list" /\ DOMAIN SaveCall = CallFields /\ SaveCall.at = 0
    BY FreshSave, FreshSaveNumber DEF Saves
  <2>2. QED
    BY <1>8, <2>1, SentStep DEF Save, Send, dialog
<1>9. CASE CancelDelete \/ CancelPasswordReset \/ OpenAddTeam \/ CancelAddTeam
  BY <1>1, <1>2, <1>9
     DEF CancelDelete, CancelPasswordReset, OpenAddTeam, CancelAddTeam, dialog
<1>10. CASE ConfirmDelete \/ ApplyPasswordReset \/ SubmitAddTeam
  BY <1>3, <1>10 DEF ConfirmDelete, ApplyPasswordReset, SubmitAddTeam, dialog
<1>11. ASSUME NEW i \in Ids, SelectUser(i)
       PROVE  ShownInv'
  BY <1>1, <1>11 DEF SelectUser
<1>12. ASSUME NEW i \in Ids, ResetIcon(i) \/ AskDelete(i) \/ OpenPasswordReset(i)
       PROVE  ShownInv'
  BY <1>1, <1>2, <1>12 DEF ResetIcon, AskDelete, OpenPasswordReset, dialog
<1>13. ASSUME NEW i \in Ids, ReactivateIcon(i) \/ Reactivate(i)
       PROVE  ShownInv'
  BY <1>3, <1>13 DEF ReactivateIcon, Reactivate, dialog
<1>14. QED
  BY <1>4, <1>5, <1>6, <1>7, <1>8, <1>9, <1>10, <1>11, <1>12, <1>13 DEF Click

-----------------------------------------------------------------------------
\* The server writes into a call what it read or did, and when.
LEMMA NumberedCall ==
  ASSUME ShownInv, NEW c \in calls, NEW d, Replace(c, d), UNCHANGED client,
         DOMAIN d = CallFields, d.op = c.op, d.filter = c.filter,
         version' \in Nat, version' >= version, d.at \in Nat, d.at <= version',
         c.op = "list" /\ d.ok => d.at = version
  PROVE  ShownInv'
<1>1. /\ UNCHANGED <<filter, shown, acked, calm, form>>
      /\ calls' = (calls \ {c}) \cup {d}
  BY DEF client, list, dialog, history, Replace
<1>2. Records'
  BY <1>1 DEF ShownInv, Records
<1>3. Numbers'
  <2>1. acked <= version'
    BY DEF ShownInv, Numbers
  <2>2. ASSUME NEW e \in calls'
        PROVE  e.at \in Nat /\ e.at <= version'
    BY <1>1, <2>2 DEF ShownInv, Numbers
  <2>3. QED
    BY <1>1, <2>1, <2>2 DEF ShownInv, Numbers
<1>4. CASE c.op # "list"
  <2>1. InFlight("list")' = InFlight("list")
    BY <1>1, <1>4 DEF InFlight
  <2>2. QED
    BY <1>1, <1>2, <1>3, <2>1, OtherStep
<1>5. CASE c.op = "list"
  <2>1. ASSUME calm PROVE ListsFollow'
    <3>1. InFlight("list") = {c}
      BY <1>5, <2>1 DEF ShownInv, ListsFollow, InFlight
    <3>2. InFlight("list")' = {d}
      BY <1>1, <1>5, <3>1 DEF InFlight
    <3>3. c.filter = filter
      BY <2>1, <3>1 DEF ShownInv, ListsFollow, ListIsForTheFilters
    <3>4. d.ok => d.at >= acked
      BY <1>5 DEF ShownInv, Numbers
    <3>5. QED
      BY <1>1, <3>2, <3>3, <3>4 DEF ListsFollow, ListIsForTheFilters
  <2>2. QED
    BY <1>1, <1>2, <1>3, <2>1 DEF ShownInv
<1>6. QED
  BY <1>4, <1>5

LEMMA ShownServeStep ==
  ASSUME ShownInv, NEW c \in calls, Serve(c)
  PROVE  ShownInv'
<1>0. /\ DOMAIN c = CallFields
      /\ version \in Nat /\ c.at \in Nat /\ c.at <= version
  BY DEF ShownInv, Records, Numbers
<1>1. CASE ServeList(c)
  <2> DEFINE d == [c EXCEPT !.served = TRUE, !.at = version,
                          !.rows = [i \in Ids |->
                            IF i \in c.filter.others /\ rows[i] = Queried(c.filter.status)
                              THEN rows[i] ELSE "none"]]
  <2>1. DOMAIN d = CallFields /\ d.op = c.op /\ d.filter = c.filter /\ d.at = version
    BY <1>0 DEF CallFields
  <2>2. Replace(c, d) /\ UNCHANGED <<client, version>>
    BY <1>1 DEF ServeList, server
  <2> HIDE DEF d
  <2>3. QED
    BY <1>0, <2>1, <2>2, NumberedCall
<1>2. ASSUME NEW i, NEW state, Commit(c, i, state), c.op # "list"
      PROVE  ShownInv'
  <2> DEFINE d == [c EXCEPT !.served = TRUE, !.at = version + 1]
  <2>1. DOMAIN d = CallFields /\ d.op = c.op /\ d.filter = c.filter /\ d.at = version + 1
    BY <1>0 DEF CallFields
  <2>2. Replace(c, d) /\ UNCHANGED client /\ version' = version + 1
    BY <1>2 DEF Commit
  <2> HIDE DEF d
  <2>3. QED
    BY <1>0, <1>2, <2>1, <2>2, NumberedCall
<1>3. CASE ServeOther(c)
  <2> DEFINE d == [c EXCEPT !.served = TRUE]
  <2>1. DOMAIN d = CallFields /\ d.op = c.op /\ d.filter = c.filter /\ d.at = c.at
    BY <1>0 DEF CallFields
  <2>2. Replace(c, d) /\ UNCHANGED <<client, version>> /\ c.op # "list"
    BY <1>3 DEF ServeOther, server
  <2> HIDE DEF d
  <2>3. QED
    BY <1>0, <2>1, <2>2, NumberedCall
<1>4. CASE Fail(c)
  <2> DEFINE d == [c EXCEPT !.served = TRUE, !.ok = FALSE]
  <2>1. /\ DOMAIN d = CallFields /\ d.op = c.op /\ d.filter = c.filter /\ d.at = c.at
        /\ d.ok = FALSE
    BY <1>0 DEF CallFields
  <2>2. Replace(c, d) /\ UNCHANGED <<client, version>>
    BY <1>4 DEF Fail, server
  <2> HIDE DEF d
  <2>3. QED
    BY <1>0, <2>1, <2>2, NumberedCall
<1>5. QED
  BY <1>1, <1>2, <1>3, <1>4 DEF Serve, ServeCreate, ServeChange

-----------------------------------------------------------------------------
\* News of an own change comes with a new list, asked for after the change.
LEMMA RefetchStep ==
  ASSUME ShownInv, NEW c \in calls, c.op # "list", Acked(c), Refetch(c),
         DOMAIN form' = {"of", "dirty", "active"},
         UNCHANGED <<version, filter, shown>>
  PROVE  ShownInv'
<1>1. Numbers' /\ Records'
  <2>1. acked' \in Nat /\ acked' <= version
    BY DEF Acked, Most, ShownInv, Numbers
  <2>2. ASSUME NEW d \in calls'
        PROVE  d.at \in Nat /\ d.at <= version /\ DOMAIN d = CallFields
    <3>1. d \in calls \/ d = ListCall(filter)
      BY <2>2 DEF Refetch
    <3>2. DOMAIN ListCall(filter) = CallFields /\ ListCall(filter).at = 0
      BY FreshCalls, FreshNumbers
    <3>3. QED
      BY <3>1, <3>2 DEF ShownInv, Numbers, Records
  <2>3. QED
    BY <2>1, <2>2 DEF ShownInv, Numbers, Records
<1>2. CASE c.ok
  <2>1. calls' = (calls \ {c}) \cup {ListCall(filter')} /\ (calm' => InFlight("list") = {})
    BY <1>2 DEF Refetch
  <2>2. QED
    BY <1>1, <2>1, AskingStep
<1>3. CASE ~c.ok
  <2>1. calls' = calls \ {c} /\ UNCHANGED <<calm, acked>>
    BY <1>3 DEF Refetch, Acked
  <2>2. InFlight("list")' = InFlight("list")
    BY <2>1 DEF InFlight
  <2>3. QED
    BY <1>1, <2>1, <2>2, OtherStep
<1>4. QED
  BY <1>2, <1>3

LEMMA ShownDeliverStep ==
  ASSUME ShownInv, NEW c \in calls, Deliver(c)
  PROVE  ShownInv'
<1>0. DOMAIN form = {"of", "dirty", "active"} /\ DOMAIN EmptyForm = {"of", "dirty", "active"}
  BY DEF ShownInv, Records, EmptyForm
<1>1. ASSUME calls' = calls \ {c}, c.op # "list",
             UNCHANGED <<version, filter, shown, acked, calm, form>>
      PROVE  ShownInv'
  <2>1. Records' /\ Numbers'
    BY <1>1 DEF ShownInv, Records, Numbers
  <2>2. InFlight("list")' = InFlight("list")
    BY <1>1 DEF InFlight
  <2>3. QED
    BY <1>1, <2>1, <2>2, OtherStep
<1>2. CASE DeliverList(c)
  <2>1. /\ c.op = "list" /\ c.served
        /\ shown'.filter = c.filter /\ shown'.at = c.at
        /\ calls' = calls \ {c} /\ (calm' => calm /\ c.ok)
        /\ UNCHANGED <<version, filter, acked, form>>
    BY <1>2 DEF DeliverList, Answered, server
  <2>2. Records' /\ Numbers'
    BY <2>1 DEF ShownInv, Records, Numbers
  <2>3. ASSUME calm' PROVE ListsFollow'
    <3>1. InFlight("list") = {c} /\ ListIsForTheFilters(c)
      BY <2>1, <2>3 DEF ShownInv, ListsFollow, InFlight
    <3>2. InFlight("list")' = {}
      BY <2>1, <3>1 DEF InFlight
    <3>3. shown'.filter = filter /\ shown'.at >= acked
      BY <2>1, <2>3, <3>1 DEF ListIsForTheFilters
    <3>4. QED
      BY <2>1, <3>2, <3>3 DEF ListsFollow
  <2>4. QED
    BY <2>2, <2>3 DEF ShownInv
<1>3. CASE DeliverSave(c)
  <2>1. c.op # "list" /\ UNCHANGED <<version, filter, shown>> /\ Acked(c) /\ Refetch(c)
    BY <1>3 DEF DeliverSave, Answered, server
  <2>2. DOMAIN form' = {"of", "dirty", "active"}
    BY <1>0, <1>3 DEF DeliverSave, Closed, dialog
  <2>3. QED
    BY <2>1, <2>2, RefetchStep
<1>4. CASE DeliverChange(c)
  <2>1. /\ c.op # "list" /\ UNCHANGED <<version, filter, shown, form>>
        /\ Acked(c) /\ Refetch(c)
    BY <1>4 DEF DeliverChange, Answered, server, dialog
  <2>2. QED
    BY <1>0, <2>1, RefetchStep
<1>5. CASE DeliverPassword(c)
  BY <1>1, <1>5 DEF DeliverPassword, Answered, server, client, list, history, dialog
<1>6. CASE DeliverTeam(c)
  <2>1. c.op # "list" /\ UNCHANGED <<version, acked, form>>
    BY <1>6 DEF DeliverTeam, Answered, server, dialog
  <2>2. CASE c.ok
    BY <1>6, <2>1, <2>2, ReloadStep DEF DeliverTeam
  <2>3. CASE ~c.ok
    BY <1>1, <1>6, <2>1, <2>3 DEF DeliverTeam, list
  <2>4. QED
    BY <2>2, <2>3
<1>7. QED
  BY <1>2, <1>3, <1>4, <1>5, <1>6 DEF Deliver

\* When everything is answered the page shows its filters as the table is after
\* the last of its own changes, whatever else was clicked meanwhile, unless two
\* lists were on their way at once or a list failed (refetch and fetch,
\* users.component.ts:217-243).
THEOREM OwnChangesAreShown == Spec => []OwnChangesShown
<1>1. ShownInv /\ [Next]_vars => ShownInv'
  <2> SUFFICES ASSUME ShownInv, [Next]_vars PROVE ShownInv'
    OBVIOUS
  <2>1. CASE Click
    BY <2>1, ShownClickStep
  <2>2. CASE \E c \in calls : Serve(c) \/ Deliver(c)
    BY <2>2, ShownServeStep, ShownDeliverStep
  <2>3. CASE UNCHANGED vars
    <3>1. UNCHANGED <<version, filter, shown, acked, calm, calls, form>>
      BY <2>3 DEF vars, server, list, history, dialog
    <3>2. Records' /\ Numbers' /\ InFlight("list")' = InFlight("list")
      BY <3>1 DEF ShownInv, Records, Numbers, InFlight
    <3>3. QED
      BY <3>1, <3>2, OtherStep
  <2>4. QED
    BY <2>1, <2>2, <2>3 DEF Next
<1>2. ShownInv => OwnChangesShown
  BY DEF ShownInv, ListsFollow, OwnChangesShown, InFlight
<1>3. QED
  BY ShownInit, <1>1, <1>2, PTL DEF Spec

=============================================================================
