---------------------------- MODULE PositionTree ----------------------------
(***************************************************************************)
(* The positions API (backend/app/api/v1/positions.py): the company's job  *)
(* titles, each under at most one parent.                                  *)
(*                                                                         *)
(* A request runs in a database session of its own at READ COMMITTED, so   *)
(* every awaited SELECT sees what is committed at that moment, and other   *)
(* requests may commit between two of them.  An action is therefore one    *)
(* await of one request; the atomic point of a request is its commit.      *)
(*                                                                         *)
(* Names, descriptions and row ids are left out: a clash of names shows as *)
(* Abort.  Positions are never deleted, only deactivated.                  *)
(***************************************************************************)
EXTENDS Naturals

CONSTANTS
  Positions,    \* the ids positions.id can take
  Slots,        \* the requests that can be in flight at once
  Null,         \* SQL NULL
  Keep,         \* a field the PATCH body leaves out
  MaxRequests   \* how many requests a behaviour starts (a bound of the model)

ASSUME NullAssumption == Null \notin Positions /\ Keep \notin Positions \cup {Null}
ASSUME MaxRequestsAssumption == MaxRequests \in Nat

VARIABLES
  exists,    \* the positions that have a row
  parent,    \* parent_position_id of each row
  active,    \* the rows with is_active
  held,      \* the positions some active user holds (rows of the users table)
  req,       \* what each slot is doing
  started    \* how many requests have been started

posVars == <<exists, parent, active>>
vars == <<exists, parent, active, held, req, started>>

-----------------------------------------------------------------------------
(* A request: pc is the await it is at, the next fields its payload, then   *)
(* the row as it was loaded, then the locals of _check_no_cycle.  dirty is  *)
(* a history variable: a parent was re-assigned since the walk began.       *)
Requests ==
  [pc        : {"idle", "load", "getParent", "walk", "count", "write"},
   op        : {"none", "create", "update", "delete", "activate"},
   target    : Positions \cup {Null},
   newParent : Positions \cup {Null, Keep},
   setActive : {"keep", "on", "off"},
   oldParent : Positions \cup {Null},
   oldActive : BOOLEAN,
   cursor    : Positions \cup {Null},
   seen      : SUBSET Positions,
   dirty     : BOOLEAN]

Idle ==
  [pc |-> "idle", op |-> "none", target |-> Null, newParent |-> Keep,
   setActive |-> "keep", oldParent |-> Null, oldActive |-> FALSE,
   cursor |-> Null, seen |-> {}, dirty |-> FALSE]

TypeOK ==
  /\ exists \in SUBSET Positions
  /\ parent \in [Positions -> Positions \cup {Null}]
  /\ active \in SUBSET exists
  /\ held \in SUBSET Positions
  /\ req \in [Slots -> Requests]
  /\ started \in 0..MaxRequests

\* No nonempty set of positions is closed under "has a parent in the set":
\* climbing the tree always ends.
Acyclic ==
  \A S \in SUBSET exists : S # {} => \E p \in S : parent[p] \notin S

\* The migration seeds a forest of active positions; administrators grow it.
InitRows ==
  /\ exists \in SUBSET Positions
  /\ parent \in {f \in [Positions -> exists \cup {Null}] :
                   \A p \in Positions \ exists : f[p] = Null}
  /\ Acyclic
  /\ active = exists

Init ==
  /\ InitRows
  /\ held \in SUBSET exists
  /\ req = [s \in Slots |-> Idle]
  /\ started = 0

-----------------------------------------------------------------------------
Start(s, r) ==
  /\ req[s].pc = "idle"
  /\ started < MaxRequests
  /\ started' = started + 1
  /\ req' = [req EXCEPT ![s] = r]
  /\ UNCHANGED <<posVars, held>>

StartCreate(s, q) ==
  Start(s, [Idle EXCEPT !.pc = IF q = Null THEN "write" ELSE "getParent",
                        !.op = "create", !.newParent = q])

StartUpdate(s, p, q, a) ==
  Start(s, [Idle EXCEPT !.pc = "load", !.op = "update", !.target = p,
                        !.newParent = q, !.setActive = a])

StartDelete(s, p) ==
  Start(s, [Idle EXCEPT !.pc = "load", !.op = "delete", !.target = p,
                        !.setActive = "off"])

StartActivate(s, p) ==
  Start(s, [Idle EXCEPT !.pc = "load", !.op = "activate", !.target = p,
                        !.setActive = "on"])

-----------------------------------------------------------------------------
Goto(s, r) ==
  /\ req' = [req EXCEPT ![s] = r]
  /\ UNCHANGED <<posVars, held, started>>

\* The HTTP error path: the session is rolled back, nothing is written.
Reject(s) == Goto(s, Idle)

\* _get on the row to change, then on to the checks of the operation.
Load(s) ==
  LET r == req[s] IN
  /\ r.pc = "load"
  /\ IF r.target \notin exists
       THEN Reject(s)
       ELSE Goto(s, [r EXCEPT
              !.oldParent = parent[r.target],
              !.oldActive = r.target \in active,
              !.pc = IF r.op = "delete" THEN "count"
                     ELSE IF r.newParent \in Positions THEN "getParent"
                     ELSE "write"])

\* Mutant: the new parent is not looked up.
GetParent_unchecked(s) ==
  LET r == req[s] IN
  /\ r.pc = "getParent"
  /\ Goto(s, IF r.op = "create"
                THEN [r EXCEPT !.pc = "write"]
                ELSE [r EXCEPT !.pc = "walk", !.cursor = r.newParent])

\* _get on the new parent, which may be inactive but must exist.
GetParent(s) ==
  LET r == req[s] IN
  /\ r.pc = "getParent"
  /\ IF r.newParent \notin exists
       THEN Reject(s)
       ELSE Goto(s, IF r.op = "create"
                      THEN [r EXCEPT !.pc = "write"]
                      ELSE [r EXCEPT !.pc = "walk", !.cursor = r.newParent])

Climb(s) ==
  LET r == req[s]
      up == parent[r.cursor]
  IN Goto(s, [r EXCEPT !.seen = @ \cup {r.cursor},
                       !.cursor = up,
                       !.pc = IF up = Null THEN "write" ELSE "walk"])

\* Mutant: the walk only guards against running forever.
CheckNoCycle_noTargetTest(s) ==
  /\ req[s].pc = "walk"
  /\ IF req[s].cursor \in req[s].seen THEN Reject(s) ELSE Climb(s)

\* Mutant: the walk only looks for the position that moves.
CheckNoCycle_noSeenTest(s) ==
  /\ req[s].pc = "walk"
  /\ IF req[s].cursor = req[s].target THEN Reject(s) ELSE Climb(s)

\* One turn of the loop of _check_no_cycle: test the cursor, read its parent.
CheckNoCycle(s) ==
  /\ req[s].pc = "walk"
  /\ IF req[s].cursor = req[s].target \/ req[s].cursor \in req[s].seen
       THEN Reject(s)
       ELSE Climb(s)

\* The SELECT count(*) of the active users that hold the position.
CountHolders(s) ==
  LET r == req[s] IN
  /\ r.pc = "count"
  /\ IF r.target \in held
       THEN Reject(s)
       ELSE Goto(s, [r EXCEPT !.pc = "write"])

-----------------------------------------------------------------------------
\* The ORM writes a column only if its value differs from the loaded one.
WritesParent(r) ==
  r.op = "update" /\ r.newParent # Keep /\ r.newParent # r.oldParent

NewActive(r) ==
  IF r.setActive = "on" /\ ~r.oldActive THEN active \cup {r.target}
  ELSE IF r.setActive = "off" /\ r.oldActive THEN active \ {r.target}
  ELSE active

\* The other walks and pending writes learn (for the history variable only)
\* that a parent was re-assigned under them.
MarkDirty(s) ==
  [t \in Slots |->
     IF t = s THEN Idle
     ELSE IF req[t].pc \in {"walk", "write"} THEN [req[t] EXCEPT !.dirty = TRUE]
     ELSE req[t]]

\* Mutant: every column is written, as it was loaded unless the body names it.
CommitChange_wholeRow(s) ==
  LET r == req[s] IN
  /\ r.pc = "write"
  /\ r.op # "create"
  /\ parent' = [parent EXCEPT ![r.target] =
                   IF r.op = "update" /\ r.newParent # Keep THEN r.newParent
                   ELSE r.oldParent]
  /\ active' = NewActive(r)
  /\ req' = IF parent' # parent THEN MarkDirty(s) ELSE [req EXCEPT ![s] = Idle]
  /\ UNCHANGED <<exists, held, started>>

\* flush and commit of an update, a soft delete or an activation.
CommitChange(s) ==
  LET r == req[s] IN
  /\ r.pc = "write"
  /\ r.op # "create"
  /\ parent' = IF WritesParent(r)
                 THEN [parent EXCEPT ![r.target] = r.newParent]
                 ELSE parent
  /\ active' = NewActive(r)
  /\ req' = IF WritesParent(r) THEN MarkDirty(s) ELSE [req EXCEPT ![s] = Idle]
  /\ UNCHANGED <<exists, held, started>>

\* flush and commit of a create: a new row, active, under the parent it named.
CommitCreate(s) ==
  LET r == req[s] IN
  /\ r.pc = "write"
  /\ r.op = "create"
  /\ \E p \in Positions \ exists :
       /\ exists' = exists \cup {p}
       /\ parent' = [parent EXCEPT ![p] = r.newParent]
       /\ active' = active \cup {p}
  /\ req' = [req EXCEPT ![s] = Idle]
  /\ UNCHANGED <<held, started>>

\* A name clash (checked, or caught by the unique constraint at the flush), a
\* lost connection or a crash of the server: get_db rolls the session back.
Abort(s) ==
  /\ req[s].pc # "idle"
  /\ Reject(s)

\* The users API assigns, activates and deactivates users meanwhile.
HoldersChange ==
  /\ held' \in SUBSET exists
  /\ held' # held
  /\ UNCHANGED <<posVars, req, started>>

-----------------------------------------------------------------------------
StartSome(s) ==
  \/ \E q \in Positions \cup {Null} : StartCreate(s, q)
  \/ \E p \in Positions, q \in Positions \cup {Null, Keep},
        a \in {"keep", "on", "off"} : StartUpdate(s, p, q, a)
  \/ \E p \in Positions : StartDelete(s, p)
  \/ \E p \in Positions : StartActivate(s, p)

Proceed(s) ==
  \/ Load(s)
  \/ GetParent(s)
  \/ CheckNoCycle(s)
  \/ CountHolders(s)
  \/ CommitChange(s)
  \/ CommitCreate(s)

RequestStep(s) == StartSome(s) \/ Proceed(s) \/ Abort(s)

Next ==
  \/ \E s \in Slots : RequestStep(s)
  \/ HoldersChange

Spec == Init /\ [][Next]_vars

\* A request in flight is run to its end: the event loop resumes its coroutine
\* when the awaited query answers, and a query that never answers is aborted.
Fairness == \A s \in Slots : WF_vars(Proceed(s) \/ Abort(s))

FairSpec == Spec /\ Fairness

-----------------------------------------------------------------------------
(* Properties                                                               *)

\* A re-parent can close a cycle only if another re-parent committed between
\* its walk up the tree (_check_no_cycle, positions.py:32-57) and its own
\* commit: whatever the number of requests in flight, a walk over a tree that
\* stands still never lets a cycle through.
CycleNeedsOverlap ==
  [][ Acyclic /\ ~Acyclic' =>
        \E s \in Slots : /\ req[s].pc = "write"
                         /\ req[s].dirty
                         /\ req'[s].pc = "idle" ]_vars

\* A commit keeps the columns its request does not name, even those another
\* request changed after the row was loaded (positions.py:127 and 147-150).
UnnamedColumnsKept ==
  [][ \A s \in Slots :
        req[s].pc = "write" /\ req'[s].pc = "idle" /\ req[s].op # "create" =>
          /\ req[s].newParent = Keep => parent' = parent
          /\ req[s].setActive = "keep" => active' = active ]_vars

\* A request that has been started comes to its end, also when it walks a tree
\* that other requests change or that already holds a cycle: the set seen of
\* _check_no_cycle (positions.py:39-51) bounds the loop.
RequestsFinish ==
  \A s \in Slots : req[s].pc # "idle" ~> req[s].pc = "idle"

\* With one request at a time the API keeps the promise of OrgForest.
Abstract == INSTANCE OrgForest
ImplementsForest == Abstract!Spec

=============================================================================
