------------------------- MODULE PositionTreeProofs -------------------------
(***************************************************************************)
(* Proofs about PositionTree, for every set of positions, any number of    *)
(* slots and any number of requests.                                       *)
(*                                                                         *)
(* The argument: while nobody re-parents, the set seen of a walk together  *)
(* with its cursor is closed under parent, and when the walk has ended     *)
(* seen alone is (up to NULL).  It holds the new parent and not the        *)
(* position that moves, so the new edge leads out of every would-be cycle. *)
(* The last part, about the columns a request does not name, needs no      *)
(* invariant of the walk.                                                  *)
(***************************************************************************)
EXTENDS PositionTree, TLAPS

\* The rows: a parent is a row (the foreign key), an absent row has none.
RowInv ==
  /\ \A p \in Positions : parent[p] \in exists \cup {Null}
  /\ \A p \in Positions \ exists : parent[p] = Null

\* One request at a time.
OneSlot == \A s, t \in Slots : s = t

\* A request past its loads works on rows that exist.
PayloadInv(s) ==
  LET r == req[s] IN
  /\ r.pc = "idle" => r = Idle
  /\ r.pc \in {"getParent", "walk", "count", "write"} /\ r.op # "create" =>
       r.target \in exists
  /\ r.pc \in {"getParent", "walk"} => r.newParent \in Positions
  /\ r.pc = "walk" =>
       /\ r.op = "update"
       /\ r.newParent \in exists
       /\ r.cursor \in exists
  /\ r.pc = "write" => r.newParent \in exists \cup {Null, Keep}
  /\ r.pc = "write" /\ r.op = "create" => r.newParent # Keep
  /\ r.pc \in {"load", "getParent", "count"} => r.seen = {}
  /\ r.pc \in {"load", "getParent", "count"} => ~r.dirty
  /\ r.pc = "load" => r.op \in {"update", "delete", "activate"}
  /\ r.pc = "count" => r.op = "delete"
  /\ r.op \in {"delete", "activate"} => r.newParent = Keep
  /\ r.pc = "getParent" => r.op \in {"create", "update"}
  /\ r.seen \subseteq exists
  /\ OneSlot => ~r.dirty

\* A walk nobody disturbed has seen a set closed under parent, up to its cursor.
WalkInv(s) ==
  LET r == req[s] IN
  ~r.dirty =>
    /\ r.pc = "walk" =>
         /\ r.newParent \in r.seen \cup {r.cursor}
         /\ r.target \notin r.seen
         /\ \A x \in r.seen : parent[x] \in r.seen \cup {r.cursor}
    /\ r.pc = "write" /\ r.op = "update" /\ r.newParent \in Positions =>
         /\ r.newParent \in r.seen
         /\ r.target \notin r.seen
         /\ \A x \in r.seen : parent[x] \in r.seen \cup {Null}

IInv ==
  /\ TypeOK
  /\ RowInv
  /\ \A s \in Slots : PayloadInv(s) /\ WalkInv(s)

-----------------------------------------------------------------------------
\* A new leaf closes no cycle: nobody's parent is a row that did not exist.
LEMMA LeafKeepsAcyclic ==
  ASSUME TypeOK, RowInv, Acyclic,
         NEW p \in Positions \ exists, NEW q \in exists \cup {Null},
         exists' = exists \cup {p}, parent' = [parent EXCEPT ![p] = q]
  PROVE  Acyclic'
<1> SUFFICES ASSUME NEW S \in SUBSET (exists \cup {p}), S # {},
                    \A x \in S : parent'[x] \in S
             PROVE  FALSE
  BY DEF Acyclic
<1>0. \A x \in exists : x # p /\ parent'[x] = parent[x] /\ parent[x] # p
  BY NullAssumption DEF TypeOK, RowInv
<1> DEFINE T == S \ {p}
<1>1. T # {}
  <2>1. CASE S = {p}
    <3>1. parent'[p] = q
      BY DEF TypeOK
    <3>2. q = p
      BY <3>1, <2>1
    <3>3. QED
      BY <3>2, NullAssumption
  <2>2. CASE S # {p}
    BY <2>2
  <2>3. QED
    BY <2>1, <2>2
<1>2. \A x \in T : parent[x] \in T
  BY <1>0
<1>3. T \in SUBSET exists
  OBVIOUS
<1>4. QED
  BY <1>1, <1>2, <1>3 DEF Acyclic

\* Moving p under q closes no cycle when some set closed under parent holds q
\* and not p.
LEMMA MoveKeepsAcyclic ==
  ASSUME TypeOK, Acyclic,
         NEW p \in exists, NEW q \in exists,
         NEW T \in SUBSET exists, q \in T, p \notin T,
         \A x \in T : parent[x] \in T \cup {Null},
         exists' = exists, parent' = [parent EXCEPT ![p] = q]
  PROVE  Acyclic'
<1> SUFFICES ASSUME NEW S \in SUBSET exists, S # {},
                    \A x \in S : parent'[x] \in S
             PROVE  FALSE
  BY DEF Acyclic
<1>0. \A x \in exists : x # p => parent'[x] = parent[x]
  BY DEF TypeOK
<1>1. CASE p \notin S
  <2>1. \A x \in S : parent[x] \in S
    BY <1>0, <1>1
  <2>2. QED
    BY <2>1 DEF Acyclic
<1>2. CASE p \in S
  <2> DEFINE U == S \cap T
  <2>1. parent'[p] = q
    BY DEF TypeOK
  <2>2. q \in U
    BY <1>2, <2>1
  <2>3. \A x \in U : parent[x] \in U
    <3> SUFFICES ASSUME NEW x \in U
                 PROVE  parent[x] \in U
      OBVIOUS
    <3>1. parent[x] \in S
      BY <1>0
    <3>2. parent[x] # Null
      BY <3>1, NullAssumption DEF TypeOK
    <3>3. QED
      BY <3>1, <3>2
  <2>4. QED
    BY <2>2, <2>3 DEF Acyclic
<1>3. QED
  BY <1>1, <1>2

\* A position that becomes a root closes no cycle.
LEMMA RootKeepsAcyclic ==
  ASSUME TypeOK, Acyclic, NEW p \in exists,
         exists' = exists, parent' = [parent EXCEPT ![p] = Null]
  PROVE  Acyclic'
<1> SUFFICES ASSUME NEW S \in SUBSET exists, S # {},
                    \A x \in S : parent'[x] \in S
             PROVE  FALSE
  BY DEF Acyclic
<1>1. p \notin S
  BY NullAssumption DEF TypeOK
<1>2. \A x \in S : parent[x] \in S
  BY <1>1 DEF TypeOK
<1>3. QED
  BY <1>2 DEF Acyclic

-----------------------------------------------------------------------------
LEMMA IdleType == Idle \in Requests
BY DEF Idle, Requests

LEMMA InitIInv == Init => IInv
BY IdleType, NullAssumption, MaxRequestsAssumption
   DEF Init, InitRows, IInv, TypeOK, RowInv, PayloadInv, WalkInv, Idle

\* A step of one slot that writes no row keeps the invariant when the new
\* request record satisfies it.
LEMMA QuietStep ==
  ASSUME IInv, NEW s \in Slots, NEW r \in Requests,
         req' = [req EXCEPT ![s] = r], UNCHANGED <<posVars, held>>,
         started' \in 0..MaxRequests,
         PayloadInv(s)', WalkInv(s)'
  PROVE  IInv'
<1>1. TypeOK' /\ RowInv'
  BY DEF IInv, TypeOK, RowInv, posVars
<1>2. \A t \in Slots : PayloadInv(t)' /\ WalkInv(t)'
  <2> SUFFICES ASSUME NEW t \in Slots, t # s PROVE PayloadInv(t)' /\ WalkInv(t)'
    OBVIOUS
  <2>1. req'[t] = req[t]
    BY DEF IInv, TypeOK
  <2>2. PayloadInv(t) /\ WalkInv(t)
    BY DEF IInv
  <2>3. QED
    BY <2>1, <2>2 DEF PayloadInv, WalkInv, posVars
<1>3. QED
  BY <1>1, <1>2 DEF IInv

\* Going idle is such a step.
LEMMA RejectKeeps ==
  ASSUME IInv, NEW s \in Slots, Reject(s)
  PROVE  IInv'
<1>1. req'[s] = Idle
  BY DEF IInv, TypeOK, Reject, Goto
<1>2. PayloadInv(s)' /\ WalkInv(s)'
  BY <1>1 DEF PayloadInv, WalkInv, Idle
<1>3. QED
  BY <1>2, IdleType, QuietStep DEF Reject, Goto, IInv, TypeOK

\* So is starting a request, whatever its payload.
LEMMA StartStep ==
  ASSUME IInv, NEW s \in Slots, NEW r \in Requests, Start(s, r),
         r.pc \in {"load", "getParent", "write"},
         r.pc \in {"getParent", "write"} => r.op = "create",
         r.pc = "load" => r.op \in {"update", "delete", "activate"},
         r.op \in {"delete", "activate"} => r.newParent = Keep,
         r.pc = "getParent" => r.newParent \in Positions,
         r.pc = "write" => r.newParent = Null,
         r.seen = {}, ~r.dirty
  PROVE  IInv'
<1>1. req'[s] = r
  BY DEF Start, IInv, TypeOK
<1>2. PayloadInv(s)' /\ WalkInv(s)'
  BY <1>1, NullAssumption DEF PayloadInv, WalkInv
<1>3. started' \in 0..MaxRequests
  BY MaxRequestsAssumption DEF Start, IInv, TypeOK
<1>4. QED
  BY <1>2, <1>3, QuietStep DEF Start

LEMMA StartKeeps ==
  ASSUME IInv, NEW s \in Slots, StartSome(s)
  PROVE  IInv'
<1>1. ASSUME NEW q \in Positions \cup {Null}, StartCreate(s, q) PROVE IInv'
  <2> DEFINE k == [Idle EXCEPT !.pc = IF q = Null THEN "write" ELSE "getParent",
                               !.op = "create", !.newParent = q]
  <2>1. k \in Requests /\ Start(s, k)
    BY <1>1 DEF StartCreate, Idle, Requests
  <2>2. /\ k.pc = (IF q = Null THEN "write" ELSE "getParent")
        /\ k.op = "create" /\ k.newParent = q /\ k.seen = {} /\ ~k.dirty
    BY DEF Idle
  <2> HIDE DEF k
  <2>3. QED
    BY <2>1, <2>2, StartStep
<1>2. ASSUME NEW p \in Positions, NEW q \in Positions \cup {Null, Keep},
             NEW a \in {"keep", "on", "off"}, StartUpdate(s, p, q, a)
      PROVE  IInv'
  <2> DEFINE k == [Idle EXCEPT !.pc = "load", !.op = "update", !.target = p,
                               !.newParent = q, !.setActive = a]
  <2>1. k \in Requests /\ Start(s, k)
    BY <1>2 DEF StartUpdate, Idle, Requests
  <2>2. /\ k.pc = "load" /\ k.op \in {"update", "delete", "activate"}
        /\ k.op \in {"delete", "activate"} => k.newParent = Keep
        /\ k.seen = {} /\ ~k.dirty
    BY DEF Idle
  <2> HIDE DEF k
  <2>3. QED
    BY <2>1, <2>2, StartStep
<1>3. ASSUME NEW p \in Positions, StartDelete(s, p) PROVE IInv'
  <2> DEFINE k == [Idle EXCEPT !.pc = "load", !.op = "delete", !.target = p,
                               !.setActive = "off"]
  <2>1. k \in Requests /\ Start(s, k)
    BY <1>3 DEF StartDelete, Idle, Requests
  <2>2. /\ k.pc = "load" /\ k.op \in {"update", "delete", "activate"}
        /\ k.op \in {"delete", "activate"} => k.newParent = Keep
        /\ k.seen = {} /\ ~k.dirty
    BY DEF Idle
  <2> HIDE DEF k
  <2>3. QED
    BY <2>1, <2>2, StartStep
<1>4. ASSUME NEW p \in Positions, StartActivate(s, p) PROVE IInv'
  <2> DEFINE k == [Idle EXCEPT !.pc = "load", !.op = "activate", !.target = p,
                               !.setActive = "on"]
  <2>1. k \in Requests /\ Start(s, k)
    BY <1>4 DEF StartActivate, Idle, Requests
  <2>2. /\ k.pc = "load" /\ k.op \in {"update", "delete", "activate"}
        /\ k.op \in {"delete", "activate"} => k.newParent = Keep
        /\ k.seen = {} /\ ~k.dirty
    BY DEF Idle
  <2> HIDE DEF k
  <2>3. QED
    BY <2>1, <2>2, StartStep
<1>5. QED
  BY <1>1, <1>2, <1>3, <1>4 DEF StartSome

LEMMA LoadKeeps ==
  ASSUME IInv, NEW s \in Slots, Load(s)
  PROVE  IInv'
<1> DEFINE r == req[s]
<1>1. CASE r.target \notin exists
  BY <1>1, RejectKeeps DEF Load
<1>2. CASE r.target \in exists
  <2> DEFINE up == parent[r.target]
             on == r.target \in active
             pc == IF r.op = "delete" THEN "count"
                   ELSE IF r.newParent \in Positions THEN "getParent"
                   ELSE "write"
             n == [r EXCEPT !.oldParent = up, !.oldActive = on, !.pc = pc]
  <2>1. r \in Requests /\ r.pc = "load" /\ PayloadInv(s)
    BY DEF IInv, TypeOK, Load
  <2>2. Goto(s, n)
    BY <1>2 DEF Load
  <2>3. up \in Positions \cup {Null}
    BY <1>2 DEF IInv, TypeOK
  <2>4. on \in BOOLEAN
    OBVIOUS
  <2>5. /\ pc \in {"count", "getParent", "write"}
        /\ pc = "getParent" => r.newParent \in Positions /\ r.op # "delete"
        /\ pc = "write" => r.newParent \notin Positions
        /\ pc = "count" => r.op = "delete"
    OBVIOUS
  <2> HIDE DEF up, on, pc
  <2>6. n \in Requests
    BY <2>1, <2>3, <2>4, <2>5 DEF Requests
  <2>7. /\ n.pc = pc /\ n.op = r.op /\ n.target = r.target
        /\ n.newParent = r.newParent /\ n.seen = r.seen /\ n.dirty = r.dirty
    BY <2>1 DEF Requests
  <2> HIDE DEF n
  <2>8. req'[s] = n
    BY <2>2 DEF Goto, IInv, TypeOK
  <2>9. /\ r.seen = {} /\ ~r.dirty
        /\ r.newParent \in Positions \cup {Null, Keep}
        /\ r.op \in {"update", "delete", "activate"}
        /\ r.op \in {"delete", "activate"} => r.newParent = Keep
    BY <2>1 DEF PayloadInv, Requests
  <2>10. PayloadInv(s)' /\ WalkInv(s)'
    BY <2>2, <2>5, <2>7, <2>8, <2>9, <1>2, NullAssumption
       DEF PayloadInv, WalkInv, Goto, posVars
  <2>11. QED
    BY <2>2, <2>6, <2>10, QuietStep DEF Goto, IInv, TypeOK
<1>3. QED
  BY <1>1, <1>2

LEMMA GetParentKeeps ==
  ASSUME IInv, NEW s \in Slots, GetParent(s)
  PROVE  IInv'
<1> DEFINE r == req[s]
<1>0. r \in Requests /\ r.pc = "getParent" /\ PayloadInv(s)
  BY DEF IInv, TypeOK, GetParent
<1>1. CASE r.newParent \notin exists
  BY <1>1, RejectKeeps DEF GetParent
<1>2. CASE r.newParent \in exists /\ r.op = "create"
  <2> DEFINE n == [r EXCEPT !.pc = "write"]
  <2>1. Goto(s, n)
    BY <1>2 DEF GetParent
  <2>2. n \in Requests /\ n.pc = "write" /\ n.op = "create" /\ n.seen = r.seen
        /\ n.newParent = r.newParent /\ n.dirty = r.dirty
    BY <1>0, <1>2 DEF Requests
  <2> HIDE DEF n
  <2>3. req'[s] = n
    BY <2>1 DEF Goto, IInv, TypeOK
  <2>4. r.newParent \in Positions
    BY <1>0 DEF PayloadInv
  <2>5. PayloadInv(s)' /\ WalkInv(s)'
    BY <1>0, <1>2, <2>1, <2>2, <2>3, <2>4, NullAssumption
       DEF PayloadInv, WalkInv, Goto, posVars
  <2>6. QED
    BY <2>1, <2>2, <2>5, QuietStep DEF Goto, IInv, TypeOK
<1>3. CASE r.newParent \in exists /\ r.op # "create"
  <2> DEFINE n == [r EXCEPT !.pc = "walk", !.cursor = r.newParent]
  <2>1. Goto(s, n)
    BY <1>3 DEF GetParent
  <2>2. r.newParent \in Positions
    BY <1>0 DEF PayloadInv
  <2>3. /\ n \in Requests /\ n.pc = "walk" /\ n.op = r.op /\ n.seen = r.seen
        /\ n.newParent = r.newParent /\ n.dirty = r.dirty
        /\ n.cursor = r.newParent /\ n.target = r.target
    BY <1>0, <2>2 DEF Requests
  <2> HIDE DEF n
  <2>4. req'[s] = n
    BY <2>1 DEF Goto, IInv, TypeOK
  <2>5. r.op = "update"
    BY <1>0, <1>3 DEF PayloadInv
  <2>6. PayloadInv(s)' /\ WalkInv(s)'
    BY <1>0, <1>3, <2>1, <2>2, <2>3, <2>4, <2>5
       DEF PayloadInv, WalkInv, Goto, posVars
  <2>7. QED
    BY <2>1, <2>3, <2>6, QuietStep DEF Goto, IInv, TypeOK
<1>4. QED
  BY <1>1, <1>2, <1>3

\* One turn of the loop keeps what was seen closed under parent.
LEMMA CheckNoCycleKeeps ==
  ASSUME IInv, NEW s \in Slots, CheckNoCycle(s)
  PROVE  IInv'
<1> DEFINE r == req[s]
           up == parent[r.cursor]
           pc == IF up = Null THEN "write" ELSE "walk"
           n == [r EXCEPT !.seen = r.seen \cup {r.cursor}, !.cursor = up, !.pc = pc]
<1>1. CASE r.cursor = r.target \/ r.cursor \in r.seen
  BY <1>1, RejectKeeps DEF CheckNoCycle, Climb
<1>2. CASE ~(r.cursor = r.target \/ r.cursor \in r.seen)
  <2>1. /\ r \in Requests /\ r.pc = "walk"
        /\ r.op = "update" /\ r.newParent \in exists /\ r.cursor \in exists
        /\ r.target \in exists /\ r.seen \subseteq exists
    BY DEF IInv, TypeOK, CheckNoCycle, Climb, PayloadInv
  <2>2. Goto(s, n)
    BY <1>2 DEF CheckNoCycle, Climb
  <2>3. up \in exists \cup {Null} /\ r.cursor \in Positions /\ exists \subseteq Positions
    BY <2>1 DEF IInv, RowInv, TypeOK
  <2>4. pc \in {"write", "walk"} /\ (pc = "write" <=> up = Null)
    OBVIOUS
  <2>5. /\ r.newParent \in exists => r.newParent # Null
        /\ r.newParent \in Positions
    BY <2>1, <2>3, NullAssumption
  <2> HIDE DEF up, pc
  <2>6. n \in Requests
    BY <2>1, <2>3, <2>4 DEF Requests
  <2>7. /\ n.pc = pc /\ n.op = r.op /\ n.target = r.target /\ n.cursor = up
        /\ n.newParent = r.newParent /\ n.seen = r.seen \cup {r.cursor}
        /\ n.dirty = r.dirty
    BY <2>1 DEF Requests
  <2> HIDE DEF n
  <2>8. req'[s] = n
    BY <2>2 DEF Goto, IInv, TypeOK
  <2>0. OneSlot => ~r.dirty
    BY DEF IInv, PayloadInv
  <2>9. PayloadInv(s)'
    BY <2>0, <2>1, <2>2, <2>3, <2>4, <2>7, <2>8 DEF PayloadInv, Goto, posVars
  <2>10. WalkInv(s)'
    <3>1. WalkInv(s)
      BY DEF IInv
    <3>2. ASSUME ~r.dirty
          PROVE  /\ r.newParent \in n.seen
                 /\ r.target \notin n.seen
                 /\ \A x \in n.seen : parent[x] \in n.seen \cup {up}
      BY <1>2, <2>1, <2>7, <3>1, <3>2 DEF WalkInv, up
    <3>3. QED
      BY <2>2, <2>4, <2>7, <2>8, <3>2 DEF WalkInv, Goto, posVars
  <2>11. QED
    BY <2>2, <2>6, <2>9, <2>10, QuietStep DEF Goto, IInv, TypeOK
<1>3. QED
  BY <1>1, <1>2

LEMMA CountHoldersKeeps ==
  ASSUME IInv, NEW s \in Slots, CountHolders(s)
  PROVE  IInv'
<1> DEFINE r == req[s]
           n == [r EXCEPT !.pc = "write"]
<1>1. CASE r.target \in held
  BY <1>1, RejectKeeps DEF CountHolders
<1>2. CASE r.target \notin held
  <2>1. r \in Requests /\ r.pc = "count" /\ PayloadInv(s)
    BY DEF IInv, TypeOK, CountHolders
  <2>2. Goto(s, n)
    BY <1>2 DEF CountHolders
  <2>3. /\ n \in Requests /\ n.pc = "write" /\ n.op = r.op
        /\ n.target = r.target /\ n.newParent = r.newParent
        /\ n.seen = r.seen /\ n.dirty = r.dirty
    BY <2>1 DEF Requests
  <2> HIDE DEF n
  <2>4. req'[s] = n
    BY <2>2 DEF Goto, IInv, TypeOK
  <2>5. r.op = "delete" /\ r.newParent = Keep
    BY <2>1 DEF PayloadInv
  <2>6. PayloadInv(s)' /\ WalkInv(s)'
    BY <2>1, <2>2, <2>3, <2>4, <2>5, NullAssumption
       DEF PayloadInv, WalkInv, Goto, posVars
  <2>7. QED
    BY <2>2, <2>3, <2>6, QuietStep DEF Goto, IInv, TypeOK
<1>3. QED
  BY <1>1, <1>2

-----------------------------------------------------------------------------
\* What a committed change writes: rows that exist, and nothing else.
LEMMA ChangeWritesRows ==
  ASSUME IInv, NEW s \in Slots, CommitChange(s)
  PROVE  /\ TypeOK'
         /\ RowInv'
         /\ req[s].target \in exists
         /\ WritesParent(req[s]) => req[s].newParent \in exists \cup {Null}
<1> DEFINE r == req[s]
<1>1. /\ r \in Requests /\ r.pc = "write" /\ r.op # "create"
      /\ r.target \in exists /\ r.newParent \in exists \cup {Null, Keep}
  BY DEF IInv, TypeOK, CommitChange, PayloadInv
<1>2. WritesParent(r) => r.newParent \in exists \cup {Null}
  BY <1>1 DEF WritesParent
<1>3. exists \subseteq Positions /\ active \subseteq exists
  BY DEF IInv, TypeOK
<1>4. active' \in SUBSET exists
  BY <1>1, <1>3 DEF CommitChange, NewActive
<1>5. parent' \in [Positions -> exists \cup {Null}]
  BY <1>1, <1>2, <1>3 DEF CommitChange, IInv, TypeOK, RowInv
<1>6. RowInv'
  BY <1>1, <1>2, <1>5 DEF CommitChange, IInv, TypeOK, RowInv
<1>7. req' \in [Slots -> Requests]
  <2>1. MarkDirty(s) \in [Slots -> Requests]
    <3>1. ASSUME NEW t \in Slots PROVE [req[t] EXCEPT !.dirty = TRUE] \in Requests
      BY DEF IInv, TypeOK, Requests
    <3>2. QED
      BY <3>1, IdleType DEF MarkDirty, IInv, TypeOK
  <2>2. [req EXCEPT ![s] = Idle] \in [Slots -> Requests]
    BY IdleType DEF IInv, TypeOK
  <2>3. QED
    BY <2>1, <2>2 DEF CommitChange
<1>8. TypeOK'
  BY <1>3, <1>4, <1>5, <1>7 DEF CommitChange, IInv, TypeOK
<1>9. QED
  BY <1>1, <1>2, <1>6, <1>8

\* The other slots: their walks are marked, or nothing they read has changed.
LEMMA CommitChangeKeeps ==
  ASSUME IInv, NEW s \in Slots, CommitChange(s)
  PROVE  IInv'
<1>1. TypeOK' /\ RowInv'
  BY ChangeWritesRows
<1>2. PayloadInv(s)' /\ WalkInv(s)'
  <2>1. req'[s] = Idle
    BY DEF CommitChange, MarkDirty, IInv, TypeOK
  <2>2. QED
    BY <2>1 DEF PayloadInv, WalkInv, Idle
<1>3. ASSUME NEW t \in Slots, t # s
      PROVE  PayloadInv(t)' /\ WalkInv(t)'
  <2>1. PayloadInv(t) /\ WalkInv(t) /\ req[t] \in Requests /\ exists' = exists
    BY DEF IInv, TypeOK, CommitChange
  <2>2. CASE WritesParent(req[s]) /\ req[t].pc \in {"walk", "write"}
    <3> DEFINE n == [req[t] EXCEPT !.dirty = TRUE]
    <3>1. req'[t] = n
      BY <1>3, <2>2 DEF CommitChange, MarkDirty
    <3>2. /\ n.pc = req[t].pc /\ n.op = req[t].op /\ n.target = req[t].target
          /\ n.newParent = req[t].newParent /\ n.cursor = req[t].cursor
          /\ n.seen = req[t].seen /\ n.dirty
      BY <2>1 DEF Requests
    <3> HIDE DEF n
    <3>3. QED
      BY <1>3, <2>1, <2>2, <3>1, <3>2 DEF PayloadInv, WalkInv, OneSlot
  <2>3. CASE WritesParent(req[s]) /\ req[t].pc \notin {"walk", "write"}
    <3>1. req'[t] = req[t]
      BY <1>3, <2>3 DEF CommitChange, MarkDirty
    <3>2. QED
      BY <2>1, <2>3, <3>1 DEF PayloadInv, WalkInv
  <2>4. CASE ~WritesParent(req[s])
    <3>1. req'[t] = req[t] /\ parent' = parent
      BY <1>3, <2>4 DEF CommitChange, IInv, TypeOK
    <3>2. QED
      BY <2>1, <3>1 DEF PayloadInv, WalkInv
  <2>5. QED
    BY <2>2, <2>3, <2>4
<1>4. QED
  BY <1>1, <1>2, <1>3 DEF IInv

LEMMA CommitCreateKeeps ==
  ASSUME IInv, NEW s \in Slots, CommitCreate(s)
  PROVE  IInv'
<1> DEFINE r == req[s]
<1>1. PICK p \in Positions \ exists :
        /\ exists' = exists \cup {p}
        /\ parent' = [parent EXCEPT ![p] = r.newParent]
        /\ active' = active \cup {p}
  BY DEF CommitCreate
<1>2. r.newParent \in exists \cup {Null}
  BY DEF IInv, PayloadInv, CommitCreate
<1>3. req' = [req EXCEPT ![s] = Idle] /\ UNCHANGED <<held, started>>
  BY DEF CommitCreate
<1>4. TypeOK' /\ RowInv'
  <2>1. parent' \in [Positions -> exists' \cup {Null}]
    BY <1>1, <1>2 DEF IInv, TypeOK, RowInv
  <2>2. RowInv'
    BY <1>1, <2>1 DEF IInv, TypeOK, RowInv
  <2>3. TypeOK'
    BY <1>1, <1>3, <2>1, IdleType DEF IInv, TypeOK
  <2>4. QED
    BY <2>2, <2>3
<1>5. ASSUME NEW t \in Slots
      PROVE  PayloadInv(t)' /\ WalkInv(t)'
  <2>1. CASE t = s
    <3>1. req'[t] = Idle
      BY <1>3, <2>1 DEF IInv, TypeOK
    <3>2. QED
      BY <3>1 DEF PayloadInv, WalkInv, Idle
  <2>2. CASE t # s
    <3>1. req'[t] = req[t] /\ PayloadInv(t) /\ WalkInv(t)
      BY <1>3, <2>2 DEF IInv, TypeOK
    <3>2. \A x \in req[t].seen : parent'[x] = parent[x]
      BY <1>1, <3>1 DEF PayloadInv, IInv, TypeOK
    <3>3. PayloadInv(t)'
      BY <1>1, <3>1 DEF PayloadInv
    <3>4. WalkInv(t)'
      BY <3>1, <3>2 DEF WalkInv
    <3>5. QED
      BY <3>3, <3>4
  <2>3. QED
    BY <2>1, <2>2
<1>6. QED
  BY <1>4, <1>5 DEF IInv

-----------------------------------------------------------------------------
\* The inductive invariant is kept by every step.
LEMMA NextKeeps ==
  ASSUME IInv, [Next]_vars
  PROVE  IInv'
<1>1. ASSUME NEW s \in Slots, RequestStep(s) PROVE IInv'
  <2>1. CASE StartSome(s)
    BY <2>1, StartKeeps
  <2>2. CASE Load(s)
    BY <2>2, LoadKeeps
  <2>3. CASE GetParent(s)
    BY <2>3, GetParentKeeps
  <2>4. CASE CheckNoCycle(s)
    BY <2>4, CheckNoCycleKeeps
  <2>5. CASE CountHolders(s)
    BY <2>5, CountHoldersKeeps
  <2>6. CASE CommitChange(s)
    BY <2>6, CommitChangeKeeps
  <2>7. CASE CommitCreate(s)
    BY <2>7, CommitCreateKeeps
  <2>8. CASE Abort(s)
    BY <2>8, RejectKeeps DEF Abort
  <2>9. QED
    BY <1>1, <2>1, <2>2, <2>3, <2>4, <2>5, <2>6, <2>7, <2>8
       DEF RequestStep, Proceed
<1>2. CASE HoldersChange
  BY <1>2 DEF HoldersChange, IInv, TypeOK, RowInv, PayloadInv, WalkInv, posVars
<1>3. CASE UNCHANGED vars
  BY <1>3 DEF vars, IInv, TypeOK, RowInv, PayloadInv, WalkInv
<1>4. QED
  BY <1>1, <1>2, <1>3 DEF Next

\* Every reachable state satisfies the inductive invariant.
THEOREM Invariance == Spec => []IInv
<1>1. IInv /\ [Next]_vars => IInv'
  BY NextKeeps
<1>2. QED
  BY InitIInv, <1>1, PTL DEF Spec

\* The variables keep their types (positions.py as a whole).
THEOREM TypeCorrect == Spec => []TypeOK
<1>1. IInv => TypeOK
  BY DEF IInv
<1>2. QED
  BY Invariance, <1>1, PTL

-----------------------------------------------------------------------------
\* The commit of a walk nobody disturbed keeps the tree acyclic.
LEMMA CleanCommitKeepsAcyclic ==
  ASSUME IInv, Acyclic, NEW s \in Slots, CommitChange(s), ~req[s].dirty
  PROVE  Acyclic'
<1> DEFINE r == req[s]
<1>1. exists' = exists /\ r.target \in exists /\ TypeOK
  BY ChangeWritesRows DEF CommitChange, IInv
<1>2. CASE ~WritesParent(r)
  BY <1>1, <1>2 DEF CommitChange, Acyclic
<1>3. CASE WritesParent(r) /\ r.newParent = Null
  <2>1. parent' = [parent EXCEPT ![r.target] = Null]
    BY <1>3 DEF CommitChange
  <2>2. QED
    BY <1>1, <2>1, RootKeepsAcyclic
<1>4. CASE WritesParent(r) /\ r.newParent # Null
  <2>1. parent' = [parent EXCEPT ![r.target] = r.newParent]
    BY <1>4 DEF CommitChange
  <2>2. r.newParent \in exists /\ r.newParent \in Positions
    BY <1>4, <1>1, ChangeWritesRows DEF TypeOK
  <2>3. /\ r.newParent \in r.seen
        /\ r.target \notin r.seen
        /\ \A x \in r.seen : parent[x] \in r.seen \cup {Null}
    BY <1>4, <2>2 DEF IInv, WalkInv, CommitChange, WritesParent
  <2>4. r.seen \in SUBSET exists
    BY DEF IInv, PayloadInv
  <2>5. QED
    BY <1>1, <2>1, <2>2, <2>3, <2>4, MoveKeepsAcyclic
<1>5. QED
  BY <1>2, <1>3, <1>4

\* Steps that write no row leave the tree as it is.
LEMMA OnlyCommitsWrite ==
  ASSUME [Next]_vars,
         \A s \in Slots : ~CommitChange(s) /\ ~CommitCreate(s)
  PROVE  UNCHANGED posVars
<1>1. CASE \E s \in Slots : RequestStep(s)
  BY <1>1 DEF RequestStep, StartSome, Proceed, StartCreate, StartUpdate,
     StartDelete, StartActivate, Start, Load, GetParent, CheckNoCycle, Climb,
     CountHolders, Abort, Reject, Goto
<1>2. CASE HoldersChange
  BY <1>2 DEF HoldersChange
<1>3. CASE UNCHANGED vars
  BY <1>3 DEF vars, posVars
<1>4. QED
  BY <1>1, <1>2, <1>3 DEF Next

LEMMA CreateKeepsAcyclic ==
  ASSUME IInv, Acyclic, NEW s \in Slots, CommitCreate(s)
  PROVE  Acyclic'
<1>1. req[s].newParent \in exists \cup {Null}
  BY DEF IInv, PayloadInv, CommitCreate
<1>2. QED
  BY <1>1, LeafKeepsAcyclic DEF CommitCreate, IInv

\* Whatever the number of positions, slots and requests, only the commit of a
\* re-parent whose walk another re-parent overlapped can close a cycle
\* (_check_no_cycle, positions.py:32-57, against the commit at 147-150).
THEOREM OnlyOverlapClosesCycles == Spec => CycleNeedsOverlap
<1>1. ASSUME IInv, [Next]_vars, Acyclic, ~Acyclic'
      PROVE  \E s \in Slots : /\ req[s].pc = "write"
                              /\ req[s].dirty
                              /\ req'[s].pc = "idle"
  <2>1. CASE \E s \in Slots : CommitChange(s)
    <3>1. PICK s \in Slots : CommitChange(s)
      BY <2>1
    <3>2. req[s].dirty
      BY <1>1, <3>1, CleanCommitKeepsAcyclic
    <3>3. req'[s] = Idle
      BY <1>1, <3>1 DEF CommitChange, MarkDirty, IInv, TypeOK
    <3>4. QED
      BY <3>1, <3>2, <3>3 DEF CommitChange, Idle
  <2>2. CASE \E s \in Slots : CommitCreate(s)
    BY <1>1, <2>2, CreateKeepsAcyclic
  <2>3. CASE \A s \in Slots : ~CommitChange(s) /\ ~CommitCreate(s)
    BY <1>1, <2>3, OnlyCommitsWrite DEF posVars, Acyclic
  <2>4. QED
    BY <2>1, <2>2, <2>3
<1>2. QED
  BY Invariance, <1>1, PTL DEF Spec, CycleNeedsOverlap

-----------------------------------------------------------------------------
(* One request at a time.                                                   *)

\* With a single slot no walk is ever disturbed, so the tree stays a forest.
SerialInv == OneSlot /\ IInv /\ Acyclic

LEMMA SerialStep ==
  ASSUME SerialInv, [Next]_vars
  PROVE  SerialInv'
<1>1. IInv'
  BY NextKeeps DEF SerialInv
<1>2. \A s \in Slots : ~req[s].dirty
  BY DEF SerialInv, IInv, PayloadInv
<1>3. Acyclic'
  <2>1. ASSUME NEW s \in Slots, CommitChange(s) PROVE Acyclic'
    BY <1>2, <2>1, CleanCommitKeepsAcyclic DEF SerialInv
  <2>2. ASSUME NEW s \in Slots, CommitCreate(s) PROVE Acyclic'
    BY <2>2, CreateKeepsAcyclic DEF SerialInv
  <2>3. CASE \A s \in Slots : ~CommitChange(s) /\ ~CommitCreate(s)
    BY <2>3, OnlyCommitsWrite DEF SerialInv, posVars, Acyclic
  <2>4. QED
    BY <2>1, <2>2, <2>3
<1>4. QED
  BY <1>1, <1>3 DEF SerialInv

LEMMA SerialInit == ASSUME OneSlot PROVE Init => SerialInv
BY InitIInv DEF Init, InitRows, SerialInv

\* Handled one at a time, the requests of positions.py never close a cycle.
THEOREM SerialAcyclic == ASSUME OneSlot PROVE Spec => []Acyclic
<1>1. SerialInv /\ [Next]_vars => SerialInv'
  BY SerialStep
<1>2. SerialInv => Acyclic
  BY DEF SerialInv
<1>3. QED
  BY SerialInit, <1>1, <1>2, PTL DEF Spec

\* Every commit is a step of the abstract forest.
LEMMA CommitMoves ==
  ASSUME SerialInv, NEW s \in Slots, CommitChange(s)
  PROVE  Abstract!Next
<1> DEFINE r == req[s]
           p == r.target
           q == IF WritesParent(r) THEN r.newParent ELSE parent[p]
<1>1. /\ p \in exists /\ p \in Positions /\ parent \in [Positions -> Positions \cup {Null}]
      /\ parent[p] \in exists \cup {Null}
      /\ WritesParent(r) => r.newParent \in exists \cup {Null}
  BY ChangeWritesRows DEF SerialInv, IInv, TypeOK, RowInv
<1>2. q \in exists \cup {Null} /\ q \in Positions \cup {Null}
  BY <1>1 DEF SerialInv, IInv, TypeOK
<1>3. parent' = [parent EXCEPT ![p] = q]
  BY <1>1 DEF CommitChange
<1>4. Abstract!Switch(p)
  BY DEF CommitChange, NewActive, Abstract!Switch
<1>5. \/ q = parent[p]
      \/ q = Null
      \/ q \in exists /\ Abstract!NotAbove(p, q)
  <2>1. CASE WritesParent(r) /\ q # Null
    <3>1. r.newParent \in exists /\ r.newParent \in Positions
      BY <2>1, <1>1, <1>2
    <3>2. /\ r.newParent \in r.seen
          /\ p \notin r.seen
          /\ \A x \in r.seen : parent[x] \in r.seen \cup {Null}
          /\ r.seen \in SUBSET exists
      BY <2>1, <3>1
         DEF SerialInv, IInv, WalkInv, PayloadInv, CommitChange, WritesParent
    <3>3. QED
      BY <2>1, <3>1, <3>2 DEF Abstract!NotAbove
  <2>2. QED
    BY <2>1
<1>6. Abstract!Move(p, q)
  BY <1>1, <1>3, <1>4, <1>5 DEF CommitChange, Abstract!Move
<1>7. QED
  BY <1>1, <1>2, <1>6 DEF Abstract!Next

LEMMA CreateGrows ==
  ASSUME SerialInv, NEW s \in Slots, CommitCreate(s)
  PROVE  Abstract!Next
<1>1. req[s].newParent \in exists \cup {Null} /\ exists \subseteq Positions
  BY DEF SerialInv, IInv, PayloadInv, CommitCreate, TypeOK
<1>2. \E p \in Positions : Abstract!Grow(p, req[s].newParent)
  BY <1>1 DEF CommitCreate, Abstract!Grow
<1>3. QED
  BY <1>1, <1>2 DEF Abstract!Next

\* Handled one at a time, the requests implement the abstract forest: each
\* commit is one of its steps, every other await changes nothing.
THEOREM SerialImplementsForest == ASSUME OneSlot PROVE Spec => ImplementsForest
<1>1. Init => Abstract!Init
  BY DEF Init, InitRows, Acyclic, Abstract!Init, Abstract!Forest
<1>2. SerialInv /\ [Next]_vars => [Abstract!Next]_(Abstract!vars)
  <2> SUFFICES ASSUME SerialInv, [Next]_vars
               PROVE  Abstract!Next \/ UNCHANGED posVars
    BY DEF Abstract!vars, posVars
  <2>1. CASE \E s \in Slots : CommitChange(s) \/ CommitCreate(s)
    BY <2>1, CommitMoves, CreateGrows
  <2>2. CASE \A s \in Slots : ~CommitChange(s) /\ ~CommitCreate(s)
    BY <2>2, OnlyCommitsWrite
  <2>3. QED
    BY <2>1, <2>2
<1>3. SerialInv /\ [Next]_vars => SerialInv'
  BY SerialStep
<1>4. QED
  BY SerialInit, <1>1, <1>2, <1>3, PTL DEF Spec, ImplementsForest, Abstract!Spec

-----------------------------------------------------------------------------
\* A request that ends in its write is the one that takes the step: what other
\* requests do to it leaves it where it is.
LEMMA WhoEndsWrites ==
  ASSUME TypeOK, NEW s \in Slots, req[s].pc = "write", req'[s].pc = "idle",
         NEW t \in Slots, RequestStep(t)
  PROVE  s = t
<1> SUFFICES ASSUME s # t
             PROVE  FALSE
  OBVIOUS
<1>1. req \in [Slots -> Requests] /\ req[s] \in Requests
  BY DEF TypeOK
<1>2. ASSUME NEW r, req' = [req EXCEPT ![t] = r]
      PROVE  FALSE
  <2>1. req'[s] = req[s]
    BY <1>1, <1>2
  <2>2. QED
    BY <2>1
<1>3. ASSUME req' = MarkDirty(t)
      PROVE  FALSE
  <2>1. req'[s] = [req[s] EXCEPT !.dirty = TRUE]
    BY <1>3 DEF MarkDirty
  <2>2. req'[s].pc = req[s].pc
    BY <1>1, <2>1 DEF Requests
  <2>3. QED
    BY <2>2
<1>4. ASSUME NEW r, Start(t, r) \/ Goto(t, r)
      PROVE  FALSE
  BY <1>2, <1>4 DEF Start, Goto
<1>5. CASE StartSome(t)
  BY <1>4, <1>5 DEF StartSome, StartCreate, StartUpdate, StartDelete, StartActivate
<1>6. CASE Load(t) \/ GetParent(t) \/ CheckNoCycle(t) \/ CountHolders(t) \/ Abort(t)
  BY <1>4, <1>6 DEF Load, GetParent, CheckNoCycle, Climb, CountHolders, Abort, Reject
<1>7. CASE CommitChange(t) \/ CommitCreate(t)
  BY <1>2, <1>3, <1>7 DEF CommitChange, CommitCreate
<1>8. QED
  BY <1>5, <1>6, <1>7 DEF RequestStep, Proceed

\* However requests overlap, a commit keeps the columns its request does not name
\* (the ORM writes the changed ones only, positions.py:127 and 147-150).
THEOREM UnnamedColumnsStay == Spec => UnnamedColumnsKept
<1> DEFINE Kept == \A s \in Slots :
             req[s].pc = "write" /\ req'[s].pc = "idle" /\ req[s].op # "create" =>
               /\ req[s].newParent = Keep => parent' = parent
               /\ req[s].setActive = "keep" => active' = active
<1>1. TypeOK /\ [Next]_vars => [Kept]_vars
  <2> SUFFICES ASSUME TypeOK, Next, NEW s \in Slots,
                      req[s].pc = "write", req'[s].pc = "idle", req[s].op # "create"
               PROVE  /\ req[s].newParent = Keep => parent' = parent
                      /\ req[s].setActive = "keep" => active' = active
    OBVIOUS
  <2>1. CASE HoldersChange
    BY <2>1 DEF HoldersChange, posVars
  <2>2. CASE \E t \in Slots : RequestStep(t)
    <3>1. RequestStep(s)
      BY <2>2, WhoEndsWrites
    <3>2. CommitChange(s) \/ Abort(s)
      BY <3>1 DEF RequestStep, StartSome, StartCreate, StartUpdate, StartDelete,
         StartActivate, Start, Proceed, Load, GetParent, CheckNoCycle, CountHolders,
         CommitCreate
    <3>3. QED
      BY <3>2 DEF CommitChange, WritesParent, NewActive, Abort, Reject, Goto, posVars
  <2>3. QED
    BY <2>1, <2>2 DEF Next
<1>2. QED
  BY TypeCorrect, <1>1, PTL DEF Spec, UnnamedColumnsKept

=============================================================================
