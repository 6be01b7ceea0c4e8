--------------------------- MODULE WorkloadProofs ---------------------------
(***************************************************************************)
(* Proofs about WorkloadEntries.  The first part holds for any number of   *)
(* overlapping requests: an id is never handed out twice, so the row that  *)
(* a request loaded has kept its owner, and the CHECK constraints judge    *)
(* the row an UPDATE adds up to.  The second part is about one request at  *)
(* a time, whose loaded row is still the row when it commits.              *)
(*                                                                         *)
(* And about WorkloadScreens: why a screen that has settled shows the       *)
(* entries of the database, and why a save moves no entry to a day the user *)
(* did not choose, for any users, entries, dates and filters, and however   *)
(* the requests of the screen overlap.  The list and the form load          *)
(* everything again after a change; the calendar does not, and needs that    *)
(* nothing can be deleted while it is loading.                              *)
(***************************************************************************)
EXTENDS WorkloadEntries, WorkloadScreens, FiniteSetTheorems, TLAPS

\* A request past its checks: who acts on which id, and how it is dated.
ReqInv(s) ==
  LET r == req[s] IN
  /\ r.pc = "load" => r.op \in {"update", "delete"}
  /\ r.pc # "idle" =>
       /\ r.actor \in Owners
       /\ r.op # "none"
       /\ r.op # "create" => r.target \in Entries
  /\ r.pc \in {"category", "write"} /\ r.op = "create" =>
       /\ r.body.date \in Dates /\ r.body.date <= today
       /\ r.body.activity # Keep /\ r.body.category # Keep
       /\ r.body.project # Keep /\ r.body.amount # Keep
  /\ r.pc \in {"category", "write"} /\ r.op # "create" =>
       /\ r.old \in Rows
       /\ r.target \in used
       /\ row[r.target] # Null => row[r.target].owner = r.actor
       /\ r.body.date \in {Keep, r.old.date} \/ r.body.date <= today

IInv ==
  /\ TypeOK
  /\ \A s \in Slots : ReqInv(s)
  /\ ProjectMatchesActivity
  /\ HoursPositive
  /\ NoFutureEntries

-----------------------------------------------------------------------------
LEMMA NumericType == \A h \in Amounts : Numeric52(h) \in Nat
<1> SUFFICES ASSUME NEW h \in Amounts PROVE Numeric52(h) \in Nat
  OBVIOUS
<1>1. h \in Nat
  BY EntryAssumption
<1>2. QED
  BY <1>1 DEF Numeric52

\* A body laid over a row is a row; a field it leaves out is the row's.
LEMMA MergedRow ==
  ASSUME NEW b \in Bodies, NEW e \in Rows
  PROVE  /\ Merged(b, e) \in Rows
         /\ Merged(b, e).owner = e.owner
         /\ Merged(b, e).date = Set(b.date, e.date)
         /\ Merged(b, e).activity = Set(b.activity, e.activity)
         /\ Merged(b, e).category = Set(b.category, e.category)
<1>1. /\ b.date \in Dates \cup {Keep} /\ b.activity \in Activities \cup {Keep}
      /\ b.category \in Categories \cup {Keep}
      /\ b.project \in Projects \cup {Null, Keep}
      /\ b.amount \in Amounts \cup {Keep}
  BY DEF Bodies
<1>2. b.amount # Keep => Numeric52(b.amount) \in Nat
  BY <1>1, NumericType
<1>3. QED
  BY <1>1, <1>2 DEF Merged, Set, Rows

LEMMA ChangedBody ==
  ASSUME NEW r \in Requests, r.old \in Rows
  PROVE  /\ Changed(r) \in Bodies
         /\ Changed(r).date \in {Keep, r.body.date}
         /\ Changed(r).date # r.old.date
         /\ Changed(r).activity \in {Keep, r.body.activity}
         /\ Changed(r).category \in {Keep, r.body.category}
<1>1. r.body \in Bodies
  BY DEF Requests
<1>2. r.old.date # Keep
  BY EntryAssumption DEF Rows
<1>3. QED
  BY <1>1, <1>2 DEF Changed, Bodies

\* What an UPDATE stores: a row of the same owner, not dated in the future.
LEMMA UpdatedRow ==
  ASSUME IInv, NEW s \in Slots, CommitUpdate(s)
  PROVE  LET new == Merged(Changed(req[s]), row[req[s].target]) IN
         /\ req[s].target \in used
         /\ new \in Rows
         /\ new.owner = row[req[s].target].owner
         /\ new.date <= today
         /\ Checks(new)
         /\ row' = [row EXCEPT ![req[s].target] = new]
<1> DEFINE r == req[s]
           e == row[r.target]
<1>1. /\ r \in Requests /\ r.pc = "write" /\ r.op = "update"
      /\ r.target \in Entries /\ r.target \in used
      /\ r.old \in Rows
      /\ r.body.date \in {Keep, r.old.date} \/ r.body.date <= today
  BY DEF IInv, TypeOK, ReqInv, CommitUpdate
<1>2. e \in Rows /\ e.date <= today
  BY <1>1 DEF IInv, TypeOK, NoFutureEntries, CommitUpdate
<1>3. /\ Merged(Changed(r), e) \in Rows
      /\ Merged(Changed(r), e).owner = e.owner
      /\ Merged(Changed(r), e).date = Set(Changed(r).date, e.date)
  BY <1>1, <1>2, ChangedBody, MergedRow
<1>4. Set(Changed(r).date, e.date) <= today
  BY <1>1, <1>2, ChangedBody DEF Set
<1>5. QED
  BY <1>1, <1>3, <1>4 DEF CommitUpdate

\* What an INSERT stores.
LEMMA CreatedRow ==
  ASSUME IInv, NEW s \in Slots, CommitCreate(s)
  PROVE  \E e \in Entries \ used, new \in Rows :
           /\ new.owner = req[s].actor
           /\ new.date = req[s].body.date
           /\ new.date <= today
           /\ new.activity = req[s].body.activity
           /\ new.category = req[s].body.category
           /\ Checks(new)
           /\ used' = used \cup {e}
           /\ row' = [row EXCEPT ![e] = new]
<1> DEFINE r == req[s]
           new == [owner |-> r.actor, date |-> r.body.date,
                   activity |-> r.body.activity, category |-> r.body.category,
                   project |-> r.body.project, hours |-> Numeric52(r.body.amount)]
<1>1. /\ r \in Requests /\ r.body \in Bodies
      /\ r.pc = "write" /\ r.op = "create" /\ r.actor \in Owners
      /\ r.body.date \in Dates /\ r.body.date <= today
      /\ r.body.activity # Keep /\ r.body.category # Keep
      /\ r.body.project # Keep /\ r.body.amount # Keep
  BY DEF IInv, TypeOK, ReqInv, CommitCreate, Requests
<1>2. /\ r.body.activity \in Activities /\ r.body.category \in Categories
      /\ r.body.project \in Projects \cup {Null}
      /\ Numeric52(r.body.amount) \in Nat
  BY <1>1, NumericType DEF Bodies
<1>3. new \in Rows
  BY <1>1, <1>2 DEF Rows
<1>4. \E e \in Entries \ used : used' = used \cup {e} /\ row' = [row EXCEPT ![e] = new]
  BY DEF CommitCreate
<1>5. Checks(new)
  BY DEF CommitCreate
<1>6. QED
  BY <1>1, <1>3, <1>4, <1>5

-----------------------------------------------------------------------------
LEMMA InitIInv == Init => IInv
<1> SUFFICES ASSUME Init PROVE IInv
  OBVIOUS
<1>1. Idle \in Requests
  BY EntryAssumption DEF Idle, NoBody, Requests, Bodies, Init
<1>2. TypeOK
  BY <1>1, EntryAssumption DEF Init, TypeOK
<1>3. \A s \in Slots : ReqInv(s)
  BY DEF Init, ReqInv, Idle
<1>4. ProjectMatchesActivity /\ HoursPositive /\ NoFutureEntries
  BY DEF Init, ProjectMatchesActivity, HoursPositive, NoFutureEntries
<1>5. QED
  BY <1>2, <1>3, <1>4 DEF IInv

\* A step that leaves the rows alone and lets slot s go on as r.
LEMMA GotoIInv ==
  ASSUME IInv, NEW s \in Slots, NEW r \in Requests,
         UNCHANGED <<row, used, listed, live, today>>,
         started' \in 0..MaxRequests,
         req' = [req EXCEPT ![s] = r],
         ReqInv(s)'
  PROVE  IInv'
<1>1. TypeOK'
  BY DEF IInv, TypeOK
<1>2. ASSUME NEW t \in Slots PROVE ReqInv(t)'
  <2>1. CASE t = s
    BY <2>1
  <2>2. CASE t # s
    BY <2>2 DEF IInv, TypeOK, ReqInv
  <2>3. QED
    BY <2>1, <2>2
<1>3. QED
  BY <1>1, <1>2 DEF IInv, ProjectMatchesActivity, HoursPositive, NoFutureEntries

LEMMA RejectIInv ==
  ASSUME IInv, NEW s \in Slots, Reject(s)
  PROVE  IInv'
<1>1. Idle \in Requests
  BY EntryAssumption DEF Idle, NoBody, Requests, Bodies
<1>2. ReqInv(s)'
  BY DEF Reject, Goto, ReqInv, Idle, IInv, TypeOK
<1>3. QED
  BY <1>1, <1>2, GotoIInv DEF Reject, Goto, IInv, TypeOK

LEMMA StartIInv ==
  ASSUME IInv, NEW s \in Slots, StartSome(s)
  PROVE  IInv'
<1> USE EntryAssumption
<1>0. /\ today \in FirstDay..LastDay /\ today \in Int
      /\ started \in 0..MaxRequests
  BY DEF IInv, TypeOK
<1>1. ASSUME NEW o \in Owners, NEW b \in Bodies, StartCreate(s, o, b)
      PROVE  IInv'
  <2> DEFINE r == [Idle EXCEPT !.pc = "category", !.op = "create",
                               !.actor = o, !.body = b, !.day = today]
  <2>1. r \in Requests
    BY <1>0 DEF Idle, Requests
  <2>2. req' = [req EXCEPT ![s] = r]
    BY <1>1 DEF StartCreate, Start
  <2>3. started' \in 0..MaxRequests /\ UNCHANGED <<row, used, listed, live, today>>
    BY <1>0, <1>1 DEF StartCreate, Start
  <2>4. /\ b.date # Keep /\ b.activity # Keep /\ b.category # Keep
        /\ b.project # Keep /\ b.amount # Keep /\ b.date <= today
    BY <1>1 DEF StartCreate, InWindow
  <2>5. b.date \in Dates
    BY <2>4 DEF Bodies
  <2>6. ReqInv(s)'
    <3>1. req'[s] = r
      BY <2>2 DEF IInv, TypeOK
    <3>2. /\ r.pc = "category" /\ r.op = "create" /\ r.actor = o /\ r.body = b
      BY DEF Idle
    <3>3. QED
      BY <3>1, <3>2, <2>3, <2>4, <2>5 DEF ReqInv
  <2>7. QED
    BY <2>1, <2>2, <2>3, <2>6, GotoIInv
<1>2. ASSUME NEW i \in Requests, i.pc = "load", i.op \in {"update", "delete"},
             i.actor \in Owners, i.target \in Entries, Start(s, i)
      PROVE  IInv'
  <2> DEFINE r == [i EXCEPT !.day = today]
  <2>1. r \in Requests
    BY <1>0 DEF Requests
  <2>2. req' = [req EXCEPT ![s] = r]
    BY <1>2 DEF Start
  <2>3. started' \in 0..MaxRequests /\ UNCHANGED <<row, used, listed, live, today>>
    BY <1>0, <1>2 DEF Start
  <2>4. ReqInv(s)'
    <3>1. req'[s] = r
      BY <2>2 DEF IInv, TypeOK
    <3>2. /\ r.pc = "load" /\ r.op = i.op /\ r.actor = i.actor
          /\ r.target = i.target
      BY <1>2 DEF Requests
    <3>3. QED
      BY <1>2, <3>1, <3>2 DEF ReqInv
  <2>5. QED
    BY <2>1, <2>2, <2>3, <2>4, GotoIInv
<1>3. Idle \in Requests
  BY DEF Idle, NoBody, Requests, Bodies
<1>4. ASSUME NEW o \in Owners, NEW e \in Entries, StartDelete(s, o, e)
      PROVE  IInv'
  <2> DEFINE i == [Idle EXCEPT !.pc = "load", !.op = "delete", !.actor = o,
                               !.target = e]
  <2>1. i \in Requests
    BY <1>3 DEF Requests
  <2>2. i.pc = "load" /\ i.op = "delete" /\ i.actor = o /\ i.target = e
    BY DEF Idle
  <2>3. QED
    BY <1>2, <1>4, <2>1, <2>2 DEF StartDelete
<1>5. ASSUME NEW o \in Owners, NEW e \in Entries, NEW b \in Bodies,
             StartUpdate(s, o, e, b)
      PROVE  IInv'
  <2> DEFINE i == [Idle EXCEPT !.pc = "load", !.op = "update", !.actor = o,
                               !.target = e, !.body = b]
  <2>1. i \in Requests
    BY <1>3 DEF Requests
  <2>2. i.pc = "load" /\ i.op = "update" /\ i.actor = o /\ i.target = e
    BY DEF Idle
  <2>3. QED
    BY <1>2, <1>5, <2>1, <2>2 DEF StartUpdate
<1>6. QED
  BY <1>1, <1>4, <1>5 DEF StartSome

LEMMA LoadIInv ==
  ASSUME IInv, NEW s \in Slots, LoadEntry(s)
  PROVE  IInv'
<1> DEFINE r == req[s]
           e == row[r.target]
           l == Loaded(r, e)
<1>1. CASE Reject(s)
  BY <1>1, RejectIInv
<1>2. CASE e # Null /\ MayTouch(r, e) /\ Goto(s, l)
  <2>1. /\ r \in Requests /\ r.pc = "load" /\ r.actor \in Owners
        /\ r.op \in {"update", "delete"} /\ r.target \in Entries
    BY DEF IInv, TypeOK, ReqInv, LoadEntry
  <2>2. e \in Rows /\ r.target \in used /\ e.date <= today
    BY <1>2, <2>1 DEF IInv, TypeOK, NoFutureEntries
  <2>3. l \in Requests /\ l.old = e /\ l.op = r.op /\ l.actor = r.actor
        /\ l.target = r.target /\ l.body = r.body /\ l.pc \in {"category", "write"}
    BY <2>1, <2>2 DEF Loaded, Requests, IInv, TypeOK
  <2>4. e.owner = r.actor
        /\ (r.body.date \in {Keep, e.date} \/ r.body.date <= today)
    BY <1>2 DEF MayTouch, InWindow
  <2>5. req' = [req EXCEPT ![s] = l] /\ req'[s] = l
    BY <1>2 DEF Goto, IInv, TypeOK
  <2>6. UNCHANGED <<row, used, listed, live, today, started>>
    BY <1>2 DEF Goto
  <2>7. ReqInv(s)'
    BY <2>1, <2>2, <2>3, <2>4, <2>5, <2>6 DEF ReqInv
  <2>8. QED
    BY <2>3, <2>5, <2>6, <2>7, GotoIInv DEF IInv, TypeOK
<1>3. QED
  BY <1>1, <1>2 DEF LoadEntry

LEMMA ValidateIInv ==
  ASSUME IInv, NEW s \in Slots, ValidateCategory(s)
  PROVE  IInv'
<1> DEFINE r == [req[s] EXCEPT !.pc = "write"]
<1>1. CASE Reject(s)
  BY <1>1, RejectIInv
<1>2. CASE Goto(s, r)
  <2>1. r \in Requests /\ req[s] \in Requests /\ req[s].pc = "category"
    BY DEF IInv, TypeOK, Requests, ValidateCategory
  <2>2. req' = [req EXCEPT ![s] = r] /\ req'[s] = r
    BY <1>2 DEF Goto, IInv, TypeOK
  <2>3. UNCHANGED <<row, used, listed, live, today, started>>
    BY <1>2 DEF Goto
  <2>4. /\ r.op = req[s].op /\ r.actor = req[s].actor /\ r.target = req[s].target
        /\ r.body = req[s].body /\ r.old = req[s].old /\ r.pc = "write"
    BY <2>1 DEF Requests
  <2>5. ReqInv(s)'
    BY <2>1, <2>2, <2>3, <2>4 DEF ReqInv, IInv
  <2>6. QED
    BY <2>1, <2>2, <2>3, <2>5, GotoIInv DEF IInv, TypeOK
<1>3. QED
  BY <1>1, <1>2 DEF ValidateCategory

-----------------------------------------------------------------------------
\* A commit of slot s that stores x (a good row, or Null) at an id in use.
LEMMA WriteIInv ==
  ASSUME IInv, NEW s \in Slots, Finish(s),
         NEW e \in Entries, NEW x \in Rows \cup {Null},
         used \subseteq used', used' \subseteq Entries, e \in used',
         row' = [row EXCEPT ![e] = x],
         x # Null => x.date <= today /\ Checks(x),
         e \in used /\ row[e] # Null /\ x # Null => x.owner = row[e].owner,
         e \in used /\ row[e] = Null => x = Null
  PROVE  IInv'
<1>0. Idle \in Requests
  BY EntryAssumption DEF Idle, NoBody, Requests, Bodies
<1>1. /\ req' = [req EXCEPT ![s] = Idle]
      /\ UNCHANGED <<listed, live, today, started>>
  BY DEF Finish
<1>2. TypeOK'
  <2>1. row' \in [Entries -> Rows \cup {Null}]
    BY DEF IInv, TypeOK
  <2>2. req' \in [Slots -> Requests]
    BY <1>0, <1>1 DEF IInv, TypeOK
  <2>3. \A d \in Entries \ used' : row'[d] = Null
    BY DEF IInv, TypeOK
  <2>4. QED
    BY <1>1, <2>1, <2>2, <2>3 DEF IInv, TypeOK
<1>3. ASSUME NEW t \in Slots PROVE ReqInv(t)'
  <2>1. CASE t = s
    BY <1>1, <2>1 DEF ReqInv, Idle, IInv, TypeOK
  <2>2. CASE t # s
    <3>1. req'[t] = req[t] /\ today' = today
      BY <1>1, <2>2 DEF IInv, TypeOK
    <3>2. ASSUME NEW d \in used, row'[d] # Null, NEW o,
                 row[d] # Null => row[d].owner = o
          PROVE  row'[d].owner = o
      BY <3>2 DEF IInv, TypeOK
    <3>3. ReqInv(t)
      BY DEF IInv
    <3>4. QED
      BY <3>1, <3>2, <3>3 DEF ReqInv
  <2>3. QED
    BY <2>1, <2>2
<1>4. \A d \in Entries : row'[d] # Null =>
        /\ Consistent(row'[d].activity, row'[d].project)
        /\ row'[d].hours > 0
        /\ row'[d].date <= today
  <2>1. \A d \in Entries : row'[d] = IF d = e THEN x ELSE row[d]
    BY DEF IInv, TypeOK
  <2>2. QED
    BY <2>1 DEF IInv, Checks, ProjectMatchesActivity, HoursPositive, NoFutureEntries
<1>5. QED
  BY <1>1, <1>2, <1>3, <1>4
     DEF IInv, ProjectMatchesActivity, HoursPositive, NoFutureEntries

LEMMA CommitIInv ==
  ASSUME IInv, NEW s \in Slots,
         CommitCreate(s) \/ CommitUpdate(s) \/ CommitDelete(s)
  PROVE  IInv'
<1>0. used \subseteq Entries /\ Finish(s)
  BY DEF IInv, TypeOK, CommitCreate, CommitUpdate, CommitDelete
<1>1. CASE CommitCreate(s)
  <2>1. PICK e \in Entries \ used, new \in Rows :
          /\ new.date <= today
          /\ Checks(new)
          /\ used' = used \cup {e}
          /\ row' = [row EXCEPT ![e] = new]
    BY <1>1, CreatedRow
  <2>2. QED
    BY <1>0, <2>1, WriteIInv
<1>2. CASE CommitUpdate(s)
  <2> DEFINE e == req[s].target
             new == Merged(Changed(req[s]), row[e])
  <2>1. /\ e \in used /\ new \in Rows /\ new.owner = row[e].owner
        /\ new.date <= today /\ Checks(new)
        /\ row' = [row EXCEPT ![e] = new]
    BY <1>2, UpdatedRow
  <2>2. used' = used /\ row[e] # Null
    BY <1>2 DEF CommitUpdate
  <2> HIDE DEF new
  <2>3. QED
    BY <1>0, <2>1, <2>2, WriteIInv
<1>3. CASE CommitDelete(s)
  <2>1. req[s].target \in used
    BY <1>3 DEF IInv, TypeOK, ReqInv, CommitDelete
  <2>2. QED
    BY <1>0, <1>3, <2>1, WriteIInv DEF CommitDelete
<1>4. QED
  BY <1>1, <1>2, <1>3

\* The categories change, or a day goes by.
LEMMA OutsideIInv ==
  ASSUME IInv,
         \/ \E a \in Activities, c \in Categories : AddCategory(a, c) \/ SwitchCategory(a, c)
         \/ Tick
  PROVE  IInv'
<1> USE EntryAssumption
<1>1. UNCHANGED <<row, used, req>> /\ today \in Int /\ today' \in Int /\ today <= today'
  BY DEF AddCategory, SwitchCategory, Tick, IInv, TypeOK
<1>2. TypeOK'
  <2>1. CASE Tick
    BY <2>1 DEF Tick, IInv, TypeOK
  <2>2. ASSUME NEW a \in Activities, NEW c \in Categories, AddCategory(a, c)
        PROVE  TypeOK'
    BY <2>2 DEF AddCategory, IInv, TypeOK
  <2>3. ASSUME NEW a \in Activities, NEW c \in Categories, SwitchCategory(a, c)
        PROVE  TypeOK'
    BY <2>3 DEF SwitchCategory, IInv, TypeOK
  <2>4. QED
    BY <2>1, <2>2, <2>3
<1>3. ASSUME NEW t \in Slots PROVE ReqInv(t)'
  <2>1. req[t] \in Requests /\ ReqInv(t)
    BY DEF IInv, TypeOK
  <2>2. \A d \in Dates : d <= today => d <= today'
    BY <1>1
  <2>3. req[t].body.date # Keep => req[t].body.date \in Dates
    BY <2>1 DEF Requests, Bodies
  <2>4. QED
    BY <1>1, <2>1, <2>2, <2>3 DEF ReqInv
<1>4. NoFutureEntries'
  <2> SUFFICES ASSUME NEW e \in Entries, row[e] # Null
               PROVE  row[e].date <= today'
    BY <1>1 DEF NoFutureEntries
  <2>1. row[e].date \in Int /\ row[e].date <= today
    BY DEF IInv, TypeOK, Rows, NoFutureEntries
  <2>2. QED
    BY <1>1, <2>1
<1>5. QED
  BY <1>1, <1>2, <1>3, <1>4 DEF IInv, ProjectMatchesActivity, HoursPositive

LEMMA NextIInv == IInv /\ [Next]_vars => IInv'
<1> SUFFICES ASSUME IInv, [Next]_vars PROVE IInv'
  OBVIOUS
<1>1. ASSUME NEW s \in Slots, RequestStep(s) PROVE IInv'
  BY <1>1, StartIInv, LoadIInv, ValidateIInv, CommitIInv, RejectIInv
     DEF RequestStep, Abort
<1>2. CASE UNCHANGED vars
  BY <1>2 DEF vars, IInv, TypeOK, ReqInv, ProjectMatchesActivity, HoursPositive,
              NoFutureEntries
<1>3. QED
  BY <1>1, <1>2, OutsideIInv DEF Next
-----------------------------------------------------------------------------
\* Every reachable state satisfies the inductive invariant.
THEOREM Invariance == Spec => []IInv
<1>1. QED
  BY InitIInv, NextIInv, PTL DEF Spec

\* The state of the workload API has its type (models/workload_entry.py:21-57).
THEOREM TypeCorrect == Spec => []TypeOK
<1>1. IInv => TypeOK
  BY DEF IInv
<1>2. QED
  BY <1>1, Invariance, PTL

\* However many PATCHes overlap, an entry has a project exactly if its activity
\* is PROJECT, and its stored hours are not zero: the CHECK constraints judge the
\* row that the written columns add up to (models/workload_entry.py:73-78).
THEOREM ConstraintsHold == Spec => [](ProjectMatchesActivity /\ HoursPositive)
<1>1. IInv => ProjectMatchesActivity /\ HoursPositive
  BY DEF IInv
<1>2. QED
  BY <1>1, Invariance, PTL

\* However many requests overlap and whenever midnight falls, no entry lies in
\* the future (workload_service.py:42 and 182-183).
THEOREM NothingInTheFuture == Spec => []NoFutureEntries
<1>1. IInv => NoFutureEntries
  BY DEF IInv
<1>2. QED
  BY <1>1, Invariance, PTL

\* The steps that do not commit leave the table alone.
LEMMA QuietRows ==
  ASSUME [Next]_vars,
         \A s \in Slots : ~CommitCreate(s) /\ ~CommitUpdate(s) /\ ~CommitDelete(s)
  PROVE  UNCHANGED <<row, used>>
<1>1. ASSUME NEW s \in Slots, RequestStep(s) PROVE UNCHANGED <<row, used>>
  BY <1>1 DEF RequestStep, StartSome, StartCreate, StartUpdate, StartDelete, Start,
              LoadEntry, ValidateCategory, Abort, Reject, Goto
<1>2. CASE UNCHANGED vars
  BY <1>2 DEF vars
<1>3. QED
  BY <1>1, <1>2 DEF Next, AddCategory, SwitchCategory, Tick

\* Only its owner's requests change or remove an entry, and no request gives an
\* entry to somebody else (_enforce_ownership, workload_service.py:218-224).
THEOREM OwnersOnly == Spec => OnlyOwnersTouch
<1> DEFINE A == \A e \in Entries :
        row[e] # Null /\ row'[e] # row[e] =>
          /\ \E s \in Slots : /\ req[s].target = e /\ req[s].pc = "write"
                              /\ req[s].actor = row[e].owner
          /\ row'[e] = Null \/ row'[e].owner = row[e].owner
<1>1. ASSUME IInv, [Next]_vars PROVE A
  <2> SUFFICES ASSUME NEW e \in Entries, row[e] # Null, row'[e] # row[e]
               PROVE  /\ \E s \in Slots : /\ req[s].target = e
                                          /\ req[s].pc = "write"
                                          /\ req[s].actor = row[e].owner
                      /\ row'[e] = Null \/ row'[e].owner = row[e].owner
    OBVIOUS
  <2>1. row \in [Entries -> Rows \cup {Null}] /\ e \in used
    BY <1>1 DEF IInv, TypeOK
  <2>2. ASSUME NEW s \in Slots, CommitCreate(s) PROVE FALSE
    <3>1. PICK d \in Entries \ used, new \in Rows : row' = [row EXCEPT ![d] = new]
      BY <1>1, <2>2, CreatedRow
    <3>2. QED
      BY <2>1, <3>1
  <2>3. ASSUME NEW s \in Slots, CommitUpdate(s) \/ CommitDelete(s)
        PROVE  /\ req[s].target = e /\ req[s].pc = "write"
               /\ req[s].actor = row[e].owner
    <3>1. req[s].pc = "write" /\ req[s].op # "create"
      BY <2>3 DEF CommitUpdate, CommitDelete
    <3>2. req[s].target = e
      BY <2>1, <2>3 DEF CommitUpdate, CommitDelete
    <3>3. QED
      BY <1>1, <3>1, <3>2 DEF IInv, ReqInv
  <2>4. ASSUME NEW s \in Slots, CommitUpdate(s) PROVE row'[e].owner = row[e].owner
    <3>1. req[s].target = e
      BY <2>3, <2>4
    <3>2. QED
      BY <1>1, <2>1, <2>4, <3>1, UpdatedRow
  <2>5. ASSUME NEW s \in Slots, CommitDelete(s) PROVE row'[e] = Null
    <3>1. req[s].target = e
      BY <2>3, <2>5
    <3>2. QED
      BY <2>1, <2>5, <3>1 DEF CommitDelete
  <2>6. QED
    BY <1>1, <2>2, <2>3, <2>4, <2>5, QuietRows
<1>2. QED
  BY <1>1, Invariance, PTL DEF Spec, OnlyOwnersTouch

\* A PATCH never brings back an entry that a DELETE has removed after the PATCH
\* loaded it (workload_service.py:177-207).
THEOREM DeletionIsFinal == Spec => DeletedStayDeleted
<1> DEFINE A == \A e \in used : row[e] = Null => row'[e] = Null
<1>1. ASSUME IInv, [Next]_vars PROVE A
  <2> SUFFICES ASSUME NEW e \in used, row[e] = Null, row'[e] # Null PROVE FALSE
    OBVIOUS
  <2>1. row \in [Entries -> Rows \cup {Null}] /\ e \in Entries
    BY <1>1 DEF IInv, TypeOK
  <2>2. ASSUME NEW s \in Slots, CommitCreate(s) PROVE FALSE
    <3>1. PICK d \in Entries \ used, new \in Rows : row' = [row EXCEPT ![d] = new]
      BY <1>1, <2>2, CreatedRow
    <3>2. QED
      BY <2>1, <3>1
  <2>3. ASSUME NEW s \in Slots, CommitUpdate(s) \/ CommitDelete(s) PROVE FALSE
    BY <2>1, <2>3 DEF CommitUpdate, CommitDelete
  <2>4. QED
    BY <1>1, <2>2, <2>3, QuietRows
<1>2. QED
  BY <1>1, Invariance, PTL DEF Spec, DeletedStayDeleted

-----------------------------------------------------------------------------
(* One request at a time.                                                   *)
OneSlot == \A s, t \in Slots : s = t

\* The row a request loaded is still the row, and passed the checks that the
\* request has behind it.
SerialReqInv(s) ==
  LET r == req[s] IN
  /\ r.pc \in {"category", "write"} /\ r.op = "create" => InWindow(r.body.date, r.day)
  /\ r.pc = "write" /\ r.op = "create" => r.body.category \in listed[r.body.activity]
  /\ r.pc \in {"category", "write"} /\ r.op # "create" =>
       /\ row[r.target] = r.old
       /\ InWindow(r.old.date, r.day)
       /\ r.body.date \in {Keep, r.old.date} \/ InWindow(r.body.date, r.day)
  /\ r.pc = "write" /\ r.op # "create" =>
       Set(r.body.category, r.old.category)
         \in listed[Set(r.body.activity, r.old.activity)]

SerialInv == IInv /\ CategoryFits /\ \A s \in Slots : SerialReqInv(s)

\* An UPDATE whose loaded row is the row stores what the body says over it.
LEMMA SerialUpdate ==
  ASSUME SerialInv, NEW s \in Slots, CommitUpdate(s)
  PROVE  LET r == req[s]
             new == row'[r.target]
         IN
         /\ r.target \in Entries
         /\ row[r.target] = r.old /\ r.old \in Rows
         /\ row' = [row EXCEPT ![r.target] = new]
         /\ new \in Rows
         /\ new.date = Set(r.body.date, r.old.date)
         /\ new.category \in listed[new.activity]
<1> DEFINE r == req[s]
           m == Merged(Changed(r), r.old)
<1>1. /\ r \in Requests /\ r.pc = "write" /\ r.op = "update" /\ r.target \in Entries
      /\ r.old \in Rows /\ row[r.target] = r.old
      /\ Set(r.body.category, r.old.category)
           \in listed[Set(r.body.activity, r.old.activity)]
  BY DEF SerialInv, SerialReqInv, IInv, TypeOK, ReqInv, CommitUpdate
<1>2. /\ m \in Rows
      /\ m.date = Set(Changed(r).date, r.old.date)
      /\ m.activity = Set(Changed(r).activity, r.old.activity)
      /\ m.category = Set(Changed(r).category, r.old.category)
  BY <1>1, ChangedBody, MergedRow
<1>3. /\ m.date = Set(r.body.date, r.old.date)
      /\ m.activity = Set(r.body.activity, r.old.activity)
      /\ m.category = Set(r.body.category, r.old.category)
  BY <1>2 DEF Changed, Set
<1>4. row' = [row EXCEPT ![r.target] = m]
  BY <1>1 DEF CommitUpdate
<1>5. row'[r.target] = m
  BY <1>1, <1>4 DEF SerialInv, IInv, TypeOK
<1> HIDE DEF m
<1>6. QED
  BY <1>1, <1>2, <1>3, <1>4, <1>5

LEMMA InitSerialInv == Init => SerialInv
BY InitIInv DEF Init, SerialInv, SerialReqInv, CategoryFits, Idle

LEMMA NextSerialInv ==
  ASSUME OneSlot, SerialInv, [Next]_vars
  PROVE  SerialInv'
<1> USE EntryAssumption
<1>0. IInv' /\ IInv
  BY NextIInv DEF SerialInv
<1>1. ASSUME NEW s \in Slots, Reject(s) PROVE SerialInv'
  BY <1>0, <1>1
     DEF OneSlot, Reject, Goto, SerialInv, SerialReqInv, CategoryFits, Idle, IInv, TypeOK
<1>2. ASSUME NEW s \in Slots, StartSome(s) PROVE SerialInv'
  <2>1. /\ UNCHANGED <<row, used, listed>>
        /\ \/ req'[s].pc = "load"
           \/ /\ req'[s].pc = "category" /\ req'[s].op = "create"
              /\ InWindow(req'[s].body.date, req'[s].day)
    <3>1. ASSUME NEW o \in Owners, NEW b \in Bodies, StartCreate(s, o, b)
          PROVE  /\ req'[s].pc = "category" /\ req'[s].op = "create"
                 /\ InWindow(req'[s].body.date, req'[s].day)
      BY <1>0, <3>1 DEF StartCreate, Start, Idle, IInv, TypeOK
    <3>2. ASSUME NEW o \in Owners, NEW e \in Entries, NEW b \in Bodies,
                 StartUpdate(s, o, e, b) \/ StartDelete(s, o, e)
          PROVE  req'[s].pc = "load"
      <4>1. CASE StartUpdate(s, o, e, b)
        BY <1>0, <4>1 DEF StartUpdate, Start, Idle, IInv, TypeOK
      <4>2. CASE StartDelete(s, o, e)
        BY <1>0, <4>2 DEF StartDelete, Start, Idle, IInv, TypeOK
      <4>3. QED
        BY <3>2, <4>1, <4>2
    <3>3. NoBody \in Bodies
      BY DEF NoBody, Bodies
    <3>4. QED
      BY <1>2, <3>1, <3>2, <3>3
         DEF StartSome, StartCreate, StartUpdate, StartDelete, Start
  <2>2. QED
    BY <1>0, <2>1 DEF OneSlot, SerialInv, SerialReqInv, CategoryFits
<1>3. ASSUME NEW s \in Slots, LoadEntry(s), ~Reject(s) PROVE SerialInv'
  <2> DEFINE r == req[s]
             e == row[r.target]
             l == Loaded(r, e)
  <2>1. /\ r \in Requests /\ r.op \in {"update", "delete"} /\ r.target \in Entries
        /\ e # Null /\ MayTouch(r, e) /\ Goto(s, l)
    BY <1>0, <1>3 DEF LoadEntry, IInv, TypeOK, ReqInv
  <2>2. e \in Rows
    BY <1>0, <2>1 DEF IInv, TypeOK
  <2>3. /\ req'[s] = l /\ UNCHANGED <<row, listed>>
    BY <1>0, <2>1 DEF Goto, IInv, TypeOK
  <2>4. /\ l.old = e /\ l.op = r.op /\ l.target = r.target /\ l.body = r.body
        /\ l.day = today
        /\ l.pc = "write" => r.body.activity = Keep /\ r.body.category = Keep
    BY <2>1 DEF Loaded, Requests
  <2>5. e.category \in listed[e.activity]
    BY <2>1 DEF SerialInv, CategoryFits
  <2>6. SerialReqInv(s)'
    <3>1. l.pc = "write" => /\ Set(l.body.category, e.category) = e.category
                            /\ Set(l.body.activity, e.activity) = e.activity
      BY <2>4 DEF Set
    <3>2. /\ InWindow(e.date, today)
          /\ r.body.date \in {Keep, e.date} \/ InWindow(r.body.date, today)
      BY <2>1 DEF MayTouch
    <3> HIDE DEF l
    <3>3. QED
      BY <2>1, <2>3, <2>4, <2>5, <3>1, <3>2 DEF SerialReqInv
  <2>7. QED
    BY <1>0, <2>3, <2>6 DEF OneSlot, SerialInv, CategoryFits
<1>4. ASSUME NEW s \in Slots, ValidateCategory(s), ~Reject(s) PROVE SerialInv'
  <2> DEFINE r == req[s]
             l == [r EXCEPT !.pc = "write"]
             a == IF r.body.activity = Keep THEN r.old.activity ELSE r.body.activity
             c == IF r.body.category = Keep THEN r.old.category ELSE r.body.category
  <2>1. r \in Requests /\ r.pc = "category" /\ c \in live[a] /\ Goto(s, l)
    BY <1>0, <1>4 DEF ValidateCategory, IInv, TypeOK
  <2>2. /\ r.body \in Bodies
        /\ r.op = "create" => r.body.activity # Keep /\ r.body.category # Keep
        /\ r.op # "create" => r.old \in Rows
    BY <1>0, <2>1 DEF Requests, IInv, ReqInv
  <2>3. a \in Activities
    BY <2>2 DEF Bodies, Rows
  <2>4. c \in listed[a]
    BY <1>0, <2>1, <2>3 DEF IInv, TypeOK
  <2>5. req'[s] = l /\ UNCHANGED <<row, listed>>
    BY <1>0, <2>1 DEF Goto, IInv, TypeOK
  <2>6. /\ l.op = r.op /\ l.body = r.body /\ l.old = r.old /\ l.target = r.target
        /\ l.day = r.day /\ l.pc = "write"
    BY <2>1 DEF Requests
  <2>7. SerialReqInv(s)'
    <3>1. Set(r.body.activity, r.old.activity) = a /\ Set(r.body.category, r.old.category) = c
      BY DEF Set
    <3>2. r.op = "create" => r.body.category \in listed[r.body.activity]
      BY <2>2, <2>4
    <3>3. SerialReqInv(s)
      BY DEF SerialInv
    <3> HIDE DEF l, a, c
    <3>4. QED
      BY <2>1, <2>4, <2>5, <2>6, <3>1, <3>2, <3>3 DEF SerialReqInv
  <2>8. QED
    BY <1>0, <2>5, <2>7 DEF OneSlot, SerialInv, CategoryFits
<1>5. ASSUME NEW s \in Slots, Finish(s),
             NEW e \in Entries, NEW x \in Rows \cup {Null},
             row' = [row EXCEPT ![e] = x],
             x # Null => x.category \in listed[x.activity]
      PROVE  SerialInv'
  <2>1. req'[s] = Idle /\ listed' = listed
    BY <1>0, <1>5 DEF Finish, IInv, TypeOK
  <2>2. SerialReqInv(s)'
    BY <2>1 DEF SerialReqInv, Idle
  <2>3. CategoryFits'
    BY <1>0, <1>5, <2>1 DEF SerialInv, CategoryFits, IInv, TypeOK
  <2>4. QED
    BY <1>0, <2>2, <2>3 DEF OneSlot, SerialInv
<1>6. ASSUME NEW s \in Slots, CommitCreate(s) PROVE SerialInv'
  <2>1. PICK e \in Entries \ used, new \in Rows :
          /\ new.activity = req[s].body.activity
          /\ new.category = req[s].body.category
          /\ row' = [row EXCEPT ![e] = new]
    BY <1>0, <1>6, CreatedRow
  <2>2. new.category \in listed[new.activity]
    BY <1>6, <2>1 DEF CommitCreate, SerialInv, SerialReqInv
  <2>3. QED
    BY <1>5, <1>6, <2>1, <2>2 DEF CommitCreate
<1>7. ASSUME NEW s \in Slots, CommitUpdate(s) PROVE SerialInv'
  <2> DEFINE e == req[s].target
             x == row'[e]
  <2>1. /\ e \in Entries /\ x \in Rows /\ x.category \in listed[x.activity]
        /\ row' = [row EXCEPT ![e] = x]
    BY <1>7, SerialUpdate
  <2>2. Finish(s)
    BY <1>7 DEF CommitUpdate
  <2> HIDE DEF x
  <2>3. QED
    BY <1>5, <2>1, <2>2
<1>8. ASSUME NEW s \in Slots, CommitDelete(s) PROVE SerialInv'
  <2>1. req[s].target \in Entries
    BY <1>0, <1>8 DEF CommitDelete, IInv, ReqInv
  <2>2. QED
    BY <1>5, <1>8, <2>1 DEF CommitDelete
<1>9. ASSUME NEW a \in Activities, NEW c \in Categories,
             AddCategory(a, c) \/ SwitchCategory(a, c)
      PROVE  SerialInv'
  <2>1. /\ UNCHANGED <<row, req>>
        /\ \A d \in Activities : listed[d] \subseteq listed'[d]
    BY <1>0, <1>9 DEF AddCategory, SwitchCategory, IInv, TypeOK
  <2>2. CategoryFits'
    BY <1>0, <2>1 DEF SerialInv, CategoryFits, IInv, TypeOK, Rows
  <2>3. ASSUME NEW s \in Slots PROVE SerialReqInv(s)'
    <3>1. /\ req[s] \in Requests /\ ReqInv(s) /\ SerialReqInv(s)
      BY <1>0 DEF SerialInv, IInv, TypeOK
    <3>2. req[s].pc = "write" /\ req[s].op = "create" => req[s].body.activity \in Activities
      BY <3>1 DEF ReqInv, Requests, Bodies
    <3>3. req[s].pc = "write" /\ req[s].op # "create" =>
            Set(req[s].body.activity, req[s].old.activity) \in Activities
      BY <3>1 DEF ReqInv, Requests, Bodies, Rows, Set
    <3>4. QED
      BY <2>1, <3>1, <3>2, <3>3 DEF SerialReqInv
  <2>4. QED
    BY <1>0, <2>2, <2>3 DEF SerialInv
<1>10. CASE Tick \/ UNCHANGED vars
  BY <1>0, <1>10 DEF Tick, vars, SerialInv, SerialReqInv, CategoryFits
<1>11. QED
  BY <1>1, <1>2, <1>3, <1>4, <1>6, <1>7, <1>8, <1>9, <1>10
     DEF Next, RequestStep, Abort

\* While requests do not overlap, every entry's category is a row of the table
\* of its activity type, though no foreign key says so
\* (models/workload_entry.py:37-40, workload_service.py:51-71 and 199-200).
THEOREM SerialCategories ==
  ASSUME OneSlot
  PROVE  Spec => []CategoryFits
<1>1. Init => SerialInv
  BY InitSerialInv
<1>2. SerialInv /\ [Next]_vars => SerialInv'
  BY NextSerialInv
<1>3. SerialInv => CategoryFits
  BY DEF SerialInv
<1>4. QED
  BY <1>1, <1>2, <1>3, PTL DEF Spec

\* While requests do not overlap, no entry outside the edit window is touched or
\* made and none is moved out of it, as of the day of the request's checks
\* (workload_service.py:40-48, 148, 179-183 and 213).
THEOREM SerialEditWindow ==
  ASSUME OneSlot
  PROVE  Spec => EditWindowKept
<1>1. Init => SerialInv
  BY InitSerialInv
<1>2. SerialInv /\ [Next]_vars => SerialInv'
  BY NextSerialInv
<1>3. ASSUME SerialInv, [Next]_vars PROVE WindowOf(EditWindow)
  <2> SUFFICES ASSUME NEW e \in Entries, row'[e] # row[e]
               PROVE  \E s \in Slots :
                        /\ req[s].pc = "write"
                        /\ row[e] # Null => req[s].day - EditWindow <= row[e].date
                        /\ row'[e] # Null /\ (row[e] = Null \/ row'[e].date # row[e].date) =>
                             req[s].day - EditWindow <= row'[e].date
    BY DEF WindowOf
  <2>0. IInv /\ row \in [Entries -> Rows \cup {Null}]
    BY <1>3 DEF SerialInv, IInv, TypeOK
  <2>1. ASSUME NEW s \in Slots, CommitCreate(s)
        PROVE  /\ req[s].pc = "write" /\ row[e] = Null
               /\ req[s].day - EditWindow <= row'[e].date
    <3>1. PICK d \in Entries \ used, new \in Rows :
            new.date = req[s].body.date /\ row' = [row EXCEPT ![d] = new]
      BY <2>0, <2>1, CreatedRow
    <3>2. d = e /\ row'[e] = new /\ row[e] = Null
      BY <2>0, <3>1 DEF IInv, TypeOK
    <3>3. InWindow(req[s].body.date, req[s].day)
      BY <1>3, <2>1 DEF SerialInv, SerialReqInv, CommitCreate
    <3>4. QED
      BY <2>1, <3>1, <3>2, <3>3 DEF InWindow, CommitCreate
  <2>2. ASSUME NEW s \in Slots, CommitUpdate(s)
        PROVE  /\ req[s].pc = "write"
               /\ req[s].day - EditWindow <= row[e].date
               /\ row'[e].date # row[e].date => req[s].day - EditWindow <= row'[e].date
    <3>1. /\ req[s].target = e /\ row[e] = req[s].old
          /\ row'[e].date = Set(req[s].body.date, row[e].date)
      BY <1>3, <2>0, <2>2, SerialUpdate
    <3>2. /\ InWindow(row[e].date, req[s].day)
          /\ req[s].body.date \in {Keep, row[e].date} \/ InWindow(req[s].body.date, req[s].day)
      BY <1>3, <2>2, <3>1 DEF SerialInv, SerialReqInv, CommitUpdate
    <3>3. QED
      BY <2>2, <3>1, <3>2 DEF InWindow, Set, CommitUpdate
  <2>3. ASSUME NEW s \in Slots, CommitDelete(s)
        PROVE  /\ req[s].pc = "write" /\ row'[e] = Null
               /\ row[e] # Null => req[s].day - EditWindow <= row[e].date
    <3>1. req[s].target = e /\ row'[e] = Null
      BY <2>0, <2>3 DEF CommitDelete
    <3>2. row[e] = req[s].old /\ InWindow(req[s].old.date, req[s].day)
      BY <1>3, <2>3, <3>1 DEF SerialInv, SerialReqInv, CommitDelete
    <3>3. QED
      BY <2>3, <3>1, <3>2 DEF InWindow, CommitDelete
  <2>4. \E s \in Slots : CommitCreate(s) \/ CommitUpdate(s) \/ CommitDelete(s)
    BY <1>3, QuietRows
  <2>5. QED
    BY <2>1, <2>2, <2>3, <2>4
<1>4. QED
  BY <1>1, <1>2, <1>3, PTL DEF Spec, EditWindowKept

-----------------------------------------------------------------------------
(* The screens.                                                             *)

-----------------------------------------------------------------------------
(* What holds between the screen, its requests and the database.            *)

CallFields ==
  {"id", "op", "live", "query", "year", "row", "day", "was", "moved", "served", "rows"}

WriteServed(S) == \E c \in S : c.op \in Writes /\ c.served

\* A request with its fields; a list holds entries of the days it asked for only.
Shaped(c) ==
  /\ DOMAIN c = CallFields /\ c.op \in Writes \cup Gets
  /\ c.day \in Days /\ c.rows \in Tables
  /\ c.op = "delete" => c.row \in Ids
  /\ c.op = "list" => \A i \in Listed(c.rows) : c.rows[i].day \in c.query.days

ScreenShaped ==
  /\ rows \in Tables /\ shown \in Tables /\ charts \in Tables
  /\ route \in {"list", "my", "entry"}
  /\ DOMAIN lst = {"range", "owners", "narrow", "below", "page"}
  /\ DOMAIN cal = {"year", "month", "selected"}
  /\ DOMAIN form = {"date", "editing", "was", "filled", "pending"} /\ form.date \in Days
  /\ form.pending \in Ids \cup {Null} /\ confirm \in Ids \cup {Null}

\* What a screen asks for is forgotten with it, what it changes is not; only the
\* form creates and updates.
CallsOfScreen ==
  \A c \in calls :
    /\ Shaped(c)
    /\ c.op \in Gets \/ calm => c.live
    /\ c.live /\ c.op \in {"create", "update"} => route = "entry"

\* The entry in the form is of the form's date, and so will be the one of the URL,
\* or the user has changed the date since.
FormInv ==
  /\ form.editing # Null => moved \/ form.was = form.date
  /\ form.pending # Null =>
       /\ route = "entry" /\ shown = NoRows
       /\ moved \/ \A c \in calls : c.op = "list" => c.query = DayQuery(form.date)
  /\ \A c \in calls : c.op = "update" => c.moved \/ c.day = c.was

\* The table t, which requests of the kind op load, is current, or will be.
Current(t, op) ==
  /\ (\A c \in calls : c.op # op) => t = Matching(Query)
  /\ \A c \in calls : c.op = op => c.query = Query /\ (c.served => c.rows = Matching(Query))

\* A change that is made and not answered yet will have the list and the form
\* loaded again.
ReloadInv ==
  calm /\ route # "my" =>
    \/ WriteServed(calls)
    \/ Current(shown, "list") /\ (route = "list" => Current(charts, "charts"))

\* The calendar is not loaded again: no entry can be deleted while it is loading,
\* and what it shows differs from the database in entries whose deletion is not
\* answered yet.
CalendarInv ==
  route = "my" =>
    /\ cal.selected # Null \/ confirm # Null => ~loading
    /\ confirm # Null => cal.selected # Null
    /\ calm =>
         /\ \A c, d \in calls : c.op = "list" /\ d.op = "list" => c = d
         /\ ~loading => \A c \in calls : c.op # "list"
         /\ \A c, d \in calls : c.op \in Writes => d.op # "list"
         /\ \A c \in calls : c.op \in Writes /\ c.served => rows[c.row] = Null
         /\ \A c \in calls : c.op = "list" =>
              c.query = Query /\ (c.served => c.rows = Matching(Query))
         /\ (\A c \in calls : c.op # "list") =>
              \A i \in Ids : \/ shown[i] = Matching(Query)[i]
                             \/ \E c \in calls : c.op = "delete" /\ c.served /\ c.row = i
         /\ (\A c \in calls : c.op # "days") => expected = cal.year
         /\ (\E c \in calls : c.op = "days") => \E c \in calls : c.op = "days" /\ c.year = cal.year

ScreensInv ==
  ScreenShaped /\ CallsOfScreen /\ FormInv /\ ReloadInv /\ CalendarInv

-----------------------------------------------------------------------------
(* What is asked for.                                                       *)

LEMMA Bounds ==
  /\ Null \notin Ids /\ Null \notin Days /\ Today \in Days /\ IsFiniteSet(Ids)
  /\ DayHours \in Nat /\ DayHours > 0 /\ EntryHours \in Nat /\ EntryHours > 0
  BY ScreensAssumption

\* d is c, but for its number.
Numbered(d, c) ==
  /\ DOMAIN d = CallFields
  /\ d.op = c.op /\ d.live = c.live /\ d.query = c.query /\ d.year = c.year /\ d.row = c.row
  /\ d.day = c.day /\ d.was = c.was /\ d.moved = c.moved /\ d.served = c.served
  /\ d.rows = c.rows

LEMMA PlusAdds ==
  ASSUME NEW S, NEW c, DOMAIN c = CallFields
  PROVE  \E d : Plus(S, c) = S \cup {d} /\ Numbered(d, c)
<1> DEFINE v == CHOOSE n \in 0..Cardinality(S) : \A e \in S : e.op = c.op => e.id # n
           d == [c EXCEPT !.id = v]
<1>1. Plus(S, c) = S \cup {d}
  BY DEF Plus
<1> HIDE DEF v
<1>2. Numbered(d, c)
  BY DEF Numbered, CallFields
<1> HIDE DEF d
<1> QED BY <1>1, <1>2

\* A request that has just been sent.
Sent(c, op) ==
  /\ DOMAIN c = CallFields /\ c.op = op /\ c.live = TRUE /\ c.served = FALSE
  /\ c.rows = NoRows /\ c.day \in Days

LEMMA CallSent ==
  ASSUME NEW op
  PROVE  /\ Sent(Call(op), op)
         /\ \A q : LET c == [Call(op) EXCEPT !.query = q] IN Sent(c, op) /\ c.query = q
         /\ \A y : LET c == [Call(op) EXCEPT !.year = y] IN Sent(c, op) /\ c.year = y
  BY Bounds DEF Call, Sent, CallFields

\* A request for the query q, or about the year y.
Asks(op, q) == [Call(op) EXCEPT !.query = q]
About(op, y) == [Call(op) EXCEPT !.year = y]

LEMMA QueryAdds ==
  ASSUME NEW S, NEW op, NEW q
  PROVE  \E d : /\ Plus(S, Asks(op, q)) = S \cup {d}
               /\ Sent(d, op) /\ d.query = q
<1> DEFINE c == Asks(op, q)
<1>1. Sent(c, op) /\ c.query = q
  BY CallSent DEF Asks
<1> HIDE DEF c
<1>2. PICK d : Plus(S, c) = S \cup {d} /\ Numbered(d, c)
  BY <1>1, PlusAdds DEF Sent
<1>3. Sent(d, op) /\ d.query = q
  BY <1>1, <1>2 DEF Sent, Numbered
<1> QED BY <1>2, <1>3 DEF c

LEMMA YearAdds ==
  ASSUME NEW S, NEW op, NEW y
  PROVE  \E d : /\ Plus(S, About(op, y)) = S \cup {d}
               /\ Sent(d, op) /\ d.year = y
<1> DEFINE c == About(op, y)
<1>1. Sent(c, op) /\ c.year = y
  BY CallSent DEF About
<1> HIDE DEF c
<1>2. PICK d : Plus(S, c) = S \cup {d} /\ Numbered(d, c)
  BY <1>1, PlusAdds DEF Sent
<1>3. Sent(d, op) /\ d.year = y
  BY <1>1, <1>2 DEF Sent, Numbered
<1> QED BY <1>2, <1>3 DEF c

\* T is S with a list, and charts, for the query q.
Asking(S, T, r, q) ==
  \E l, k : /\ Sent(l, "list") /\ l.query = q
            /\ Sent(k, "charts") /\ k.query = q
            /\ T = S \cup (IF r = "list" THEN {l, k} ELSE {l})

LEMMA ReloadsAsk ==
  ASSUME NEW S, NEW r, NEW q
  PROVE  Asking(S, Reloads(S, r, q), r, q)
<1> DEFINE A == Plus(S, Asks("list", q))
<1>1. PICK l : A = S \cup {l} /\ Sent(l, "list") /\ l.query = q
  BY QueryAdds
<1>2. PICK k : /\ Plus(A, Asks("charts", q)) = A \cup {k}
               /\ Sent(k, "charts") /\ k.query = q
  BY QueryAdds
<1>3. Reloads(S, r, q) = IF r = "list" THEN A \cup {k} ELSE A
  BY <1>2 DEF Reloads, Asks
<1> HIDE DEF A
<1>4. Reloads(S, r, q) = S \cup (IF r = "list" THEN {l, k} ELSE {l})
  BY <1>1, <1>3
<1> QED BY <1>1, <1>2, <1>4 DEF Asking

\* The working days of the year y are there, or are asked for among the requests S.
DaysKnown(S, y, e) ==
  /\ (\A c \in S : c.op # "days") => e = y
  /\ (\E c \in S : c.op = "days") => \E c \in S : c.op = "days" /\ c.year = y

\* A screen has just been opened or reloaded; S are the requests it had before.
JustAsked(S) ==
  /\ ScreenShaped /\ loading /\ Asking(S, calls, route, Query)
  /\ \A c \in S :
       /\ Shaped(c)
       /\ c.op \in Gets \/ calm => c.live
       /\ c.live /\ c.op \in {"create", "update"} => route = "entry"
       /\ c.op = "update" => c.moved \/ c.day = c.was
       /\ calm => c.op \notin {"list", "charts"} /\ (route = "my" => c.op \notin Writes)
  /\ form.editing # Null => moved \/ form.was = form.date
  /\ form.pending # Null =>
       /\ route = "entry" /\ shown = NoRows
       /\ moved \/ \A c \in S : c.op = "list" => c.query = DayQuery(form.date)
  /\ route = "my" => /\ cal.selected = Null /\ confirm = Null
                     /\ calm => DaysKnown(S, cal.year, expected)

AskedHolds == \A S : JustAsked(S) => ScreensInv

LEMMA SentShaped ==
  ASSUME NEW c, NEW op \in {"list", "charts", "days"}, Sent(c, op)
  PROVE  Shaped(c) /\ c.live /\ ~c.served /\ c.op = op
<1>1. NoRows \in Tables /\ Listed(NoRows) = {}
  BY DEF NoRows, Tables, Listed
<1> QED BY <1>1 DEF Shaped, Sent, Gets, Writes

LEMMA AskedIsGood == AskedHolds
<1> SUFFICES ASSUME NEW S, JustAsked(S)
             PROVE  ScreensInv
  BY DEF AskedHolds
<1>1. PICK l, k : /\ Sent(l, "list") /\ l.query = Query
                  /\ Sent(k, "charts") /\ k.query = Query
                  /\ calls = S \cup (IF route = "list" THEN {l, k} ELSE {l})
  BY DEF JustAsked, Asking
<1>2. /\ Shaped(l) /\ l.live /\ ~l.served /\ l.op = "list"
      /\ Shaped(k) /\ k.live /\ ~k.served /\ k.op = "charts"
  BY <1>1, SentShaped
<1>3. /\ l \in calls /\ (route = "list" => k \in calls)
      /\ \A c \in calls : c \in S \/ c = l \/ (c = k /\ route = "list")
      /\ \A c \in S : c \in calls
  BY <1>1
<1>4. ScreenShaped
  BY DEF JustAsked
<1>5. CallsOfScreen
  BY <1>2, <1>3 DEF JustAsked, CallsOfScreen
<1>6. FormInv
  <2>1. route = "entry" => Query = DayQuery(form.date)
    BY DEF Query
  <2> QED BY <1>1, <1>2, <1>3, <2>1 DEF JustAsked, FormInv
<1>7. ReloadInv
  BY <1>1, <1>2, <1>3 DEF JustAsked, ReloadInv, Current
<1>8. ASSUME route = "my", calm
      PROVE  DaysKnown(calls, cal.year, expected)
  BY <1>2, <1>3, <1>8 DEF JustAsked, DaysKnown
<1>9. CalendarInv
  <2> SUFFICES ASSUME route = "my"
               PROVE  CalendarInv
    BY DEF CalendarInv
  <2>1. cal.selected = Null /\ confirm = Null
    BY DEF JustAsked
  <2>2. ASSUME calm
        PROVE  /\ \A c \in calls : c.op = "list" => c = l
               /\ \A c \in calls : c.op \notin Writes
    BY <1>2, <1>3, <2>2 DEF JustAsked, Writes
  <2>3. ASSUME calm
        PROVE  /\ (\A c \in calls : c.op # "days") => expected = cal.year
               /\ (\E c \in calls : c.op = "days") =>
                    \E c \in calls : c.op = "days" /\ c.year = cal.year
    BY <1>8, <2>3 DEF DaysKnown
  <2>4. loading
    BY DEF JustAsked
  <2> QED BY <1>1, <1>2, <1>3, <2>1, <2>2, <2>3, <2>4 DEF CalendarInv
<1> QED BY <1>4, <1>5, <1>6, <1>7, <1>9 DEF ScreensInv

LEMMA AskedStays == AskedHolds'
  BY AskedIsGood, PTL

-----------------------------------------------------------------------------
(* A screen opens.                                                          *)

FirstQuery(r, d) ==
  IF r = "list" THEN ListQuery(FirstList) ELSE IF r = "my" THEN MonthQuery(FirstCal) ELSE DayQuery(d)

LEMMA FirstCallsAsk ==
  ASSUME NEW left, NEW r \in {"list", "my", "entry"}, NEW d
  PROVE  \E S : /\ Asking(S, FirstCalls(left, r, d), r, FirstQuery(r, d))
                /\ IF r = "my" THEN \E k : S = left \cup {k} /\ Sent(k, "days") /\ k.year = FirstCal.year
                   ELSE S = left
<1> DEFINE q == FirstQuery(r, d)
           R == Reloads(left, r, q)
<1>1. Asking(left, R, r, q)
  BY ReloadsAsk
<1>2. CASE r # "my"
  <2>1. FirstCalls(left, r, d) = R
    BY <1>2 DEF FirstCalls, FirstQuery
  <2> HIDE DEF R
  <2> QED BY <1>1, <1>2, <2>1
<1>3. CASE r = "my"
  <2>1. PICK k : Plus(R, About("days", FirstCal.year)) = R \cup {k} /\ Sent(k, "days")
                 /\ k.year = FirstCal.year
    BY YearAdds
  <2>2. FirstCalls(left, r, d) = R \cup {k}
    BY <1>3, <2>1 DEF FirstCalls, FirstQuery, DaysCall, About
  <2> HIDE DEF R, q
  <2>3. PICK l : Sent(l, "list") /\ l.query = q /\ R = left \cup {l}
    BY <1>1, <1>3 DEF Asking
  <2>4. PICK m : Sent(m, "charts") /\ m.query = q
    BY <1>1 DEF Asking
  <2>5. FirstCalls(left, r, d) = (left \cup {k}) \cup {l}
    BY <2>2, <2>3
  <2>6. Asking(left \cup {k}, FirstCalls(left, r, d), r, q)
    BY <1>3, <2>3, <2>4, <2>5 DEF Asking
  <2> QED BY <1>3, <2>1, <2>6 DEF q
<1> QED BY <1>2, <1>3

\* A screen has just been opened at the date d, with the entry i in its URL; left
\* are the changes that the one before it has sent.
JustOpened(left, d, i) ==
  /\ rows \in Tables /\ route \in {"list", "my", "entry"} /\ d \in Days
  /\ i \in Ids \cup {Null} /\ (i # Null => route = "entry")
  /\ lst = FirstList /\ cal = FirstCal /\ form = [EmptyForm(d) EXCEPT !.pending = i]
  /\ shown = NoRows /\ charts = NoRows /\ loading = TRUE /\ confirm = Null
  /\ calls = FirstCalls(left, route, d) /\ (calm => left = {})
  /\ \A c \in left : /\ Shaped(c) /\ c.op \in Writes /\ c.live = FALSE
                     /\ c.op = "update" => c.moved \/ c.day = c.was

OpenedHolds == \A left, d, i : JustOpened(left, d, i) => ScreensInv

LEMMA OpenedIsGood == OpenedHolds
<1> SUFFICES ASSUME NEW left, NEW d, NEW i, JustOpened(left, d, i)
             PROVE  ScreensInv
  BY DEF OpenedHolds
<1>1. PICK S : /\ Asking(S, calls, route, FirstQuery(route, d))
               /\ IF route = "my"
                    THEN \E k : S = left \cup {k} /\ Sent(k, "days") /\ k.year = FirstCal.year
                  ELSE S = left
  BY FirstCallsAsk DEF JustOpened
<1>2. /\ DOMAIN form = {"date", "editing", "was", "filled", "pending"}
      /\ form.date = d /\ form.editing = Null /\ form.pending = i
  BY DEF JustOpened, EmptyForm
<1>3. ScreenShaped
  <2>1. NoRows \in Tables
    BY DEF NoRows, Tables
  <2>2. DOMAIN lst = {"range", "owners", "narrow", "below", "page"}
    BY DEF JustOpened, FirstList
  <2>3. DOMAIN cal = {"year", "month", "selected"}
    BY DEF JustOpened, FirstCal
  <2> QED BY <1>2, <2>1, <2>2, <2>3 DEF JustOpened, ScreenShaped
<1>4. FirstQuery(route, d) = Query
  BY <1>2 DEF JustOpened, FirstQuery, Query
<1>5. \A c \in S : c \in left \/ (route = "my" /\ Sent(c, "days"))
  BY <1>1
<1>6. \A c \in S : Shaped(c) /\ (c \in left \/ (c.live /\ c.op = "days"))
  BY <1>5, SentShaped DEF JustOpened
<1>7. calm /\ route = "my" => DaysKnown(S, cal.year, expected)
  <2> SUFFICES ASSUME calm, route = "my"
               PROVE  DaysKnown(S, cal.year, expected)
    OBVIOUS
  <2>1. PICK k : k \in S /\ k.op = "days" /\ k.year = cal.year
    BY <1>1 DEF Sent, JustOpened
  <2> QED BY <2>1 DEF DaysKnown
<1>8. cal.selected = Null
  BY DEF JustOpened, FirstCal
<1>9. \A c \in S :
        /\ c.op \in Gets \/ calm => c.live
        /\ c.live /\ c.op \in {"create", "update"} => route = "entry"
        /\ c.op = "update" => c.moved \/ c.day = c.was
        /\ calm => c.op \notin {"list", "charts"} /\ (route = "my" => c.op \notin Writes)
        /\ c.op # "list"
  BY <1>6 DEF JustOpened, Writes, Gets
<1>10. JustAsked(S)
  BY <1>1, <1>2, <1>3, <1>4, <1>6, <1>7, <1>8, <1>9 DEF JustAsked, JustOpened
<1> QED BY <1>10, AskedIsGood DEF AskedHolds

LEMMA OpenedStays == OpenedHolds'
  BY OpenedIsGood, PTL

LEMMA ScreensStart == ScreensInit => ScreensInv
<1> SUFFICES ASSUME ScreensInit
             PROVE  ScreensInv
  OBVIOUS
<1>1. PICK d \in Days, i \in Ids \cup {Null} : form = [EmptyForm(d) EXCEPT !.pending = i]
  <2>1. form \in {[EmptyForm(d) EXCEPT !.pending = i] : d \in Days, i \in Ids \cup {Null}}
    BY DEF ScreensInit
  <2> QED BY <2>1
<1>2. form.date = d /\ form.pending = i /\ (i # Null => route = "entry")
  <2>1. form.date = d /\ form.pending = i
    BY <1>1 DEF EmptyForm
  <2>2. route # "entry" => form = EmptyForm(Today)
    BY DEF ScreensInit
  <2>3. EmptyForm(Today).pending = Null
    BY DEF EmptyForm
  <2> QED BY <2>1, <2>2, <2>3
<1>3. JustOpened({}, d, i)
  BY <1>1, <1>2 DEF ScreensInit, JustOpened
<1> QED BY <1>3, OpenedIsGood DEF OpenedHolds

LEMMA OpenStep ==
  ASSUME ScreensInv, NEW r \in {"list", "my", "entry"}, NEW d \in Days,
         NEW i \in Ids \cup {Null}, i # Null => r = "entry", Open(r, d, i)
  PROVE  ScreensInv'
<1> DEFINE W == {[c EXCEPT !.live = FALSE] : c \in {w \in calls : w.op \in Writes /\ ~w.served}}
<1>1. PICK left : left = W
  OBVIOUS
<1>2. \A c \in W : /\ Shaped(c) /\ c.op \in Writes /\ c.live = FALSE
                   /\ c.op = "update" => c.moved \/ c.day = c.was
  <2> TAKE c \in W
  <2>1. PICK w \in calls : w.op \in Writes /\ c = [w EXCEPT !.live = FALSE]
    OBVIOUS
  <2>2. Shaped(w) /\ (w.op = "update" => w.moved \/ w.day = w.was)
    BY DEF ScreensInv, CallsOfScreen, FormInv
  <2>3. /\ DOMAIN c = CallFields /\ c.live = FALSE /\ c.op = w.op /\ c.query = w.query
        /\ c.row = w.row /\ c.day = w.day /\ c.was = w.was /\ c.moved = w.moved
        /\ c.rows = w.rows
    BY <2>1, <2>2 DEF Shaped, CallFields
  <2> QED BY <2>1, <2>2, <2>3 DEF Shaped
<1>3. /\ rows' = rows /\ route' = r /\ lst' = FirstList /\ cal' = FirstCal
      /\ form' = [EmptyForm(d) EXCEPT !.pending = i]
      /\ shown' = NoRows /\ charts' = NoRows /\ loading' = TRUE /\ confirm' = Null
      /\ calls' = FirstCalls(left, r, d) /\ (calm' => left = {})
  BY <1>1 DEF Open
<1> HIDE DEF W
<1>4. rows \in Tables
  BY DEF ScreensInv, ScreenShaped
<1>5. JustOpened(left, d, i)'
  BY <1>1, <1>2, <1>3, <1>4 DEF JustOpened
<1> QED BY <1>5, OpenedStays DEF OpenedHolds

-----------------------------------------------------------------------------
(* The user changes what is shown.                                          *)

\* The open screen asks for its entries, besides the requests S.
LEMMA AskStep ==
  ASSUME ScreensInv, NEW S, NEW q, ScreenShaped', Ask(S, q), q = Query', route' = route,
         \A c \in S : \/ c \in calls \/ Sent(c, "days"),
         form'.editing # Null => moved' \/ form'.was = form'.date,
         form'.pending # Null =>
           /\ form.pending # Null /\ shown' = shown
           /\ moved' \/ (~moved /\ form'.date = form.date),
         route = "my" => /\ cal'.selected = Null /\ confirm' = Null
                         /\ calm => DaysKnown(S, cal'.year, expected')
  PROVE  ScreensInv'
<1>1. PICK L : L = S
  OBVIOUS
<1>2. calls' = Reloads(L, route, q) /\ loading' = TRUE
      /\ (calm' => calm /\ InFlight({"list", "charts"}) = {}
                   /\ (route = "my" => InFlight({"delete"}) = {}))
  BY <1>1 DEF Ask
<1>3. Asking(L, calls', route', Query')
  BY <1>2, ReloadsAsk
<1>4. ASSUME NEW c \in L
      PROVE  /\ Shaped(c)
             /\ c.op \in Gets \/ calm' => c.live
             /\ c.live /\ c.op \in {"create", "update"} => route' = "entry"
             /\ c.op = "update" => c.moved \/ c.day = c.was
             /\ calm' => c.op \notin {"list", "charts"} /\ (route' = "my" => c.op \notin Writes)
  <2>1. CASE Sent(c, "days")
    BY <2>1, SentShaped DEF Gets, Writes
  <2>2. CASE c \in calls
    <3>1. /\ Shaped(c) /\ (c.op \in Gets \/ calm => c.live)
          /\ c.live /\ c.op \in {"create", "update"} => route = "entry"
          /\ c.op = "update" => c.moved \/ c.day = c.was
      BY <2>2 DEF ScreensInv, CallsOfScreen, FormInv
    <3>2. ASSUME calm'
          PROVE  c.live /\ c.op \notin {"list", "charts"} /\ (route = "my" => c.op # "delete")
      BY <1>2, <2>2, <3>1, <3>2 DEF InFlight
    <3> QED BY <1>2, <3>1, <3>2 DEF Writes
  <2> QED BY <1>1, <1>4, <2>1, <2>2
<1>5. ASSUME form'.pending # Null
      PROVE  /\ route' = "entry" /\ shown' = NoRows
             /\ moved' \/ \A c \in L : c.op = "list" => c.query = DayQuery(form'.date)
  <2>1. /\ route = "entry" /\ shown = NoRows
        /\ (moved \/ \A c \in calls : c.op = "list" => c.query = DayQuery(form.date))
    BY <1>5 DEF ScreensInv, FormInv
  <2>2. \A c \in L : c.op = "list" => c \in calls
    BY <1>1 DEF Sent
  <2> QED BY <1>5, <2>1, <2>2
<1>6. route = "my" /\ calm' => DaysKnown(L, cal'.year, expected')
  BY <1>1, <1>2
<1>7. JustAsked(L)'
  BY <1>2, <1>3, <1>4, <1>5, <1>6 DEF JustAsked
<1> QED BY <1>7, AskedStays DEF AskedHolds

LEMMA FilterStep ==
  ASSUME ScreensInv, ChangeFilter \/ ToggleSort
  PROVE  ScreensInv'
<1>1. /\ route = "list" /\ Ask(calls, ListQuery(lst'))
      /\ UNCHANGED <<rows, route, cal, form, shown, charts, confirm, moved>>
  BY DEF ChangeFilter, ToggleSort, Query, ListQuery, ScreensInv, ScreenShaped
<1>2. DOMAIN lst' = {"range", "owners", "narrow", "below", "page"}
  BY DEF ChangeFilter, ToggleSort, FirstList, ScreensInv, ScreenShaped
<1>3. ScreenShaped'
  BY <1>1, <1>2 DEF ScreensInv, ScreenShaped
<1>4. Query' = ListQuery(lst')
  BY <1>1 DEF Query
<1>5. form.editing # Null => moved \/ form.was = form.date
  BY DEF ScreensInv, FormInv
<1> QED BY <1>1, <1>3, <1>4, <1>5, AskStep

LEMMA MonthStep ==
  ASSUME ScreensInv, ChangeMonth
  PROVE  ScreensInv'
<1>1. PICK n : /\ cal' = [year |-> n[1], month |-> n[2], selected |-> Null]
               /\ Ask(IF n[1] = cal.year THEN calls ELSE DaysCall(calls, n[1]), MonthQuery(cal'))
  BY DEF ChangeMonth
<1>2. /\ route = "my" /\ confirm = Null
      /\ UNCHANGED <<rows, route, lst, form, shown, charts, expected, confirm, moved>>
  BY DEF ChangeMonth, Free
<1>3. ScreenShaped'
  BY <1>1, <1>2 DEF ScreensInv, ScreenShaped
<1>4. Query' = MonthQuery(cal')
  BY <1>2 DEF Query
<1>5. calm => DaysKnown(calls, cal.year, expected)
  BY <1>2 DEF ScreensInv, CalendarInv, DaysKnown
<1>6. form.editing # Null => moved \/ form.was = form.date
  BY DEF ScreensInv, FormInv
<1>7. cal'.year = n[1] /\ cal'.selected = Null
  BY <1>1
<1>8. CASE n[1] = cal.year
  BY <1>1, <1>2, <1>3, <1>4, <1>5, <1>6, <1>7, <1>8, AskStep
<1>9. CASE n[1] # cal.year
  <2>1. PICK k : /\ Plus(calls, About("days", n[1])) = calls \cup {k}
                 /\ Sent(k, "days") /\ k.year = n[1]
    BY YearAdds
  <2>2. DaysCall(calls, n[1]) = calls \cup {k}
    BY <2>1 DEF DaysCall, About
  <2>3. DaysKnown(calls \cup {k}, cal'.year, expected')
    BY <1>7, <2>1 DEF DaysKnown, Sent
  <2>4. Ask(calls \cup {k}, MonthQuery(cal'))
    BY <1>1, <1>9, <2>2
  <2> QED BY <1>2, <1>3, <1>4, <1>6, <1>7, <2>1, <2>3, <2>4, AskStep
<1> QED BY <1>8, <1>9

LEMMA DateStep ==
  ASSUME ScreensInv, NEW d \in Days, SetDate(d)
  PROVE  ScreensInv'
<1>1. /\ route = "entry" /\ Ask(calls, DayQuery(d)) /\ form' = [form EXCEPT !.date = d]
      /\ moved' = (form.editing # Null \/ form.pending # Null)
      /\ UNCHANGED <<rows, route, lst, cal, shown, charts, confirm>>
  BY DEF SetDate
<1>2. /\ form'.date = d /\ form'.editing = form.editing /\ form'.pending = form.pending
      /\ DOMAIN form' = DOMAIN form
  BY <1>1 DEF ScreensInv, ScreenShaped
<1>3. ScreenShaped'
  BY <1>1, <1>2 DEF ScreensInv, ScreenShaped
<1>4. Query' = DayQuery(d)
  BY <1>1, <1>2 DEF Query
<1> QED BY <1>1, <1>2, <1>3, <1>4, AskStep

-----------------------------------------------------------------------------
(* The user does what asks for no list.                                     *)

LEMMA LocalStep ==
  ASSUME ScreensInv, UNCHANGED <<rows, route, data, calls, calm>>, ScreenShaped', Query' = Query,
         form'.editing # Null => moved' \/ form'.was = form'.date,
         form'.pending # Null =>
           form.pending # Null /\ form'.date = form.date /\ (moved => moved'),
         route = "my" =>
           /\ cal'.year = cal.year
           /\ cal'.selected # Null \/ confirm' # Null => ~loading
           /\ confirm' # Null => cal'.selected # Null
  PROVE  ScreensInv'
<1>1. CallsOfScreen'
  BY DEF ScreensInv, CallsOfScreen
<1>2. FormInv'
  BY DEF ScreensInv, FormInv, data
<1>3. Matching(Query)' = Matching(Query)
  BY DEF Matching
<1>4. ReloadInv'
  BY <1>3 DEF ScreensInv, ReloadInv, Current, data
<1>5. CalendarInv'
  BY <1>3 DEF ScreensInv, CalendarInv, data
<1> QED BY <1>1, <1>2, <1>4, <1>5 DEF ScreensInv

LEMMA TypingStep ==
  ASSUME ScreensInv, Type \/ Clear
  PROVE  ScreensInv'
<1>1. /\ UNCHANGED <<rows, route, lst, cal, data, calls, history, confirm>>
      /\ form'.editing = form.editing \/ form'.editing = Null
      /\ form'.was = form.was /\ form'.date = form.date /\ form'.pending = form.pending
      /\ DOMAIN form' = DOMAIN form
  BY DEF Type, Clear, Reset, Local, ScreensInv, ScreenShaped
<1>2. ScreenShaped'
  BY <1>1 DEF ScreensInv, ScreenShaped, data
<1>3. Query' = Query
  BY <1>1 DEF Query
<1> QED BY <1>1, <1>2, <1>3, LocalStep DEF ScreensInv, FormInv, CalendarInv, history

LEMMA BrowsingStep ==
  ASSUME ScreensInv,
         \/ ToggleBelowExpected \/ CancelDelete
         \/ \E p : SetPage(p)
         \/ \E d \in Days : SelectDay(d)
         \/ \E i \in Ids : AskDelete(i)
  PROVE  ScreensInv'
<1>0. ScreenShaped /\ FormInv /\ CalendarInv
  BY DEF ScreensInv
<1>1. UNCHANGED <<rows, route, data, form, calls, history>>
  BY DEF ToggleBelowExpected, CancelDelete, SetPage, SelectDay, AskDelete, Local
<1>2. /\ DOMAIN lst' = DOMAIN lst /\ lst'.range = lst.range /\ lst'.owners = lst.owners
      /\ lst'.narrow = lst.narrow
      /\ DOMAIN cal' = DOMAIN cal /\ cal'.year = cal.year /\ cal'.month = cal.month
  BY <1>0 DEF ToggleBelowExpected, CancelDelete, SetPage, SelectDay, AskDelete, ScreenShaped
<1>3. confirm' \in Ids \cup {Null}
  BY <1>0 DEF ToggleBelowExpected, CancelDelete, SetPage, SelectDay, AskDelete, ScreenShaped
<1>4. ScreenShaped'
  BY <1>0, <1>1, <1>2, <1>3 DEF ScreenShaped, data
<1>5. Query' = Query
  BY <1>1, <1>2 DEF Query, ListQuery, MonthQuery
<1>6. ASSUME route = "my"
      PROVE  /\ cal'.selected # Null \/ confirm' # Null => ~loading
             /\ confirm' # Null => cal'.selected # Null
  <2>1. CASE ToggleBelowExpected \/ CancelDelete \/ \E p : SetPage(p)
    BY <1>0, <1>6, <2>1 DEF ToggleBelowExpected, CancelDelete, SetPage, CalendarInv
  <2>2. ASSUME NEW d \in Days, SelectDay(d)
        PROVE  ~loading /\ confirm' = Null
    BY <2>2 DEF SelectDay, Free
  <2>3. ASSUME NEW i \in Ids, AskDelete(i)
        PROVE  cal'.selected # Null /\ ~loading
    <3>1. shown[i] # Null /\ shown[i].day = cal.selected /\ cal' = cal
      BY <1>6, <2>3 DEF AskDelete, Editable, Listed
    <3>2. cal.selected # Null
      BY <1>0, <3>1, Bounds DEF ScreenShaped, Tables, EntryRows
    <3> QED BY <1>0, <1>6, <3>1, <3>2 DEF CalendarInv
  <2> QED BY <2>1, <2>2, <2>3
<1> QED BY <1>0, <1>1, <1>2, <1>4, <1>5, <1>6, LocalStep DEF FormInv, history

\* The entry is one of the form's date, and no entry of the URL is waited for.
LEMMA EditStep ==
  ASSUME ScreensInv, NEW i \in Ids, Edit(i)
  PROVE  ScreensInv'
<1>0. ScreenShaped /\ FormInv
  BY DEF ScreensInv
<1>1. /\ route = "entry" /\ UNCHANGED <<rows, route, lst, cal, data, calls, calm, confirm>>
      /\ form' = [form EXCEPT !.editing = i, !.was = shown[i].day, !.filled = TRUE]
      /\ i \in Editable
  BY DEF Edit, Edited
<1>2. shown[i].day = form.date /\ shown[i] # Null
  BY <1>1 DEF Editable, DayEntries, Listed
<1>3. form.pending = Null
  BY <1>0, <1>1, <1>2 DEF FormInv, NoRows
<1>4. /\ form'.was = form'.date /\ form'.pending = Null /\ form'.date = form.date
      /\ DOMAIN form' = DOMAIN form
  BY <1>0, <1>1, <1>2, <1>3 DEF ScreenShaped
<1>5. ScreenShaped'
  BY <1>0, <1>1, <1>4 DEF ScreenShaped, data
<1>6. Query' = Query
  BY <1>1, <1>4 DEF Query
<1> QED BY <1>1, <1>4, <1>5, <1>6, LocalStep

\* A change is sent.
LEMMA WriteStep ==
  ASSUME ScreensInv, NEW op \in Writes, NEW c, Sent(c, op), calls' = Plus(calls, c),
         op = "delete" => c.row \in Ids,
         op # "delete" => route = "entry",
         op = "update" => c.moved \/ c.day = c.was,
         route = "my" => ~loading /\ confirm' = Null,
         confirm' \in Ids \cup {Null},
         UNCHANGED <<rows, screen, data, history>>
  PROVE  ScreensInv'
<1>1. PICK d : calls' = calls \cup {d} /\ Numbered(d, c)
  BY PlusAdds DEF Sent
<1>2. /\ d.op = op /\ d.live /\ ~d.served /\ d.row = c.row /\ d.day = c.day /\ d.was = c.was
      /\ d.moved = c.moved
  BY <1>1 DEF Numbered, Sent
<1>3. Shaped(d)
  <2>1. NoRows \in Tables
    BY DEF NoRows, Tables
  <2> QED BY <1>1, <1>2, <2>1 DEF Shaped, Numbered, Sent, Writes
<1>4. ScreenShaped' /\ Query' = Query
  BY DEF ScreensInv, ScreenShaped, Query, screen, data
<1>5. CallsOfScreen'
  BY <1>1, <1>2, <1>3 DEF ScreensInv, CallsOfScreen, screen, history, Writes, Gets
<1>6. FormInv'
  BY <1>1, <1>2 DEF ScreensInv, FormInv, screen, history, data, Writes
<1>7. Matching(Query)' = Matching(Query)
  BY <1>4 DEF Matching
<1>8. d.op \notin {"list", "charts", "days"}
  BY <1>2 DEF Writes
<1>9. ReloadInv'
  BY <1>1, <1>2, <1>4, <1>7, <1>8 DEF ScreensInv, ReloadInv, WriteServed, Current, screen, history, data
<1>10. CalendarInv'
  BY <1>1, <1>2, <1>4, <1>7, <1>8 DEF ScreensInv, CalendarInv, screen, history, data, Writes
<1> QED BY <1>4, <1>5, <1>6, <1>9, <1>10 DEF ScreensInv

LEMMA SubmitStep ==
  ASSUME ScreensInv, Submit \/ ConfirmDelete
  PROVE  ScreensInv'
<1>1. CASE Submit
  <2> DEFINE op == IF form.editing = Null THEN "create" ELSE "update"
             c == [Call(op) EXCEPT !.row = form.editing, !.day = form.date, !.was = form.was,
                                   !.moved = moved]
  <2>1. /\ Sent(c, op) /\ c.day = form.date /\ c.was = form.was /\ c.moved = moved
    BY CallSent DEF Sent, CallFields, ScreensInv, ScreenShaped, Call
  <2>2. op \in Writes /\ (op = "update" => form.editing # Null) /\ op # "delete"
    BY DEF Writes
  <2>3. /\ calls' = Plus(calls, c) /\ route = "entry" /\ confirm' \in Ids \cup {Null}
        /\ UNCHANGED <<rows, screen, data, history>>
    BY <1>1 DEF Submit, ScreensInv, ScreenShaped
  <2> HIDE DEF c, op
  <2>4. op = "update" => c.moved \/ c.day = c.was
    BY <2>1, <2>2 DEF ScreensInv, FormInv
  <2> QED BY <2>1, <2>2, <2>3, <2>4, WriteStep
<1>2. CASE ConfirmDelete
  <2> DEFINE c == [Call("delete") EXCEPT !.row = confirm]
  <2>1. Sent(c, "delete") /\ c.row = confirm
    BY CallSent DEF Sent, CallFields, Call
  <2>2. /\ calls' = Plus(calls, c) /\ confirm' = Null /\ confirm \in Ids
        /\ UNCHANGED <<rows, screen, data, history>>
    BY <1>2 DEF ConfirmDelete, ScreensInv, ScreenShaped
  <2>3. route = "my" => ~loading
    BY <1>2 DEF ConfirmDelete, ScreensInv, CalendarInv
  <2> HIDE DEF c
  <2> QED BY <2>1, <2>2, <2>3, WriteStep DEF Writes
<1> QED BY <1>1, <1>2

-----------------------------------------------------------------------------
(* The server.                                                              *)

LEMMA BrowserStays ==
  ASSUME ScreensInv, UNCHANGED browser, rows' \in Tables
  PROVE  ScreenShaped' /\ Query' = Query
  BY DEF ScreensInv, ScreenShaped, Query, browser, screen, data

\* A list, charts or working days are read.
LEMMA ServeGetStep ==
  ASSUME ScreensInv, NEW c \in calls, ServeGet(c)
  PROVE  ScreensInv'
<1> DEFINE R == IF c.op = "days" THEN NoRows ELSE Matching(c.query)
           d == [c EXCEPT !.served = TRUE, !.rows = R]
<1>0. /\ Shaped(c) /\ c.op \in Gets /\ c.live /\ rows \in Tables
      /\ UNCHANGED <<rows, browser>> /\ Answer(c, d)
  BY DEF ScreensInv, CallsOfScreen, ScreenShaped, ServeGet
<1>1. R \in Tables /\ (c.op # "days" => R = Matching(c.query))
      /\ (c.op = "list" => \A i \in Listed(R) : R[i].day \in c.query.days)
  BY <1>0 DEF NoRows, Matching, Tables, Listed
<1>2. /\ DOMAIN d = CallFields /\ d.op = c.op /\ d.live = c.live /\ d.query = c.query
      /\ d.year = c.year /\ d.row = c.row /\ d.day = c.day /\ d.was = c.was /\ d.moved = c.moved
      /\ d.rows = R /\ d.served
  BY <1>0 DEF Shaped, CallFields
<1> HIDE DEF R, d
<1>3. calls' = (calls \ {c}) \cup {d}
  BY <1>0, <1>2 DEF Answer
<1>4. Shaped(d)
  BY <1>0, <1>1, <1>2 DEF Shaped
<1>5. ScreenShaped' /\ Query' = Query
  BY <1>0, BrowserStays
<1>6. CallsOfScreen'
  BY <1>0, <1>2, <1>3, <1>4 DEF ScreensInv, CallsOfScreen, browser, screen, history
<1>7. FormInv'
  BY <1>0, <1>2, <1>3 DEF ScreensInv, FormInv, browser, screen, history, data, Gets
<1>8. Matching(Query)' = Matching(Query) /\ c.op \notin Writes
  BY <1>0, <1>5 DEF Matching, Gets, Writes
<1>9. WriteServed(calls) => WriteServed(calls')
  BY <1>3, <1>8 DEF WriteServed
<1>10. ASSUME NEW t, NEW op \in {"list", "charts"}, Current(t, op)
       PROVE  Current(t, op)'
  BY <1>1, <1>2, <1>3, <1>5, <1>8, <1>10 DEF Current
<1>11. ReloadInv'
  <2>1. shown' = shown /\ charts' = charts /\ calm' = calm /\ route' = route
    BY <1>0 DEF browser, data, history, screen
  <2> QED BY <1>9, <1>10, <2>1 DEF ScreensInv, ReloadInv, Current
<1>12. CalendarInv'
  <2>1. /\ UNCHANGED <<rows, shown, calm, route, cal, confirm, loading, expected>>
    BY <1>0 DEF browser, data, history, screen
  <2> SUFFICES ASSUME route = "my"
               PROVE  CalendarInv'
    BY <2>1 DEF CalendarInv
  <2>2. ASSUME calm
        PROVE  /\ \A e, f \in calls' : e.op = "list" /\ f.op = "list" => e = f
               /\ ~loading => \A e \in calls' : e.op # "list"
               /\ \A e, f \in calls' : e.op \in Writes => f.op # "list"
               /\ \A e \in calls' : e.op \in Writes /\ e.served => rows[e.row] = Null
               /\ \A e \in calls' : e.op = "list" =>
                    e.query = Query /\ (e.served => e.rows = Matching(Query))
    BY <1>1, <1>2, <1>3, <1>8, <2>2 DEF ScreensInv, CalendarInv
  <2>3. ASSUME calm
        PROVE  /\ (\A e \in calls' : e.op # "list") =>
                    \A i \in Ids : \/ shown[i] = Matching(Query)[i]
                                   \/ \E e \in calls' : e.op = "delete" /\ e.served /\ e.row = i
    <3>1. \A e \in calls : e.op = "delete" => e \in calls'
      BY <1>3, <1>8 DEF Writes
    <3>2. (\A e \in calls' : e.op # "list") => \A e \in calls : e.op # "list"
      BY <1>2, <1>3
    <3> QED BY <2>3, <3>1, <3>2 DEF ScreensInv, CalendarInv
  <2>4. ASSUME calm
        PROVE  /\ (\A e \in calls' : e.op # "days") => expected = cal.year
               /\ (\E e \in calls' : e.op = "days") =>
                    \E e \in calls' : e.op = "days" /\ e.year = cal.year
    BY <1>2, <1>3, <2>4 DEF ScreensInv, CalendarInv
  <2>5. /\ cal.selected # Null \/ confirm # Null => ~loading
        /\ confirm # Null => cal.selected # Null
    BY DEF ScreensInv, CalendarInv
  <2> QED BY <1>5, <1>8, <2>1, <2>2, <2>3, <2>4, <2>5 DEF CalendarInv
<1> QED BY <1>5, <1>6, <1>7, <1>11, <1>12 DEF ScreensInv

\* A change of a screen that is gone: nothing is promised any more.
LEMMA DeadStep ==
  ASSUME ScreensInv, NEW c \in calls, ~c.live, calls' = calls \ {c}, UNCHANGED browser,
         rows' \in Tables
  PROVE  ScreensInv'
<1>1. ~calm /\ ~calm'
  BY DEF ScreensInv, CallsOfScreen, browser, history
<1>2. ScreenShaped'
  BY BrowserStays
<1>3. CallsOfScreen'
  BY <1>1 DEF ScreensInv, CallsOfScreen, browser, screen
<1>4. FormInv'
  BY DEF ScreensInv, FormInv, browser, screen, history, data
<1>5. ReloadInv' /\ CalendarInv'
  BY <1>1 DEF ScreensInv, ReloadInv, CalendarInv, browser, screen, data
<1> QED BY <1>2, <1>3, <1>4, <1>5 DEF ScreensInv

\* An own entry is created, changed or deleted.
LEMMA ServeWriteStep ==
  ASSUME ScreensInv, NEW c \in calls, ServeWrite(c)
  PROVE  ScreensInv'
<1> DEFINE d == [c EXCEPT !.served = TRUE]
<1>0. /\ Shaped(c) /\ c.op \in Writes /\ Me \in Users /\ rows \in Tables
      /\ UNCHANGED browser /\ Answer(c, d)
  BY ScreensAssumption DEF ScreensInv, CallsOfScreen, ScreenShaped, ServeWrite
<1>1. rows' \in Tables
  BY <1>0 DEF ServeWrite, Change, Tables, EntryRows, Shaped
<1>2. /\ DOMAIN d = CallFields /\ d.op = c.op /\ d.live = c.live /\ d.query = c.query
      /\ d.year = c.year /\ d.row = c.row /\ d.day = c.day /\ d.was = c.was /\ d.moved = c.moved
      /\ d.rows = c.rows /\ d.served
  BY <1>0 DEF Shaped, CallFields
<1> HIDE DEF d
<1>3. CASE ~c.live
  BY <1>0, <1>1, <1>2, <1>3, DeadStep DEF Answer
<1>4. CASE c.live
  <2>1. calls' = (calls \ {c}) \cup {d}
    BY <1>0, <1>2, <1>4 DEF Answer
  <2>2. ScreenShaped' /\ Query' = Query
    BY <1>0, <1>1, BrowserStays
  <2>3. CallsOfScreen'
    <3>1. Shaped(d)
      BY <1>0, <1>2 DEF Shaped
    <3> QED BY <1>0, <1>2, <2>1, <3>1 DEF ScreensInv, CallsOfScreen, browser, screen, history
  <2>4. FormInv'
    BY <1>0, <1>2, <2>1 DEF ScreensInv, FormInv, browser, screen, history, data, Writes
  <2>5. ReloadInv'
    <3>1. WriteServed(calls')
      BY <1>0, <1>2, <2>1 DEF WriteServed
    <3> QED BY <3>1 DEF ReloadInv
  <2>6. CalendarInv'
    <3>1. UNCHANGED <<shown, calm, route, cal, confirm, loading, expected>>
      BY <1>0 DEF browser, data, history, screen
    <3> SUFFICES ASSUME route = "my"
                 PROVE  CalendarInv'
      BY <3>1 DEF CalendarInv
    <3>2. c.op = "delete" /\ c.row \in Ids
      BY <1>0, <1>4 DEF ScreensInv, CallsOfScreen, Writes, Shaped
    <3>3. rows' = [rows EXCEPT ![c.row] = Null]
      BY <3>2 DEF ServeWrite, Change
    <3>4. rows'[c.row] = Null /\ \A i \in Ids : i # c.row => rows'[i] = rows[i]
      BY <1>0, <3>2, <3>3 DEF Tables
    <3>5. \A i \in Ids : i # c.row => Matching(Query)'[i] = Matching(Query)[i]
      BY <2>2, <3>4 DEF Matching
    <3>6. ASSUME calm
          PROVE  /\ \A e \in calls' : e.op # "list"
                 /\ \A e \in calls' : e.op \in Writes /\ e.served => rows'[e.row] = Null
      <4>1. \A e \in calls' : e.op # "list"
        BY <1>2, <2>1, <3>1, <3>2, <3>6 DEF ScreensInv, CalendarInv, Writes
      <4>2. \A e \in calls : e.op \in Writes => e.op = "delete" /\ e.row \in Ids
        BY <3>6 DEF ScreensInv, CallsOfScreen, Writes, Shaped
      <4>3. \A e \in calls : e.op \in Writes /\ e.served => rows[e.row] = Null
        BY <3>6 DEF ScreensInv, CalendarInv
      <4> QED BY <1>2, <2>1, <3>4, <4>1, <4>2, <4>3
    <3>7. ASSUME calm, NEW i \in Ids
          PROVE  \/ shown[i] = Matching(Query)'[i]
                 \/ \E e \in calls' : e.op = "delete" /\ e.served /\ e.row = i
      <4>1. CASE i = c.row
        BY <1>2, <2>1, <3>2, <4>1
      <4>2. CASE i # c.row
        <5>1. \/ shown[i] = Matching(Query)[i]
              \/ \E e \in calls : e.op = "delete" /\ e.served /\ e.row = i
          BY <1>0, <3>2, <3>7 DEF ScreensInv, CalendarInv, Writes
        <5> QED BY <2>1, <3>5, <4>2, <5>1
      <4> QED BY <4>1, <4>2
    <3>8. ASSUME calm
          PROVE  /\ (\A e \in calls' : e.op # "days") => expected = cal.year
                 /\ (\E e \in calls' : e.op = "days") =>
                      \E e \in calls' : e.op = "days" /\ e.year = cal.year
      BY <1>2, <2>1, <3>2, <3>8 DEF ScreensInv, CalendarInv
    <3>9. /\ cal.selected # Null \/ confirm # Null => ~loading
          /\ confirm # Null => cal.selected # Null
      BY DEF ScreensInv, CalendarInv
    <3> QED BY <2>2, <3>1, <3>6, <3>7, <3>8, <3>9 DEF CalendarInv
  <2> QED BY <2>2, <2>3, <2>4, <2>5, <2>6 DEF ScreensInv
<1> QED BY <1>3, <1>4

LEMMA DropStep ==
  ASSUME ScreensInv, NEW c \in calls, Drop(c)
  PROVE  ScreensInv'
<1>1. rows \in Tables
  BY DEF ScreensInv, ScreenShaped
<1> QED BY <1>1, DeadStep DEF Drop

-----------------------------------------------------------------------------
(* The answers.                                                             *)

\* Charts or working days come, or an error about them, or about a change that was
\* not made.
LEMMA ToldStep ==
  ASSUME ScreensInv, NEW c \in calls, c.op # "list", calls' = calls \ {c},
         UNCHANGED <<rows, screen, shown, loading, confirm, moved>>, charts' \in Tables,
         calm' => /\ calm /\ (c.op \in Writes => ~c.served)
                  /\ IF c.op = "charts" THEN c.served /\ charts' = c.rows ELSE charts' = charts
                  /\ IF c.op = "days" THEN expected' = c.year /\ InFlight({"days"}) = {c}
                     ELSE expected' = expected
  PROVE  ScreensInv'
<1>1. ScreenShaped' /\ Query' = Query /\ Matching(Query)' = Matching(Query)
  BY DEF ScreensInv, ScreenShaped, Query, Matching, screen
<1>2. CallsOfScreen'
  BY DEF ScreensInv, CallsOfScreen, screen
<1>3. FormInv'
  BY DEF ScreensInv, FormInv, screen
<1>4. ReloadInv'
  <2> SUFFICES ASSUME calm', route # "my"
               PROVE  \/ WriteServed(calls')
                      \/ Current(shown, "list")' /\ (route = "list" => Current(charts, "charts")')
    BY DEF ReloadInv, screen
  <2>1. CASE WriteServed(calls)
    BY <2>1 DEF WriteServed
  <2>2. CASE Current(shown, "list") /\ (route = "list" => Current(charts, "charts"))
    <3>1. Current(shown, "list")'
      BY <1>1, <2>2 DEF Current
    <3>2. route = "list" => Current(charts, "charts")'
      BY <1>1, <2>2 DEF Current
    <3> QED BY <3>1, <3>2
  <2> QED BY <2>1, <2>2 DEF ScreensInv, ReloadInv
<1>5. CalendarInv'
  <2> SUFFICES ASSUME route = "my"
               PROVE  CalendarInv'
    BY DEF CalendarInv, screen
  <2>1. ASSUME calm'
        PROVE  /\ (\A e \in calls' : e.op # "days") => expected' = cal.year
               /\ (\E e \in calls' : e.op = "days") =>
                    \E e \in calls' : e.op = "days" /\ e.year = cal.year
    <3>1. \A e \in calls : e.op = "days" => e.live
      BY DEF ScreensInv, CallsOfScreen, Gets
    <3>2. CASE c.op = "days"
      <4>1. \A e \in calls : e.op = "days" <=> e = c
        BY <2>1, <3>1, <3>2 DEF InFlight
      <4>2. c.year = cal.year
        BY <2>1, <3>2, <4>1 DEF ScreensInv, CalendarInv
      <4> QED BY <2>1, <3>2, <4>1, <4>2
    <3>3. CASE c.op # "days"
      BY <2>1, <3>3 DEF ScreensInv, CalendarInv
    <3> QED BY <3>2, <3>3
  <2>2. ASSUME calm', \A e \in calls' : e.op # "list", NEW i \in Ids
        PROVE  \/ shown[i] = Matching(Query)[i]
               \/ \E e \in calls' : e.op = "delete" /\ e.served /\ e.row = i
    <3>1. \A e \in calls : e.op # "list"
      BY <2>2
    <3>2. \/ shown[i] = Matching(Query)[i]
          \/ \E e \in calls : e.op = "delete" /\ e.served /\ e.row = i
      BY <2>2, <3>1 DEF ScreensInv, CalendarInv
    <3> QED BY <2>2, <3>2 DEF Writes
  <2> QED BY <1>1, <2>1, <2>2 DEF ScreensInv, CalendarInv, screen
<1> QED BY <1>1, <1>2, <1>3, <1>4, <1>5 DEF ScreensInv

LEMMA DeliverChartsStep ==
  ASSUME ScreensInv, NEW c \in calls, NEW ok \in BOOLEAN, DeliverCharts(c, ok) \/ DeliverDays(c, ok)
  PROVE  ScreensInv'
<1>0. NoRows \in Tables /\ c.rows \in Tables /\ charts \in Tables
  BY DEF NoRows, Tables, ScreensInv, CallsOfScreen, Shaped, ScreenShaped
<1>1. CASE DeliverCharts(c, ok)
  BY <1>0, <1>1, ToldStep DEF DeliverCharts, Answered, Failed, Gets, Writes
<1>2. CASE DeliverDays(c, ok)
  BY <1>0, <1>2, ToldStep DEF DeliverDays, Answered, Failed, Gets, Writes
<1> QED BY <1>1, <1>2

LEMMA ReloadStep ==
  ASSUME ScreensInv, NEW c \in calls, route # "my", Ask(calls \ {c}, Query),
         form' = Reset(form) \/ form' = form,
         UNCHANGED <<rows, route, lst, cal, shown, charts, confirm, moved>>
  PROVE  ScreensInv'
<1>1. /\ form'.date = form.date /\ form'.pending = form.pending /\ form'.was = form.was
      /\ form'.editing = form.editing \/ form'.editing = Null
      /\ DOMAIN form' = DOMAIN form
  BY DEF Reset, ScreensInv, ScreenShaped
<1>2. ScreenShaped' /\ Query' = Query
  BY <1>1 DEF ScreensInv, ScreenShaped, Query
<1>3. form'.editing # Null => moved' \/ form'.was = form'.date
  BY <1>1 DEF ScreensInv, FormInv
<1>4. Query = Query'
  BY <1>2
<1> QED BY <1>1, <1>2, <1>3, <1>4, AskStep

LEMMA DeliverSaveStep ==
  ASSUME ScreensInv, NEW c \in calls, NEW ok \in BOOLEAN, DeliverSave(c, ok)
  PROVE  ScreensInv'
<1>1. c.op \in {"create", "update"} /\ c.live
  BY DEF DeliverSave, Answered
<1>2. CASE ok
  <2>1. route = "entry"
    BY <1>1 DEF ScreensInv, CallsOfScreen
  <2>2. /\ Ask(calls \ {c}, Query) /\ form' = Reset(form)
        /\ UNCHANGED <<rows, route, lst, cal, shown, charts, confirm, moved>>
    BY <1>2 DEF DeliverSave
  <2> QED BY <2>1, <2>2, ReloadStep
<1>3. CASE ~ok
  <2>1. charts \in Tables
    BY DEF ScreensInv, ScreenShaped
  <2>2. /\ calls' = calls \ {c} /\ (calm' => calm /\ ~c.served)
        /\ UNCHANGED <<rows, screen, shown, loading, confirm, moved, charts, expected>>
    BY <1>1, <1>3 DEF DeliverSave, Told, Failed, screen
  <2> QED BY <1>1, <2>1, <2>2, ToldStep
<1> QED BY <1>2, <1>3

\* The calendar drops the entry, which nobody can have made again.
LEMMA CalendarDropStep ==
  ASSUME ScreensInv, NEW c \in calls, c.op = "delete", c.live, c.served, route = "my",
         shown' = [shown EXCEPT ![c.row] = Null], calls' = calls \ {c}, calm' => calm,
         UNCHANGED <<rows, screen, charts, expected, loading, confirm, moved>>
  PROVE  ScreensInv'
<1>0. c.row \in Ids /\ shown \in Tables
  BY DEF ScreensInv, CallsOfScreen, Shaped, ScreenShaped
<1>1. shown' \in Tables /\ shown'[c.row] = Null /\ \A i \in Ids : i # c.row => shown'[i] = shown[i]
  BY <1>0 DEF Tables
<1>2. ScreenShaped' /\ Query' = Query /\ Matching(Query)' = Matching(Query)
  BY <1>1 DEF ScreensInv, ScreenShaped, Query, Matching, screen
<1>3. CallsOfScreen'
  BY DEF ScreensInv, CallsOfScreen, screen
<1>4. FormInv'
  BY DEF ScreensInv, FormInv, screen
<1>5. ReloadInv'
  BY DEF ReloadInv, screen
<1>6. ASSUME calm', \A e \in calls' : e.op # "list", NEW i \in Ids
      PROVE  \/ shown'[i] = Matching(Query)[i]
             \/ \E e \in calls' : e.op = "delete" /\ e.served /\ e.row = i
  <2>1. CASE i = c.row
    <3>1. rows[i] = Null
      BY <1>6, <2>1 DEF ScreensInv, CalendarInv, Writes
    <3> QED BY <1>1, <2>1, <3>1 DEF Matching
  <2>2. CASE i # c.row
    <3>1. \A e \in calls : e.op # "list"
      BY <1>6
    <3>2. \/ shown[i] = Matching(Query)[i]
          \/ \E e \in calls : e.op = "delete" /\ e.served /\ e.row = i
      BY <1>6, <3>1 DEF ScreensInv, CalendarInv
    <3> QED BY <1>1, <2>2, <3>2
  <2> QED BY <2>1, <2>2
<1>7. CalendarInv'
  BY <1>2, <1>6 DEF ScreensInv, CalendarInv, screen
<1> QED BY <1>2, <1>3, <1>4, <1>5, <1>7 DEF ScreensInv

LEMMA DeliverDeleteStep ==
  ASSUME ScreensInv, NEW c \in calls, NEW ok \in BOOLEAN, DeliverDelete(c, ok)
  PROVE  ScreensInv'
<1>1. c.op = "delete" /\ c.live /\ (ok => c.served)
  BY DEF DeliverDelete, Answered
<1>2. CASE ok /\ route # "my"
  <2>1. /\ Ask(calls \ {c}, Query) /\ (form' = Reset(form) \/ form' = form)
        /\ UNCHANGED <<rows, route, lst, cal, shown, charts, confirm, moved>>
    BY <1>2 DEF DeliverDelete
  <2> QED BY <1>2, <2>1, ReloadStep
<1>3. CASE ok /\ route = "my"
  <2>1. /\ shown' = [shown EXCEPT ![c.row] = Null] /\ calls' = calls \ {c} /\ (calm' => calm)
        /\ UNCHANGED <<rows, screen, charts, expected, loading, confirm, moved>>
    BY <1>3 DEF DeliverDelete, Told, screen
  <2> QED BY <1>1, <1>3, <2>1, CalendarDropStep
<1>4. CASE ~ok
  <2>1. charts \in Tables
    BY DEF ScreensInv, ScreenShaped
  <2>2. /\ calls' = calls \ {c} /\ (calm' => calm /\ ~c.served)
        /\ UNCHANGED <<rows, screen, shown, loading, confirm, moved, charts, expected>>
    BY <1>1, <1>4 DEF DeliverDelete, Told, Failed, screen
  <2> QED BY <1>1, <2>1, <2>2, ToldStep
<1> QED BY <1>2, <1>3, <1>4

\* A list comes, perhaps with the entry of the URL.
LEMMA DeliverListStep ==
  ASSUME ScreensInv, NEW c \in calls, NEW ok \in BOOLEAN, DeliverList(c, ok)
  PROVE  ScreensInv'
<1>0. /\ ScreenShaped /\ CallsOfScreen /\ FormInv /\ ReloadInv /\ CalendarInv /\ Shaped(c)
      /\ c.op = "list" /\ (ok => c.served) /\ calls' = calls \ {c} /\ loading' = FALSE
      /\ UNCHANGED <<rows, route, lst, cal, charts, expected, confirm, moved>>
      /\ shown' = (IF ok THEN c.rows ELSE NoRows) /\ (calm' => calm /\ ok)
  BY DEF ScreensInv, CallsOfScreen, DeliverList, Answered, Failed, Gets
<1>1. \/ form' = form /\ (ok => form.pending = Null)
      \/ /\ ok /\ form.pending # Null /\ form' = [form EXCEPT !.pending = Null]
      \/ /\ ok /\ form.pending # Null /\ c.rows[form.pending] # Null
         /\ form' = [Edited(form, form.pending, c.rows[form.pending].day) EXCEPT !.pending = Null]
  BY DEF DeliverList, Opened
<1>2. /\ form'.date = form.date /\ DOMAIN form' = DOMAIN form
      /\ form'.pending = Null \/ (~ok /\ form' = form)
      /\ \/ form'.editing = form.editing /\ form'.was = form.was
         \/ /\ form.pending # Null /\ c.rows[form.pending] # Null
            /\ form'.was = c.rows[form.pending].day
  BY <1>0, <1>1 DEF Edited, ScreenShaped
<1>3. ScreenShaped'
  <2>1. NoRows \in Tables
    BY DEF NoRows, Tables
  <2> QED BY <1>0, <1>2, <2>1 DEF ScreenShaped, Shaped
<1>4. Query' = Query /\ Matching(Query)' = Matching(Query)
  BY <1>0, <1>2 DEF Query, Matching
<1>5. CallsOfScreen'
  BY <1>0 DEF CallsOfScreen
<1>6. FormInv'
  <2>1. form'.editing # Null => moved' \/ form'.was = form'.date
    <3>1. CASE form'.editing = form.editing /\ form'.was = form.was
      BY <1>0, <1>2, <3>1 DEF FormInv
    <3>2. CASE /\ form.pending # Null /\ c.rows[form.pending] # Null
               /\ form'.was = c.rows[form.pending].day
      <4>1. moved \/ c.query = DayQuery(form.date)
        BY <1>0, <3>2 DEF FormInv
      <4>2. c.rows[form.pending].day \in c.query.days
        BY <1>0, <3>2 DEF ScreenShaped, Shaped, Tables, Listed
      <4> QED BY <1>0, <1>2, <3>2, <4>1, <4>2 DEF DayQuery
    <3> QED BY <1>2, <3>1, <3>2
  <2>2. form'.pending # Null => ~ok /\ form' = form
    BY <1>2
  <2> QED BY <1>0, <2>1, <2>2 DEF FormInv
<1>7. ReloadInv'
  <2> SUFFICES ASSUME calm', route # "my"
               PROVE  \/ WriteServed(calls')
                      \/ Current(shown, "list")' /\ (route = "list" => Current(charts, "charts")')
    BY <1>0 DEF ReloadInv
  <2>1. CASE WriteServed(calls)
    BY <1>0, <2>1 DEF WriteServed, Writes
  <2>2. CASE Current(shown, "list") /\ (route = "list" => Current(charts, "charts"))
    <3>1. Current(shown, "list")'
      BY <1>0, <1>4, <2>2 DEF Current
    <3>2. route = "list" => Current(charts, "charts")'
      BY <1>0, <1>4, <2>2 DEF Current
    <3> QED BY <3>1, <3>2
  <2> QED BY <1>0, <2>1, <2>2 DEF ReloadInv
<1>8. CalendarInv'
  <2> SUFFICES ASSUME route = "my"
               PROVE  CalendarInv'
    BY <1>0 DEF CalendarInv
  <2>1. ASSUME calm'
        PROVE  (\A e \in calls' : e.op # "list") /\ shown' = Matching(Query)
    BY <1>0, <2>1 DEF CalendarInv
  <2>2. ASSUME calm'
        PROVE  /\ \A e \in calls' : e.op \in Writes /\ e.served => rows[e.row] = Null
               /\ (\A e \in calls' : e.op # "days") => expected = cal.year
               /\ (\E e \in calls' : e.op = "days") =>
                    \E e \in calls' : e.op = "days" /\ e.year = cal.year
    BY <1>0, <2>2 DEF CalendarInv
  <2>3. confirm # Null => cal.selected # Null
    BY <1>0 DEF CalendarInv
  <2> QED BY <1>0, <1>4, <2>1, <2>2, <2>3 DEF CalendarInv
<1> QED BY <1>3, <1>5, <1>6, <1>7, <1>8 DEF ScreensInv

-----------------------------------------------------------------------------
LEMMA OpensStep ==
  ASSUME ScreensInv,
         \/ \E r \in {"list", "my", "entry"} : Navigate(r)
         \/ \E i \in Ids : EditEntry(i)
         \/ \E d \in Days : AddEntry(d)
  PROVE  ScreensInv'
<1>1. ASSUME NEW r \in {"list", "my", "entry"}, Navigate(r)
      PROVE  ScreensInv'
  BY <1>1, Bounds, OpenStep DEF Navigate
<1>2. ASSUME NEW i \in Ids, EditEntry(i)
      PROVE  ScreensInv'
  <2>1. shown[i].day \in Days
    BY <1>2 DEF EditEntry, Editable, Listed, ScreensInv, ScreenShaped, Tables, EntryRows
  <2> QED BY <1>2, <2>1, OpenStep DEF EditEntry
<1>3. ASSUME NEW d \in Days, AddEntry(d)
      PROVE  ScreensInv'
  BY <1>3, OpenStep DEF AddEntry
<1> QED BY <1>1, <1>2, <1>3

LEMMA ClickStep ==
  ASSUME ScreensInv, Click
  PROVE  ScreensInv'
<1>1. CASE \/ \E r \in {"list", "my", "entry"} : Navigate(r)
           \/ \E i \in Ids : EditEntry(i)
           \/ \E d \in Days : AddEntry(d)
  BY <1>1, OpensStep
<1>2. CASE \E i \in Ids : Edit(i)
  BY <1>2, EditStep
<1>3. CASE \/ ToggleBelowExpected \/ CancelDelete
           \/ \E p : SetPage(p)
           \/ \E d \in Days : SelectDay(d)
           \/ \E i \in Ids : AskDelete(i)
  BY <1>3, BrowsingStep
<1>4. CASE \E d \in Days : SetDate(d)
  BY <1>4, DateStep
<1>5. CASE ChangeFilter \/ ToggleSort \/ ChangeMonth
  BY <1>5, FilterStep, MonthStep
<1>6. CASE Type \/ Clear \/ Submit \/ ConfirmDelete
  BY <1>6, TypingStep, SubmitStep
<1> QED BY <1>1, <1>2, <1>3, <1>4, <1>5, <1>6 DEF Click

LEMMA ScreensStep ==
  ASSUME ScreensInv, [ScreensNext]_screenVars
  PROVE  ScreensInv'
<1>1. CASE Click
  BY <1>1, ClickStep
<1>2. ASSUME NEW c \in calls, ServeGet(c) \/ ServeWrite(c) \/ Drop(c)
      PROVE  ScreensInv'
  BY <1>2, ServeGetStep, ServeWriteStep, DropStep
<1>3. ASSUME NEW c \in calls, NEW ok \in BOOLEAN, Deliver(c, ok)
      PROVE  ScreensInv'
  BY <1>3, DeliverListStep, DeliverChartsStep, DeliverSaveStep, DeliverDeleteStep DEF Deliver
<1>4. CASE UNCHANGED screenVars
  <2>1. /\ UNCHANGED <<rows, route, data, calls, calm>> /\ ScreenShaped' /\ Query' = Query
        /\ UNCHANGED <<form, cal, confirm, moved>>
    BY <1>4 DEF screenVars, screen, data, history, ScreensInv, ScreenShaped, Query
  <2> QED BY <2>1, LocalStep DEF ScreensInv, FormInv, CalendarInv
<1> QED BY <1>1, <1>2, <1>3, <1>4 DEF ScreensNext

\* What the three theorems follow from.
THEOREM ScreensInvariant == ScreensSpec => []ScreensInv
<1>1. ScreensInv /\ [ScreensNext]_screenVars => ScreensInv'
  BY ScreensStep
<1> QED BY ScreensStart, <1>1, PTL DEF ScreensSpec

-----------------------------------------------------------------------------
LEMMA SettledShows ==
  ASSUME ScreensInv, Settled
  PROVE  /\ route # "my" => shown = Matching(Query)
         /\ route = "list" => charts = Matching(Query)
         /\ route = "my" => expected = cal.year /\ \A i \in Ids : shown[i] = Matching(Query)[i]
<1>1. calm /\ \A c \in calls : FALSE
  BY DEF Settled, InFlight, ScreensInv, CallsOfScreen, Shaped
<1> QED BY <1>1 DEF ScreensInv, ReloadInv, CalendarInv, Current, WriteServed

\* Once everything is answered the list shows the entries its filters ask for as
\* they are in the database, its figures and charts add up the same entries, and a
\* workbook exported then holds them all, none outside the dates of its title
\* (workload-list.component.ts:425-469, 518-579, 676-688).
THEOREM ListFollowsTheTable == ScreensSpec => []TableAndChartsFollow
<1>1. ScreensInv => TableAndChartsFollow
  <2> SUFFICES ASSUME ScreensInv, Settled, route = "list"
               PROVE  TableAndChartsFollow
    BY DEF TableAndChartsFollow
  <2>1. shown = Matching(Query) /\ charts = shown /\ Query = ListQuery(lst)
    BY SettledShows DEF Query
  <2>2. UNION Workbook.groups = Listed(shown)
    <3> DEFINE G(n) == {i \in Listed(shown) : Name[shown[i].owner] = n}
               N == {Name[u] : u \in Groups(shown)}
    <3>1. Workbook.groups = {G(n) : n \in N}
      BY DEF Workbook
    <3>2. \A i \in Listed(shown) : Name[shown[i].owner] \in N /\ i \in G(Name[shown[i].owner])
      BY DEF Groups
    <3>3. \A n \in N : G(n) \subseteq Listed(shown)
      OBVIOUS
    <3> HIDE DEF G, N
    <3> QED BY <3>1, <3>2, <3>3
  <2>3. \A i \in Listed(shown) : rows[i].day \in InRange(lst.range)
    BY <2>1 DEF Matching, Listed, ListQuery
  <2>4. Workbook.title = lst.range
    BY DEF Workbook
  <2>5. Kpis.totalEntries = Cardinality(Listed(shown))
    BY <2>1 DEF Kpis
  <2>6. /\ DOMAIN Trend = {shown[i].day : i \in Listed(shown)}
        /\ \A d \in DOMAIN Trend :
             Trend[d] = EntryHours * Cardinality({i \in Listed(shown) : shown[i].day = d})
    BY <2>1 DEF Trend
  <2> QED BY <2>1, <2>2, <2>3, <2>4, <2>5, <2>6 DEF TableAndChartsFollow
<1> QED BY ScreensInvariant, <1>1, PTL

\* The hours of a day are a number, which is 0 without an entry.
LEMMA HoursAreNatural ==
  ASSUME NEW t \in Tables, NEW D
  PROVE  Hours(t, Me, D) \in Nat
<1> DEFINE L == {i \in Listed(t) : t[i].owner = Me /\ t[i].day \in D}
<1>1. L \subseteq Ids
  BY DEF Listed, Tables
<1>2. IsFiniteSet(L)
  BY <1>1, Bounds, FS_Subset
<1>3. Cardinality(L) \in Nat
  BY <1>2, FS_CardinalityType
<1>4. Hours(t, Me, D) = EntryHours * Cardinality(L)
  BY DEF Hours
<1> HIDE DEF L
<1> QED BY <1>3, <1>4, Bounds

\* A settled calendar marks a day as missing if and only if it is a past weekday
\* without an own entry, and has the working days of its year; a settled form
\* lists the entries of its date (my-workload.component.ts:110-151, 231-239, 306;
\* workload-entry.component.ts:147-152, 183-188).
THEOREM OwnDaysFollowTheTable == ScreensSpec => []OwnDaysAreRight
<1>1. ScreensInv => OwnDaysAreRight
  <2> SUFFICES ASSUME ScreensInv
               PROVE  OwnDaysAreRight
    OBVIOUS
  <2>0. rows \in Tables /\ shown \in Tables
    BY DEF ScreensInv, ScreenShaped
  <2>1. ASSUME Settled, route = "my"
        PROVE  MissingDays = {d \in MonthQuery(cal).days \ Weekend :
                                d <= Today /\ Hours(rows, Me, {d}) = 0}
    <3>1. Query = MonthQuery(cal) /\ Listed(shown) \subseteq Ids /\ Listed(rows) \subseteq Ids
      BY <2>0, <2>1 DEF Query, Listed, Tables
    <3>2. \A i \in Ids : shown[i] = Matching(Query)[i]
      BY <2>1, SettledShows
    <3>3. ASSUME NEW d \in MonthQuery(cal).days
          PROVE  Tone(d) = "red" <=> d \notin Weekend /\ d <= Today /\ Hours(rows, Me, {d}) = 0
      <4>1. {i \in Listed(shown) : shown[i].owner = Me /\ shown[i].day \in {d}}
              = {i \in Listed(rows) : rows[i].owner = Me /\ rows[i].day \in {d}}
        <5>1. \A i \in Ids : \/ rows[i] = Null \/ rows[i].owner # Me \/ rows[i].day # d
                             \/ shown[i] = rows[i]
          BY <3>1, <3>2, <3>3 DEF Matching, MonthQuery
        <5>2. \A i \in Ids : shown[i] # Null => shown[i] = rows[i]
          BY <3>2 DEF Matching
        <5> QED BY <2>0, <3>1, <5>1, <5>2 DEF Listed, Tables
      <4>2. Hours(shown, Me, {d}) = Hours(rows, Me, {d})
        BY <4>1 DEF Hours
      <4>3. Hours(rows, Me, {d}) \in Nat
        BY <2>0, HoursAreNatural
      <4>4. d \in Nat /\ Today \in Nat
        BY <3>3, ScreensAssumption DEF MonthQuery
      <4> DEFINE h == Hours(shown, Me, {d})
      <4>5. Tone(d) = "red" <=> h = 0 /\ d \notin Weekend /\ ~(d > Today)
        BY <4>2, <4>3, <4>4, Bounds DEF Tone
      <4> HIDE DEF h
      <4> QED BY <4>2, <4>4, <4>5 DEF h
    <3> QED BY <3>3 DEF MissingDays
  <2>2. ASSUME Settled, route = "my"
        PROVE  expected = cal.year
    BY <2>2, SettledShows
  <2>3. ASSUME Settled, route = "entry"
        PROVE  DayEntries = {i \in Listed(rows) : rows[i] = [owner |-> Me, day |-> form.date]}
    <3>1. shown = Matching(DayQuery(form.date))
      BY <2>3, SettledShows DEF Query
    <3>2. \A i \in Ids : \/ shown[i] = Null
                         \/ shown[i] = rows[i] /\ rows[i].owner = Me /\ rows[i].day = form.date
      BY <3>1 DEF Matching, DayQuery
    <3>3. \A i \in Ids : rows[i] # Null /\ rows[i].owner = Me /\ rows[i].day = form.date =>
                           shown[i] = rows[i]
      BY <3>1 DEF Matching, DayQuery
    <3>4. \A i \in Ids : rows[i] # Null =>
            (rows[i] = [owner |-> Me, day |-> form.date]
               <=> rows[i].owner = Me /\ rows[i].day = form.date)
      BY <2>0 DEF Tables, EntryRows
    <3> QED BY <2>0, <3>2, <3>3, <3>4 DEF DayEntries, Listed, Tables
  <2> QED BY <2>1, <2>2, <2>3 DEF OwnDaysAreRight
<1> QED BY ScreensInvariant, <1>1, PTL

\* A save moves an entry to another day only if the user changed the date after
\* choosing the entry, however late the lists of other days come
\* (workload-entry.component.ts:147-152, 192-195, 299-313).
THEOREM SavesKeepTheDay == ScreensSpec => []SaveKeepsTheDay
<1>1. ScreensInv => SaveKeepsTheDay
  BY DEF ScreensInv, FormInv, SaveKeepsTheDay, InFlight
<1> QED BY ScreensInvariant, <1>1, PTL

=============================================================================
