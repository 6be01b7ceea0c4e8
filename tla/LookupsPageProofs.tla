-------------------------- MODULE LookupsPageProofs --------------------------
(***************************************************************************)
(* Why a change made on the lookups page goes to the table its row was     *)
(* read from, as long as no two lists are on their way at once: for any    *)
(* tables, rows and number of requests, whatever order the answers take.   *)
(* And why, under the same condition, page and caches know every own        *)
(* change once all is answered.                                            *)
(***************************************************************************)
EXTENDS LookupsPage, TLAPS

CallFields == {"id", "op", "kind", "full", "row", "want", "at", "rows", "ok"}

\* What the page relies on between two answers.  In calm, a list on its way is
\* that of the open tab; rows that can be clicked are of the open tab; and so is
\* the row of an open dialog, since the tab cannot change under a dialog.
CallsAreRecords == \A c \in calls : DOMAIN c = CallFields

ListsAreOfTheTab == \A c \in InFlight("list") : c.kind = tab

RowsAreOfTheTab == ~loading => shown.from = tab

DialogsAreOfTheTab ==
  /\ modal # Null => modal.from = tab
  /\ confirm # Null => confirm.from = tab

ChangesAreOfTheirTable == \A c \in Changes : c.row.from = c.kind

PageInv ==
  /\ CallsAreRecords
  /\ calm => /\ ListsAreOfTheTab
             /\ RowsAreOfTheTab
             /\ DialogsAreOfTheTab
             /\ ChangesAreOfTheirTable

-----------------------------------------------------------------------------
\* The calls a click or a callback sends.
LEMMA FreshCalls ==
  ASSUME NEW op, NEW k, NEW f, NEW r
  PROVE  /\ DOMAIN Call(op, k) = CallFields
         /\ Call(op, k).op = op /\ Call(op, k).kind = k
         /\ DOMAIN ListCall(k, f) = CallFields
         /\ ListCall(k, f).op = "list" /\ ListCall(k, f).kind = k
         /\ LET c == [Call(op, k) EXCEPT !.row = r] IN
              DOMAIN c = CallFields /\ c.op = op /\ c.kind = k /\ c.row = r
<1>1. /\ DOMAIN Call(op, k) = CallFields
      /\ Call(op, k).op = op /\ Call(op, k).kind = k
  BY DEF Call, CallFields
<1>2. /\ DOMAIN Call("list", k) = CallFields
      /\ Call("list", k).op = "list" /\ Call("list", k).kind = k
  BY DEF Call, CallFields
<1>3. QED
  BY <1>1, <1>2 DEF ListCall, CallFields

LEMMA PageInit == Init => PageInv
  BY DEF Init, PageInv, CallsAreRecords, CallFields, ListsAreOfTheTab,
         RowsAreOfTheTab, DialogsAreOfTheTab, ChangesAreOfTheirTable, InFlight,
         Changes

-----------------------------------------------------------------------------
\* The server writes into a call what it saw or did, never what it is about.
LEMMA ServedCall ==
  ASSUME PageInv, NEW c \in calls, NEW d, Replace(c, d), UNCHANGED client,
         DOMAIN d = CallFields, d.op = c.op, d.kind = c.kind, d.row = c.row
  PROVE  PageInv'
  BY DEF PageInv, Replace, client, dialogs, history, CallsAreRecords,
         ListsAreOfTheTab, RowsAreOfTheTab, DialogsAreOfTheTab,
         ChangesAreOfTheirTable, InFlight, Changes

LEMMA ServeStep ==
  ASSUME PageInv, NEW c \in calls, Serve(c)
  PROVE  PageInv'
<1>0. DOMAIN c = CallFields
  BY DEF PageInv, CallsAreRecords
<1>1. ASSUME NEW k \in Kinds, ServeRead(c, k)
      PROVE  PageInv'
  <2> DEFINE d == [c EXCEPT !.want = @ \ {k},
                            !.at[k] = version,
                            !.rows = IF c.op = "list" THEN Listed(k, c.full) ELSE @]
  <2>1. /\ DOMAIN d = CallFields
        /\ d.op = c.op /\ d.kind = c.kind /\ d.row = c.row
    BY <1>0 DEF CallFields
  <2>2. Replace(c, d) /\ UNCHANGED client
    BY <1>1 DEF ServeRead
  <2>3. QED
    BY <2>1, <2>2, ServedCall
<1>2. ASSUME NEW i, NEW state, Commit(c, i, state)
      PROVE  PageInv'
  <2> DEFINE d == [c EXCEPT !.want = {}, !.at[c.kind] = version + 1]
  <2>1. /\ DOMAIN d = CallFields
        /\ d.op = c.op /\ d.kind = c.kind /\ d.row = c.row
    BY <1>0 DEF CallFields
  <2>2. Replace(c, d) /\ UNCHANGED client
    BY <1>2 DEF Commit
  <2>3. QED
    BY <2>1, <2>2, ServedCall
<1>3. ASSUME Refuse(c)
      PROVE  PageInv'
  <2> DEFINE d == [c EXCEPT !.want = {}, !.ok = FALSE]
  <2>1. /\ DOMAIN d = CallFields
        /\ d.op = c.op /\ d.kind = c.kind /\ d.row = c.row
    BY <1>0 DEF CallFields
  <2>2. Replace(c, d) /\ UNCHANGED client
    BY <1>3 DEF Refuse
  <2>3. QED
    BY <2>1, <2>2, ServedCall
<1>4. QED
  BY <1>1, <1>2, <1>3 DEF Serve, ServeCreate, ServeChange, Fail

-----------------------------------------------------------------------------
\* What a click adds to the calls, or a callback replaces its call by.
LEMMA DeliverStep ==
  ASSUME PageInv, NEW c \in calls, Deliver(c)
  PROVE  PageInv'
<1> USE DEF PageInv, CallsAreRecords, ListsAreOfTheTab, RowsAreOfTheTab,
            DialogsAreOfTheTab, ChangesAreOfTheirTable, InFlight, Changes,
            dialogs, history
<1>1. CASE DeliverList(c)
  <2>1. c \in InFlight("list")
    BY <1>1 DEF DeliverList, Answered
  <2>2. shown'.from = c.kind
    BY <1>1 DEF DeliverList
  <2>3. QED
    BY <1>1, <2>1, <2>2 DEF DeliverList
<1>2. ASSUME Refetch(c), UNCHANGED <<tab, shown, confirm>>, modal' \in {modal, Null}
      PROVE  PageInv'
  <2>1. ASSUME NEW d \in calls', d \notin calls
        PROVE  /\ DOMAIN d = CallFields
               /\ d.op \in {"list", "all", "load"}
               /\ d.op = "list" => d.kind = tab
    BY <1>2, <2>1, FreshCalls DEF Refetch
  <2>2. loading' = TRUE /\ (calm' => calm)
    BY <1>2 DEF Refetch
  <2>3. QED
    BY <1>2, <2>1, <2>2
<1>3. CASE DeliverChange(c)
  <2>1. UNCHANGED <<tab, shown, confirm>> /\ modal' \in {modal, Null}
    BY <1>3 DEF DeliverChange
  <2>2. CASE c.ok
    BY <1>2, <1>3, <2>1, <2>2 DEF DeliverChange
  <2>3. CASE ~c.ok
    BY <1>3, <2>1, <2>3 DEF DeliverChange
  <2>4. QED
    BY <2>2, <2>3
<1>4. CASE DeliverCache(c)
  BY <1>4 DEF DeliverCache
<1>5. QED
  BY <1>1, <1>3, <1>4 DEF Deliver

LEMMA ClickStep ==
  ASSUME PageInv, Click
  PROVE  PageInv'
<1> USE DEF PageInv, CallsAreRecords, ListsAreOfTheTab, RowsAreOfTheTab,
            DialogsAreOfTheTab, ChangesAreOfTheirTable, InFlight, Changes,
            server, dialogs, history
<1>1. ASSUME NEW k, NEW f, Reload(k, f)
      PROVE  PageInv'
  <2> DEFINE d == ListCall(k, f)
  <2>1. DOMAIN d = CallFields /\ d.op = "list" /\ d.kind = k
    BY FreshCalls
  <2>2. /\ tab' = k /\ loading' = TRUE
        /\ calls' = calls \cup {d}
        /\ modal' = Null /\ confirm' = Null
        /\ calm' => calm /\ InFlight("list") = {}
    BY <1>1 DEF Reload, PageFree
  <2> HIDE DEF d
  <2>3. ASSUME calm'
        PROVE  ListsAreOfTheTab' /\ ChangesAreOfTheirTable'
    BY <2>1, <2>2, <2>3
  <2>4. QED
    BY <2>1, <2>2, <2>3
<1>2. ASSUME NEW m, OpenModal(m), calm => m = Null \/ m.from = tab
      PROVE  PageInv'
  BY <1>2 DEF OpenModal
<1>3. ASSUME NEW r, SetConfirm(r), calm => r = Null \/ r.from = tab
      PROVE  PageInv'
  BY <1>3 DEF SetConfirm
<1>4. ASSUME NEW i \in Ids, NEW state, Clicked(i, state)
      PROVE  calm => Shown(i).from = tab
  BY <1>4 DEF Clicked, Shown
<1>5. ASSUME NEW d, calls' = calls \cup {d}, DOMAIN d = CallFields,
             d.op # "list", calm /\ d \in Changes' => d.row.from = d.kind,
             UNCHANGED <<tab, shown, loading, modal, calm>>,
             confirm' \in {confirm, Null}
      PROVE  PageInv'
  BY <1>5
<1>6. CASE StartCreate
  BY <1>2, <1>6 DEF StartCreate
<1>7. ASSUME NEW i \in Ids, StartEdit(i)
      PROVE  PageInv'
  BY <1>2, <1>4, <1>7 DEF StartEdit
<1>8. ASSUME NEW i \in Ids, AskDelete(i)
      PROVE  PageInv'
  BY <1>3, <1>4, <1>8 DEF AskDelete
<1>9. CASE SaveModal
  <2>1. /\ DOMAIN SaveCall = CallFields
        /\ SaveCall.op \in {"create", "update"}
        /\ SaveCall.kind = tab /\ SaveCall.row = modal
    BY FreshCalls DEF SaveCall
  <2>2. QED
    BY <1>5, <1>9, <2>1 DEF SaveModal
<1>10. CASE ConfirmSoftDelete
  <2> DEFINE d == [Call("delete", tab) EXCEPT !.row = confirm]
  <2>1. DOMAIN d = CallFields /\ d.op = "delete" /\ d.kind = tab /\ d.row = confirm
    BY FreshCalls
  <2>2. QED
    BY <1>5, <1>10, <2>1 DEF ConfirmSoftDelete
<1>11. ASSUME NEW i \in Ids, Reactivate(i)
       PROVE  PageInv'
  <2> DEFINE d == [Call("activate", tab) EXCEPT !.row = Shown(i)]
  <2>1. DOMAIN d = CallFields /\ d.op = "activate" /\ d.kind = tab /\ d.row = Shown(i)
    BY FreshCalls
  <2>2. QED
    BY <1>4, <1>5, <1>11, <2>1 DEF Reactivate
<1>12. ASSUME NEW k \in Kinds, SelectTab(k)
       PROVE  PageInv'
  BY <1>1, <1>12 DEF SelectTab
<1>13. CASE ShowInactive
  BY <1>1, <1>13 DEF ShowInactive
<1>14. CASE CloseModal
  BY <1>2, <1>14 DEF CloseModal
<1>15. CASE CancelDelete
  BY <1>3, <1>15 DEF CancelDelete
<1>16. QED
  BY <1>6, <1>7, <1>8, <1>9, <1>10, <1>11, <1>12, <1>13, <1>14, <1>15 DEF Click

-----------------------------------------------------------------------------
\* Every change the page sends goes to the table its row was read from, unless
\* two lists have been on their way at once or a load has failed (selectTab,
\* fetch and confirmSoftDelete, lookups.component.ts:133-150, 259-270).
THEOREM PageRowsBelong == Spec => []RowsBelongToTheTab
<1>1. PageInv /\ [Next]_vars => PageInv'
  <2> SUFFICES ASSUME PageInv, [Next]_vars PROVE PageInv'
    OBVIOUS
  <2>1. CASE Click
    BY <2>1, ClickStep
  <2>2. CASE \E c \in calls : Serve(c) \/ Deliver(c)
    BY <2>2, ServeStep, DeliverStep
  <2>3. CASE UNCHANGED vars
    BY <2>3 DEF vars, server, dialogs, history, PageInv, CallsAreRecords,
                ListsAreOfTheTab, RowsAreOfTheTab, DialogsAreOfTheTab,
                ChangesAreOfTheirTable, InFlight, Changes
  <2>4. QED
    BY <2>1, <2>2, <2>3 DEF Next
<1>2. PageInv => RowsBelongToTheTab
  BY DEF PageInv, RowsBelongToTheTab, ChangesAreOfTheirTable
<1>3. QED
  BY PageInit, <1>1, <1>2, PTL DEF Spec

-----------------------------------------------------------------------------
(* What the page and the caches show when everything is answered.           *)

Loads == {"list", "all", "load"}

\* What is numbered: no call knows a change that is not made yet, and a call that
\* is about one table names it.
Numbers ==
  /\ version \in Nat
  /\ tab \in Kinds
  /\ acked \in [Kinds -> Nat]
  /\ \A k \in Kinds : acked[k] <= version
  /\ \A c \in calls :
       /\ c.at \in [Kinds -> Nat]
       /\ \A k \in Kinds : c.at[k] <= version
       /\ c.op # "all" => c.kind \in Kinds
       /\ c.op = "load" => c.kind \in Shared

\* A call that has read table k knows the own changes of it that were answered.
Knows(c, k) == c.ok /\ k \notin c.want => c.at[k] >= acked[k]

\* In calm at most one list is on its way, that of the open tab; with none on
\* its way the list that is shown is such a list.
ListFollows ==
  calm =>
    /\ \A c, d \in InFlight("list") : c = d
    /\ \A c \in InFlight("list") : c.kind = tab /\ Knows(c, tab)
    /\ InFlight("list") = {} => shown.from = tab /\ shown.at >= acked[tab]

\* The same of loadAll and the caches it fills, whichever tab is open.
JoinedFollow ==
  calm =>
    /\ \A c, d \in InFlight("all") : c = d
    /\ \A c \in InFlight("all") : \A k \in Joined : Knows(c, k)
    /\ InFlight("all") = {} => \A k \in Joined : cache[k] >= acked[k]

FollowInv ==
  /\ CallsAreRecords
  /\ Numbers
  /\ ListFollows
  /\ JoinedFollow

LEMMA FollowInit == Init => FollowInv
<1> SUFFICES ASSUME Init PROVE FollowInv
  OBVIOUS
<1>1. PICK c : /\ calls = {c}
               /\ DOMAIN c = CallFields /\ c.op = "list" /\ c.kind = tab
               /\ c.want = {tab} /\ c.at = [k \in Kinds |-> 0]
  <2> DEFINE c == [id |-> 0, op |-> "list", kind |-> tab, full |-> FALSE,
                   row |-> Null, want |-> {tab}, at |-> [k \in Kinds |-> 0],
                   rows |-> NoRows, ok |-> TRUE]
  <2>1. DOMAIN c = CallFields /\ c.op = "list" /\ c.kind = tab
        /\ c.want = {tab} /\ c.at = [k \in Kinds |-> 0]
    BY DEF CallFields
  <2>2. calls = {c}
    BY DEF Init
  <2> HIDE DEF c
  <2>3. QED
    BY <2>1, <2>2
<1>2. CallsAreRecords
  BY <1>1 DEF CallsAreRecords
<1>3. Numbers
  BY <1>1 DEF Init, Numbers
<1>4. ListFollows
  BY <1>1 DEF ListFollows, Knows, InFlight
<1>5. JoinedFollow
  <2>1. InFlight("all") = {}
    BY <1>1 DEF InFlight
  <2>2. \A k \in Joined : cache[k] = 0 /\ acked[k] = 0
    BY DEF Init, Kinds
  <2>3. QED
    BY <2>1, <2>2 DEF JoinedFollow
<1>6. QED
  BY <1>2, <1>3, <1>4, <1>5 DEF FollowInv

\* A call that is sent knows nothing yet.
LEMMA FreshKnowsNothing ==
  ASSUME NEW op, NEW k, NEW f, NEW r
  PROVE  /\ Call(op, k).at = [j \in Kinds |-> 0]
         /\ op # "all" => Call(op, k).want = {k}
         /\ op = "all" => Call(op, k).want = Joined
         /\ ListCall(k, f).at = [j \in Kinds |-> 0] /\ ListCall(k, f).want = {k}
         /\ [Call(op, k) EXCEPT !.row = r].at = [j \in Kinds |-> 0]
<1>1. ASSUME NEW p
      PROVE  /\ DOMAIN Call(p, k) = CallFields
             /\ Call(p, k).at = [j \in Kinds |-> 0]
             /\ Call(p, k).want = IF p = "all" THEN Joined ELSE {k}
  BY DEF Call, CallFields
<1>2. DOMAIN Call("list", k) = CallFields /\ Call("list", k).want = {k}
      /\ Call("list", k).at = [j \in Kinds |-> 0]
  BY <1>1
<1>3. ListCall(k, f).at = [j \in Kinds |-> 0] /\ ListCall(k, f).want = {k}
  BY <1>2 DEF ListCall, CallFields
<1>4. [Call(op, k) EXCEPT !.row = r].at = [j \in Kinds |-> 0]
  BY <1>1 DEF CallFields
<1>5. QED
  BY <1>1, <1>3, <1>4

-----------------------------------------------------------------------------
\* A step that leaves the lists on their way, and what they are measured by.
LEMMA ListsKept ==
  ASSUME ListFollows, UNCHANGED <<tab, shown>>, acked'[tab] = acked[tab],
         calm' => calm, InFlight("list")' = InFlight("list")
  PROVE  ListFollows'
  BY DEF ListFollows, Knows

LEMMA JoinedKept ==
  ASSUME JoinedFollow, \A k \in Joined : cache'[k] = cache[k] /\ acked'[k] = acked[k],
         calm' => calm, InFlight("all")' = InFlight("all")
  PROVE  JoinedFollow'
  BY DEF JoinedFollow, Knows

\* A step that asks anew, with none of its kind on the way in calm.
LEMMA ListAsked ==
  ASSUME NEW f, calm' => InFlight("list")' = {ListCall(tab', f)}
  PROVE  ListFollows'
<1> DEFINE l == ListCall(tab', f)
<1>1. l.kind = tab' /\ l.want = {tab'}
  BY FreshCalls, FreshKnowsNothing
<1> HIDE DEF l
<1>2. calm' => InFlight("list")' = {l}
  BY DEF l
<1>3. QED
  BY <1>1, <1>2 DEF ListFollows, Knows

LEMMA JoinedAsked ==
  ASSUME calm' => InFlight("all")' = {Call("all", Null)}
  PROVE  JoinedFollow'
<1> DEFINE a == Call("all", Null)
<1>1. a.want = Joined
  BY FreshKnowsNothing
<1> HIDE DEF a
<1>2. calm' => InFlight("all")' = {a}
  BY DEF a
<1>3. QED
  BY <1>1, <1>2 DEF JoinedFollow, Knows

\* A step that leaves the loads on their way and all they are measured by.
LEMMA NoLoadStep ==
  ASSUME FollowInv, CallsAreRecords', Numbers',
         UNCHANGED <<tab, shown, cache, acked, calm>>,
         \A d \in calls' \ calls : d.op \notin Loads,
         \A d \in calls \ calls' : d.op \notin Loads
  PROVE  FollowInv'
<1>1. InFlight("list")' = InFlight("list") /\ InFlight("all")' = InFlight("all")
  BY DEF InFlight, Loads
<1>2. QED
  BY <1>1, ListsKept, JoinedKept DEF FollowInv

\* A click that sends one change.
LEMMA SentStep ==
  ASSUME FollowInv, NEW d, calls' = calls \cup {d}, DOMAIN d = CallFields,
         d.op \notin Loads, d.kind = tab, d.at = [k \in Kinds |-> 0],
         UNCHANGED <<version, tab, shown, cache, acked, calm>>
  PROVE  FollowInv'
<1>1. CallsAreRecords'
  BY DEF FollowInv, CallsAreRecords
<1>2. Numbers'
  BY DEF FollowInv, Numbers, Loads
<1>3. QED
  BY <1>1, <1>2, NoLoadStep

LEMMA FollowClickStep ==
  ASSUME FollowInv, Click
  PROVE  FollowInv'
<1> USE DEF server, dialogs, history
<1>0. CallsAreRecords /\ Numbers
  BY DEF FollowInv
<1>1. ASSUME UNCHANGED <<version, tab, shown, cache, acked, calm, calls>>
      PROVE  FollowInv'
  <2>1. CallsAreRecords' /\ Numbers'
    BY <1>0, <1>1 DEF CallsAreRecords, Numbers
  <2>2. QED
    BY <1>1, <2>1, NoLoadStep
<1>2. ASSUME NEW k \in Kinds, NEW f, Reload(k, f)
      PROVE  FollowInv'
  <2> DEFINE d == ListCall(k, f)
  <2>0. DOMAIN d = CallFields /\ d.op = "list" /\ d.kind = k
    BY FreshCalls
  <2>1. /\ DOMAIN d = CallFields /\ d.op = "list" /\ d.kind = k
        /\ d.at = [j \in Kinds |-> 0]
    BY <2>0, FreshKnowsNothing, Zenon
  <2>2. /\ tab' = k /\ calls' = calls \cup {d}
        /\ calm' => calm /\ InFlight("list") = {}
        /\ UNCHANGED <<version, shown, cache, acked>>
    BY <1>2 DEF Reload
  <2> HIDE DEF d
  <2>3. CallsAreRecords'
    BY <1>0, <2>1, <2>2 DEF CallsAreRecords
  <2>4. Numbers'
    BY <1>0, <2>1, <2>2 DEF Numbers
  <2>5. calm' => InFlight("list")' = {d}
    BY <2>1, <2>2 DEF InFlight
  <2>6. ListFollows'
    BY <2>2, <2>5, ListAsked DEF d
  <2>7. InFlight("all")' = InFlight("all")
    BY <2>1, <2>2 DEF InFlight
  <2>8. JoinedFollow'
    BY <2>2, <2>7, JoinedKept DEF FollowInv
  <2>9. QED
    BY <2>3, <2>4, <2>6, <2>8 DEF FollowInv
<1>3. ASSUME NEW m, OpenModal(m)
      PROVE  FollowInv'
  BY <1>1, <1>3 DEF OpenModal
<1>4. ASSUME NEW r, SetConfirm(r)
      PROVE  FollowInv'
  BY <1>1, <1>4 DEF SetConfirm
<1>5. CASE SaveModal
  <2> DEFINE op == IF modal.item = Null THEN "create" ELSE "update"
             d == [Call(op, tab) EXCEPT !.row = modal]
  <2>1. op \notin Loads
    BY DEF Loads
  <2> HIDE DEF op
  <2>2. /\ DOMAIN d = CallFields /\ d.op = op /\ d.kind = tab
        /\ d.at = [k \in Kinds |-> 0]
    BY FreshCalls, FreshKnowsNothing
  <2>3. calls' = calls \cup {d} /\ UNCHANGED <<version, tab, shown, cache, acked, calm>>
    BY <1>5 DEF SaveModal, SaveCall, op
  <2> HIDE DEF d
  <2>4. QED
    BY <2>1, <2>2, <2>3, SentStep
<1>6. CASE ConfirmSoftDelete
  <2> DEFINE d == [Call("delete", tab) EXCEPT !.row = confirm]
  <2>0. DOMAIN d = CallFields /\ d.op = "delete" /\ d.kind = tab
    BY FreshCalls
  <2>1. /\ DOMAIN d = CallFields /\ d.op = "delete" /\ d.kind = tab
        /\ d.at = [k \in Kinds |-> 0]
    <3> DEFINE x == Call("delete", tab)
    <3>1. x.at = [k \in Kinds |-> 0] /\ DOMAIN x = CallFields
      BY FreshKnowsNothing, FreshCalls
    <3> HIDE DEF x
    <3>2. [x EXCEPT !.row = confirm].at = x.at
      BY <3>1 DEF CallFields
    <3>3. QED
      BY <2>0, <3>1, <3>2 DEF x
  <2>2. calls' = calls \cup {d} /\ UNCHANGED <<version, tab, shown, cache, acked, calm>>
    BY <1>6 DEF ConfirmSoftDelete
  <2> HIDE DEF d
  <2>3. QED
    BY <2>1, <2>2, SentStep DEF Loads
<1>7. ASSUME NEW i \in Ids, Reactivate(i)
      PROVE  FollowInv'
  <2> DEFINE d == [Call("activate", tab) EXCEPT !.row = Shown(i)]
  <2>1. /\ DOMAIN d = CallFields /\ d.op = "activate" /\ d.kind = tab
        /\ d.at = [k \in Kinds |-> 0]
    BY FreshCalls, FreshKnowsNothing
  <2>2. calls' = calls \cup {d} /\ UNCHANGED <<version, tab, shown, cache, acked, calm>>
    BY <1>7 DEF Reactivate
  <2> HIDE DEF d
  <2>3. QED
    BY <2>1, <2>2, SentStep DEF Loads
<1>8. ASSUME NEW k \in Kinds, SelectTab(k)
      PROVE  FollowInv'
  BY <1>2, <1>8 DEF SelectTab
<1>9. CASE ShowInactive
  BY <1>0, <1>2, <1>9 DEF ShowInactive, Numbers
<1>10. CASE StartCreate \/ CloseModal
  BY <1>3, <1>10 DEF StartCreate, CloseModal
<1>11. CASE CancelDelete
  BY <1>4, <1>11 DEF CancelDelete
<1>12. ASSUME NEW i \in Ids, StartEdit(i) \/ AskDelete(i)
       PROVE  FollowInv'
  BY <1>3, <1>4, <1>12 DEF StartEdit, AskDelete
<1>13. QED
  BY <1>5, <1>6, <1>7, <1>8, <1>9, <1>10, <1>11, <1>12 DEF Click

-----------------------------------------------------------------------------
\* The server writes into a call what it read or did, and when.
LEMMA NumberedCall ==
  ASSUME FollowInv, NEW c \in calls, NEW d, Replace(c, d), UNCHANGED client,
         DOMAIN d = CallFields, d.op = c.op, d.kind = c.kind,
         version' \in Nat, version' >= version,
         d.at \in [Kinds -> Nat], \A k \in Kinds : d.at[k] <= version',
         c.op \in Loads => \A k \in Kinds : Knows(c, k) => Knows(d, k)
  PROVE  FollowInv'
<1>1. /\ UNCHANGED <<tab, shown, cache, acked, calm>>
      /\ calls' = (calls \ {c}) \cup {d}
  BY DEF client, history, Replace
<1>2. CallsAreRecords'
  BY <1>1 DEF FollowInv, CallsAreRecords
<1>3. Numbers'
  <2>1. \A k \in Kinds : acked[k] <= version'
    BY DEF FollowInv, Numbers
  <2>2. ASSUME NEW e \in calls'
        PROVE  /\ e.at \in [Kinds -> Nat]
               /\ \A k \in Kinds : e.at[k] <= version'
               /\ e.op # "all" => e.kind \in Kinds
               /\ e.op = "load" => e.kind \in Shared
    <3>1. CASE e = d
      BY <3>1 DEF FollowInv, Numbers
    <3>2. CASE e # d
      <4>1. e \in calls
        BY <1>1, <3>2
      <4>2. QED
        BY <4>1 DEF FollowInv, Numbers
    <3>3. QED
      BY <3>1, <3>2
  <2>3. QED
    BY <1>1, <2>1, <2>2 DEF FollowInv, Numbers
<1>4. CASE c.op \notin Loads
  BY <1>1, <1>2, <1>3, <1>4, NoLoadStep
<1>5. ASSUME c.op \in Loads
      PROVE  ListFollows'
  <2>1. CASE c.op # "list"
    <3>1. InFlight("list")' = InFlight("list")
      BY <1>1, <2>1 DEF InFlight
    <3>2. QED
      BY <1>1, <3>1, ListsKept DEF FollowInv
  <2>2. ASSUME c.op = "list", calm
        PROVE  ListFollows'
    <3>1. InFlight("list") = {c} /\ c.kind = tab /\ Knows(c, tab)
      BY <2>2 DEF FollowInv, ListFollows, InFlight
    <3>2. InFlight("list")' = {d}
      BY <1>1, <2>2, <3>1 DEF InFlight
    <3>3. d.kind = tab /\ Knows(d, tab)
      BY <1>5, <3>1 DEF FollowInv, Numbers
    <3>4. QED
      BY <1>1, <3>2, <3>3 DEF ListFollows, Knows
  <2>3. QED
    BY <1>1, <2>1, <2>2 DEF ListFollows
<1>6. ASSUME c.op \in Loads
      PROVE  JoinedFollow'
  <2>1. CASE c.op # "all"
    <3>1. InFlight("all")' = InFlight("all")
      BY <1>1, <2>1 DEF InFlight
    <3>2. QED
      BY <1>1, <3>1, JoinedKept DEF FollowInv
  <2>2. ASSUME c.op = "all", calm
        PROVE  JoinedFollow'
    <3>1. InFlight("all") = {c} /\ \A k \in Joined : Knows(c, k)
      BY <2>2 DEF FollowInv, JoinedFollow, InFlight
    <3>2. InFlight("all")' = {d}
      BY <1>1, <2>2, <3>1 DEF InFlight
    <3>3. \A k \in Joined : Knows(d, k)
      BY <1>6, <3>1 DEF Kinds
    <3>4. QED
      BY <1>1, <3>2, <3>3 DEF JoinedFollow, Knows
  <2>3. QED
    BY <1>1, <2>1, <2>2 DEF JoinedFollow
<1>7. QED
  BY <1>2, <1>3, <1>4, <1>5, <1>6 DEF FollowInv

LEMMA FollowServeStep ==
  ASSUME FollowInv, NEW c \in calls, Serve(c)
  PROVE  FollowInv'
<1>0. /\ DOMAIN c = CallFields
      /\ version \in Nat /\ c.at \in [Kinds -> Nat]
      /\ \A k \in Kinds : c.at[k] <= version /\ acked[k] <= version
  BY DEF FollowInv, CallsAreRecords, Numbers
<1>1. ASSUME NEW k \in Kinds, ServeRead(c, k)
      PROVE  FollowInv'
  <2> DEFINE d == [c EXCEPT !.want = @ \ {k},
                            !.at[k] = version,
                            !.rows = IF c.op = "list" THEN Listed(k, c.full) ELSE @]
  <2>1. /\ DOMAIN d = CallFields
        /\ d.op = c.op /\ d.kind = c.kind /\ d.ok = c.ok
        /\ d.want = c.want \ {k} /\ d.at = [c.at EXCEPT ![k] = version]
    BY <1>0 DEF CallFields
  <2>2. Replace(c, d) /\ UNCHANGED client /\ version' = version
    BY <1>1 DEF ServeRead, server
  <2> HIDE DEF d
  <2>3. d.at \in [Kinds -> Nat] /\ \A j \in Kinds : d.at[j] <= version
    BY <1>0, <2>1
  <2>4. ASSUME NEW j \in Kinds, Knows(c, j)
        PROVE  Knows(d, j)
    <3>1. CASE j = k
      BY <1>0, <2>1, <3>1 DEF Knows
    <3>2. CASE j # k
      <4>1. d.at[j] = c.at[j] /\ (j \in d.want <=> j \in c.want)
        BY <1>0, <2>1, <3>2
      <4>2. QED
        BY <2>1, <2>4, <4>1 DEF Knows
    <3>3. QED
      BY <3>1, <3>2
  <2>5. version' \in Nat /\ version' >= version /\ \A j \in Kinds : d.at[j] <= version'
    BY <1>0, <2>2, <2>3
  <2>6. QED
    BY <2>1, <2>2, <2>3, <2>4, <2>5, NumberedCall
<1>2. ASSUME NEW i, NEW state, Commit(c, i, state), c.op \notin Loads
      PROVE  FollowInv'
  <2> DEFINE d == [c EXCEPT !.want = {}, !.at[c.kind] = version + 1]
  <2>1. /\ DOMAIN d = CallFields
        /\ d.op = c.op /\ d.kind = c.kind
        /\ d.at = [c.at EXCEPT ![c.kind] = version + 1]
    BY <1>0 DEF CallFields
  <2>2. Replace(c, d) /\ UNCHANGED client /\ version' = version + 1
    BY <1>2 DEF Commit
  <2> HIDE DEF d
  <2> DEFINE m == version + 1
  <2>3. d.at \in [Kinds -> Nat] /\ \A j \in Kinds : d.at[j] <= version'
    <3>1. m \in Nat /\ d.at = [c.at EXCEPT ![c.kind] = m] /\ version' = m
      BY <1>0, <2>1, <2>2
    <3>2. \A j \in Kinds : c.at[j] <= m /\ c.at[j] \in Nat
      BY <1>0
    <3> HIDE DEF m
    <3>3. d.at \in [Kinds -> Nat]
      BY <1>0, <3>1
    <3>4. \A j \in Kinds : d.at[j] \in {c.at[j], m}
      BY <1>0, <3>1
    <3>5. QED
      BY <3>1, <3>2, <3>3, <3>4
  <2>4. version' \in Nat /\ version' >= version
    BY <1>0, <2>2
  <2>5. QED
    BY <1>2, <2>1, <2>2, <2>3, <2>4, NumberedCall
<1>3. ASSUME Refuse(c)
      PROVE  FollowInv'
  <2> DEFINE d == [c EXCEPT !.want = {}, !.ok = FALSE]
  <2>1. /\ DOMAIN d = CallFields
        /\ d.op = c.op /\ d.kind = c.kind /\ d.at = c.at /\ d.ok = FALSE
    BY <1>0 DEF CallFields
  <2>2. Replace(c, d) /\ UNCHANGED client /\ version' = version
    BY <1>3 DEF Refuse, server
  <2> HIDE DEF d
  <2>3. \A j \in Kinds : Knows(d, j)
    BY <2>1 DEF Knows
  <2>4. version' \in Nat /\ version' >= version
    BY <1>0, <2>2
  <2>5. QED
    BY <1>0, <2>1, <2>2, <2>3, <2>4, NumberedCall
<1>4. QED
  BY <1>1, <1>2, <1>3 DEF Serve, ServeCreate, ServeChange, Fail, Loads

-----------------------------------------------------------------------------
\* News of an own change comes with a new list and a new loadAll, both asked for
\* after the change.
LEMMA RefetchStep ==
  ASSUME FollowInv, NEW c \in calls, c.op \notin Loads, Refetch(c),
         acked' = [acked EXCEPT ![c.kind] = Later(@, c.at[c.kind])],
         UNCHANGED <<version, tab, shown, cache>>
  PROVE  FollowInv'
<1> DEFINE l == ListCall(tab, full)
           a == Call("all", Null)
           t == Call("load", tab)
<1>1. /\ DOMAIN l = CallFields /\ l.op = "list" /\ l.kind = tab
      /\ DOMAIN a = CallFields /\ a.op = "all"
      /\ DOMAIN t = CallFields /\ t.op = "load" /\ t.kind = tab
      /\ l.at = [k \in Kinds |-> 0] /\ a.at = [k \in Kinds |-> 0]
      /\ t.at = [k \in Kinds |-> 0]
  <2>1. DOMAIN l = CallFields /\ l.op = "list" /\ l.kind = tab
    BY FreshCalls
  <2>2. DOMAIN a = CallFields /\ a.op = "all"
    BY FreshCalls
  <2>3. DOMAIN t = CallFields /\ t.op = "load" /\ t.kind = tab
    BY FreshCalls
  <2>4. l.at = [k \in Kinds |-> 0]
    BY FreshKnowsNothing
  <2>5. a.at = [k \in Kinds |-> 0] /\ t.at = [k \in Kinds |-> 0]
    BY FreshKnowsNothing
  <2> HIDE DEF l, a, t
  <2>6. QED
    BY <2>1, <2>2, <2>3, <2>4, <2>5
<1>2. PICK more : /\ calls' = (calls \ {c}) \cup {l, a} \cup more
                  /\ more = {} \/ (more = {t} /\ tab \in Shared)
  BY DEF Refetch
<1>3. calm' => calm /\ InFlight("list") = {} /\ InFlight("all") = {}
  BY DEF Refetch
<1> HIDE DEF l, a, t
<1>4. CallsAreRecords'
  BY <1>1, <1>2 DEF FollowInv, CallsAreRecords
<1>5. Numbers'
  <2>1. version \in Nat /\ tab \in Kinds /\ acked \in [Kinds -> Nat]
    BY DEF FollowInv, Numbers
  <2>2. /\ c.kind \in Kinds /\ c.at[c.kind] \in Nat /\ c.at[c.kind] <= version
        /\ \A k \in Kinds : acked[k] <= version
    BY DEF FollowInv, Numbers, Loads
  <2>3. acked' \in [Kinds -> Nat] /\ \A k \in Kinds : acked'[k] <= version
    BY <2>1, <2>2 DEF Later
  <2>4. ASSUME NEW e \in calls'
        PROVE  /\ e.at \in [Kinds -> Nat]
               /\ \A k \in Kinds : e.at[k] <= version
               /\ e.op # "all" => e.kind \in Kinds
               /\ e.op = "load" => e.kind \in Shared
    <3>1. e \in calls \/ e \in {l, a} \/ (e = t /\ tab \in Shared)
      BY <1>2
    <3>2. CASE e \in calls
      BY <3>2 DEF FollowInv, Numbers
    <3>3. CASE e \notin calls
      BY <1>1, <2>1, <3>1, <3>3
    <3>4. QED
      BY <3>2, <3>3
  <2>5. QED
    BY <2>1, <2>3, <2>4 DEF Numbers
<1>6. ListFollows'
  <2>1. calm' => InFlight("list")' = {l}
    BY <1>1, <1>2, <1>3 DEF InFlight
  <2>2. QED
    BY <2>1, ListAsked DEF l
<1>7. JoinedFollow'
  <2>1. calm' => InFlight("all")' = {a}
    BY <1>1, <1>2, <1>3 DEF InFlight
  <2>2. QED
    BY <2>1, JoinedAsked DEF a
<1>8. QED
  BY <1>4, <1>5, <1>6, <1>7 DEF FollowInv

LEMMA FollowDeliverStep ==
  ASSUME FollowInv, NEW c \in calls, Deliver(c)
  PROVE  FollowInv'
<1>0. c.op # "all" => c.kind \in Kinds
  BY DEF FollowInv, Numbers
<1>1. ASSUME calls' = calls \ {c}, UNCHANGED <<version, tab, acked>>
      PROVE  CallsAreRecords' /\ Numbers'
  BY <1>1 DEF FollowInv, CallsAreRecords, Numbers
<1>2. CASE DeliverList(c)
  <2>1. /\ c.op = "list" /\ c.want = {} /\ calls' = calls \ {c}
        /\ shown'.from = c.kind /\ shown'.at = c.at[c.kind]
        /\ calm' => calm /\ c.ok
        /\ UNCHANGED <<version, tab, cache, acked>>
    BY <1>2 DEF DeliverList, Answered, server
  <2>2. ASSUME calm' PROVE ListFollows'
    <3>1. InFlight("list") = {c} /\ c.kind = tab /\ Knows(c, tab)
      BY <2>1, <2>2 DEF FollowInv, ListFollows, InFlight
    <3>2. InFlight("list")' = {}
      BY <2>1, <3>1 DEF InFlight
    <3>3. shown'.from = tab /\ shown'.at >= acked[tab]
      BY <2>1, <2>2, <3>1 DEF Knows
    <3>4. QED
      BY <2>1, <3>2, <3>3 DEF ListFollows
  <2>3. InFlight("all")' = InFlight("all")
    BY <2>1 DEF InFlight
  <2>4. JoinedFollow'
    BY <2>1, <2>3, JoinedKept DEF FollowInv
  <2>5. ListFollows'
    BY <2>2 DEF ListFollows
  <2>6. QED
    BY <1>1, <2>1, <2>4, <2>5 DEF FollowInv
<1>3. CASE DeliverChange(c)
  <2>1. c.op \notin Loads /\ UNCHANGED <<version, tab, shown, cache>>
    BY <1>3 DEF DeliverChange, Answered, Loads, server
  <2>2. CASE c.ok
    BY <1>3, <2>1, <2>2, RefetchStep DEF DeliverChange
  <2>3. CASE ~c.ok
    <3>1. calls' = calls \ {c} /\ UNCHANGED <<acked, calm>>
      BY <1>3, <2>3 DEF DeliverChange
    <3>2. QED
      BY <1>1, <2>1, <3>1, NoLoadStep
  <2>4. QED
    BY <2>2, <2>3
<1>4. CASE DeliverCache(c)
  <2> DEFINE mine == IF c.op = "all" THEN Joined ELSE {c.kind}
  <2>1. /\ c.op \in {"all", "load"} /\ c.want = {} /\ calls' = calls \ {c}
        /\ cache' = [k \in Kinds |-> IF c.ok /\ k \in mine THEN c.at[k] ELSE cache[k]]
        /\ calm' => calm /\ c.ok
        /\ UNCHANGED <<version, tab, shown, acked>>
    BY <1>4 DEF DeliverCache, Answered, server
  <2>2. InFlight("list")' = InFlight("list")
    BY <2>1 DEF InFlight
  <2>3. ListFollows'
    BY <2>1, <2>2, ListsKept DEF FollowInv
  <2>4. ASSUME c.op = "load" PROVE JoinedFollow'
    <3>1. InFlight("all")' = InFlight("all")
      BY <2>1, <2>4 DEF InFlight
    <3>2. \A k \in Joined : k \in Kinds /\ k \notin mine
      BY <2>4, LookupAssumption DEF FollowInv, Numbers, Kinds
    <3>3. \A k \in Joined : cache'[k] = cache[k]
      BY <2>1, <3>2
    <3>4. QED
      BY <2>1, <3>1, <3>3, JoinedKept DEF FollowInv
  <2>5. ASSUME c.op = "all", calm' PROVE JoinedFollow'
    <3>1. InFlight("all") = {c} /\ \A k \in Joined : Knows(c, k)
      BY <2>1, <2>5 DEF FollowInv, JoinedFollow, InFlight
    <3>2. InFlight("all")' = {}
      BY <2>1, <3>1 DEF InFlight
    <3>3. \A k \in Joined : cache'[k] = c.at[k]
      BY <2>1, <2>5 DEF Kinds
    <3>4. \A k \in Joined : cache'[k] >= acked[k]
      BY <2>1, <2>5, <3>1, <3>3 DEF Knows
    <3>5. QED
      BY <2>1, <3>2, <3>4 DEF JoinedFollow
  <2>6. JoinedFollow'
    BY <2>1, <2>4, <2>5 DEF JoinedFollow
  <2>7. QED
    BY <1>1, <2>1, <2>3, <2>6 DEF FollowInv
<1>5. QED
  BY <1>2, <1>3, <1>4 DEF Deliver

LEMMA FollowInductive == Spec => []FollowInv
<1>1. FollowInv /\ [Next]_vars => FollowInv'
  <2> SUFFICES ASSUME FollowInv, [Next]_vars PROVE FollowInv'
    OBVIOUS
  <2>1. CASE Click
    BY <2>1, FollowClickStep
  <2>2. CASE \E c \in calls : Serve(c) \/ Deliver(c)
    BY <2>2, FollowServeStep, FollowDeliverStep
  <2>3. CASE UNCHANGED vars
    <3>1. UNCHANGED <<version, tab, shown, cache, acked, calm, calls>>
      BY <2>3 DEF vars, server, history
    <3>2. CallsAreRecords' /\ Numbers'
      BY <3>1 DEF FollowInv, CallsAreRecords, Numbers
    <3>3. QED
      BY <3>1, <3>2, NoLoadStep
  <2>4. QED
    BY <2>1, <2>2, <2>3 DEF Next
<1>2. QED
  BY FollowInit, <1>1, PTL DEF Spec

\* When everything is answered the page shows the open tab as it is after the
\* last own change of that table, unless two loads of the same thing were on
\* their way at once or one failed (refetch and fetch,
\* lookups.component.ts:133-159).
THEOREM OwnChangesAreShown == Spec => []OwnChangesShown
<1>1. FollowInv => OwnChangesShown
  BY DEF FollowInv, ListFollows, OwnChangesShown, InFlight
<1>2. QED
  BY <1>1, FollowInductive, PTL

\* And the caches that loadAll fills know the own changes of every table, also
\* of those whose tab is no longer open (refetch, lookups.component.ts:152-159).
THEOREM CachesAreFollowing == Spec => []CachesFollow
<1>1. FollowInv => CachesFollow
  BY DEF FollowInv, JoinedFollow, CachesFollow, InFlight
<1>2. QED
  BY <1>1, FollowInductive, PTL

=============================================================================
