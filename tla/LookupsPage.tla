---------------------------- MODULE LookupsPage ----------------------------
(***************************************************************************)
(* The management page of the lookup tables (features/lookups) in one      *)
(* browser, the caches it refreshes for the other pages, and the lookup    *)
(* endpoints it calls.  The page never waits: a click sends a request and  *)
(* the answers come back in any order, each to the callback its request    *)
(* registered, whatever the page shows by then.                            *)
(*                                                                         *)
(* A row is an id of a table and whether it is active.  What a read saw is *)
(* told by version, the number of changes committed so far.  Names, codes, *)
(* colours, the search box and toasts are left out: a body the page or the *)
(* server refuses changes nothing.                                         *)
(***************************************************************************)
EXTENDS FiniteSets, Naturals

CONSTANTS
  Joined,    \* kinds LookupService.loadAll reads together
  Shared,    \* kinds whose service shares one load: teams, positions
  Ids,       \* ids of rows, the same in every table
  Null,
  MaxActs    \* how many requests the user causes (a bound)

Kinds == Joined \cup Shared

ASSUME LookupAssumption ==
  /\ Joined \cap Shared = {}
  /\ Null \notin Kinds \cup Ids
  /\ MaxActs \in Nat

VARIABLES
  rows,      \* the tables: the state of each id
  version,   \* how many changes are committed
  tab,       \* activeTab
  full,      \* includeInactive
  shown,     \* items, and (history) the table and version they were read from
  loading, saving,
  modal,     \* the create or edit dialog
  confirm,   \* the row the confirmation dialog names
  cache,     \* the version each kind has in the caches of the other pages
  calls,     \* the HTTP requests in flight
  acked,     \* (history) the latest own change of each kind that was answered
  calm,      \* (history) no load has failed or met another load of the same thing
  acts       \* how many requests the user has caused

server == <<rows, version>>
dialogs == <<modal, confirm>>
history == <<acked, calm>>
vars == <<server, tab, full, shown, loading, saving, dialogs, cache, calls,
          history, acts>>

-----------------------------------------------------------------------------
Tables == [Ids -> {"none", "on", "off"}]

NoRows == [i \in Ids |-> "none"]

Lists == [from : Kinds, rows : Tables, at : Nat, ok : BOOLEAN]

\* What a dialog is about: a row, Null for a new one, and (history) the table
\* the row was read from, the tab of a new one.
Rows == [item : Ids \cup {Null}, from : Kinds]

\* want holds the tables the server has not read or changed yet for the call.
Calls ==
  [id   : Nat,
   op   : {"list", "create", "update", "delete", "activate", "all", "load"},
   kind : Kinds \cup {Null},
   full : BOOLEAN,
   row  : Rows \cup {Null},
   want : SUBSET Kinds,
   at   : [Kinds -> Nat],
   rows : Tables,
   ok   : BOOLEAN]

Call(op, kind) ==
  [id |-> CHOOSE n \in 0..Cardinality(calls) : \A c \in calls : c.id # n,
   op |-> op, kind |-> kind, full |-> FALSE, row |-> Null,
   want |-> IF op = "all" THEN Joined ELSE {kind},
   at |-> [k \in Kinds |-> 0], rows |-> NoRows, ok |-> TRUE]

ListCall(k, f) == [Call("list", k) EXCEPT !.full = f]

TypeOK ==
  /\ rows \in [Kinds -> Tables]
  /\ version \in Nat
  /\ tab \in Kinds
  /\ full \in BOOLEAN
  /\ shown \in Lists
  /\ loading \in BOOLEAN
  /\ saving \in BOOLEAN
  /\ modal \in Rows \cup {Null}
  /\ confirm \in Rows \cup {Null}
  /\ cache \in [Kinds -> Nat]
  /\ calls \in SUBSET Calls
  /\ acked \in [Kinds -> Nat]
  /\ calm \in BOOLEAN
  /\ acts \in 0..MaxActs

\* The page has just been opened: its first list is on the way, the caches
\* were filled by the shell.
Init ==
  /\ rows \in [Kinds -> Tables]
  /\ version = 0
  /\ tab \in Kinds
  /\ full = FALSE
  /\ shown = [from |-> tab, rows |-> NoRows, at |-> 0, ok |-> FALSE]
  /\ loading = TRUE
  /\ saving = FALSE
  /\ modal = Null
  /\ confirm = Null
  /\ cache = [k \in Kinds |-> 0]
  /\ calls = {[id |-> 0, op |-> "list", kind |-> tab, full |-> FALSE,
               row |-> Null, want |-> {tab}, at |-> [k \in Kinds |-> 0],
               rows |-> NoRows, ok |-> TRUE]}
  /\ acked = [k \in Kinds |-> 0]
  /\ calm = TRUE
  /\ acts = 0

-----------------------------------------------------------------------------
InFlight(op) == {c \in calls : c.op = op}

Act ==
  /\ acts < MaxActs
  /\ acts' = acts + 1

\* Both dialogs lie over the whole page.
PageFree == modal = Null /\ confirm = Null

\* The row a click on the table is about; a loading page shows no rows.
Clicked(i, state) ==
  /\ PageFree
  /\ ~loading
  /\ shown.rows[i] \in state

Shown(i) == [item |-> i, from |-> shown.from]

\* The effect of the constructor: a new tab or filter loads the list.
Reload(k, f) ==
  /\ PageFree
  /\ Act
  /\ tab' = k
  /\ full' = f
  /\ loading' = TRUE
  /\ calls' = calls \cup {ListCall(k, f)}
  /\ calm' = (calm /\ InFlight("list") = {})
  /\ UNCHANGED <<server, shown, saving, dialogs, cache, acked>>

\* Mutant: the effect does not read activeTab.
SelectTab_untracked(k) ==
  /\ PageFree
  /\ Act
  /\ tab # k
  /\ tab' = k
  /\ UNCHANGED <<server, full, shown, loading, saving, dialogs, cache, calls, history>>

SelectTab(k) == k # tab /\ Reload(k, full)

ShowInactive == Reload(tab, ~full)

OpenModal(m) ==
  /\ modal' = m
  /\ UNCHANGED <<server, tab, full, shown, loading, saving, confirm, cache,
                 calls, history, acts>>

StartCreate == PageFree /\ OpenModal([item |-> Null, from |-> tab])

StartEdit(i) == Clicked(i, {"on", "off"}) /\ OpenModal(Shown(i))

CloseModal == modal # Null /\ OpenModal(Null)

SaveCall ==
  [Call(IF modal.item = Null THEN "create" ELSE "update", tab) EXCEPT !.row = modal]

\* The dialog stays open until the answer comes.
SaveModal ==
  /\ modal # Null
  /\ ~saving
  /\ Act
  /\ saving' = TRUE
  /\ calls' = calls \cup {SaveCall}
  /\ UNCHANGED <<server, tab, full, shown, loading, dialogs, cache, history>>

SetConfirm(r) ==
  /\ confirm' = r
  /\ UNCHANGED <<server, tab, full, shown, loading, saving, modal, cache, calls,
                 history, acts>>

AskDelete(i) == Clicked(i, {"on"}) /\ SetConfirm(Shown(i))

CancelDelete == confirm # Null /\ SetConfirm(Null)

\* The request names the tab that is open now and the id the dialog keeps.
ConfirmSoftDelete ==
  /\ confirm # Null
  /\ Act
  /\ confirm' = Null
  /\ calls' = calls \cup {[Call("delete", tab) EXCEPT !.row = confirm]}
  /\ UNCHANGED <<server, tab, full, shown, loading, saving, modal, cache, history>>

Reactivate(i) ==
  /\ Clicked(i, {"off"})
  /\ Act
  /\ calls' = calls \cup {[Call("activate", tab) EXCEPT !.row = Shown(i)]}
  /\ UNCHANGED <<server, tab, full, shown, loading, saving, dialogs, cache, history>>

-----------------------------------------------------------------------------
(* The server: each call is handled in one transaction per table.           *)

client == <<tab, full, shown, loading, saving, dialogs, cache, history, acts>>

Replace(c, d) == calls' = (calls \ {c}) \cup {d}

Listed(k, f) == [i \in Ids |-> IF rows[k][i] = "off" /\ ~f THEN "none" ELSE rows[k][i]]

\* GET: active rows, or all of them; loadAll is a GET of each table.
ServeRead(c, k) ==
  /\ c.op \in {"list", "all", "load"}
  /\ k \in c.want
  /\ Replace(c, [c EXCEPT !.want = @ \ {k},
                          !.at[k] = version,
                          !.rows = IF c.op = "list" THEN Listed(k, c.full) ELSE @])
  /\ UNCHANGED <<server, client>>

Commit(c, i, state) ==
  /\ rows' = [rows EXCEPT ![c.kind][i] = state]
  /\ version' = version + 1
  /\ Replace(c, [c EXCEPT !.want = {}, !.at[c.kind] = version + 1])
  /\ UNCHANGED client

Refuse(c) ==
  /\ Replace(c, [c EXCEPT !.want = {}, !.ok = FALSE])
  /\ UNCHANGED <<server, client>>

ServeCreate(c) ==
  /\ c.op = "create" /\ c.want # {}
  /\ \E i \in Ids : rows[c.kind][i] = "none" /\ Commit(c, i, "on")

\* PATCH, DELETE and activate of an id the table may not have.
ServeChange(c) ==
  /\ c.op \in {"update", "delete", "activate"} /\ c.want # {}
  /\ LET old == rows[c.kind][c.row.item] IN
     IF old = "none" THEN Refuse(c)
     ELSE Commit(c, c.row.item, CASE c.op = "delete" -> "off"
                                  [] c.op = "activate" -> "on"
                                  [] OTHER -> old)

\* A code or name that is taken, a position that is held, a missing
\* permission, a lost connection, a crash.
Fail(c) == c.want # {} /\ Refuse(c)

-----------------------------------------------------------------------------
(* The answers.                                                             *)

Answered(c, op) == c.op \in op /\ c.want = {}

DeliverList(c) ==
  /\ Answered(c, {"list"})
  /\ shown' = [from |-> c.kind, ok |-> c.ok,
               rows |-> IF c.ok THEN c.rows ELSE NoRows,
               at |-> c.at[c.kind]]
  /\ loading' = FALSE
  /\ calls' = calls \ {c}
  /\ calm' = (calm /\ c.ok)
  /\ UNCHANGED <<server, tab, full, saving, dialogs, cache, acked, acts>>

\* Mutant: the caches of the other pages are left alone.
Refetch_listOnly(c) ==
  /\ loading' = TRUE
  /\ calls' = (calls \ {c}) \cup {ListCall(tab, full)}
  /\ calm' = (calm /\ InFlight("list") = {})

\* refetch: the list of the tab that is open now, and the caches.
Refetch(c) ==
  LET load == {d \in InFlight("load") : d.kind = tab} IN
  /\ loading' = TRUE
  /\ calls' = (calls \ {c})
                \cup {ListCall(tab, full), Call("all", Null)}
                \cup (IF tab \in Shared /\ load = {} THEN {Call("load", tab)} ELSE {})
  /\ calm' = (calm /\ InFlight("list") = {} /\ InFlight("all") = {} /\ load = {})

Later(m, n) == IF m > n THEN m ELSE n

\* Mutant: the list is not loaded again after a reactivation.
DeliverChange_quiet(c) ==
  /\ Answered(c, {"create", "update", "delete", "activate"})
  /\ saving' = IF c.op \in {"create", "update"} THEN FALSE ELSE saving
  /\ modal' = IF c.ok /\ c.op \in {"create", "update"} THEN Null ELSE modal
  /\ acked' = IF c.ok THEN [acked EXCEPT ![c.kind] = Later(@, c.at[c.kind])] ELSE acked
  /\ IF c.ok /\ c.op # "activate"
       THEN Refetch(c)
       ELSE calls' = calls \ {c} /\ UNCHANGED <<loading, calm>>
  /\ UNCHANGED <<server, tab, full, shown, confirm, cache, acts>>

\* The callbacks of a change; that of a save closes the dialog, whichever is
\* open by then.
DeliverChange(c) ==
  /\ Answered(c, {"create", "update", "delete", "activate"})
  /\ saving' = IF c.op \in {"create", "update"} THEN FALSE ELSE saving
  /\ modal' = IF c.ok /\ c.op \in {"create", "update"} THEN Null ELSE modal
  /\ acked' = IF c.ok THEN [acked EXCEPT ![c.kind] = Later(@, c.at[c.kind])] ELSE acked
  /\ IF c.ok
       THEN Refetch(c)
       ELSE calls' = calls \ {c} /\ UNCHANGED <<loading, calm>>
  /\ UNCHANGED <<server, tab, full, shown, confirm, cache, acts>>

\* loadAll sets its caches together, or none of them if one GET failed.
DeliverCache(c) ==
  /\ Answered(c, {"all", "load"})
  /\ cache' = [k \in Kinds |->
                 IF c.ok /\ k \in (IF c.op = "all" THEN Joined ELSE {c.kind})
                   THEN c.at[k] ELSE cache[k]]
  /\ calls' = calls \ {c}
  /\ calm' = (calm /\ c.ok)
  /\ UNCHANGED <<server, tab, full, shown, loading, saving, dialogs, acked, acts>>

-----------------------------------------------------------------------------
Click ==
  \/ \E k \in Kinds : SelectTab(k)
  \/ ShowInactive
  \/ StartCreate
  \/ CloseModal
  \/ SaveModal
  \/ CancelDelete
  \/ ConfirmSoftDelete
  \/ \E i \in Ids : StartEdit(i) \/ AskDelete(i) \/ Reactivate(i)

Serve(c) ==
  \/ \E k \in Kinds : ServeRead(c, k)
  \/ ServeCreate(c)
  \/ ServeChange(c)
  \/ Fail(c)

Deliver(c) == DeliverList(c) \/ DeliverChange(c) \/ DeliverCache(c)

Next ==
  \/ Click
  \/ \E c \in calls : Serve(c) \/ Deliver(c)

Spec == Init /\ [][Next]_vars

-----------------------------------------------------------------------------
(* Properties                                                               *)

Changes == {c \in calls : c.op \in {"update", "delete", "activate"}}

\* A change goes to the table its row was read from, although it names the tab
\* that is open when it is sent (lookups.component.ts:231, 259, 272): it takes
\* two lists on the way at once for rows to be shown under another tab.
RowsBelongToTheTab ==
  calm => \A c \in Changes : c.row.from = c.kind

\* Once everything is answered the page shows its tab as it is after the last
\* of its own changes (refetch, lookups.component.ts:152-159).
OwnChangesShown ==
  calls = {} /\ calm =>
    shown.from = tab /\ shown.at >= acked[tab]

\* Likewise for the caches that loadAll fills for the other pages, whichever tab
\* is open when the answer comes (lookups.component.ts:155-156).
CachesFollow ==
  calls = {} /\ calm => \A k \in Joined : cache[k] >= acked[k]

=============================================================================
