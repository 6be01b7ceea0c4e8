--------------------------- MODULE ReportScreens ---------------------------
(***************************************************************************)
(* The two screens about the whole company in the browser of one user: the *)
(* yearly report with its editor of working days (features/yearly-report)   *)
(* and the org chart (features/dashboard), with the endpoints they call.    *)
(* The working days are written by other administrators too, in requests   *)
(* that overlap with the user's own one.                                    *)
(*                                                                         *)
(* The hours people logged, the chart of users and the positions do not     *)
(* change meanwhile; the project filter and the breakdown switch, which      *)
(* only choose numbers, are one switch (detail).                            *)
(***************************************************************************)
EXTENDS FiniteSetsExt, Integers

CONSTANTS
  Users,        \* the active users, who are in the directory
  Teams,
  Team,         \* the team of a user
  Positions,    \* the active positions
  Parent,       \* the parent of a position, Null for none
  Panel,        \* the side panel a position is the root of, Null for none
  Branch,       \* the positions whose holders have a card of their own
  WalkGuard,    \* how far isInPositionSubtree walks
  Null,
  Years, ThisYear,
  Months,
  Worked,       \* the hours of a user in a month of a year
  Typed,        \* the numbers typed into the editor (a bound)
  Rivals,       \* the months other administrators save (a bound)
  PageSizes, PageSize, \* the sizes of a page, and the first one
  CanEdit,      \* whether the user may change working days
  Exports,      \* names for the exports that run at once (a bound)
  MaxActs, MaxRivals \* how often the user and the others act (bounds)

Panels == {"HR", "QA", "Business"}

MonthDays == 0..31

Filters == [year : Years, team : Teams \cup {Null}, detail : BOOLEAN]

Values == [Months -> MonthDays]

Reports == [query : Filters, days : Values]

\* What is taken for granted about the parameters.
Setting ==
  /\ IsFiniteSet(Users) /\ IsFiniteSet(Months) /\ Null \notin Users \cup Positions
  /\ Team \in [Users -> Teams \cup {Null}]
  /\ Parent \in [Positions -> Positions \cup {Null}]
  /\ Panel \in [Positions -> Panels \cup {Null}]
  /\ Branch \subseteq Positions
  /\ WalkGuard \in Nat
  /\ Years \subseteq Nat /\ ThisYear \in Years
  /\ Worked \in [Users -> [Years -> [Months -> Nat]]]
  /\ Typed \subseteq Int
  /\ Rivals \subseteq [Months -> MonthDays]
  /\ PageSizes \subseteq Nat \ {0} /\ PageSize \in PageSizes
  /\ CanEdit \in BOOLEAN
  /\ MaxActs \in Nat /\ MaxRivals \in Nat
  /\ Null \notin Reports \cup Values \cup Exports

ASSUME ReportAssumption == Setting

VARIABLES
  days,       \* the table expected_working_days, Null where there is no row
  org,        \* the manager and the position of a user
  route,
  filter,     \* what the report is asked for
  report,     \* report(), Null for none
  loading,
  selected,   \* selectedAccountIds
  page, size,
  expanded,   \* expandedRows
  editor,     \* the values in the open editor, Null if it is closed
  origin,     \* (history) where those values come from
  directory,  \* the users the directory cache holds
  positions,  \* the positions the cache holds
  asked,      \* whether the positions were ever asked for
  people,     \* the dashboard's users()
  waiting,    \* its loading()
  exporting,
  mine,       \* (history) the export this dashboard started last, Null for none
  job,        \* the await that each call of exportPng is at
  copies,     \* the exports whose copy of the chart is in the document
  calls,      \* the HTTP requests in flight
  calm,       \* (history) nothing the report asked for failed or met a race
  meddled,    \* (history) another administrator saved
  acts, rivals \* how often the user and the others still act

table == <<filter, report, loading, selected, page, size, expanded>>
edit == <<editor, origin>>
caches == <<directory, positions, asked>>
exports == <<exporting, mine, job, copies>>
chart == <<people, waiting, exports>>
counts == <<acts, rivals, meddled>>
vars == <<days, org, route, table, edit, caches, chart, calls, calm, counts>>

-----------------------------------------------------------------------------
FirstFilter == [year |-> ThisYear, team |-> Null, detail |-> TRUE]

Tables == [Years -> [Months -> MonthDays \cup {Null}]]

\* get_year: 22 days where there is no row.
ExpectedDays(row) == [m \in Months |-> IF row[m] = Null THEN 22 ELSE row[m]]

\* from: the year whose days the values of a save were copied from, Null for
\* none; steady: the report was the one of the filters then (history).
Origins == [from : Years \cup {Null}, steady : BOOLEAN]

\* seen: the rows of the year a save has loaded, Null before; overtaken: another
\* save of the year was committed since (history).
Calls ==
  [id : Nat, op : {"report", "save", "directory", "positions"}, live : BOOLEAN,
   query : Filters, months : Values, origin : Origins,
   seen : [Months -> MonthDays \cup {Null}] \cup {Null}, overtaken : BOOLEAN,
   served : BOOLEAN, report : Reports \cup {Null}]

Call(op) ==
  [id |-> 0, op |-> op, live |-> TRUE, query |-> FirstFilter,
   months |-> [m \in Months |-> 0], origin |-> [from |-> Null, steady |-> FALSE],
   seen |-> Null, overtaken |-> FALSE, served |-> FALSE, report |-> Null]

Plus(S, c) ==
  S \cup {[c EXCEPT !.id = CHOOSE n \in 0..Cardinality(S) :
                               \A d \in S : d.op = c.op => d.id # n]}

InFlight(op) == {c \in calls : c.op = op /\ c.live}

TypeOK ==
  /\ days \in Tables
  /\ org \in [Users -> [manager : Users \cup {Null}, position : Positions \cup {Null}]]
  /\ route \in {"report", "dashboard"}
  /\ filter \in Filters /\ report \in Reports \cup {Null} /\ loading \in BOOLEAN
  /\ selected \subseteq Users /\ expanded \subseteq Users
  /\ page \in Nat \ {0} /\ size \in PageSizes
  /\ editor \in Values \cup {Null} /\ origin \in Origins
  /\ directory \subseteq Users /\ positions \subseteq Positions /\ asked \in BOOLEAN
  /\ people \subseteq Users /\ waiting \in BOOLEAN
  /\ exporting \in BOOLEAN /\ mine \in Exports \cup {Null}
  /\ job \in [Exports -> {"none", "import", "draw"}] /\ copies \subseteq Exports
  /\ calls \subseteq Calls
  /\ calm \in BOOLEAN
  /\ acts \in 0..MaxActs /\ rivals \in 0..MaxRivals /\ meddled \in BOOLEAN

-----------------------------------------------------------------------------
(* What the report shows.                                                   *)

\* The active users of the team; the server sums their hours of the year.
Rows(r) ==
  IF r = Null THEN {} ELSE {u \in Users : r.query.team \in {Null, Team[u]}}

VisibleRows == {u \in Rows(report) : selected = {} \/ u \in selected}

Hours(u, m) == Worked[u][report.query.year][m]

YearTotal(u) == MapThenSumSet(LAMBDA m : Hours(u, m), Months)

ColumnTotal(m) == MapThenSumSet(LAMBDA u : Hours(u, m), VisibleRows)

GrandTotal == MapThenSumSet(YearTotal, VisibleRows)

\* expectedDays(): 22s while there is no report.
ShownDays == IF report = Null THEN [m \in Months |-> 22] ELSE report.days

Total(v) == MapThenSumSet(LAMBDA m : v[m], Months)

\* getCellTone
Tone(hours, workingDays) ==
  LET target == 8 * workingDays IN
  CASE target = 0                             -> "none"
    [] target > 0 /\ 2 * hours < target       -> "red"
    [] target > 0 /\ hours = target           -> "none"
    [] target > 0 /\ hours > target           -> "green"
    [] OTHER                                  -> "yellow"

Least(m, n) == IF m < n THEN m ELSE n
Most(m, n) == IF m > n THEN m ELSE n

TotalPages == Most(1, (Cardinality(VisibleRows) + size - 1) \div size)

PageWindow ==
  LET end == Least(TotalPages, Most(1, page - 2) + 4) IN Most(1, end - 4)..end

AllExpanded ==
  VisibleRows # {} /\ Cardinality(expanded) = Cardinality(VisibleRows)

\* exportExcel, which changes nothing.
Workbook ==
  [title |-> report.query.year, target |-> 8 * Total(report.days),
   rows |-> VisibleRows, total |-> GrandTotal]

-----------------------------------------------------------------------------
(* What the dashboard shows.                                                *)

ById(p) == IF p \in positions THEN p ELSE Null

\* isInPositionSubtree: the walk up from a position, WalkGuard steps of it.
InSubtree(u, panel) ==
  LET up[n \in Nat] ==
        IF n = 0 THEN ById(org[u].position)
        ELSE IF up[n - 1] = Null THEN Null ELSE ById(Parent[up[n - 1]])
  IN  \E n \in 0..(WalkGuard - 1) : up[n] # Null /\ Panel[up[n]] = panel

PanelUsers(panel) == {u \in people : InSubtree(u, panel)}

Eligible == people \ UNION {PanelUsers(p) : p \in Panels}

\* Mutant: who reports to someone of a panel is no root.
Roots_anyManager == {u \in Eligible : org[u].manager \notin people}

Roots == {u \in Eligible : org[u].manager \notin Eligible}

ReportsOf(u) == {v \in Eligible : org[v].manager = u}

OnBranch(u) == org[u].position \in Branch

\* The users with a card: the roots, and the branchReports of a card.
Cards ==
  LET level[n \in Nat] ==
        IF n = 0 THEN Roots
        ELSE level[n - 1] \cup {v \in UNION {ReportsOf(u) : u \in level[n - 1]} : OnBranch(v)}
  IN  level[Cardinality(people)]

\* rosterReports: the strip in a card, in which nobody's reports are drawn.
Roster(u) == {v \in ReportsOf(u) : ~OnBranch(v)}

Drawn ==
  Cards \cup (UNION {Roster(u) : u \in Cards}) \cup (UNION {PanelUsers(p) : p \in Panels})

-----------------------------------------------------------------------------
(* The application has just been opened at one of the screens; the shell    *)
(* loads the directory, the first dashboard the positions.                  *)

ScreenCalls(S, r) ==
  IF r = "report" THEN Plus(S, Call("report")) ELSE Plus(S, Call("positions"))

Init ==
  /\ days \in Tables
  /\ org \in [Users -> [manager : Users \cup {Null}, position : Positions \cup {Null}]]
  /\ route \in {"report", "dashboard"}
  /\ filter = FirstFilter /\ report = Null /\ loading = (route = "report")
  /\ selected = {} /\ page = 1 /\ size = PageSize /\ expanded = {}
  /\ editor = Null /\ origin = [from |-> Null, steady |-> FALSE]
  /\ directory = {} /\ positions = {} /\ asked = (route = "dashboard")
  /\ people = {} /\ waiting = (route = "dashboard")
  /\ exporting = FALSE /\ mine = Null
  /\ job = [e \in Exports |-> "none"] /\ copies = {}
  /\ calls = ScreenCalls(Plus({}, Call("directory")), route)
  /\ calm = TRUE
  /\ acts \in 0..MaxActs /\ rivals \in 0..MaxRivals /\ meddled = FALSE

-----------------------------------------------------------------------------
(* What the user does.                                                      *)

Act == acts > 0 /\ acts' = acts - 1 /\ UNCHANGED <<rivals, meddled>>

\* fetchReport, added to the requests S.
Fetch(S, f) ==
  /\ calls' = Plus(S, [Call("report") EXCEPT !.query = f])
  /\ loading' = TRUE
  /\ calm' = (calm /\ InFlight("report") = {})

\* The new screen starts afresh; an export of the old one goes on without it.
Navigate(r) ==
  LET kept == {[c EXCEPT !.live = (c.op # "save") /\ @] :
                 c \in {w \in calls : w.op # "report" /\ ~(w.op = "save" /\ w.served)}}
      loads == IF r = "dashboard" /\ directory = {} /\ InFlight("directory") = {}
                 THEN Plus(kept, Call("directory")) ELSE kept
  IN
  /\ Act
  /\ r # route /\ editor = Null
  /\ route' = r
  /\ filter' = FirstFilter /\ report' = Null /\ loading' = (r = "report")
  /\ selected' = {} /\ page' = 1 /\ size' = PageSize /\ expanded' = {}
  /\ calls' = IF r = "dashboard" /\ asked THEN loads ELSE ScreenCalls(loads, r)
  /\ asked' = (asked \/ r = "dashboard")
  /\ people' = IF r = "dashboard" THEN directory ELSE {}
  /\ waiting' = (r = "dashboard" /\ directory = {})
  /\ exporting' = FALSE /\ mine' = Null
  /\ calm' = ({c \in kept : c.op = "save"} = {})
  /\ UNCHANGED <<days, org, edit, directory, positions, job, copies>>

OnReport == route = "report" /\ editor = Null

\* Mutant: the filters stay within reach while the editor is open.
SetFilter_behindTheEditor ==
  /\ route = "report"
  /\ Act
  /\ \/ \E y \in Years \ {filter.year} : filter' = [filter EXCEPT !.year = y] /\ page' = 1
     \/ \E t \in (Teams \cup {Null}) \ {filter.team} :
           filter' = [filter EXCEPT !.team = t] /\ page' = 1
     \/ filter' = [filter EXCEPT !.detail = ~@] /\ page' \in {1, page}
  /\ Fetch(calls, filter')
  /\ UNCHANGED <<days, org, route, report, selected, size, expanded, edit, caches, chart>>

\* The effect on the filters; a switch of the breakdown leaves the page.
SetFilter ==
  /\ OnReport
  /\ Act
  /\ \/ \E y \in Years \ {filter.year} : filter' = [filter EXCEPT !.year = y] /\ page' = 1
     \/ \E t \in (Teams \cup {Null}) \ {filter.team} :
           filter' = [filter EXCEPT !.team = t] /\ page' = 1
     \/ filter' = [filter EXCEPT !.detail = ~@] /\ page' \in {1, page}
  /\ Fetch(calls, filter')
  /\ UNCHANGED <<days, org, route, report, selected, size, expanded, edit, caches, chart>>

Looking ==
  UNCHANGED <<days, org, route, filter, report, loading, edit, caches, chart, calls, calm>>

\* toggleUserSelection in the picker, and clearUserSelection.
SelectUsers ==
  /\ OnReport /\ Act
  /\ \/ \E u \in directory :
           selected' = IF u \in selected THEN selected \ {u} ELSE selected \cup {u}
     \/ selected # {} /\ selected' = {}
  /\ page' = 1
  /\ Looking /\ UNCHANGED <<size, expanded>>

SetPageSize(s) ==
  /\ OnReport /\ Act
  /\ s # size /\ size' = s /\ page' = 1
  /\ Looking /\ UNCHANGED <<selected, expanded>>

SetPage(p) ==
  /\ OnReport /\ Act
  /\ \/ p = page - 1 /\ page # 1
     \/ p = page + 1 /\ page # TotalPages
     \/ p \in PageWindow
  /\ page' = Most(1, Least(p, TotalPages))
  /\ Looking /\ UNCHANGED <<selected, size, expanded>>

\* toggleRow on a row that is drawn, and toggleAllRows, whose button is there while
\* a report loads too; users who are not shown may stay expanded.
Expand ==
  /\ OnReport /\ Act
  /\ \/ /\ ~loading
        /\ \E u \in VisibleRows :
             expanded' = IF u \in expanded THEN expanded \ {u} ELSE expanded \cup {u}
     \/ VisibleRows # {} /\ expanded' = IF AllExpanded THEN {} ELSE VisibleRows
  /\ Looking /\ UNCHANGED <<selected, page, size>>

\* The editor copies the days on the screen once, whatever is in flight.
OpenEditor ==
  /\ OnReport
  /\ editor' = ShownDays
  /\ origin' = [from |-> IF report = Null THEN Null ELSE report.query.year,
                steady |-> calm /\ InFlight("report") = {}]
  /\ UNCHANGED <<days, org, route, table, caches, chart, calls, calm, counts>>

SetValue(m, raw) ==
  /\ editor # Null /\ CanEdit
  /\ editor' = [editor EXCEPT ![m] = Most(0, Least(31, raw))]
  /\ UNCHANGED <<days, org, route, table, origin, caches, chart, calls, calm, counts>>

CloseEditor ==
  /\ editor # Null
  /\ editor' = Null /\ origin' = [from |-> Null, steady |-> FALSE]
  /\ UNCHANGED <<days, org, route, table, caches, chart, calls, calm, counts>>

\* The save goes to the year of the filters.
SaveWorkingDays ==
  /\ editor # Null /\ CanEdit
  /\ Act
  /\ editor' = Null /\ origin' = [from |-> Null, steady |-> FALSE]
  /\ calls' = Plus(calls, [Call("save") EXCEPT !.query = filter, !.months = editor,
                             !.origin = origin])
  /\ UNCHANGED <<days, org, route, table, caches, chart, calm>>

\* exportPng, up to its first await; e is a name for this call of it.
ExportPng(e) ==
  /\ route = "dashboard" /\ ~exporting /\ Roots # {}
  /\ job[e] = "none"
  /\ exporting' = TRUE /\ mine' = e /\ job' = [job EXCEPT ![e] = "import"]
  /\ UNCHANGED <<days, org, route, table, edit, caches, people, waiting, copies, calls,
                 calm, counts>>

\* Mutant: a failure leaves the function before the clean-up.
ContinueExport_noFinally(e, ok) ==
  /\ job[e] # "none"
  /\ IF ok /\ job[e] = "import"
       THEN /\ job' = [job EXCEPT ![e] = "draw"] /\ copies' = copies \cup {e}
            /\ UNCHANGED exporting
       ELSE /\ job' = [job EXCEPT ![e] = "none"]
            /\ copies' = IF ok THEN copies \ {e} ELSE copies
            /\ exporting' = (exporting /\ (ok => e # mine))
  /\ UNCHANGED <<days, org, route, table, edit, caches, people, waiting, mine, calls, calm,
                 counts>>

\* Its awaits: the library arrives, then the copy is drawn; either may fail.  What
\* ends it resets the flag of the dashboard it belongs to, which may be gone.
ContinueExport(e, ok) ==
  /\ job[e] # "none"
  /\ IF ok /\ job[e] = "import"
       THEN /\ job' = [job EXCEPT ![e] = "draw"] /\ copies' = copies \cup {e}
            /\ UNCHANGED exporting
       ELSE /\ job' = [job EXCEPT ![e] = "none"] /\ copies' = copies \ {e}
            /\ exporting' = (exporting /\ e # mine)
  /\ UNCHANGED <<days, org, route, table, edit, caches, people, waiting, mine, calls, calm,
                 counts>>

-----------------------------------------------------------------------------
(* The server, and the other administrators.                                *)

browser == <<route, table, edit, caches, chart, calm>>

\* Another administrator saves the working days of a year.
Rival(y, v) ==
  /\ rivals > 0 /\ rivals' = rivals - 1 /\ meddled' = TRUE
  /\ calls' = Plus(calls, [Call("save") EXCEPT !.live = FALSE, !.query.year = y, !.months = v])
  /\ UNCHANGED <<days, org, browser, acts>>

ServeReport(c) ==
  /\ c.op = "report" /\ ~c.served
  /\ calls' = (calls \ {c}) \cup
       {[c EXCEPT !.served = TRUE,
                  !.report = [query |-> c.query, days |-> ExpectedDays(days[c.query.year])]]}
  /\ UNCHANGED <<days, org, browser, counts>>

\* upsert_year reads the rows of the year ...
LoadYear(c) ==
  /\ c.op = "save" /\ c.seen = Null /\ ~c.served
  /\ calls' = (calls \ {c}) \cup {[c EXCEPT !.seen = days[c.query.year]]}
  /\ UNCHANGED <<days, org, browser, counts>>

\* Mutant: a month without days is taken for one that is not set.
Written_zeroSkipped(c, row) ==
  [m \in Months |-> IF c.months[m] \in {0, c.seen[m]} THEN row[m] ELSE c.months[m]]

\* The session writes the columns that differ from what it has read.
Written(c, row) ==
  [m \in Months |-> IF c.months[m] = c.seen[m] THEN row[m] ELSE c.months[m]]

\* ... and inserts the months it did not find, unless they are there by now.
CommitYear(c) ==
  LET y == c.query.year IN
  /\ c.op = "save" /\ c.seen # Null /\ ~c.served
  /\ \A m \in Months : c.seen[m] = Null => days[y][m] = Null
  /\ days' = [days EXCEPT ![y] = Written(c, @)]
  /\ calls' = {[d EXCEPT !.overtaken = @ \/ (d.op = "save" /\ d.seen # Null /\ d.query.year = y)] :
                 d \in calls \ {c}}
              \cup {d \in {[c EXCEPT !.served = TRUE]} : d.live}
  /\ UNCHANGED <<org, browser, counts>>

Drop(c) ==
  /\ ~c.live
  /\ calls' = calls \ {c}
  /\ UNCHANGED <<days, org, browser, counts>>

-----------------------------------------------------------------------------
(* The answers; an error may come before a call is served, or in the place  *)
(* of the answer to one that was.  What does not change is read on the way.  *)

Answered(c, ok, op) ==
  c.live /\ c.op = op /\ (ok /\ op \in {"report", "save"} => c.served)

DeliverReport(c, ok) ==
  /\ Answered(c, ok, "report")
  /\ report' = IF ok THEN c.report ELSE Null
  /\ loading' = FALSE
  /\ calls' = calls \ {c}
  /\ calm' = (calm /\ ok)
  /\ UNCHANGED <<days, org, route, filter, selected, page, size, expanded, edit, caches, chart,
                 counts>>

\* Mutant: the report is not loaded again.
DeliverSave_quiet(c, ok) ==
  /\ Answered(c, ok, "save")
  /\ calls' = calls \ {c} /\ calm' = (calm /\ (c.served => ok)) /\ UNCHANGED loading
  /\ UNCHANGED <<days, org, route, filter, report, selected, page, size, expanded, edit, caches,
                 chart, counts>>

DeliverSave(c, ok) ==
  /\ Answered(c, ok, "save")
  /\ IF ok
       THEN Fetch(calls \ {c}, filter)
       ELSE calls' = calls \ {c} /\ calm' = (calm /\ ~c.served) /\ UNCHANGED loading
  /\ UNCHANGED <<days, org, route, filter, report, selected, page, size, expanded, edit, caches,
                 chart, counts>>

\* The dashboard that waits for the directory gets it too, or the error.
DeliverDirectory(c, ok) ==
  /\ Answered(c, ok, "directory")
  /\ directory' = IF ok THEN Users ELSE directory
  /\ people' = IF ok /\ waiting THEN Users ELSE people
  /\ waiting' = FALSE
  /\ calls' = calls \ {c}
  /\ UNCHANGED <<days, org, route, table, edit, positions, asked, exports, calm, counts>>

DeliverPositions(c, ok) ==
  /\ Answered(c, ok, "positions")
  /\ positions' = IF ok THEN Positions ELSE positions
  /\ calls' = calls \ {c}
  /\ UNCHANGED <<days, org, route, table, edit, directory, asked, chart, calm, counts>>

-----------------------------------------------------------------------------
Click ==
  \/ \E r \in {"report", "dashboard"} : Navigate(r)
  \/ SetFilter \/ SelectUsers \/ Expand
  \/ \E s \in PageSizes : SetPageSize(s)
  \/ \E p \in 0..(page + Cardinality(Users)) : SetPage(p)
  \/ OpenEditor \/ CloseEditor \/ SaveWorkingDays
  \/ \E m \in Months, raw \in Typed : SetValue(m, raw)
  \/ \E e \in Exports : ExportPng(e)

Serve(c) == ServeReport(c) \/ LoadYear(c) \/ CommitYear(c) \/ Drop(c)

Deliver(c, ok) ==
  \/ DeliverReport(c, ok)
  \/ DeliverSave(c, ok)
  \/ DeliverDirectory(c, ok)
  \/ DeliverPositions(c, ok)

Next ==
  \/ Click
  \/ \E e \in Exports, ok \in BOOLEAN : ContinueExport(e, ok)
  \/ \E y \in Years, v \in Rivals : Rival(y, v)
  \/ \E c \in calls : Serve(c)
  \/ \E c \in calls, ok \in BOOLEAN : Deliver(c, ok)

Spec == Init /\ [][Next]_vars

-----------------------------------------------------------------------------
(* Properties                                                               *)

Settled ==
  calm /\ ~meddled /\ \A c \in calls : c.op \notin {"report", "save"}

\* Once everything is answered, the report is that of the filters, its cells are
\* coloured by the working days that are in the database, the user's last save
\* among them, and so is an exported workbook
\* (yearly-report.component.ts:196-241, 344-350, 412-418, 428-479).
ReportFollowsTheDays ==
  Settled /\ route = "report" =>
    LET now == ExpectedDays(days[filter.year]) IN
    /\ report # Null /\ report.query = filter
    /\ \A u \in VisibleRows, m \in Months :
         Tone(Hours(u, m), ShownDays[m]) = "green" <=>
           now[m] > 0 /\ Hours(u, m) > 8 * now[m]
    /\ Workbook.title = filter.year /\ Workbook.target = 8 * Total(now)
    /\ Workbook.total = MapThenSumSet(ColumnTotal, Months)

\* The working days a save writes to a year were copied from that year, unless
\* the report of the filters was still on its way, or failed, when the editor was
\* opened (yearly-report.component.ts:175, 407-415;
\* working-days-editor.component.ts:133-136).
DaysComeFromTheirYear ==
  \A c \in InFlight("save") : c.origin.steady => c.origin.from = c.query.year

\* A save that is committed leaves its year as it was sent, unless another save
\* of the year came between its read and its commit; a mixture of both is
\* possible then (working_day_service.py:36-60).
SavesAreWhole ==
  [][\A c \in calls : CommitYear(c) =>
       c.overtaken \/ days'[c.query.year] = c.months]_vars

\* Whoever is over u, and over them.
Managers(u) ==
  LET up[n \in Nat] ==
        IF n = 0 THEN {u}
        ELSE {org[v].manager : v \in up[n - 1]} \cap Eligible
  IN  UNION {up[n] : n \in 1..Cardinality(people)}

\* Everyone in the directory is on the chart, on one side of it, but for those
\* whose managers go round in a circle and those somewhere below a user of a
\* roster strip (dashboard.component.ts:54-168, 192-229).
OnlyTheseAreLost ==
  route = "dashboard" /\ ~waiting =>
    /\ people = directory
    /\ people \ Drawn =
         {u \in Eligible : \E v \in Managers(u) :
                              v \in Managers(v) \/ (v \notin Roots /\ ~OnBranch(v))}
    /\ \A p \in Panels : PanelUsers(p) \cap Cards = {}

\* What says that something is going on, is going on: a report, the directory or
\* the export this dashboard has started; and a copy of the chart is in the document
\* while its own export draws it and no longer, also when that fails or its dashboard
\* is gone (yearly-report.component.ts:220-232; dashboard.component.ts:144-154,
\* 243-319).
SpinnersEnd ==
  /\ loading => InFlight("report") # {}
  /\ waiting => InFlight("directory") # {}
  /\ exporting <=> mine # Null /\ job[mine] # "none"
  /\ copies = {e \in Exports : job[e] = "draw"}

=============================================================================
