------------------------ MODULE ReportScreensProofs ------------------------
(***************************************************************************)
(* Why the report ends with the working days of the database, whose days a  *)
(* save writes, and who is missing on the chart.                            *)
(***************************************************************************)
EXTENDS ReportScreens, TLAPS, FiniteSetTheorems, WellFoundedInduction

CallFields ==
  {"id", "op", "live", "query", "months", "origin", "seen", "overtaken", "served", "report"}

\* A request with its fields; only a save outlives its screen.
Shaped(c) ==
  /\ DOMAIN c = CallFields /\ c.op \in {"report", "save", "directory", "positions"}
  /\ c.query \in Filters /\ c.months \in Values
  /\ c.live \in BOOLEAN /\ c.overtaken \in BOOLEAN /\ c.served \in BOOLEAN
  /\ c.op # "save" => c.live
  /\ c.op = "report" /\ c.served => c.report \in Reports

Shape ==
  /\ days \in Tables /\ filter \in Filters /\ route \in {"report", "dashboard"}
  /\ report \in Reports \cup {Null} /\ editor \in Values \cup {Null}
  /\ \A c \in calls : Shaped(c)

\* What belongs to the report is there on its screen only.
OnItsScreen ==
  /\ editor # Null => route = "report"
  /\ \A c \in calls : c.op = "report" \/ (c.op = "save" /\ c.live) => route = "report"

\* The values in the editor are of the year of the filters, and so is a save.
EditorInv ==
  /\ editor # Null /\ origin.steady => origin.from = filter.year
  /\ \A c \in calls : c.op = "save" /\ c.live /\ c.origin.steady => c.origin.from = c.query.year

\* What a save has read is in the table until another one is committed.
SavesInv ==
  \A c \in calls : c.op = "save" /\ c.seen # Null /\ ~c.served /\ ~c.overtaken =>
                     c.seen = days[c.query.year]

\* The answer to a save, which will ask for the report again, is on its way.
Answering == \E c \in calls : c.op = "save" /\ c.served

\* A report for the filters, with the days of the table or soon asked for again.
Current(r) ==
  /\ r \in Reports /\ r.query = filter
  /\ meddled \/ Answering \/ r.days = ExpectedDays(days[filter.year])

FreshInv ==
  calm =>
    /\ ~meddled => \A c \in calls : c.op = "save" => c.live
    /\ \A c, d \in calls : c.op = "report" /\ d.op = "report" => c = d
    /\ \A c \in calls : c.op = "report" => c.query = filter /\ (c.served => Current(c.report))
    /\ route = "report" /\ (\A c \in calls : c.op # "report") => Current(report)

\* A spinner turns on its screen only; the dashboard knows its last export.
SpinInv ==
  /\ SpinnersEnd
  /\ job \in [Exports -> {"none", "import", "draw"}] /\ mine \in Exports \cup {Null}
  /\ loading => route = "report"
  /\ waiting => route = "dashboard" /\ people = {} /\ directory = {}

\* The directory is asked for once at a time, and only until it is there; a
\* dashboard that does not wait for it shows it.
DirectoryInv ==
  /\ directory \subseteq Users
  /\ \A c, d \in calls : c.op = "directory" /\ d.op = "directory" => c = d
  /\ \A c \in calls : c.op = "directory" =>
       directory = {} /\ (route = "dashboard" => waiting)
  /\ route = "dashboard" /\ ~waiting => people = directory

ReportInv ==
  Shape /\ OnItsScreen /\ EditorInv /\ SavesInv /\ FreshInv /\ SpinInv /\ DirectoryInv

-----------------------------------------------------------------------------
(* What is asked for.                                                       *)

LEMMA Bounds ==
  /\ FirstFilter \in Filters /\ [m \in Months |-> 0] \in Values
  /\ Null \notin Reports /\ Null \notin Values
<1>1. FirstFilter \in Filters
  BY ReportAssumption DEF Setting, FirstFilter, Filters
<1>2. [m \in Months |-> 0] \in Values
  BY DEF Values, MonthDays
<1> QED BY <1>1, <1>2, ReportAssumption DEF Setting

\* d is c, but for its number.
Numbered(d, c) ==
  /\ DOMAIN d = CallFields
  /\ d.op = c.op /\ d.live = c.live /\ d.query = c.query /\ d.months = c.months
  /\ d.origin = c.origin /\ d.seen = c.seen /\ d.overtaken = c.overtaken
  /\ d.served = c.served /\ d.report = c.report

LEMMA PlusAdds ==
  ASSUME NEW S, NEW c, DOMAIN c = CallFields
  PROVE  \E d : Plus(S, c) = S \cup {d} /\ Numbered(d, c)
<1> DEFINE v == CHOOSE n \in 0..Cardinality(S) : \A e \in S : e.op = c.op => e.id # n
           d == [c EXCEPT !.id = v]
<1>1. Plus(S, c) = S \cup {d}
  BY DEF Plus
<1> HIDE DEF v
<1>2. Numbered(d, c)
  BY DEF Numbered, CallFields
<1> HIDE DEF d
<1> QED BY <1>1, <1>2

\* A request that has just been sent.
Sent(c, op) ==
  /\ Shaped(c) /\ c.op = op /\ c.seen = Null /\ ~c.served

LEMMA CallSent ==
  ASSUME NEW op \in {"report", "save", "directory", "positions"}
  PROVE  DOMAIN Call(op) = CallFields /\ Sent(Call(op), op) /\ Call(op).live
  BY Bounds DEF Call, Sent, Shaped, CallFields

LEMMA CallAdds ==
  ASSUME NEW S, NEW op \in {"report", "save", "directory", "positions"}
  PROVE  \E d : /\ Plus(S, Call(op)) = S \cup {d}
                /\ Sent(d, op) /\ d.live /\ d.query = FirstFilter
<1>1. PICK d : Plus(S, Call(op)) = S \cup {d} /\ Numbered(d, Call(op))
  BY PlusAdds, CallSent
<1>2. Sent(d, op) /\ d.live
  BY <1>1, CallSent DEF Sent, Shaped, Numbered
<1>3. d.query = FirstFilter
  BY <1>1 DEF Numbered, Call
<1> QED BY <1>1, <1>2, <1>3

LEMMA ReportAdds ==
  ASSUME NEW S, NEW f \in Filters
  PROVE  \E d : /\ Plus(S, [Call("report") EXCEPT !.query = f]) = S \cup {d}
                /\ Sent(d, "report") /\ d.live /\ d.query = f
<1> DEFINE c == [Call("report") EXCEPT !.query = f]
<1>1. DOMAIN c = CallFields /\ Sent(c, "report") /\ c.live /\ c.query = f
  BY CallSent DEF Sent, Shaped, CallFields
<1> HIDE DEF c
<1>2. PICK d : Plus(S, c) = S \cup {d} /\ Numbered(d, c)
  BY <1>1, PlusAdds
<1>3. Sent(d, "report") /\ d.live /\ d.query = f
  BY <1>1, <1>2 DEF Sent, Shaped, Numbered
<1> QED BY <1>2, <1>3 DEF c

-----------------------------------------------------------------------------
(* The initial state, and what leaves the requests alone.                   *)

LEMMA ExpectedValues ==
  ASSUME NEW row \in [Months -> MonthDays \cup {Null}]
  PROVE  ExpectedDays(row) \in Values
  BY DEF ExpectedDays, Values, MonthDays

LEMMA InitInv == Init => ReportInv
<1> SUFFICES ASSUME Init PROVE ReportInv
  OBVIOUS
<1>1. PICK d : /\ Plus({}, Call("directory")) = {} \cup {d}
               /\ Sent(d, "directory") /\ d.live /\ d.query = FirstFilter
  BY CallAdds
<1>2. PICK op, e :
        /\ op \in {"report", "positions"}
        /\ ScreenCalls({d}, route) = {d} \cup {e}
        /\ Sent(e, op) /\ e.live /\ e.query = FirstFilter
        /\ op = "report" <=> route = "report"
  <2>1. CASE route = "report"
    <3>1. PICK e : /\ Plus({d}, Call("report")) = {d} \cup {e}
                   /\ Sent(e, "report") /\ e.live /\ e.query = FirstFilter
      BY CallAdds
    <3> QED BY <2>1, <3>1 DEF ScreenCalls
  <2>2. CASE route # "report"
    <3>1. PICK e : /\ Plus({d}, Call("positions")) = {d} \cup {e}
                   /\ Sent(e, "positions") /\ e.live /\ e.query = FirstFilter
      BY CallAdds
    <3> QED BY <2>2, <3>1 DEF ScreenCalls
  <2> QED BY <2>1, <2>2
<1>3. calls = {d, e}
  BY <1>1, <1>2 DEF Init
<1>4. Shape
  BY <1>1, <1>2, <1>3, Bounds DEF Shape, Init, Sent
<1>5. OnItsScreen /\ EditorInv /\ SavesInv
  BY <1>1, <1>2, <1>3 DEF OnItsScreen, EditorInv, SavesInv, Init, Sent
<1>6. FreshInv
  BY <1>1, <1>2, <1>3 DEF FreshInv, Init, Sent
<1>7. SpinInv
  BY <1>1, <1>2, <1>3, Bounds DEF SpinInv, SpinnersEnd, InFlight, Init, Sent
<1>8. DirectoryInv
  BY <1>1, <1>2, <1>3 DEF DirectoryInv, Init, Sent
<1> QED BY <1>4, <1>5, <1>6, <1>7, <1>8 DEF ReportInv

\* What the report, its editor and the requests depend on.
shown == <<days, filter, route, report, loading, calls, calm, meddled>>

LEMMA LookInv ==
  ASSUME ReportInv,
         UNCHANGED shown, UNCHANGED <<editor, origin, directory, people, waiting>>,
         UNCHANGED <<exporting, mine, job, copies>>
  PROVE  ReportInv'
<1> USE DEF shown, ReportInv
<1>1. Shape' /\ OnItsScreen' /\ EditorInv' /\ SavesInv'
  BY DEF Shape, OnItsScreen, EditorInv, SavesInv
<1>2. FreshInv'
  BY DEF FreshInv, Current, Answering
<1>3. SpinInv' /\ DirectoryInv'
  BY DEF SpinInv, SpinnersEnd, InFlight, DirectoryInv
<1> QED BY <1>1, <1>2, <1>3

LEMMA EditInv ==
  ASSUME ReportInv, UNCHANGED shown, UNCHANGED <<directory, people, waiting>>,
         UNCHANGED <<exporting, mine, job, copies>>, editor' \in Values \cup {Null},
         editor' # Null => route = "report" /\ (origin.steady' => origin.from' = filter.year)
  PROVE  ReportInv'
<1> USE DEF shown, ReportInv
<1>1. Shape' /\ OnItsScreen' /\ EditorInv' /\ SavesInv'
  BY DEF Shape, OnItsScreen, EditorInv, SavesInv
<1>2. FreshInv'
  BY DEF FreshInv, Current, Answering
<1>3. SpinInv' /\ DirectoryInv'
  BY DEF SpinInv, SpinnersEnd, InFlight, DirectoryInv
<1> QED BY <1>1, <1>2, <1>3

LEMMA ExportInv ==
  ASSUME ReportInv, UNCHANGED shown, UNCHANGED <<editor, origin, directory, people, waiting>>,
         job' \in [Exports -> {"none", "import", "draw"}], mine' \in Exports \cup {Null},
         exporting' <=> mine' # Null /\ job'[mine'] # "none",
         copies' = {e \in Exports : job'[e] = "draw"}
  PROVE  ReportInv'
<1> USE DEF shown, ReportInv
<1>1. Shape' /\ OnItsScreen' /\ EditorInv' /\ SavesInv'
  BY DEF Shape, OnItsScreen, EditorInv, SavesInv
<1>2. FreshInv'
  BY DEF FreshInv, Current, Answering
<1>3. SpinInv' /\ DirectoryInv'
  BY DEF SpinInv, SpinnersEnd, InFlight, DirectoryInv
<1> QED BY <1>1, <1>2, <1>3

\* Where nothing is in flight and nothing failed, the screen has the report.
LEMMA OpenEditorInv == ReportInv /\ OpenEditor => ReportInv'
<1> SUFFICES ASSUME ReportInv, OpenEditor PROVE ReportInv'
  OBVIOUS
<1>1. UNCHANGED shown /\ UNCHANGED <<directory, people, waiting>>
      /\ UNCHANGED <<exporting, mine, job, copies>> /\ route = "report"
  BY DEF OpenEditor, OnReport, shown, table, caches, chart, exports, counts
<1>2. ASSUME origin'.steady PROVE origin'.from = filter.year
  <2>1. calm /\ InFlight("report") = {}
    BY <1>2 DEF OpenEditor
  <2>2. \A c \in calls : c.op # "report"
    BY <2>1 DEF InFlight, ReportInv, Shape, Shaped
  <2>3. report \in Reports /\ report.query = filter
    BY <1>1, <2>1, <2>2 DEF ReportInv, FreshInv, Current
  <2> QED BY <2>3, Bounds DEF OpenEditor
<1>3. editor' \in Values
  <2>1. [m \in Months |-> 22] \in Values
    BY DEF Values, MonthDays
  <2> QED BY <2>1 DEF OpenEditor, ShownDays, ReportInv, Shape, Reports
<1> QED BY <1>1, <1>2, <1>3, EditInv

LEMMA SetValueInv ==
  ASSUME ReportInv, NEW m \in Months, NEW raw \in Typed, SetValue(m, raw) PROVE ReportInv'
<1>1. UNCHANGED shown /\ UNCHANGED <<directory, people, waiting>>
      /\ UNCHANGED <<exporting, mine, job, copies>> /\ UNCHANGED origin
  BY DEF SetValue, shown, table, caches, chart, exports, counts
<1>2. route = "report" /\ (origin.steady' => origin.from' = filter.year)
  BY <1>1 DEF SetValue, ReportInv, OnItsScreen, EditorInv
<1>3. editor' \in Values
  <2>1. Most(0, Least(31, raw)) \in MonthDays
    BY ReportAssumption DEF Setting, Most, Least, MonthDays
  <2> QED BY <2>1 DEF SetValue, ReportInv, Shape, Values
<1> QED BY <1>1, <1>2, <1>3, EditInv

LEMMA CloseEditorInv == ReportInv /\ CloseEditor => ReportInv'
<1> SUFFICES ASSUME ReportInv, CloseEditor PROVE ReportInv'
  OBVIOUS
<1>1. UNCHANGED shown /\ UNCHANGED <<directory, people, waiting>>
      /\ UNCHANGED <<exporting, mine, job, copies>> /\ editor' = Null
  BY DEF CloseEditor, shown, table, caches, chart, exports, counts
<1> QED BY <1>1, EditInv

LEMMA ExportPngInv ==
  ASSUME ReportInv, NEW e \in Exports, ExportPng(e) PROVE ReportInv'
<1>1. UNCHANGED shown /\ UNCHANGED <<editor, origin, directory, people, waiting>>
  BY DEF ExportPng, shown, table, edit, caches, counts
<1>2. /\ exporting' /\ mine' = e /\ job[e] = "none" /\ UNCHANGED copies
      /\ job' = [job EXCEPT ![e] = "import"]
  BY DEF ExportPng
<1>3. /\ job \in [Exports -> {"none", "import", "draw"}]
      /\ copies = {x \in Exports : job[x] = "draw"}
  BY DEF ReportInv, SpinInv, SpinnersEnd
<1>4. /\ job' \in [Exports -> {"none", "import", "draw"}] /\ job'[e] = "import"
      /\ \A x \in Exports : job'[x] = "draw" <=> job[x] = "draw"
  BY <1>2, <1>3
<1>5. copies' = {x \in Exports : job'[x] = "draw"}
  BY <1>2, <1>3, <1>4
<1>6. e # Null
  BY ReportAssumption DEF Setting
<1> QED BY <1>1, <1>2, <1>4, <1>5, <1>6, ExportInv

\* An export that ends takes its own copy and its own dashboard's flag along.
LEMMA ContinueExportInv ==
  ASSUME ReportInv, NEW e \in Exports, NEW ok \in BOOLEAN, ContinueExport(e, ok)
  PROVE  ReportInv'
<1>1. UNCHANGED shown /\ UNCHANGED <<editor, origin, directory, people, waiting>>
  BY DEF ContinueExport, shown, table, edit, caches, counts
<1>2. /\ job \in [Exports -> {"none", "import", "draw"}] /\ mine \in Exports \cup {Null}
      /\ copies = {x \in Exports : job[x] = "draw"} /\ Null \notin Exports
      /\ exporting <=> mine # Null /\ job[mine] # "none"
  BY ReportAssumption DEF ReportInv, SpinInv, SpinnersEnd, Setting
<1>3. job[e] # "none" /\ UNCHANGED mine
  BY DEF ContinueExport
<1>4. CASE ok /\ job[e] = "import"
  <2>1. /\ job' = [job EXCEPT ![e] = "draw"] /\ copies' = copies \cup {e}
        /\ UNCHANGED exporting
    BY <1>4 DEF ContinueExport
  <2>2. /\ job' \in [Exports -> {"none", "import", "draw"}]
        /\ copies' = {x \in Exports : job'[x] = "draw"}
    BY <1>2, <2>1
  <2>3. exporting' <=> mine' # Null /\ job'[mine'] # "none"
    BY <1>2, <1>3, <2>1
  <2> QED BY <1>1, <1>2, <1>3, <2>2, <2>3, ExportInv
<1>5. CASE ~(ok /\ job[e] = "import")
  <2>1. /\ job' = [job EXCEPT ![e] = "none"] /\ copies' = copies \ {e}
        /\ exporting' = (exporting /\ e # mine)
    BY <1>5 DEF ContinueExport
  <2>2. /\ job' \in [Exports -> {"none", "import", "draw"}]
        /\ copies' = {x \in Exports : job'[x] = "draw"}
    BY <1>2, <2>1
  <2>3. exporting' <=> mine' # Null /\ job'[mine'] # "none"
    BY <1>2, <1>3, <2>1
  <2> QED BY <1>1, <1>2, <1>3, <2>2, <2>3, ExportInv
<1> QED BY <1>4, <1>5

-----------------------------------------------------------------------------
(* What the user asks for.                                                  *)

LEMMA SetFilterInv == ReportInv /\ SetFilter => ReportInv'
<1> SUFFICES ASSUME ReportInv, SetFilter PROVE ReportInv'
  OBVIOUS
<1>1. UNCHANGED <<days, route, report, editor, origin, directory, people, waiting>>
      /\ UNCHANGED <<exporting, mine, job, copies, meddled>>
      /\ route = "report" /\ editor = Null
  BY DEF SetFilter, Act, OnReport, edit, caches, chart, exports
<1>2. filter' \in Filters
  <2>1. filter \in Filters
    BY DEF ReportInv, Shape
  <2> QED BY <2>1 DEF SetFilter, Filters
<1>3. loading' = TRUE /\ calm' = (calm /\ InFlight("report") = {})
  BY DEF SetFilter, Fetch
<1>4. PICK d : /\ calls' = calls \cup {d}
               /\ Sent(d, "report") /\ d.live /\ d.query = filter'
  <2>1. calls' = Plus(calls, [Call("report") EXCEPT !.query = filter'])
    BY DEF SetFilter, Fetch
  <2> QED BY <1>2, <2>1, ReportAdds
<1>5. Shape'
  BY <1>1, <1>2, <1>4 DEF ReportInv, Shape, Sent
<1>6. OnItsScreen' /\ EditorInv' /\ SavesInv'
  BY <1>1, <1>4 DEF ReportInv, OnItsScreen, EditorInv, SavesInv, Sent
<1>7. FreshInv'
  <2> SUFFICES ASSUME calm' PROVE FreshInv'
    BY DEF FreshInv
  <2>1. calm /\ \A c \in calls : c.op # "report"
    BY <1>3 DEF InFlight, ReportInv, Shape, Shaped
  <2> QED BY <1>1, <1>4, <2>1 DEF ReportInv, FreshInv, Sent
<1>8. SpinInv'
  BY <1>1, <1>3, <1>4 DEF ReportInv, SpinInv, SpinnersEnd, InFlight, Sent
<1>9. DirectoryInv'
  BY <1>1, <1>4 DEF ReportInv, DirectoryInv, Sent
<1> QED BY <1>5, <1>6, <1>7, <1>8, <1>9 DEF ReportInv

Save(f, v, o) == [Call("save") EXCEPT !.query = f, !.months = v, !.origin = o]

LEMMA SaveAdds ==
  ASSUME NEW S, NEW f \in Filters, NEW v \in Values, NEW o
  PROVE  \E d : /\ Plus(S, Save(f, v, o)) = S \cup {d}
                /\ Sent(d, "save") /\ d.live /\ d.query = f /\ d.origin = o
<1> DEFINE c == Save(f, v, o)
<1>1. /\ DOMAIN c = CallFields /\ Sent(c, "save") /\ c.live /\ c.query = f
      /\ c.origin = o
  BY CallSent DEF Save, Sent, Shaped, CallFields
<1> HIDE DEF c
<1>2. PICK d : Plus(S, c) = S \cup {d} /\ Numbered(d, c)
  BY <1>1, PlusAdds
<1>3. Sent(d, "save") /\ d.live /\ d.query = f /\ d.origin = o
  BY <1>1, <1>2 DEF Sent, Shaped, Numbered
<1> QED BY <1>2, <1>3 DEF c

LEMMA RivalAdds ==
  ASSUME NEW S, NEW y \in Years, NEW v \in Values
  PROVE  \E d : /\ Plus(S, [Call("save") EXCEPT !.live = FALSE, !.query.year = y, !.months = v])
                     = S \cup {d}
                /\ Sent(d, "save") /\ ~d.live
<1> DEFINE c == [Call("save") EXCEPT !.live = FALSE, !.query.year = y, !.months = v]
<1>1. [FirstFilter EXCEPT !.year = y] \in Filters
  BY Bounds DEF Filters
<1>2. c = [[Call("save") EXCEPT !.live = FALSE, !.months = v]
             EXCEPT !.query = [FirstFilter EXCEPT !.year = y]]
  BY DEF Call
<1>3. DOMAIN c = CallFields /\ Sent(c, "save") /\ ~c.live
  BY <1>1, <1>2, CallSent DEF Sent, Shaped, CallFields
<1> HIDE DEF c
<1>4. PICK d : Plus(S, c) = S \cup {d} /\ Numbered(d, c)
  BY <1>3, PlusAdds
<1>5. Sent(d, "save") /\ ~d.live
  BY <1>3, <1>4 DEF Sent, Shaped, Numbered
<1> QED BY <1>4, <1>5 DEF c

LEMMA SaveWorkingDaysInv ==
  ASSUME ReportInv, SaveWorkingDays PROVE ReportInv'
<1>1. UNCHANGED <<days, filter, route, report, loading, directory, people, waiting>>
      /\ UNCHANGED <<exporting, mine, job, copies, meddled, calm>>
      /\ editor' = Null /\ editor # Null
  BY DEF SaveWorkingDays, Act, table, caches, chart, exports
<1>2. PICK d : /\ calls' = calls \cup {d} /\ Sent(d, "save") /\ d.live
               /\ d.query = filter /\ d.origin = origin
  <2>1. calls' = Plus(calls, Save(filter, editor, origin))
    BY DEF SaveWorkingDays, Save
  <2>2. filter \in Filters /\ editor \in Values
    BY <1>1 DEF ReportInv, Shape
  <2> QED BY <2>1, <2>2, SaveAdds
<1>3. Shape'
  BY <1>1, <1>2 DEF ReportInv, Shape, Sent
<1>4. OnItsScreen' /\ EditorInv' /\ SavesInv'
  BY <1>1, <1>2 DEF ReportInv, OnItsScreen, EditorInv, SavesInv, Sent
<1>5. FreshInv'
  BY <1>1, <1>2 DEF ReportInv, FreshInv, Current, Answering, Sent
<1>6. SpinInv'
  BY <1>1, <1>2 DEF ReportInv, SpinInv, SpinnersEnd, InFlight, Sent
<1>7. DirectoryInv'
  BY <1>1, <1>2 DEF ReportInv, DirectoryInv, Sent
<1> QED BY <1>3, <1>4, <1>5, <1>6, <1>7 DEF ReportInv

LEMMA RivalInv ==
  ASSUME ReportInv, NEW y \in Years, NEW v \in Rivals, Rival(y, v) PROVE ReportInv'
<1>1. UNCHANGED <<days, filter, route, report, loading, directory, people, waiting>>
      /\ UNCHANGED <<exporting, mine, job, copies, calm, editor, origin>> /\ meddled'
  BY DEF Rival, browser, table, edit, caches, chart, exports
<1>2. PICK d : calls' = calls \cup {d} /\ Sent(d, "save") /\ ~d.live
  <2>1. v \in Values
    BY ReportAssumption DEF Setting, Values
  <2> QED BY <2>1, RivalAdds DEF Rival
<1>3. Shape'
  BY <1>1, <1>2 DEF ReportInv, Shape, Sent
<1>4. OnItsScreen' /\ EditorInv' /\ SavesInv'
  BY <1>1, <1>2 DEF ReportInv, OnItsScreen, EditorInv, SavesInv, Sent
<1>5. FreshInv'
  BY <1>1, <1>2 DEF ReportInv, FreshInv, Current, Answering, Sent
<1>6. SpinInv'
  BY <1>1, <1>2 DEF ReportInv, SpinInv, SpinnersEnd, InFlight, Sent
<1>7. DirectoryInv'
  BY <1>1, <1>2 DEF ReportInv, DirectoryInv, Sent
<1> QED BY <1>3, <1>4, <1>5, <1>6, <1>7 DEF ReportInv

-----------------------------------------------------------------------------
(* What the server does.                                                    *)

\* d is c with a few of its fields changed.
LEMMA ServeReportInv ==
  ASSUME ReportInv, NEW c \in calls, ServeReport(c) PROVE ReportInv'
<1>1. UNCHANGED <<days, filter, route, report, loading, directory, people, waiting>>
      /\ UNCHANGED <<exporting, mine, job, copies, calm, editor, origin, meddled>>
  BY DEF ServeReport, browser, table, edit, caches, chart, exports, counts
<1> DEFINE r == [query |-> c.query, days |-> ExpectedDays(days[c.query.year])]
           d == [c EXCEPT !.served = TRUE, !.report = r]
<1>2. c.op = "report" /\ Shaped(c)
  BY DEF ServeReport, ReportInv, Shape
<1>3. r \in Reports
  <2>1. days[c.query.year] \in [Months -> MonthDays \cup {Null}]
    BY <1>2 DEF ReportInv, Shape, Shaped, Tables, Filters
  <2> QED BY <1>2, <2>1, ExpectedValues DEF Reports, Shaped
<1>4. /\ d.op = "report" /\ d.query = c.query /\ d.live = c.live /\ d.served /\ d.report = r
      /\ Shaped(d)
  BY <1>2, <1>3 DEF Shaped, CallFields
<1>5. calls' = (calls \ {c}) \cup {d}
  BY DEF ServeReport
<1>6. r.query = c.query /\ r.days = ExpectedDays(days[c.query.year])
  OBVIOUS
<1> HIDE DEF d, r
<1>7. Shape'
  BY <1>1, <1>4, <1>5 DEF ReportInv, Shape
<1>8. OnItsScreen' /\ EditorInv' /\ SavesInv'
  BY <1>1, <1>2, <1>4, <1>5 DEF ReportInv, OnItsScreen, EditorInv, SavesInv
<1>9. FreshInv'
  BY <1>1, <1>2, <1>3, <1>4, <1>5, <1>6 DEF ReportInv, FreshInv, Current, Answering
<1>10. SpinInv'
  BY <1>1, <1>2, <1>4, <1>5 DEF ReportInv, SpinInv, SpinnersEnd, InFlight
<1>11. DirectoryInv'
  BY <1>1, <1>4, <1>5 DEF ReportInv, DirectoryInv
<1> QED BY <1>7, <1>8, <1>9, <1>10, <1>11 DEF ReportInv

LEMMA LoadYearInv ==
  ASSUME ReportInv, NEW c \in calls, LoadYear(c) PROVE ReportInv'
<1>1. UNCHANGED <<days, filter, route, report, loading, directory, people, waiting>>
      /\ UNCHANGED <<exporting, mine, job, copies, calm, editor, origin, meddled>>
  BY DEF LoadYear, browser, table, edit, caches, chart, exports, counts
<1> DEFINE d == [c EXCEPT !.seen = days[c.query.year]]
<1>2. c.op = "save" /\ Shaped(c) /\ ~c.served
  BY DEF LoadYear, ReportInv, Shape
<1>3. /\ d.op = "save" /\ d.query = c.query /\ d.live = c.live /\ ~d.served
      /\ d.seen = days[c.query.year] /\ d.origin = c.origin /\ Shaped(d)
  BY <1>2 DEF Shaped, CallFields
<1>4. calls' = (calls \ {c}) \cup {d}
  BY DEF LoadYear
<1> HIDE DEF d
<1>5. Shape'
  BY <1>1, <1>3, <1>4 DEF ReportInv, Shape
<1>6. OnItsScreen' /\ EditorInv' /\ SavesInv'
  BY <1>1, <1>2, <1>3, <1>4 DEF ReportInv, OnItsScreen, EditorInv, SavesInv
<1>7. FreshInv'
  BY <1>1, <1>2, <1>3, <1>4 DEF ReportInv, FreshInv, Current, Answering
<1>8. SpinInv'
  BY <1>1, <1>2, <1>3, <1>4 DEF ReportInv, SpinInv, SpinnersEnd, InFlight
<1>9. DirectoryInv'
  BY <1>1, <1>3, <1>4 DEF ReportInv, DirectoryInv
<1> QED BY <1>5, <1>6, <1>7, <1>8, <1>9 DEF ReportInv

\* A save that read the year before another one was committed is overtaken, and
\* what it has read does not matter any more.
LEMMA CommitYearInv ==
  ASSUME ReportInv, NEW c \in calls, CommitYear(c) PROVE ReportInv'
<1>1. UNCHANGED <<filter, route, report, loading, directory, people, waiting>>
      /\ UNCHANGED <<exporting, mine, job, copies, calm, editor, origin, meddled>>
  BY DEF CommitYear, browser, table, edit, caches, chart, exports, counts
<1> DEFINE y == c.query.year
           Late(d) == d.op = "save" /\ d.seen # Null /\ d.query.year = y
           Mark(d) == [d EXCEPT !.overtaken = @ \/ Late(d)]
           e == [c EXCEPT !.served = TRUE]
<1>2. c.op = "save" /\ Shaped(c) /\ ~c.served
  BY DEF CommitYear, ReportInv, Shape
<1>3. /\ y \in Years /\ days \in Tables /\ days' = [days EXCEPT ![y] = Written(c, days[y])]
      /\ calls' = {Mark(d) : d \in calls \ {c}} \cup {d \in {e} : d.live}
  BY <1>2 DEF CommitYear, ReportInv, Shape, Shaped, Filters
<1>4. days' \in Tables
  <2>1. Written(c, days[y]) \in [Months -> MonthDays \cup {Null}]
    BY <1>2, <1>3 DEF Written, Shaped, Values, Tables
  <2> QED BY <1>3, <2>1 DEF Tables
<1>5. /\ e.op = "save" /\ e.query = c.query /\ e.live = c.live /\ e.served
      /\ e.origin = c.origin /\ Shaped(e)
  BY <1>2 DEF Shaped, CallFields
<1>6. ASSUME NEW d \in calls
      PROVE  LET m == Mark(d) IN
             /\ m.op = d.op /\ m.query = d.query /\ m.live = d.live /\ m.served = d.served
             /\ m.seen = d.seen /\ m.origin = d.origin /\ m.report = d.report /\ Shaped(m)
             /\ m.overtaken = (d.overtaken \/ Late(d))
  BY DEF ReportInv, Shape, Shaped, CallFields
<1> HIDE DEF Mark, e
<1>7. \A x \in calls' : (\E d \in calls \ {c} : x = Mark(d)) \/ (x = e /\ e.live)
  BY <1>3
<1>7a. \A d \in calls \ {c} : Mark(d) \in calls'
  BY <1>3
<1>8. Shape'
  BY <1>1, <1>4, <1>5, <1>6, <1>7 DEF ReportInv, Shape
<1>9. OnItsScreen'
  BY <1>1, <1>2, <1>5, <1>6, <1>7 DEF ReportInv, OnItsScreen
<1>10. EditorInv'
  BY <1>1, <1>2, <1>5, <1>6, <1>7 DEF ReportInv, EditorInv
<1>11. SavesInv'
  <2> SUFFICES ASSUME NEW x \in calls', x.op = "save", x.seen # Null, ~x.served, ~x.overtaken
               PROVE  x.seen = days'[x.query.year]
    BY DEF SavesInv
  <2>1. PICK d \in calls \ {c} : x = Mark(d)
    BY <1>5, <1>7
  <2>2. d.op = "save" /\ d.seen # Null /\ ~d.served /\ ~(d.overtaken \/ Late(d))
    BY <1>6, <2>1
  <2>2a. d.seen = days[d.query.year] /\ d.query.year # y
    BY <2>2 DEF ReportInv, SavesInv
  <2>3. days'[d.query.year] = days[d.query.year]
    BY <1>3, <2>2a DEF ReportInv, Shape, Shaped, Filters, Tables
  <2> QED BY <1>6, <2>1, <2>2a, <2>3
<1>12. FreshInv'
  <2> SUFFICES ASSUME calm PROVE FreshInv'
    BY <1>1 DEF FreshInv
  <2>1. ~meddled => \A x \in calls' : x.op = "save" => x.live
    BY <1>6, <1>7 DEF ReportInv, FreshInv
  <2>2. \A x \in calls' : x.op = "report" =>
           \E d \in calls \ {c} : /\ x = Mark(d) /\ d.op = "report" /\ x.query = d.query
                                  /\ x.served = d.served /\ x.report = d.report
    BY <1>5, <1>6, <1>7
  <2>3. meddled \/ Answering'
    <3> SUFFICES ASSUME ~meddled PROVE Answering'
      OBVIOUS
    <3>1. c.live
      BY <1>2 DEF ReportInv, FreshInv
    <3>2. e \in calls'
      BY <1>3, <1>5, <3>1
    <3> QED BY <1>5, <3>2 DEF Answering
  <2>4. \A r : Current(r) => Current(r)'
    BY <1>1, <2>3 DEF Current
  <2>5. \A x, z \in calls' : x.op = "report" /\ z.op = "report" => x = z
    BY <2>2 DEF ReportInv, FreshInv
  <2>6. \A x \in calls' : x.op = "report" =>
          x.query = filter /\ (x.served => Current(x.report))
    BY <2>2 DEF ReportInv, FreshInv
  <2>7. route = "report" /\ (\A x \in calls' : x.op # "report") => Current(report)
    BY <1>2, <1>6, <1>7a DEF ReportInv, FreshInv
  <2> QED BY <1>1, <2>1, <2>4, <2>5, <2>6, <2>7 DEF FreshInv
<1>13. SpinInv'
  <2>1. \A op \in {"report", "directory"} : InFlight(op) # {} => InFlight(op)' # {}
    <3> SUFFICES ASSUME NEW op \in {"report", "directory"}, NEW d \in InFlight(op)
                 PROVE  InFlight(op)' # {}
      OBVIOUS
    <3>1. Mark(d) \in InFlight(op)'
      BY <1>2, <1>6, <1>7a DEF InFlight
    <3> QED BY <3>1
  <2> QED BY <1>1, <2>1 DEF ReportInv, SpinInv, SpinnersEnd
<1>14. DirectoryInv'
  BY <1>1, <1>5, <1>6, <1>7 DEF ReportInv, DirectoryInv
<1> QED BY <1>8, <1>9, <1>10, <1>11, <1>12, <1>13, <1>14 DEF ReportInv

LEMMA DropInv ==
  ASSUME ReportInv, NEW c \in calls, Drop(c) PROVE ReportInv'
<1>1. UNCHANGED <<days, filter, route, report, loading, directory, people, waiting>>
      /\ UNCHANGED <<exporting, mine, job, copies, calm, editor, origin, meddled>>
      /\ calls' = calls \ {c}
  BY DEF Drop, browser, table, edit, caches, chart, exports, counts
<1>2. c.op = "save" /\ ~c.live
  BY DEF Drop, ReportInv, Shape, Shaped
<1>3. Shape'
  BY <1>1 DEF ReportInv, Shape
<1>4. OnItsScreen' /\ EditorInv' /\ SavesInv'
  BY <1>1 DEF ReportInv, OnItsScreen, EditorInv, SavesInv
<1>5. FreshInv'
  BY <1>1, <1>2 DEF ReportInv, FreshInv, Current, Answering
<1>6. SpinInv'
  BY <1>1, <1>2 DEF ReportInv, SpinInv, SpinnersEnd, InFlight
<1>7. DirectoryInv'
  BY <1>1 DEF ReportInv, DirectoryInv
<1> QED BY <1>3, <1>4, <1>5, <1>6, <1>7 DEF ReportInv

-----------------------------------------------------------------------------
(* What the browser gets.                                                   *)

LEMMA DeliverReportInv ==
  ASSUME ReportInv, NEW c \in calls, NEW ok \in BOOLEAN, DeliverReport(c, ok)
  PROVE  ReportInv'
<1>1. UNCHANGED <<days, filter, route, directory, people, waiting>>
      /\ UNCHANGED <<exporting, mine, job, copies, editor, origin, meddled>>
      /\ loading' = FALSE /\ calls' = calls \ {c} /\ calm' = (calm /\ ok)
      /\ report' = IF ok THEN c.report ELSE Null
  BY DEF DeliverReport, edit, caches, chart, exports, counts
<1>2. c.op = "report" /\ (ok => c.served)
  BY DEF DeliverReport, Answered
<1>3. Shape'
  BY <1>1, <1>2 DEF ReportInv, Shape, Shaped
<1>4. OnItsScreen' /\ EditorInv' /\ SavesInv'
  BY <1>1 DEF ReportInv, OnItsScreen, EditorInv, SavesInv
<1>5. FreshInv'
  BY <1>1, <1>2 DEF ReportInv, FreshInv, Current, Answering
<1>6. SpinInv'
  BY <1>1, <1>2 DEF ReportInv, SpinInv, SpinnersEnd, InFlight
<1>7. DirectoryInv'
  BY <1>1 DEF ReportInv, DirectoryInv
<1> QED BY <1>3, <1>4, <1>5, <1>6, <1>7 DEF ReportInv

LEMMA DeliverSaveInv ==
  ASSUME ReportInv, NEW c \in calls, NEW ok \in BOOLEAN, DeliverSave(c, ok)
  PROVE  ReportInv'
<1>1. UNCHANGED <<days, filter, route, report, directory, people, waiting>>
      /\ UNCHANGED <<exporting, mine, job, copies, editor, origin, meddled>>
  BY DEF DeliverSave, edit, caches, chart, exports, counts
<1>2. c.op = "save" /\ c.live /\ (ok => c.served) /\ route = "report"
  BY DEF DeliverSave, Answered, ReportInv, OnItsScreen
<1>3. CASE ~ok
  <2>1. /\ calls' = calls \ {c} /\ calm' = (calm /\ ~c.served) /\ loading' = loading
    BY <1>3 DEF DeliverSave
  <2>2. Shape'
    BY <1>1, <2>1 DEF ReportInv, Shape
  <2>3. OnItsScreen' /\ EditorInv' /\ SavesInv'
    BY <1>1, <2>1 DEF ReportInv, OnItsScreen, EditorInv, SavesInv
  <2>4. FreshInv'
    BY <1>1, <1>2, <2>1 DEF ReportInv, FreshInv, Current, Answering
  <2>5. SpinInv'
    BY <1>1, <1>2, <2>1 DEF ReportInv, SpinInv, SpinnersEnd, InFlight
  <2>6. DirectoryInv'
    BY <1>1, <2>1 DEF ReportInv, DirectoryInv
  <2> QED BY <2>2, <2>3, <2>4, <2>5, <2>6 DEF ReportInv
<1>4. CASE ok
  <2>1. /\ calls' = Plus(calls \ {c}, [Call("report") EXCEPT !.query = filter])
        /\ loading' = TRUE /\ calm' = (calm /\ InFlight("report") = {})
    BY <1>4 DEF DeliverSave, Fetch
  <2>2. PICK d : /\ calls' = (calls \ {c}) \cup {d}
                 /\ Sent(d, "report") /\ d.live /\ d.query = filter
    BY <2>1, ReportAdds DEF ReportInv, Shape
  <2>3. Shape'
    BY <1>1, <2>2 DEF ReportInv, Shape, Sent
  <2>4. OnItsScreen' /\ EditorInv' /\ SavesInv'
    BY <1>1, <1>2, <2>2 DEF ReportInv, OnItsScreen, EditorInv, SavesInv, Sent
  <2>5. FreshInv'
    <3> SUFFICES ASSUME calm' PROVE FreshInv'
      BY DEF FreshInv
    <3>1. calm /\ \A x \in calls : x.op # "report"
      BY <2>1 DEF InFlight, ReportInv, Shape, Shaped
    <3> QED BY <1>1, <2>2, <3>1 DEF ReportInv, FreshInv, Sent
  <2>6. SpinInv'
    BY <1>1, <1>2, <2>1, <2>2 DEF ReportInv, SpinInv, SpinnersEnd, InFlight, Sent
  <2>7. DirectoryInv'
    BY <1>1, <2>2 DEF ReportInv, DirectoryInv, Sent
  <2> QED BY <2>3, <2>4, <2>5, <2>6, <2>7 DEF ReportInv
<1> QED BY <1>3, <1>4

LEMMA DeliverDirectoryInv ==
  ASSUME ReportInv, NEW c \in calls, NEW ok \in BOOLEAN, DeliverDirectory(c, ok)
  PROVE  ReportInv'
<1>1. UNCHANGED <<days, filter, route, report, loading, calm, editor, origin>>
      /\ UNCHANGED <<exporting, mine, job, copies, meddled>>
      /\ waiting' = FALSE /\ calls' = calls \ {c}
      /\ directory' = (IF ok THEN Users ELSE directory)
      /\ people' = (IF ok /\ waiting THEN Users ELSE people)
  BY DEF DeliverDirectory, table, edit, exports, counts
<1>2. c.op = "directory" /\ c.live
  BY DEF DeliverDirectory, Answered
<1>3. Shape'
  BY <1>1 DEF ReportInv, Shape
<1>4. OnItsScreen' /\ EditorInv' /\ SavesInv'
  BY <1>1 DEF ReportInv, OnItsScreen, EditorInv, SavesInv
<1>5. FreshInv'
  BY <1>1, <1>2 DEF ReportInv, FreshInv, Current, Answering
<1>6. SpinInv'
  BY <1>1, <1>2 DEF ReportInv, SpinInv, SpinnersEnd, InFlight
<1>7. DirectoryInv'
  BY <1>1, <1>2 DEF ReportInv, DirectoryInv, SpinInv
<1> QED BY <1>3, <1>4, <1>5, <1>6, <1>7 DEF ReportInv

LEMMA DeliverPositionsInv ==
  ASSUME ReportInv, NEW c \in calls, NEW ok \in BOOLEAN, DeliverPositions(c, ok)
  PROVE  ReportInv'
<1>1. UNCHANGED <<days, filter, route, report, loading, calm, editor, origin>>
      /\ UNCHANGED <<directory, people, waiting, exporting, mine, job, copies, meddled>>
      /\ calls' = calls \ {c} /\ c.op = "positions"
  BY DEF DeliverPositions, Answered, table, edit, chart, exports, counts
<1>2. Shape'
  BY <1>1 DEF ReportInv, Shape
<1>3. OnItsScreen' /\ EditorInv' /\ SavesInv'
  BY <1>1 DEF ReportInv, OnItsScreen, EditorInv, SavesInv
<1>4. FreshInv'
  BY <1>1 DEF ReportInv, FreshInv, Current, Answering
<1>5. SpinInv'
  BY <1>1 DEF ReportInv, SpinInv, SpinnersEnd, InFlight
<1>6. DirectoryInv'
  BY <1>1 DEF ReportInv, DirectoryInv
<1> QED BY <1>2, <1>3, <1>4, <1>5, <1>6 DEF ReportInv

-----------------------------------------------------------------------------
(* The other screen: what belonged to the report is gone, and a save that is *)
(* still on its way will not be answered.                                   *)

LEMMA NavigateInv ==
  ASSUME ReportInv, NEW r \in {"report", "dashboard"}, Navigate(r) PROVE ReportInv'
<1> DEFINE Old(w) == [w EXCEPT !.live = (w.op # "save") /\ @]
           kept == {Old(c) : c \in {w \in calls : w.op # "report" /\ ~(w.op = "save" /\ w.served)}}
           loads == IF r = "dashboard" /\ directory = {} /\ InFlight("directory") = {}
                      THEN Plus(kept, Call("directory")) ELSE kept
<1>1. /\ UNCHANGED <<days, editor, origin, directory, meddled>>
      /\ editor' = Null /\ route' = r
      /\ filter' = FirstFilter /\ report' = Null /\ loading' = (r = "report")
      /\ people' = IF r = "dashboard" THEN directory ELSE {}
      /\ waiting' = (r = "dashboard" /\ directory = {})
      /\ exporting' = FALSE /\ mine' = Null /\ UNCHANGED <<job, copies>>
  BY DEF Navigate, Act, edit
<1>2. calls' = IF r = "dashboard" /\ asked THEN loads ELSE ScreenCalls(loads, r)
  BY DEF Navigate
<1>3. calm' = ({c \in kept : c.op = "save"} = {})
  BY DEF Navigate
<1>4. ASSUME NEW w \in calls
      PROVE  LET c == Old(w) IN
             /\ c.op = w.op /\ c.query = w.query /\ c.seen = w.seen /\ c.overtaken = w.overtaken
             /\ c.served = w.served /\ c.live = ((w.op # "save") /\ w.live)
             /\ Shaped(c)
  BY DEF ReportInv, Shape, Shaped, CallFields
<1>5. \A c \in kept : \E w \in calls :
         c = Old(w) /\ w.op # "report" /\ ~(w.op = "save" /\ w.served)
  OBVIOUS
<1>6. \A w \in calls : w.op = "directory" => Old(w) \in kept
  OBVIOUS
<1>7. \/ /\ loads = kept
         /\ ~(r = "dashboard" /\ directory = {} /\ InFlight("directory") = {})
      \/ /\ r = "dashboard" /\ directory = {} /\ InFlight("directory") = {}
         /\ \E d : loads = kept \cup {d} /\ Sent(d, "directory") /\ d.live
  <2> HIDE DEF kept
  <2> QED BY CallAdds
<1> HIDE DEF Old, kept, loads
<1>8. \/ calls' = loads /\ r = "dashboard"
      \/ \E e : /\ calls' = loads \cup {e} /\ e.live /\ e.query = FirstFilter
                /\ \/ r = "report" /\ Sent(e, "report")
                   \/ r = "dashboard" /\ Sent(e, "positions")
  <2>1. CASE r = "report"
    <3>1. calls' = Plus(loads, Call("report"))
      BY <1>2, <2>1 DEF ScreenCalls
    <3>2. PICK e : /\ Plus(loads, Call("report")) = loads \cup {e}
                   /\ Sent(e, "report") /\ e.live /\ e.query = FirstFilter
      BY CallAdds
    <3> QED BY <2>1, <3>1, <3>2
  <2>2. CASE r = "dashboard" /\ ~asked
    <3>1. calls' = Plus(loads, Call("positions"))
      BY <1>2, <2>2 DEF ScreenCalls
    <3>2. PICK e : /\ Plus(loads, Call("positions")) = loads \cup {e}
                   /\ Sent(e, "positions") /\ e.live /\ e.query = FirstFilter
      BY CallAdds
    <3> QED BY <2>2, <3>1, <3>2
  <2> QED BY <1>2, <2>1, <2>2
<1>9. \A c \in loads : \/ c \in kept
                       \/ /\ Sent(c, "directory") /\ r = "dashboard" /\ directory = {}
                          /\ InFlight("directory") = {}
  BY <1>7
<1>10. \A c \in calls' : \/ c \in loads
                         \/ Sent(c, "report") /\ r = "report" /\ c.query = FirstFilter
                         \/ Sent(c, "positions")
  BY <1>8
<1>11. kept \subseteq loads /\ loads \subseteq calls'
  BY <1>7, <1>8
<1>12. InFlight("directory") = {} => \A c \in calls : c.op # "directory"
  BY DEF InFlight, ReportInv, Shape, Shaped
<1>13. Shape'
  <2>1. \A c \in calls' : Shaped(c)
    BY <1>4, <1>5, <1>9, <1>10 DEF Sent
  <2> QED BY <1>1, <2>1, Bounds DEF ReportInv, Shape
<1>14. OnItsScreen' /\ EditorInv' /\ SavesInv'
  <2>1. \A c \in calls' : c.op = "report" => r = "report"
    BY <1>4, <1>5, <1>9, <1>10 DEF Sent
  <2>2. \A c \in calls' : c.op = "save" => /\ ~c.live
                                           /\ c.seen # Null /\ ~c.served /\ ~c.overtaken =>
                                                c.seen = days[c.query.year]
    <3> SUFFICES ASSUME NEW c \in calls', c.op = "save"
                 PROVE  /\ ~c.live
                        /\ c.seen # Null /\ ~c.served /\ ~c.overtaken =>
                             c.seen = days[c.query.year]
      OBVIOUS
    <3>1. PICK w \in calls : c = Old(w)
      BY <1>5, <1>9, <1>10 DEF Sent
    <3>2. w.op = "save"
      BY <1>4, <3>1
    <3> QED BY <1>4, <3>1, <3>2 DEF ReportInv, SavesInv
  <2> QED BY <1>1, <2>1, <2>2 DEF OnItsScreen, EditorInv, SavesInv
<1>15. FreshInv'
  <2> SUFFICES ASSUME calm' PROVE FreshInv'
    BY DEF FreshInv
  <2>1. \A c \in kept : c.op # "save" /\ c.op # "report"
    BY <1>3, <1>4, <1>5
  <2>2. \A c \in loads : c.op # "save" /\ c.op # "report"
    BY <1>9, <2>1 DEF Sent
  <2>3. \A c \in calls' : c.op # "save"
    BY <1>10, <2>2 DEF Sent
  <2>4. \A c, d \in calls' : c.op = "report" /\ d.op = "report" => c = d
    BY <1>8, <2>2 DEF Sent
  <2>5. \A c \in calls' : c.op = "report" => c.query = FirstFilter /\ ~c.served
    BY <1>10, <2>2 DEF Sent
  <2>6. r = "report" => \E c \in calls' : c.op = "report"
    BY <1>8 DEF Sent
  <2> QED BY <1>1, <2>3, <2>4, <2>5, <2>6 DEF FreshInv
<1>16. SpinInv'
  <2>1. r = "report" => InFlight("report")' # {}
    BY <1>8 DEF InFlight, Sent
  <2>2. r = "dashboard" /\ directory = {} => InFlight("directory")' # {}
    <3> SUFFICES ASSUME r = "dashboard", directory = {}
                 PROVE  \E c \in loads : c.op = "directory" /\ c.live
      BY <1>11 DEF InFlight
    <3>1. CASE InFlight("directory") = {}
      BY <1>7, <3>1 DEF Sent
    <3>2. CASE InFlight("directory") # {}
      <4>1. PICK w \in calls : w.op = "directory" /\ w.live
        BY <3>2 DEF InFlight
      <4>2. Old(w) \in loads /\ Old(w).op = "directory" /\ Old(w).live
        BY <1>4, <1>6, <1>11, <4>1
      <4> QED BY <4>2
    <3> QED BY <3>1, <3>2
  <2>3. /\ job' \in [Exports -> {"none", "import", "draw"}]
        /\ copies' = {e \in Exports : job'[e] = "draw"}
    BY <1>1 DEF ReportInv, SpinInv, SpinnersEnd
  <2> QED BY <1>1, <2>1, <2>2, <2>3 DEF SpinInv, SpinnersEnd
<1>17. DirectoryInv'
  <2>1. \A c \in calls' : c.op = "directory" => c \in loads
    BY <1>10 DEF Sent
  <2>2. \A c \in kept : c.op = "directory" => \E w \in calls : w.op = "directory" /\ c = Old(w)
    BY <1>4, <1>5
  <2>3. \A c, d \in kept : c.op = "directory" /\ d.op = "directory" => c = d
    BY <2>2 DEF ReportInv, DirectoryInv
  <2>4. \A c, d \in calls' : c.op = "directory" /\ d.op = "directory" => c = d
    BY <1>7, <1>12, <2>1, <2>2, <2>3
  <2>5. \A c \in calls' : c.op = "directory" => directory = {}
    BY <1>9, <2>1, <2>2 DEF ReportInv, DirectoryInv
  <2>6. directory \subseteq Users
    BY DEF ReportInv, DirectoryInv
  <2> QED BY <1>1, <2>4, <2>5, <2>6 DEF DirectoryInv
<1> QED BY <1>13, <1>14, <1>15, <1>16, <1>17 DEF ReportInv

-----------------------------------------------------------------------------
(* All steps, and what follows.                                             *)

LEMMA NextInv == ReportInv /\ [Next]_vars => ReportInv'
<1> SUFFICES ASSUME ReportInv, [Next]_vars PROVE ReportInv'
  OBVIOUS
<1>1. CASE Click
  <2>1. CASE SelectUsers \/ Expand \/ (\E s \in PageSizes : SetPageSize(s))
               \/ (\E p \in 0..(page + Cardinality(Users)) : SetPage(p))
    <3>1. UNCHANGED shown /\ UNCHANGED <<editor, origin, directory, people, waiting>>
          /\ UNCHANGED <<exporting, mine, job, copies>>
      BY <2>1 DEF SelectUsers, Expand, SetPageSize, SetPage, Looking, Act, shown, edit, caches,
                  chart, exports
    <3> QED BY <3>1, LookInv
  <2> QED BY <1>1, <2>1, NavigateInv, SetFilterInv, OpenEditorInv, CloseEditorInv,
             SaveWorkingDaysInv, SetValueInv, ExportPngInv DEF Click
<1>2. CASE \E e \in Exports, ok \in BOOLEAN : ContinueExport(e, ok)
  BY <1>2, ContinueExportInv
<1>3. CASE \E y \in Years, v \in Rivals : Rival(y, v)
  BY <1>3, RivalInv
<1>4. CASE \E c \in calls : Serve(c)
  BY <1>4, ServeReportInv, LoadYearInv, CommitYearInv, DropInv DEF Serve
<1>5. CASE \E c \in calls, ok \in BOOLEAN : Deliver(c, ok)
  BY <1>5, DeliverReportInv, DeliverSaveInv, DeliverDirectoryInv, DeliverPositionsInv
     DEF Deliver
<1>6. CASE UNCHANGED vars
  <2>1. UNCHANGED shown /\ UNCHANGED <<editor, origin, directory, people, waiting>>
        /\ UNCHANGED <<exporting, mine, job, copies>>
    BY <1>6 DEF vars, shown, table, edit, caches, chart, exports, counts
  <2> QED BY <2>1, LookInv
<1> QED BY <1>1, <1>2, <1>3, <1>4, <1>5, <1>6 DEF Next

\* The inductive invariant of the two screens: what they show, or what they have
\* asked for, is what the filters select and what the database had when it answered
\* (yearly-report.component.ts:196-241, 407-425; dashboard.component.ts:144-319).
THEOREM ReportInvariant == Spec => []ReportInv
<1>1. Init => ReportInv
  BY InitInv
<1>2. ReportInv /\ [Next]_vars => ReportInv'
  BY NextInv
<1> QED BY <1>1, <1>2, PTL DEF Spec

\* A spinner turns only while something is under way, and the copies of the chart in
\* the document are those of the exports that draw one: each goes with its own export,
\* also when that fails or outlives its dashboard (yearly-report.component.ts:220-232;
\* dashboard.component.ts:243-319).
THEOREM SpinnersEndAlways == Spec => []SpinnersEnd
<1>1. ReportInv => SpinnersEnd
  BY DEF ReportInv, SpinInv
<1> QED BY <1>1, ReportInvariant, PTL

\* The days of a save come from the year they are saved to, unless the report was
\* under way, or failed, when the editor was opened
\* (working-days-editor.component.ts:133-136).
THEOREM DaysComeFromTheirYearAlways == Spec => []DaysComeFromTheirYear
<1>1. ReportInv => DaysComeFromTheirYear
  BY DEF ReportInv, EditorInv, DaysComeFromTheirYear, InFlight
<1> QED BY <1>1, ReportInvariant, PTL

\* A save that is committed leaves its year as it was sent, unless another save
\* of the year came between its read and its commit (working_day_service.py:36-60).
THEOREM SavesAreWholeAlways == Spec => SavesAreWhole
<1> DEFINE Whole == \A c \in calls : CommitYear(c) =>
                      c.overtaken \/ days'[c.query.year] = c.months
<1>1. ReportInv /\ [Next]_vars => [Whole]_vars
  <2> SUFFICES ASSUME ReportInv, NEW c \in calls, CommitYear(c), ~c.overtaken
               PROVE  days'[c.query.year] = c.months
    OBVIOUS
  <2>1. c.seen = days[c.query.year]
    BY DEF CommitYear, ReportInv, SavesInv
  <2>2. /\ c.query.year \in Years /\ days \in Tables /\ c.months \in Values
    BY DEF ReportInv, Shape, Shaped, Filters
  <2>3. days'[c.query.year] = Written(c, days[c.query.year])
    BY <2>2 DEF CommitYear, Tables
  <2> QED BY <2>1, <2>2, <2>3 DEF Written, Values
<1> QED BY <1>1, ReportInvariant, PTL DEF Spec, SavesAreWhole

-----------------------------------------------------------------------------
(* Sums over finite sets.                                                   *)

LEMMA SmallestOf ==
  ASSUME NEW T \in SUBSET Nat, T # {}
  PROVE  \E k \in T : \A j \in T : k <= j
<1> DEFINE R == OpToRel(<, Nat)
<1>1. IsWellFoundedOn(R, Nat)
  BY NatLessThanWellFounded
<1>2. PICK k \in T : \A j \in T : <<j, k>> \notin R
  <2> HIDE DEF R
  <2> QED BY <1>1, WFMin
<1>3. ASSUME NEW j \in T PROVE k <= j
  <2>1. ~(j < k)
    BY <1>2 DEF OpToRel
  <2> QED BY <2>1
<1> QED BY <1>3

LEMMA AllNumbers ==
  ASSUME NEW T \in SUBSET Nat, 0 \in T, \A n \in T : n + 1 \in T
  PROVE  T = Nat
<1> SUFFICES ASSUME Nat \ T # {} PROVE FALSE
  OBVIOUS
<1>1. PICK k \in Nat \ T : \A j \in Nat \ T : k <= j
  BY SmallestOf
<1>2. k # 0 /\ k - 1 \in Nat /\ k - 1 \notin Nat \ T
  BY <1>1
<1> QED BY <1>1, <1>2

\* The member a fold takes first.
Pick(s) == CHOOSE x \in s : TRUE

LEMMA PickSmaller ==
  ASSUME NEW S, IsFiniteSet(S), NEW s \in SUBSET S, s # {}
  PROVE  /\ Pick(s) \in s /\ Pick(s) \in S /\ s \ {Pick(s)} \in SUBSET S
         /\ Cardinality(s) \in Nat /\ Cardinality(s \ {Pick(s)}) \in Nat
         /\ Cardinality(s \ {Pick(s)}) = Cardinality(s) - 1
<1>1. Pick(s) \in s
  BY DEF Pick
<1>2. IsFiniteSet(s)
  BY FS_Subset
<1> HIDE DEF Pick
<1> QED BY <1>1, <1>2, FS_RemoveElement, FS_CardinalityType

LEMMA AllSubsets ==
  ASSUME NEW S, IsFiniteSet(S), NEW G, {} \in G,
         \A s \in SUBSET S : s # {} /\ s \ {Pick(s)} \in G => s \in G
  PROVE  \A s \in SUBSET S : s \in G
<1> DEFINE T == {n \in Nat : \A s \in SUBSET S : Cardinality(s) = n => s \in G}
<1>1. 0 \in T
  <2>1. \A s \in SUBSET S : Cardinality(s) = 0 => s = {}
    BY FS_Subset, FS_EmptySet
  <2> QED BY <2>1
<1>2. ASSUME NEW n \in T PROVE n + 1 \in T
  <2> SUFFICES ASSUME NEW s \in SUBSET S, Cardinality(s) = n + 1 PROVE s \in G
    OBVIOUS
  <2>1. s # {}
    BY FS_EmptySet
  <2>2. s \ {Pick(s)} \in G
    BY <2>1, PickSmaller
  <2> QED BY <2>1, <2>2
<1> HIDE DEF T
<1>3. T = Nat
  <2>1. T \in SUBSET Nat
    BY DEF T
  <2> QED BY <1>1, <1>2, <2>1, AllNumbers
<1>4. ASSUME NEW s \in SUBSET S PROVE Cardinality(s) \in T
  BY <1>3, FS_Subset, FS_CardinalityType
<1> QED BY <1>4 DEF T

\* g[s] is the sum of v over the subset s of S, taken one member at a time.
IsFold(g, v, S) ==
  g = [s \in SUBSET S |-> IF s = {} THEN 0 ELSE v[Pick(s)] + g[s \ {Pick(s)}]]

SumOf(v, S) == (CHOOSE g : IsFold(g, v, S))[S]

LEMMA FoldUnique ==
  ASSUME NEW S, IsFiniteSet(S), NEW v, NEW g, NEW h, IsFold(g, v, S), IsFold(h, v, S)
  PROVE  g = h
<1> DEFINE G == {s \in SUBSET S : g[s] = h[s]}
<1>1. {} \in G
  BY DEF IsFold
<1>2. ASSUME NEW s \in SUBSET S, s # {}, s \ {Pick(s)} \in G PROVE s \in G
  BY <1>2 DEF IsFold
<1> HIDE DEF G
<1>3. \A s \in SUBSET S : s \in G
  BY <1>1, <1>2, AllSubsets
<1>4. \A s \in SUBSET S : g[s] = h[s]
  BY <1>3 DEF G
<1>5. g = [s \in SUBSET S |-> g[s]] /\ h = [s \in SUBSET S |-> h[s]]
  BY DEF IsFold
<1> QED BY <1>4, <1>5

LEMMA FoldExists ==
  ASSUME NEW S, IsFiniteSet(S), NEW v \in [S -> Int]
  PROVE  \E g \in [SUBSET S -> Int] : IsFold(g, v, S)
<1> DEFINE Body(g, s) == IF s = {} THEN 0 ELSE v[Pick(s)] + g[s \ {Pick(s)}]
           T == {n \in Nat : \E g \in [SUBSET S -> Int] :
                   \A s \in SUBSET S : Cardinality(s) <= n => g[s] = Body(g, s)}
<1>0. \A s \in SUBSET S : Cardinality(s) \in Nat
  BY FS_Subset, FS_CardinalityType
<1>1. 0 \in T
  <2>1. \A s \in SUBSET S : Cardinality(s) <= 0 => s = {}
    BY <1>0, FS_Subset, FS_EmptySet
  <2>2. [s \in SUBSET S |-> 0] \in [SUBSET S -> Int]
    OBVIOUS
  <2> QED BY <2>1, <2>2
<1>2. ASSUME NEW n \in T PROVE n + 1 \in T
  <2>1. PICK g \in [SUBSET S -> Int] :
          \A s \in SUBSET S : Cardinality(s) <= n => g[s] = Body(g, s)
    OBVIOUS
  <2> DEFINE h == [s \in SUBSET S |-> IF Cardinality(s) <= n THEN g[s] ELSE Body(g, s)]
  <2>2. ASSUME NEW s \in SUBSET S PROVE Body(g, s) \in Int
    <3>1. CASE s # {}
      <4>1. Pick(s) \in S /\ s \ {Pick(s)} \in SUBSET S
        BY <3>1, PickSmaller
      <4>2. v[Pick(s)] \in Int /\ g[s \ {Pick(s)}] \in Int
        BY <4>1
      <4> QED BY <3>1, <4>2
    <3> QED BY <3>1
  <2>3. h \in [SUBSET S -> Int]
    BY <2>2
  <2>4. ASSUME NEW s \in SUBSET S, Cardinality(s) <= n + 1 PROVE h[s] = Body(h, s)
    <3>1. h[s] = Body(g, s)
      BY <2>1
    <3>2. CASE s = {}
      BY <3>1, <3>2
    <3>3. CASE s # {}
      <4>1. s \ {Pick(s)} \in SUBSET S /\ Cardinality(s \ {Pick(s)}) <= n
        BY <2>4, <3>3, PickSmaller
      <4>2. h[s \ {Pick(s)}] = g[s \ {Pick(s)}]
        BY <4>1
      <4> QED BY <3>1, <3>3, <4>2
    <3> QED BY <3>2, <3>3
  <2> HIDE DEF h
  <2>5. \A s \in SUBSET S : Cardinality(s) <= n + 1 => h[s] = Body(h, s)
    BY <2>4
  <2> HIDE DEF Body
  <2> QED BY <2>3, <2>5
<1>3. T = Nat
  <2>1. T \in SUBSET Nat
    OBVIOUS
  <2> HIDE DEF T
  <2> QED BY <1>1, <1>2, <2>1, AllNumbers
<1>4. Cardinality(S) \in T
  BY <1>3, FS_CardinalityType
<1>5. PICK g \in [SUBSET S -> Int] :
        \A s \in SUBSET S : Cardinality(s) <= Cardinality(S) => g[s] = Body(g, s)
  BY <1>4
<1>6. \A s \in SUBSET S : g[s] = Body(g, s)
  BY <1>5, FS_Subset
<1>7. g = [s \in SUBSET S |-> Body(g, s)]
  BY <1>6
<1> QED BY <1>7 DEF IsFold

\* What the fold that was chosen does.
Sums(g, v, S) ==
  /\ g \in [SUBSET S -> Int] /\ SumOf(v, S) = g[S] /\ g[{}] = 0
  /\ \A s \in SUBSET S : s # {} => g[s] = v[Pick(s)] + g[s \ {Pick(s)}]

LEMMA FoldSteps ==
  ASSUME NEW S, IsFiniteSet(S), NEW v \in [S -> Int]
  PROVE  \E g : IsFold(g, v, S) /\ Sums(g, v, S)
<1>1. PICK g \in [SUBSET S -> Int] : IsFold(g, v, S)
  BY FoldExists
<1>2. IsFold(CHOOSE h : IsFold(h, v, S), v, S)
  BY <1>1
<1>3. SumOf(v, S) = g[S]
  BY <1>1, <1>2, FoldUnique DEF SumOf
<1>4. /\ g[{}] = 0
      /\ \A s \in SUBSET S : s # {} => g[s] = v[Pick(s)] + g[s \ {Pick(s)}]
  BY <1>1 DEF IsFold
<1> QED BY <1>1, <1>3, <1>4 DEF Sums

LEMMA SumsAdd ==
  ASSUME NEW S, IsFiniteSet(S), NEW v \in [S -> Int], NEW w \in [S -> Int],
         NEW z \in [S -> Int], \A x \in S : z[x] = v[x] + w[x]
  PROVE  SumOf(z, S) = SumOf(v, S) + SumOf(w, S)
<1>1. PICK f : Sums(f, v, S)
  BY FoldSteps
<1>2. PICK g : Sums(g, w, S)
  BY FoldSteps
<1>3. PICK h : Sums(h, z, S)
  BY FoldSteps
<1> DEFINE G == {s \in SUBSET S : h[s] = f[s] + g[s]}
<1>4. {} \in G
  BY <1>1, <1>2, <1>3 DEF Sums
<1>5. ASSUME NEW s \in SUBSET S, s # {}, s \ {Pick(s)} \in G PROVE s \in G
  <2>1. Pick(s) \in S
    BY <1>5, PickSmaller
  <2>2. s \ {Pick(s)} \in SUBSET S
    OBVIOUS
  <2>3. /\ f[s] = v[Pick(s)] + f[s \ {Pick(s)}] /\ f[s \ {Pick(s)}] \in Int
        /\ g[s] = w[Pick(s)] + g[s \ {Pick(s)}] /\ g[s \ {Pick(s)}] \in Int
        /\ h[s] = z[Pick(s)] + h[s \ {Pick(s)}]
    BY <1>1, <1>2, <1>3, <1>5, <2>2 DEF Sums
  <2>4. h[s \ {Pick(s)}] = f[s \ {Pick(s)}] + g[s \ {Pick(s)}]
    BY <1>5
  <2> HIDE DEF G
  <2>5. v[Pick(s)] \in Int /\ w[Pick(s)] \in Int /\ z[Pick(s)] = v[Pick(s)] + w[Pick(s)]
    BY <2>1
  <2>6. h[s] = f[s] + g[s]
    BY <2>3, <2>4, <2>5
  <2> QED BY <1>5, <2>6 DEF G
<1> HIDE DEF G
<1>6. S \in G
  BY <1>4, <1>5, AllSubsets
<1> QED BY <1>1, <1>2, <1>3, <1>6 DEF G, Sums

LEMMA SumIsNumber ==
  ASSUME NEW S, IsFiniteSet(S), NEW v \in [S -> Int]
  PROVE  SumOf(v, S) \in Int
<1>1. PICK g : Sums(g, v, S)
  BY FoldSteps
<1> QED BY <1>1 DEF Sums

LEMMA SumOfZeros ==
  ASSUME NEW S, IsFiniteSet(S), NEW z \in [S -> Int], \A x \in S : z[x] = 0
  PROVE  SumOf(z, S) = 0
<1>1. \A x \in S : z[x] = z[x] + z[x]
  OBVIOUS
<1>2. SumOf(z, S) = SumOf(z, S) + SumOf(z, S)
  BY <1>1, SumsAdd
<1>3. SumOf(z, S) \in Int
  BY SumIsNumber
<1> QED BY <1>2, <1>3

\* Adding up rows or columns first makes no difference.
LEMMA SumsExchange ==
  ASSUME NEW R, IsFiniteSet(R), NEW M, IsFiniteSet(M), NEW h \in [R -> [M -> Int]]
  PROVE  SumOf([u \in R |-> SumOf(h[u], M)], R)
           = SumOf([m \in M |-> SumOf([u \in R |-> h[u][m]], R)], M)
<1> DEFINE rows == [u \in R |-> SumOf(h[u], M)]
           Column(m) == [u \in R |-> h[u][m]]
           F(m) == CHOOSE f : Sums(f, Column(m), R)
           Part(s) == [m \in M |-> F(m)[s]]
           totals == [m \in M |-> SumOf(Column(m), R)]
<1>1. rows \in [R -> Int] /\ \A u \in R : rows[u] = SumOf(h[u], M) /\ h[u] \in [M -> Int]
  <2>1. \A u \in R : h[u] \in [M -> Int]
    OBVIOUS
  <2>2. \A u \in R : SumOf(h[u], M) \in Int
    BY <2>1, SumIsNumber
  <2> QED BY <2>1, <2>2
<1>2. \A m \in M : Column(m) \in [R -> Int] /\ \A u \in R : Column(m)[u] = h[u][m]
  OBVIOUS
<1>2a. totals = [m \in M |-> SumOf(Column(m), R)]
  OBVIOUS
<1> HIDE DEF rows, Column, totals
<1>3. ASSUME NEW m \in M PROVE Sums(F(m), Column(m), R)
  <2>1. \E f : Sums(f, Column(m), R)
    BY <1>2, FoldSteps
  <2> QED BY <2>1
<1> HIDE DEF F
<1>4. \A s \in SUBSET R : Part(s) \in [M -> Int] /\ \A m \in M : Part(s)[m] = F(m)[s]
  BY <1>3 DEF Sums
<1> HIDE DEF Part
<1>5. PICK g : Sums(g, rows, R)
  BY <1>1, FoldSteps
<1> DEFINE G == {s \in SUBSET R : g[s] = SumOf(Part(s), M)}
<1>6. {} \in G
  <2>1. \A m \in M : Part({})[m] = 0
    BY <1>3, <1>4 DEF Sums
  <2>2. SumOf(Part({}), M) = 0
    BY <1>4, <2>1, SumOfZeros
  <2> QED BY <1>5, <2>2 DEF Sums
<1>7. ASSUME NEW s \in SUBSET R, s # {}, s \ {Pick(s)} \in G PROVE s \in G
  <2> DEFINE x == Pick(s)
             t == s \ {Pick(s)}
  <2>1. x \in R /\ t \in SUBSET R
    BY <1>7, PickSmaller
  <2>2. g[t] = SumOf(Part(t), M) /\ g[s] = rows[x] + g[t]
    BY <1>5, <1>7 DEF Sums
  <2>3. ASSUME NEW m \in M PROVE Part(s)[m] = h[x][m] + Part(t)[m]
    <3>1. F(m)[s] = Column(m)[x] + F(m)[t]
      BY <1>3, <1>7 DEF Sums
    <3>2. Column(m)[x] = h[x][m]
      BY <1>2, <2>1
    <3>3. Part(s)[m] = F(m)[s] /\ Part(t)[m] = F(m)[t]
      BY <1>4, <2>1
    <3> QED BY <3>1, <3>2, <3>3
  <2> HIDE DEF x, t, G
  <2>4. h[x] \in [M -> Int] /\ Part(t) \in [M -> Int] /\ Part(s) \in [M -> Int]
    BY <1>1, <1>4, <2>1
  <2>5. SumOf(Part(s), M) = SumOf(h[x], M) + SumOf(Part(t), M)
    BY <2>3, <2>4, SumsAdd
  <2>6. g[s] = SumOf(Part(s), M)
    BY <1>1, <2>1, <2>2, <2>5
  <2> QED BY <2>6 DEF G
<1>8. R \in G
  <2> HIDE DEF G
  <2> QED BY <1>6, <1>7, AllSubsets
<1>9. Part(R) = totals
  <2>1. \A m \in M : Part(R)[m] = totals[m]
    BY <1>3, <1>4 DEF Sums, totals
  <2>2. Part(R) = [m \in M |-> Part(R)[m]] /\ totals = [m \in M |-> totals[m]]
    BY <1>4 DEF totals
  <2> QED BY <2>1, <2>2
<1>10. SumOf(rows, R) = g[R]
  BY <1>5 DEF Sums
<1>11. SumOf(rows, R) = SumOf(totals, M)
  BY <1>8, <1>9, <1>10
<1> QED BY <1>11 DEF rows, totals, Column

\* A sum that was folded over values of its own is the sum of these values.
LEMMA FoldIsSum ==
  ASSUME NEW S, IsFiniteSet(S), NEW v \in [S -> Int], NEW g, IsFold(g, v, S)
  PROVE  g[S] = SumOf(v, S)
<1>1. PICK f : IsFold(f, v, S) /\ Sums(f, v, S)
  BY FoldSteps
<1>2. f = g
  BY <1>1, FoldUnique
<1> QED BY <1>1, <1>2 DEF Sums

-----------------------------------------------------------------------------
(* The totals of the report.                                                *)

HoursOf(u) == [m \in Months |-> Hours(u, m)]

LEMMA HoursAreNumbers ==
  ASSUME report \in Reports
  PROVE  /\ IsFiniteSet(Months) /\ IsFiniteSet(VisibleRows) /\ VisibleRows \subseteq Users
         /\ \A u \in Users, m \in Months : Hours(u, m) \in Nat
         /\ \A u \in VisibleRows : HoursOf(u) \in [Months -> Int]
<1>1. VisibleRows \subseteq Users
  BY DEF VisibleRows, Rows
<1>2. IsFiniteSet(VisibleRows) /\ IsFiniteSet(Months)
  BY <1>1, ReportAssumption, FS_Subset DEF Setting
<1>3. report.query.year \in Years
  BY DEF Reports, Filters
<1>4. \A u \in Users, m \in Months : Hours(u, m) \in Nat
  <2>1. \A u \in Users : Worked[u] \in [Years -> [Months -> Nat]]
    BY ReportAssumption DEF Setting
  <2>2. \A u \in Users : Worked[u][report.query.year] \in [Months -> Nat]
    BY <1>3, <2>1
  <2> QED BY <2>2 DEF Hours
<1> QED BY <1>1, <1>2, <1>4 DEF HoursOf

LEMMA YearTotalIsSum ==
  ASSUME report \in Reports, NEW u \in VisibleRows
  PROVE  YearTotal(u) = SumOf(HoursOf(u), Months)
<1> DEFINE P(g) == g = [s \in SUBSET Months |-> IF s = {} THEN 0 ELSE
                          LET x == CHOOSE x \in s : TRUE IN Hours(u, x) + g[s \ {x}]]
<1>1. YearTotal(u) = (CHOOSE g : P(g))[Months]
  BY DEF YearTotal, MapThenSumSet, MapThenFoldSet
<1>2. \A s \in SUBSET Months : s # {} => Pick(s) \in Months
  BY DEF Pick
<1>3. ASSUME NEW g PROVE P(g) <=> IsFold(g, HoursOf(u), Months)
  BY <1>2 DEF IsFold, Pick, HoursOf
<1> HIDE DEF P
<1>4. \E g : P(g)
  BY <1>3, FoldExists, HoursAreNumbers
<1>5. P(CHOOSE g : P(g))
  BY <1>4
<1> QED BY <1>1, <1>3, <1>5, FoldIsSum, HoursAreNumbers

LEMMA ColumnTotalIsSum ==
  ASSUME report \in Reports, NEW m \in Months
  PROVE  ColumnTotal(m) = SumOf([u \in VisibleRows |-> Hours(u, m)], VisibleRows)
<1> DEFINE v == [u \in VisibleRows |-> Hours(u, m)]
           P(g) == g = [s \in SUBSET VisibleRows |-> IF s = {} THEN 0 ELSE
                          LET x == CHOOSE x \in s : TRUE IN Hours(x, m) + g[s \ {x}]]
<1>1. ColumnTotal(m) = (CHOOSE g : P(g))[VisibleRows]
  BY DEF ColumnTotal, MapThenSumSet, MapThenFoldSet
<1>2. \A s \in SUBSET VisibleRows : s # {} => Pick(s) \in VisibleRows
  BY DEF Pick
<1>3. ASSUME NEW g PROVE P(g) <=> IsFold(g, v, VisibleRows)
  BY <1>2 DEF IsFold, Pick
<1>4. v \in [VisibleRows -> Int]
  BY HoursAreNumbers
<1> HIDE DEF P, v
<1>5. \E g : P(g)
  BY <1>3, <1>4, FoldExists, HoursAreNumbers
<1>6. P(CHOOSE g : P(g))
  BY <1>5
<1>7. ColumnTotal(m) = SumOf(v, VisibleRows)
  BY <1>1, <1>3, <1>4, <1>6, FoldIsSum, HoursAreNumbers
<1> QED BY <1>7 DEF v

LEMMA GrandTotalIsSum ==
  ASSUME report \in Reports
  PROVE  GrandTotal = SumOf([u \in VisibleRows |-> YearTotal(u)], VisibleRows)
<1> DEFINE v == [u \in VisibleRows |-> YearTotal(u)]
           P(g) == g = [s \in SUBSET VisibleRows |-> IF s = {} THEN 0 ELSE
                          LET x == CHOOSE x \in s : TRUE IN YearTotal(x) + g[s \ {x}]]
<1>1. GrandTotal = (CHOOSE g : P(g))[VisibleRows]
  BY DEF GrandTotal, MapThenSumSet, MapThenFoldSet
<1>2. \A s \in SUBSET VisibleRows : s # {} => Pick(s) \in VisibleRows
  BY DEF Pick
<1>3. ASSUME NEW g PROVE P(g) <=> IsFold(g, v, VisibleRows)
  BY <1>2 DEF IsFold, Pick
<1>4. v \in [VisibleRows -> Int]
  <2>1. \A u \in VisibleRows : YearTotal(u) \in Int
    BY YearTotalIsSum, HoursAreNumbers, SumIsNumber
  <2> QED BY <2>1
<1> HIDE DEF P, v
<1>5. \E g : P(g)
  BY <1>3, <1>4, FoldExists, HoursAreNumbers
<1>6. P(CHOOSE g : P(g))
  BY <1>5
<1>7. GrandTotal = SumOf(v, VisibleRows)
  BY <1>1, <1>3, <1>4, <1>6, FoldIsSum, HoursAreNumbers
<1> QED BY <1>7 DEF v

LEMMA ColumnsAddUp ==
  ASSUME report \in Reports
  PROVE  GrandTotal = MapThenSumSet(ColumnTotal, Months)
<1> DEFINE R == VisibleRows
           h == [u \in R |-> HoursOf(u)]
           v == [m \in Months |-> SumOf([u \in R |-> h[u][m]], R)]
           P(g) == g = [s \in SUBSET Months |-> IF s = {} THEN 0 ELSE
                          LET x == CHOOSE x \in s : TRUE IN ColumnTotal(x) + g[s \ {x}]]
<1>1. MapThenSumSet(ColumnTotal, Months) = (CHOOSE g : P(g))[Months]
  BY DEF MapThenSumSet, MapThenFoldSet
<1>2. \A s \in SUBSET Months : s # {} => Pick(s) \in Months
  BY DEF Pick
<1>3. ASSUME NEW m \in Months PROVE v[m] = ColumnTotal(m) /\ v[m] \in Int
  <2>1. [u \in R |-> h[u][m]] = [u \in R |-> Hours(u, m)]
    BY DEF HoursOf
  <2>2. [u \in R |-> Hours(u, m)] \in [R -> Int]
    BY HoursAreNumbers
  <2> QED BY <2>1, <2>2, ColumnTotalIsSum, SumIsNumber, HoursAreNumbers
<1>4. v \in [Months -> Int]
  <2>1. v = [m \in Months |-> v[m]]
    OBVIOUS
  <2> HIDE DEF v
  <2> QED BY <1>3, <2>1
<1>5. ASSUME NEW g PROVE P(g) <=> IsFold(g, v, Months)
  <2> HIDE DEF v
  <2> QED BY <1>2, <1>3 DEF IsFold, Pick
<1> HIDE DEF P
<1>6. \E g : P(g)
  <2> HIDE DEF v
  <2> QED BY <1>4, <1>5, FoldExists, HoursAreNumbers
<1>7. P(CHOOSE g : P(g))
  BY <1>6
<1>8. MapThenSumSet(ColumnTotal, Months) = SumOf(v, Months)
  <2> HIDE DEF v
  <2> QED BY <1>1, <1>4, <1>5, <1>7, FoldIsSum, HoursAreNumbers
<1>9. GrandTotal = SumOf([u \in R |-> SumOf(h[u], Months)], R)
  <2>1. [u \in R |-> SumOf(h[u], Months)] = [u \in R |-> YearTotal(u)]
    BY YearTotalIsSum
  <2> QED BY <2>1, GrandTotalIsSum
<1>10. h \in [R -> [Months -> Int]] /\ IsFiniteSet(R) /\ IsFiniteSet(Months)
  BY HoursAreNumbers
<1>11. SumOf([u \in R |-> SumOf(h[u], Months)], R) = SumOf(v, Months)
  <2> HIDE DEF h, R
  <2> QED BY <1>10, SumsExchange
<1> QED BY <1>8, <1>9, <1>11

\* Once everything is answered, the report is that of the filters, its cells are
\* coloured by the working days of the database, and an exported workbook has
\* these days and totals that agree by rows and by columns
\* (yearly-report.component.ts:196-241, 428-479).
THEOREM ReportFollowsTheDaysAlways == Spec => []ReportFollowsTheDays
<1>1. ASSUME ReportInv, Settled, route = "report" PROVE ReportFollowsTheDays
  <2> DEFINE now == ExpectedDays(days[filter.year])
  <2>1. Current(report) /\ ~meddled /\ ~Answering
    BY <1>1 DEF Settled, ReportInv, FreshInv, Answering
  <2>2. report \in Reports /\ report.query = filter /\ report.days = now
    BY <2>1 DEF Current
  <2>3. now \in Values /\ ShownDays = now /\ report # Null
    BY <2>2, Bounds DEF Reports, ShownDays
  <2> HIDE DEF now
  <2>4. ASSUME NEW u \in VisibleRows, NEW m \in Months
        PROVE  Tone(Hours(u, m), ShownDays[m]) = "green" <=>
                 now[m] > 0 /\ Hours(u, m) > 8 * now[m]
    <3>1. now[m] \in 0..31 /\ Hours(u, m) \in Nat
      BY <2>2, <2>3, HoursAreNumbers DEF Values, MonthDays
    <3> QED BY <2>3, <3>1 DEF Tone
  <2>5. Workbook.title = filter.year /\ Workbook.target = 8 * Total(now)
    BY <2>2 DEF Workbook
  <2>6. Workbook.total = MapThenSumSet(ColumnTotal, Months)
    BY <2>2, ColumnsAddUp DEF Workbook
  <2> QED BY <2>2, <2>3, <2>4, <2>5, <2>6 DEF ReportFollowsTheDays, now
<1>2. ReportInv => ReportFollowsTheDays
  BY <1>1 DEF ReportFollowsTheDays
<1> QED BY <1>2, ReportInvariant, PTL

-----------------------------------------------------------------------------
(* The chart: who gets a card, and who does not.                            *)

LEMMA Iterates ==
  ASSUME NEW D, NEW a \in D, NEW F \in [D -> D]
  PROVE  \E f \in [Nat -> D] : f[0] = a /\ \A n \in Nat : f[n + 1] = F[f[n]]
<1> DEFINE App(g, n) == /\ g \in [Nat -> D] /\ g[0] = a
                        /\ \A i \in Nat : i < n => g[i + 1] = F[g[i]]
           T == {n \in Nat : \E g : App(g, n)}
           G(n) == CHOOSE g : App(g, n)
           f == [n \in Nat |-> G(n)[n]]
<1>1. 0 \in T
  <2>1. App([n \in Nat |-> a], 0)
    OBVIOUS
  <2> QED BY <2>1
<1>2. ASSUME NEW n \in T PROVE n + 1 \in T
  <2>1. PICK g : App(g, n)
    OBVIOUS
  <2> DEFINE h == [i \in Nat |-> IF i <= n THEN g[i] ELSE F[g[n]]]
  <2>2. App(h, n + 1)
    <3>1. h \in [Nat -> D] /\ h[0] = a
      BY <2>1
    <3>2. ASSUME NEW i \in Nat, i < n + 1 PROVE h[i + 1] = F[h[i]]
      <4>1. CASE i < n
        BY <2>1, <4>1
      <4>2. CASE i = n
        BY <4>2
      <4> QED BY <3>2, <4>1, <4>2
    <3> QED BY <3>1, <3>2
  <2> HIDE DEF App, h
  <2> QED BY <2>2
<1>3. T = Nat
  <2>1. T \in SUBSET Nat
    OBVIOUS
  <2> HIDE DEF T
  <2> QED BY <1>1, <1>2, <2>1, AllNumbers
<1>4. ASSUME NEW n \in Nat PROVE App(G(n), n)
  <2>1. \E g : App(g, n)
    BY <1>3
  <2> HIDE DEF App
  <2> QED BY <2>1
<1>5. ASSUME NEW n \in Nat, NEW g, NEW h, App(g, n), App(h, n) PROVE g[n] = h[n]
  <2> DEFINE Same == {i \in Nat : i <= n => g[i] = h[i]}
  <2>1. 0 \in Same
    BY <1>5
  <2>2. ASSUME NEW i \in Same PROVE i + 1 \in Same
    BY <1>5
  <2>3. Same = Nat
    <3>1. Same \in SUBSET Nat
      OBVIOUS
    <3> HIDE DEF Same
    <3> QED BY <2>1, <2>2, <3>1, AllNumbers
  <2> QED BY <2>3
<1> HIDE DEF G
<1>6. f \in [Nat -> D] /\ f[0] = a
  BY <1>4
<1>7. ASSUME NEW n \in Nat PROVE f[n + 1] = F[f[n]]
  <2>1. App(G(n + 1), n + 1) /\ App(G(n + 1), n) /\ App(G(n), n)
    BY <1>4
  <2>2. G(n + 1)[n] = G(n)[n]
    <3> HIDE DEF App
    <3> QED BY <1>5, <2>1
  <2>3. G(n + 1)[n + 1] = F[G(n + 1)[n]]
    BY <2>1
  <2> QED BY <2>2, <2>3
<1> HIDE DEF f
<1> QED BY <1>6, <1>7

\* The users a level below.
Lower(L) == L \cup {v \in UNION {ReportsOf(u) : u \in L} : OnBranch(v)}

Levels(f) ==
  /\ f[0] = Roots /\ Cards = f[Cardinality(people)]
  /\ \A n \in Nat : f[n] \subseteq Eligible /\ f[n + 1] = Lower(f[n])

LEMMA LevelsExist == \E f : Levels(f)
<1> DEFINE F == [L \in SUBSET Eligible |-> Lower(L)]
           P(f) == f = [n \in Nat |-> IF n = 0 THEN Roots ELSE f[n - 1] \cup
                          {v \in UNION {ReportsOf(u) : u \in f[n - 1]} : OnBranch(v)}]
           f == CHOOSE g : P(g)
<1>1. Cards = f[Cardinality(people)]
  BY DEF Cards
<1>2. \A L \in SUBSET Eligible : Lower(L) \in SUBSET Eligible
  BY DEF Lower, ReportsOf
<1>3. F \in [SUBSET Eligible -> SUBSET Eligible] /\ Roots \in SUBSET Eligible
  BY <1>2 DEF Roots
<1>4. PICK g \in [Nat -> SUBSET Eligible] :
        g[0] = Roots /\ \A n \in Nat : g[n + 1] = F[g[n]]
  <2> DEFINE D == SUBSET Eligible
  <2>1. F \in [D -> D] /\ Roots \in D
    BY <1>3
  <2> HIDE DEF D, F
  <2>2. \E g \in [Nat -> D] : g[0] = Roots /\ \A n \in Nat : g[n + 1] = F[g[n]]
    BY <2>1, Iterates
  <2> QED BY <2>2 DEF D
<1>5. P(g)
  <2>1. ASSUME NEW n \in Nat, n # 0 PROVE g[n] = Lower(g[n - 1])
    <3>1. n - 1 \in Nat /\ n = (n - 1) + 1
      BY <2>1
    <3> QED BY <1>4, <3>1
  <2>2. g = [n \in Nat |-> IF n = 0 THEN Roots ELSE Lower(g[n - 1])]
    BY <1>4, <2>1
  <2> QED BY <2>2 DEF Lower
<1>6. P(f)
  <2> HIDE DEF P
  <2> QED BY <1>5
<1>7. f = [n \in Nat |-> IF n = 0 THEN Roots ELSE Lower(f[n - 1])]
  BY <1>6 DEF Lower
<1> HIDE DEF P, f
<1>8. f[0] = Roots /\ \A n \in Nat : f[n + 1] = Lower(f[n])
  BY <1>7
<1> DEFINE T == {n \in Nat : f[n] \subseteq Eligible}
<1>9. 0 \in T
  BY <1>3, <1>8
<1>10. ASSUME NEW n \in T PROVE n + 1 \in T
  BY <1>2, <1>8
<1>11. T = Nat
  <2>1. T \in SUBSET Nat
    OBVIOUS
  <2> HIDE DEF T
  <2> QED BY <1>9, <1>10, <2>1, AllNumbers
<1> QED BY <1>1, <1>8, <1>11 DEF Levels

\* The managers of u who are on the chart, step by step.
Above(U) == {org[v].manager : v \in U} \cap Eligible

Ways(f, u) ==
  /\ f[0] = {u} /\ Managers(u) = UNION {f[n] : n \in 1..Cardinality(people)}
  /\ \A n \in Nat : f[n + 1] = Above(f[n])

LEMMA WaysExist == ASSUME NEW u \in Eligible PROVE \E f : Ways(f, u)
<1> DEFINE F == [U \in SUBSET Eligible |-> Above(U)]
           P(f) == f = [n \in Nat |-> IF n = 0 THEN {u} ELSE
                          {org[v].manager : v \in f[n - 1]} \cap Eligible]
           f == CHOOSE g : P(g)
<1>1. Managers(u) = UNION {f[n] : n \in 1..Cardinality(people)}
  BY DEF Managers
<1>2. \A U \in SUBSET Eligible : Above(U) \in SUBSET Eligible
  BY DEF Above
<1>3. F \in [SUBSET Eligible -> SUBSET Eligible] /\ {u} \in SUBSET Eligible
  BY <1>2
<1>4. PICK g \in [Nat -> SUBSET Eligible] :
        g[0] = {u} /\ \A n \in Nat : g[n + 1] = F[g[n]]
  <2> DEFINE D == SUBSET Eligible
  <2>1. F \in [D -> D] /\ {u} \in D
    BY <1>3
  <2> HIDE DEF D, F
  <2>2. \E g \in [Nat -> D] : g[0] = {u} /\ \A n \in Nat : g[n + 1] = F[g[n]]
    BY <2>1, Iterates
  <2> QED BY <2>2 DEF D
<1>5. P(g)
  <2>1. ASSUME NEW n \in Nat, n # 0 PROVE g[n] = Above(g[n - 1])
    <3>1. n - 1 \in Nat /\ n = (n - 1) + 1
      BY <2>1
    <3> QED BY <1>4, <3>1
  <2>2. g = [n \in Nat |-> IF n = 0 THEN {u} ELSE Above(g[n - 1])]
    BY <1>4, <2>1
  <2> QED BY <2>2 DEF Above
<1>6. P(f)
  <2> HIDE DEF P
  <2> QED BY <1>5
<1>7. f = [n \in Nat |-> IF n = 0 THEN {u} ELSE Above(f[n - 1])]
  BY <1>6 DEF Above
<1> HIDE DEF P, f
<1>8. f[0] = {u} /\ \A n \in Nat : f[n + 1] = Above(f[n])
  BY <1>7
<1> QED BY <1>1, <1>8 DEF Ways

LEMMA WaysShift ==
  ASSUME NEW u, NEW f, Ways(f, u), NEW v, NEW g, Ways(g, v), NEW i \in Nat, f[i] = {v}
  PROVE  \A k \in Nat : f[i + k] = g[k]
<1> DEFINE T == {k \in Nat : f[i + k] = g[k]}
<1>1. 0 \in T
  <2>1. i + 0 = i
    OBVIOUS
  <2>2. f[i + 0] = g[0]
    BY <2>1 DEF Ways
  <2> QED BY <2>2
<1>2. ASSUME NEW k \in T PROVE k + 1 \in T
  <2>1. f[(i + k) + 1] = Above(f[i + k]) /\ g[k + 1] = Above(g[k])
    BY DEF Ways
  <2> QED BY <2>1
<1>3. T = Nat
  <2>1. T \in SUBSET Nat
    OBVIOUS
  <2> HIDE DEF T
  <2> QED BY <1>1, <1>2, <2>1, AllNumbers
<1> QED BY <1>3

\* Whoever is above someone is the manager or above the manager.
LEMMA ManagersOf ==
  ASSUME IsFiniteSet(people), NEW u \in Eligible, NEW v \in Managers(u)
  PROVE  /\ u \notin Roots /\ org[u].manager \in Eligible
         /\ v = org[u].manager \/ v \in Managers(org[u].manager)
<1> DEFINE m == org[u].manager
           N == Cardinality(people)
<1>1. N \in Nat
  BY FS_CardinalityType
<1>2. PICK f : Ways(f, u)
  BY WaysExist
<1>3. PICK n \in 1..N : v \in f[n]
  BY <1>2 DEF Ways
<1> HIDE DEF N
<1>4. n \in Nat /\ n - 1 \in Nat /\ 1 + (n - 1) = n
  BY <1>1, <1>3
<1>5. f[1] = Above({u})
  <2>1. f[0 + 1] = Above(f[0])
    BY <1>2 DEF Ways
  <2> QED BY <1>2, <2>1 DEF Ways
<1>6. m \in Eligible
  <2> SUFFICES ASSUME m \notin Eligible PROVE FALSE
    OBVIOUS
  <2> DEFINE T == {k \in Nat : f[1 + k] = {}}
  <2>1. 0 \in T
    BY <1>5 DEF Above
  <2>2. ASSUME NEW k \in T PROVE k + 1 \in T
    <3>1. f[(1 + k) + 1] = Above(f[1 + k])
      BY <1>2 DEF Ways
    <3> QED BY <3>1 DEF Above
  <2>3. T = Nat
    <3>1. T \in SUBSET Nat
      OBVIOUS
    <3> HIDE DEF T
    <3> QED BY <2>1, <2>2, <3>1, AllNumbers
  <2> QED BY <1>3, <1>4, <2>3
<1>7. f[1] = {m}
  BY <1>5, <1>6 DEF Above
<1>8. PICK g : Ways(g, m)
  BY <1>6, WaysExist
<1>9. f[n] = g[n - 1]
  BY <1>2, <1>4, <1>7, <1>8, WaysShift
<1>10. CASE n = 1
  BY <1>3, <1>6, <1>9, <1>10, <1>8 DEF Roots, Ways
<1>11. CASE n # 1
  <2>1. n - 1 \in 1..N
    BY <1>1, <1>3, <1>11
  <2>2. v \in Managers(m)
    BY <1>3, <1>8, <1>9, <2>1 DEF Ways, N
  <2> QED BY <1>6, <2>2 DEF Roots
<1> QED BY <1>10, <1>11

\* Who is on a card has everyone above on one, and is on no circle.
LEMMA CardsAreTrees ==
  ASSUME IsFiniteSet(people), NEW u \in Cards
  PROVE  /\ u \in Eligible /\ Managers(u) \subseteq Cards
         /\ u \notin Managers(u) /\ (u \in Roots \/ OnBranch(u))
<1>1. PICK f : Levels(f)
  BY LevelsExist
<1> DEFINE N == Cardinality(people)
           Tree(L, v) == /\ Managers(v) \subseteq L /\ v \notin Managers(v)
                         /\ v \in Roots \/ OnBranch(v)
           T == {n \in Nat : \A v \in f[n] : Tree(f[n], v)}
<1>2. 0 \in T
  <2> SUFFICES ASSUME NEW v \in Roots PROVE Managers(v) = {}
    BY <1>1 DEF Levels
  <2>1. v \in Eligible
    BY DEF Roots
  <2> QED BY <2>1, ManagersOf
<1>3. ASSUME NEW n \in T PROVE n + 1 \in T
  <2> SUFFICES ASSUME NEW v \in f[n + 1] PROVE Tree(f[n + 1], v)
    OBVIOUS
  <2>1. f[n] \subseteq Eligible /\ f[n + 1] = Lower(f[n]) /\ f[n] \subseteq f[n + 1]
    BY <1>1 DEF Levels, Lower
  <2>2. CASE v \in f[n]
    BY <2>1, <2>2
  <2>3. CASE v \notin f[n]
    <3>1. PICK w \in f[n] : v \in ReportsOf(w) /\ OnBranch(v)
      BY <2>1, <2>3 DEF Lower
    <3>2. v \in Eligible /\ org[v].manager = w
      BY <3>1 DEF ReportsOf
    <3>3. Managers(w) \subseteq f[n]
      BY <3>1
    <3>4. Managers(v) \subseteq f[n]
      BY <3>1, <3>2, <3>3, ManagersOf
    <3> QED BY <2>1, <2>3, <3>1, <3>4
  <2> QED BY <2>2, <2>3
<1>4. T = Nat
  <2>1. T \in SUBSET Nat
    OBVIOUS
  <2> HIDE DEF T
  <2> QED BY <1>2, <1>3, <2>1, AllNumbers
<1>5. N \in Nat
  BY FS_CardinalityType
<1>6. Cards = f[N] /\ f[N] \subseteq Eligible
  BY <1>1, <1>5 DEF Levels
<1> HIDE DEF N
<1>7. Tree(f[N], u)
  BY <1>4, <1>5, <1>6
<1> QED BY <1>6, <1>7

\* The levels have come to an end, so nobody is missing below a card.
LEMMA CardsAreClosed ==
  ASSUME IsFiniteSet(people)
  PROVE  /\ Roots \subseteq Cards
         /\ \A v \in Eligible : org[v].manager \in Cards /\ OnBranch(v) => v \in Cards
<1>1. PICK f : Levels(f)
  BY LevelsExist
<1> DEFINE N == Cardinality(people)
           T == {n \in Nat : f[n + 1] = f[n] \/ Cardinality(f[n + 1]) >= n + 1}
           R == {n \in Nat : Roots \subseteq f[n]}
<1>2. \A n \in Nat : f[n] \subseteq f[n + 1] /\ f[n] \subseteq people
  BY <1>1 DEF Levels, Lower, Eligible
<1>3. \A n \in Nat : IsFiniteSet(f[n]) /\ Cardinality(f[n]) \in Nat
                     /\ Cardinality(f[n]) <= Cardinality(people)
  BY <1>2, FS_Subset, FS_CardinalityType
<1>4. ASSUME NEW n \in Nat, f[n + 1] # f[n]
      PROVE  Cardinality(f[n]) < Cardinality(f[n + 1])
  <2>1. f[n] \subseteq f[n + 1] /\ IsFiniteSet(f[n + 1]) /\ n + 1 \in Nat
    BY <1>2, <1>3
  <2>2. Cardinality(f[n]) <= Cardinality(f[n + 1])
        /\ (Cardinality(f[n]) = Cardinality(f[n + 1]) => f[n] = f[n + 1])
    BY <2>1, FS_Subset
  <2> QED BY <1>3, <1>4, <2>1, <2>2
<1>5. 0 \in T
  <2>1. CASE f[0 + 1] # f[0]
    BY <1>3, <1>4, <2>1
  <2> QED BY <2>1
<1>6. ASSUME NEW n \in T PROVE n + 1 \in T
  <2>1. CASE f[n + 1] = f[n]
    BY <1>1, <2>1 DEF Levels
  <2>2. CASE f[n + 1] # f[n] /\ f[(n + 1) + 1] # f[n + 1]
    <3>1. Cardinality(f[n + 1]) >= n + 1
      BY <2>2
    <3>2. Cardinality(f[n + 1]) < Cardinality(f[(n + 1) + 1])
      BY <1>4, <2>2
    <3>3. Cardinality(f[n + 1]) \in Nat /\ Cardinality(f[(n + 1) + 1]) \in Nat
      BY <1>3
    <3>4. Cardinality(f[(n + 1) + 1]) >= (n + 1) + 1
      BY <3>1, <3>2, <3>3
    <3> QED BY <3>4
  <2> QED BY <2>1, <2>2
<1>7. T = Nat
  <2>1. T \in SUBSET Nat
    OBVIOUS
  <2> HIDE DEF T
  <2> QED BY <1>5, <1>6, <2>1, AllNumbers
<1>8. N \in Nat
  BY FS_CardinalityType
<1>9. f[N + 1] = f[N]
  <2>1. N \in T /\ N + 1 \in Nat
    BY <1>7, <1>8
  <2>2. Cardinality(f[N + 1]) \in Nat /\ Cardinality(f[N + 1]) <= N
    BY <1>3, <2>1
  <2> QED BY <1>8, <2>1, <2>2
<1>10. 0 \in R
  BY <1>1 DEF Levels
<1>11. ASSUME NEW n \in R PROVE n + 1 \in R
  BY <1>2
<1>12. R = Nat
  <2>1. R \in SUBSET Nat
    OBVIOUS
  <2> HIDE DEF R
  <2> QED BY <1>10, <1>11, <2>1, AllNumbers
<1>13. Cards = f[N] /\ Lower(f[N]) = f[N] /\ Roots \subseteq f[N]
  BY <1>1, <1>8, <1>9, <1>12 DEF Levels
<1> HIDE DEF N
<1> QED BY <1>13 DEF Lower, ReportsOf

LEMMA DrawnOutside ==
  /\ people \ Drawn \subseteq Eligible /\ Eligible \subseteq people
  /\ \A u \in Eligible : u \in Drawn <=> u \in Cards \/ \E w \in Cards : u \in Roster(w)
<1>1. ASSUME NEW u
      PROVE  u \in Drawn <=> \/ u \in Cards
                             \/ \E w \in Cards : u \in Roster(w)
                             \/ \E p \in Panels : u \in PanelUsers(p)
  BY DEF Drawn
<1>2. ASSUME NEW u
      PROVE  u \in Eligible <=> u \in people /\ ~\E p \in Panels : u \in PanelUsers(p)
  BY DEF Eligible
<1> QED BY <1>1, <1>2

\* A circle, or a user of a roster strip.
Blocks(v) == v \in Managers(v) \/ (v \notin Roots /\ ~OnBranch(v))

LEMMA TheBlockedAreLost ==
  ASSUME IsFiniteSet(people), NEW u \in Eligible, NEW v \in Managers(u), Blocks(v)
  PROVE  u \notin Drawn
<1> DEFINE m == org[u].manager
<1>1. SUFFICES ASSUME u \in Drawn PROVE FALSE
  OBVIOUS
<1>2. u \in Cards \/ m \in Cards
  BY <1>1, DrawnOutside DEF Roster, ReportsOf
<1>3. \A w \in Cards : Managers(w) \subseteq Cards /\ ~Blocks(w)
  BY CardsAreTrees DEF Blocks
<1>4. v = m \/ v \in Managers(m)
  BY ManagersOf
<1>5. v \in Cards
  BY <1>2, <1>3, <1>4
<1> QED BY <1>3, <1>5

\* Whoever is not drawn has managers who are not, until they go round in a circle.
LEMMA TheLostAreBlocked ==
  ASSUME IsFiniteSet(people), NEW u \in people, u \notin Drawn
  PROVE  u \in Eligible /\ \E v \in Managers(u) : Blocks(v)
<1>1. u \in Eligible
  BY DrawnOutside
<1> SUFFICES ASSUME \A v \in Managers(u) : ~Blocks(v) PROVE FALSE
  BY <1>1
<1> DEFINE N == Cardinality(people)
           Off(v) == v \in Eligible /\ v \notin Roots /\ org[v].manager \in Eligible
                       /\ org[v].manager \notin Cards
<1>2. N \in Nat
  BY FS_CardinalityType
<1>3. PICK f : Ways(f, u)
  BY <1>1, WaysExist
<1>4. Off(u)
  <2>1. u \notin Cards /\ u \notin Roots
    BY <1>1, CardsAreClosed, DrawnOutside
  <2>2. org[u].manager \in Eligible
    BY <1>1, <2>1 DEF Roots
  <2>3. org[u].manager \notin Cards
    <3>1. ASSUME org[u].manager \in Cards PROVE FALSE
      <4>1. u \in ReportsOf(org[u].manager)
        BY <1>1 DEF ReportsOf
      <4>2. ~OnBranch(u)
        BY <1>1, <2>1, <3>1, CardsAreClosed
      <4>3. u \in Roster(org[u].manager)
        BY <4>1, <4>2 DEF Roster
      <4> QED BY <1>1, <3>1, <4>3, DrawnOutside
    <3> QED BY <3>1
  <2> QED BY <1>1, <2>1, <2>2, <2>3
<1>5. ASSUME NEW v \in Managers(u), v \in Eligible, v \notin Cards PROVE Off(v)
  <2>1. v \notin Roots /\ OnBranch(v)
    BY <1>5, CardsAreClosed DEF Blocks
  <2>2. org[v].manager \in Eligible
    BY <1>5, <2>1 DEF Roots
  <2> QED BY <1>5, <2>1, <2>2, CardsAreClosed
<1> DEFINE T == {n \in Nat : n <= N => \E v : f[n] = {v} /\ Off(v)}
<1>6. 0 \in T
  BY <1>3, <1>4 DEF Ways
<1>7. ASSUME NEW n \in T PROVE n + 1 \in T
  <2> SUFFICES ASSUME n + 1 <= N PROVE \E v : f[n + 1] = {v} /\ Off(v)
    OBVIOUS
  <2>1. PICK v : f[n] = {v} /\ Off(v)
    BY <1>2
  <2>2. f[n + 1] = {org[v].manager}
    BY <1>3, <2>1 DEF Ways, Above
  <2>3. n + 1 \in 1..N
    BY <1>2
  <2> HIDE DEF N
  <2>4. org[v].manager \in Managers(u)
    BY <1>3, <2>2, <2>3 DEF Ways, N
  <2> QED BY <1>5, <2>1, <2>2, <2>4
<1>8. T = Nat
  <2>1. T \in SUBSET Nat
    OBVIOUS
  <2> HIDE DEF T
  <2> QED BY <1>6, <1>7, <2>1, AllNumbers
<1> DEFINE h == [n \in 0..N |-> CHOOSE v : f[n] = {v}]
<1>9. \A n \in 0..N : f[n] = {h[n]} /\ Off(h[n])
  <2> HIDE DEF N, Off
  <2>1. \A n \in 0..N : \E v : f[n] = {v} /\ Off(v)
    BY <1>2, <1>8
  <2> QED BY <2>1
<1>10. h \in [0..N -> people]
  BY <1>9 DEF Eligible
<1> HIDE DEF h
<1>11. PICK i \in 0..N, j \in 0..N : i < j /\ h[i] = h[j]
  <2>1. IsFiniteSet(0..N) /\ Cardinality(0..N) = N + 1
    BY <1>2, FS_Interval
  <2>2. PICK x \in 0..N, y \in 0..N : x # y /\ h[x] = h[y]
    <3> HIDE DEF N
    <3>1. Cardinality(people) < Cardinality(0..N)
      BY <1>2, <2>1 DEF N
    <3> QED BY <1>10, <2>1, <3>1, FS_PigeonHole
  <2> QED BY <1>2, <2>2
<1> DEFINE v == h[i]
<1>12. PICK g : Ways(g, v)
  BY <1>9, WaysExist
<1>13. f[j] = g[j - i]
  <2>1. i \in Nat /\ j - i \in Nat /\ i + (j - i) = j /\ f[i] = {v}
    BY <1>2, <1>9, <1>11
  <2> QED BY <1>3, <1>12, <2>1, WaysShift
<1>14. v \in Managers(v)
  <2>1. j - i \in 1..N /\ v \in g[j - i]
    BY <1>2, <1>9, <1>11, <1>13
  <2> QED BY <1>12, <2>1 DEF Ways
<1>15. v \in Managers(u)
  <2>1. j \in 1..N /\ v \in f[j]
    BY <1>2, <1>9, <1>11
  <2> QED BY <1>3, <2>1 DEF Ways
<1> QED BY <1>14, <1>15 DEF Blocks

\* Everyone in the directory is on the chart, on one side of it, but for those
\* whose managers go round in a circle and those somewhere below a user of a
\* roster strip (dashboard.component.ts:52-132).
THEOREM OnlyTheseAreLostEver == Spec => []OnlyTheseAreLost
<1>1. ASSUME ReportInv, route = "dashboard", ~waiting PROVE OnlyTheseAreLost
  <2>1. people = directory /\ IsFiniteSet(people)
    BY <1>1, ReportAssumption, FS_Subset DEF Setting, ReportInv, DirectoryInv
  <2>2. people \ Drawn = {u \in Eligible : \E v \in Managers(u) : Blocks(v)}
    BY <2>1, TheBlockedAreLost, TheLostAreBlocked, DrawnOutside
  <2>3. \A p \in Panels : PanelUsers(p) \cap Cards = {}
    BY <2>1, CardsAreTrees DEF Eligible
  <2> QED BY <2>1, <2>2, <2>3 DEF OnlyTheseAreLost, Blocks
<1>2. ReportInv => OnlyTheseAreLost
  BY <1>1 DEF OnlyTheseAreLost
<1> QED BY <1>2, ReportInvariant, PTL

=============================================================================
