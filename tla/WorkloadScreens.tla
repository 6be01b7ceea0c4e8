-------------------------- MODULE WorkloadScreens --------------------------
(***************************************************************************)
(* The three screens of workload entries in the browser of one user: the   *)
(* list of everybody's entries (features/workload-list), the calendar of   *)
(* the user's own ones (my-workload) and the entry form of a day           *)
(* (workload-entry), with the part of the endpoints they call.  One screen *)
(* is open; leaving it forgets its state, and the answers to what it asked *)
(* reach nobody, but a change it sent is still made.                       *)
(*                                                                         *)
(* An entry is its owner and its day: the fields that do not decide which  *)
(* query returns it are told by whose they are (editing) and by whether    *)
(* they make a valid form (filled).  Every entry counts EntryHours.  The   *)
(* server's rules about entries are in WorkloadEntries, here they show as  *)
(* Fail.  Other users' entries do not change, which a screen would notice   *)
(* at its next reload only; a screen stays open for less than a day, so     *)
(* Today is fixed; date inputs are never emptied and no list is longer than *)
(* its page size.                                                          *)
(***************************************************************************)
EXTENDS Nothing, FiniteSets, Naturals

CONSTANTS
  Ids,          \* ids of entries
  Users,
  Name,         \* the name of a user
  Me,           \* the user at the browser
  IsWorker,     \* whether that is a worker, who sees own entries only
  Days,         \* dates
  Today,
  EditDays,   \* how many days back an entry may be changed
  Weekend,      \* the dates that are no weekdays
  Month,        \* the year and month (0..11) of a date
  Years, Months,\* what the calendar's menus offer
  DayHours,     \* the hours of a full day
  EntryHours,   \* the hours of an entry
  GroupPageSize,\* users on a page of the list
  Ranges,       \* the date ranges the user picks in the list (a bound)
  Narrow,       \* the entries that the list's other filters let through
  MaxActs       \* how many requests the user causes (a bound)

ASSUME ScreensAssumption ==
  /\ IsFiniteSet(Ids) /\ Null \notin Ids \cup Days
  /\ Me \in Users
  /\ IsWorker \in BOOLEAN
  /\ Days \subseteq Nat /\ Today \in Days
  /\ EditDays \in Nat
  /\ Weekend \subseteq Days
  /\ Month \in [Days -> Nat \X (0..11)]
  /\ Years \subseteq Nat /\ Months \subseteq 0..11
  /\ DayHours \in Nat \ {0} /\ EntryHours \in Nat \ {0}
  /\ GroupPageSize \in Nat \ {0}
  /\ Ranges \subseteq Days \X Days
  /\ Narrow \subseteq Ids
  /\ MaxActs \in Nat

VARIABLES
  rows,       \* the entries in the database
  route,      \* the screen that is open
  lst,        \* the list: its filters and page
  cal,        \* the calendar: its month and selected day
  form,       \* the entry form: its date and what is being edited
  shown,      \* entries()
  charts,     \* aggregates(), told by the entries they add up
  expected,   \* the year whose working days the calendar has, Null for 22s
  loading, submitting,
  confirm,    \* the entry the confirmation dialog is about
  calls,      \* the HTTP requests in flight
  calm,       \* (history) nothing the screen asked for failed or met a race
  moved,      \* (history) the date was changed under the entry being edited
  acts

screen == <<route, lst, cal, form>>
data == <<shown, charts, expected, loading>>
history == <<calm, moved>>
screenVars == <<rows, screen, data, submitting, confirm, calls, history, acts>>

-----------------------------------------------------------------------------
EntryRows == [owner : Users, day : Days]

Tables == [Ids -> EntryRows \cup {Null}]

NoRows == [i \in Ids |-> Null]

\* What a list is asked for, once defaults are filled in.
Queries == [owners : SUBSET Users, days : SUBSET Days, ids : SUBSET Ids]

Listed(t) == {i \in DOMAIN t : t[i] # Null}

\* isWithinEditWindow, the same arithmetic as the server's.
MayEdit(d) == d <= Today /\ Today <= d + EditDays

FirstRange == CHOOSE r \in Ranges : r[2] = Today

FirstList == [range |-> FirstRange, owners |-> {}, narrow |-> FALSE,
              below |-> FALSE, page |-> 1]

FirstCal == [year |-> Month[Today][1], month |-> Month[Today][2], selected |-> Null]

EmptyForm(d) == [date |-> d, editing |-> Null, was |-> d, filled |-> FALSE,
                 pending |-> Null]

InRange(r) == {d \in Days : r[1] <= d /\ d <= r[2]}

ListQuery(l) == [owners |-> IF l.owners = {} THEN Users ELSE l.owners,
                 days |-> InRange(l.range),
                 ids |-> IF l.narrow THEN Narrow ELSE Ids]

MonthQuery(c) == [owners |-> {Me}, days |-> {d \in Days : Month[d] = <<c.year, c.month>>},
                  ids |-> Ids]

DayQuery(d) == [owners |-> {Me}, days |-> {d}, ids |-> Ids]

\* What the open screen should show.
Query ==
  CASE route = "list"  -> ListQuery(lst)
    [] route = "my"    -> MonthQuery(cal)
    [] route = "entry" -> DayQuery(form.date)

Writes == {"create", "update", "delete"}
Gets == {"list", "charts", "days"}

\* live: the screen that sent it is still open.  day is the date a save sends,
\* was and moved (history) the edited entry's day and whether it was left.
Calls ==
  [id : Nat, op : Writes \cup Gets, live : BOOLEAN, query : Queries, year : Nat,
   row : Ids \cup {Null}, day : Days, was : Days, moved : BOOLEAN,
   served : BOOLEAN, rows : Tables]

Call(op) ==
  [id |-> 0, op |-> op, live |-> TRUE, query |-> DayQuery(Today), year |-> 0,
   row |-> Null, day |-> Today, was |-> Today, moved |-> FALSE,
   served |-> FALSE, rows |-> NoRows]

Plus(S, c) ==
  S \cup {[c EXCEPT !.id = CHOOSE n \in 0..Cardinality(S) :
                               \A d \in S : d.op = c.op => d.id # n]}

\* The requests of a reload: the list asks for its charts in parallel.
Reloads(S, r, q) ==
  LET asked == Plus(S, [Call("list") EXCEPT !.query = q])
  IN  IF r = "list" THEN Plus(asked, [Call("charts") EXCEPT !.query = q]) ELSE asked

DaysCall(S, y) == Plus(S, [Call("days") EXCEPT !.year = y])

\* What a screen asks for when it opens.
FirstCalls(S, r, d) ==
  CASE r = "list"  -> Reloads(S, r, ListQuery(FirstList))
    [] r = "my"    -> DaysCall(Reloads(S, r, MonthQuery(FirstCal)), FirstCal.year)
    [] r = "entry" -> Reloads(S, r, DayQuery(d))

InFlight(ops) == {c \in calls : c.op \in ops /\ c.live}

ScreensTypeOK ==
  /\ rows \in Tables
  /\ route \in {"list", "my", "entry"}
  /\ lst \in [range : Days \X Days, owners : SUBSET Users, narrow : BOOLEAN,
              below : BOOLEAN, page : Nat \ {0}]
  /\ cal \in [year : Nat, month : 0..11, selected : Days \cup {Null}]
  /\ form \in [date : Days, editing : Ids \cup {Null}, was : Days, filled : BOOLEAN,
               pending : Ids \cup {Null}]
  /\ shown \in Tables /\ charts \in Tables
  /\ expected \in Nat \cup {Null}
  /\ loading \in BOOLEAN /\ submitting \in BOOLEAN
  /\ confirm \in Ids \cup {Null}
  /\ calls \subseteq Calls
  /\ calm \in BOOLEAN /\ moved \in BOOLEAN
  /\ acts \in 0..MaxActs

\* A screen has just been opened, the form perhaps with a date and an entry in
\* its URL.
ScreensInit ==
  /\ rows \in Tables
  /\ route \in {"list", "my", "entry"}
  /\ lst = FirstList
  /\ cal = FirstCal
  /\ form \in {[EmptyForm(d) EXCEPT !.pending = i] : d \in Days, i \in Ids \cup {Null}}
  /\ route # "entry" => form = EmptyForm(Today)
  /\ shown = NoRows /\ charts = NoRows
  /\ expected = Null
  /\ loading = TRUE /\ submitting = FALSE
  /\ confirm = Null
  /\ calls = FirstCalls({}, route, form.date)
  /\ calm = TRUE /\ moved = FALSE
  /\ acts = 0

-----------------------------------------------------------------------------
(* What the screens derive from the rows they hold.                         *)

Hours(t, u, D) == EntryHours * Cardinality({i \in Listed(t) : t[i].owner = u /\ t[i].day \in D})

\* groupedEntries, visibleGroups: the users of the list, all or those who are
\* below the hours expected for the dates chosen now.
Expected(l) == DayHours * Cardinality(InRange(l.range) \ Weekend)

Groups(t) == {t[i].owner : i \in Listed(t)}

VisibleGroups ==
  {u \in Groups(shown) : lst.below => Hours(shown, u, Days) < Expected(lst)}

Least(m, n) == IF m < n THEN m ELSE n
Most(m, n) == IF m > n THEN m ELSE n

TotalPages == Most(1, (Cardinality(VisibleGroups) + GroupPageSize - 1) \div GroupPageSize)

PageWindow ==
  LET end == Least(TotalPages, Most(1, IF lst.page > 2 THEN lst.page - 2 ELSE 1) + 4)
  IN  Most(1, IF end > 4 THEN end - 4 ELSE 1)..end

\* The tone of a calendar cell; red is a past weekday with nothing logged.
Tone(d) ==
  LET h == Hours(shown, Me, {d})
  IN  CASE h >= DayHours           -> "green"
        [] h > 0 /\ h < DayHours   -> "yellow"
        [] h = 0 /\ d \in Weekend  -> "weekend"
        [] h = 0 /\ d \notin Weekend /\ d > Today  -> "future"
        [] OTHER                   -> "red"

MissingDays == {d \in MonthQuery(cal).days : Tone(d) = "red"}

\* dayEntries.
\* Mutant: whatever the last answer held, also that of another day.
DayEntries_any == {i \in Listed(shown) : shown[i].owner = Me}

DayEntries ==
  {i \in Listed(shown) : shown[i].owner = Me /\ shown[i].day = form.date}

\* The rows with icons: own ones within the window that the screen lays open.
\* Which users a page of the list holds depends on their names.
Editable ==
  {i \in Listed(shown) :
     /\ shown[i].owner = Me /\ MayEdit(shown[i].day)
     /\ CASE route = "list"  -> ~loading /\ Me \in VisibleGroups
          [] route = "my"    -> shown[i].day = cal.selected
          [] route = "entry" -> i \in DayEntries}

\* kpis and trendChartData, from the answer of a request of their own.
Kpis == [totalEntries |-> Cardinality(Listed(charts)),
         activeDays |-> Cardinality({charts[i].day : i \in Listed(charts)})]

Trend ==
  [d \in {charts[i].day : i \in Listed(charts)} |->
     EntryHours * Cardinality({i \in Listed(charts) : charts[i].day = d})]

\* exportExcel, which changes nothing: the workbook is titled with the dates and
\* target of now and filled with the rows of the last answer, grouped by the
\* name of their user.
Workbook ==
  [title |-> lst.range, target |-> Expected(lst),
   groups |-> {{i \in Listed(shown) : Name[shown[i].owner] = n} :
                 n \in {Name[u] : u \in Groups(shown)}}]

-----------------------------------------------------------------------------
(* What the user does.                                                      *)

Act == acts < MaxActs /\ acts' = acts + 1

Free == confirm = Null

\* A reload of the open screen, added to S.  The calendar takes no notice of a
\* deletion that is answered before a list which was read earlier.
Ask(S, q) ==
  /\ calls' = Reloads(S, route, q)
  /\ loading' = TRUE
  /\ calm' = (calm /\ InFlight({"list", "charts"}) = {}
                   /\ (route = "my" => InFlight({"delete"}) = {}))

\* A screen opens, with the date and the entry of its URL; the requests of the
\* one that was left are forgotten, unless they change something.
Open(r, d, i) ==
  LET left == {[c EXCEPT !.live = FALSE] : c \in {w \in calls : w.op \in Writes /\ ~w.served}}
  IN
  /\ Act
  /\ route' = r
  /\ lst' = FirstList
  /\ cal' = FirstCal
  /\ form' = [EmptyForm(d) EXCEPT !.pending = i]
  /\ shown' = NoRows /\ charts' = NoRows
  /\ expected' = Null
  /\ loading' = TRUE /\ submitting' = FALSE
  /\ confirm' = Null
  /\ calls' = FirstCalls(left, r, d)
  /\ calm' = (left = {})
  /\ moved' = FALSE
  /\ UNCHANGED rows

\* The menu, or the browser's back button.
Navigate(r) == r # route /\ Open(r, Today, Null)

EditEntry(i) ==
  /\ Free /\ route \in {"list", "my"} /\ i \in Editable
  /\ Open("entry", shown[i].day, i)

\* The plus of a calendar cell.
AddEntry(d) ==
  /\ Free /\ route = "my" /\ ~loading
  /\ d \in MonthQuery(cal).days /\ MayEdit(d)
  /\ Open("entry", d, Null)

\* Any filter of the list: the dates, the presets among them, the user picker,
\* the other filters, or all of them cleared.
ChangeFilter ==
  /\ Free /\ route = "list"
  /\ Act
  /\ \/ \E r \in Ranges \ {lst.range} : lst' = [lst EXCEPT !.range = r, !.page = 1]
     \/ /\ ~IsWorker
        /\ \/ \E u \in Users :
                lst' = [lst EXCEPT !.owners = IF u \in @ THEN @ \ {u} ELSE @ \cup {u},
                                   !.page = 1]
           \/ lst.owners # {} /\ lst' = [lst EXCEPT !.owners = {}, !.page = 1]
     \/ lst' = [lst EXCEPT !.narrow = ~@, !.page = 1]
     \/ lst' = FirstList
  /\ Ask(calls, ListQuery(lst'))
  /\ UNCHANGED <<rows, route, cal, form, shown, charts, expected, submitting, confirm, moved>>

\* Another order is asked from the server too.
ToggleSort ==
  /\ Free /\ route = "list"
  /\ Act
  /\ lst' = [lst EXCEPT !.page = 1]
  /\ Ask(calls, Query)
  /\ UNCHANGED <<rows, route, cal, form, shown, charts, expected, submitting, confirm, moved>>

\* Done in the browser: the users below target, and the pages.
Local ==
  UNCHANGED <<rows, route, data, submitting, calls, history, acts>>

ToggleBelowExpected ==
  /\ Free /\ route = "list"
  /\ lst' = [lst EXCEPT !.below = ~@, !.page = 1]
  /\ Local /\ UNCHANGED <<cal, form, confirm>>

SetPage(p) ==
  /\ Free /\ route = "list" /\ TotalPages > 1
  /\ \/ p = lst.page - 1 /\ lst.page # 1
     \/ p = lst.page + 1 /\ lst.page # TotalPages
     \/ p \in PageWindow
  /\ lst' = [lst EXCEPT !.page = Most(1, Least(p, TotalPages))]
  /\ Local /\ UNCHANGED <<cal, form, confirm>>

\* prevMonth, nextMonth and the two menus; the arrows leave the menu's years.
\* Another year asks for its working days too.
ChangeMonth ==
  LET y == cal.year  m == cal.month  S == calls IN
  /\ Free /\ route = "my"
  /\ Act
  /\ \E n \in {IF m = 0 THEN <<y - 1, 11>> ELSE <<y, m - 1>>,
               IF m = 11 THEN <<y + 1, 0>> ELSE <<y, m + 1>>}
              \cup ({y} \X Months) \cup (Years \X {m}) :
       /\ n # <<y, m>>
       /\ cal' = [year |-> n[1], month |-> n[2], selected |-> Null]
       /\ Ask(IF n[1] = y THEN S ELSE DaysCall(S, n[1]), MonthQuery(cal'))
  /\ UNCHANGED <<rows, route, lst, form, shown, charts, expected, submitting, confirm, moved>>

SelectDay(d) ==
  /\ Free /\ route = "my" /\ ~loading
  /\ d \in MonthQuery(cal).days /\ Hours(shown, Me, {d}) > 0
  /\ cal' = [cal EXCEPT !.selected = IF @ = d THEN Null ELSE d]
  /\ Local /\ UNCHANGED <<lst, form, confirm>>

\* setDate: the form, and the entry being edited, stay.
SetDate(d) ==
  /\ Free /\ route = "entry" /\ d # form.date
  /\ Act
  /\ form' = [form EXCEPT !.date = d]
  /\ moved' = (form.editing # Null \/ form.pending # Null)
  /\ Ask(calls, DayQuery(d))
  /\ UNCHANGED <<rows, route, lst, cal, shown, charts, expected, submitting, confirm>>

\* Typing: the form becomes valid, or (another activity) loses its category.
Type ==
  /\ Free /\ route = "entry"
  /\ form' = [form EXCEPT !.filled = ~@]
  /\ Local /\ UNCHANGED <<lst, cal, confirm>>

\* resetForm
Reset(f) == [f EXCEPT !.editing = Null, !.filled = FALSE]

Clear ==
  /\ Free /\ route = "entry"
  /\ form' = Reset(form)
  /\ Local /\ UNCHANGED <<lst, cal, confirm>>

\* edit: whose fields the form holds, and (history) the day they were read with.
Edited(f, i, d) == [f EXCEPT !.editing = i, !.was = d, !.filled = TRUE]

Edit(i) ==
  /\ Free /\ route = "entry" /\ i \in Editable
  /\ form' = Edited(form, i, shown[i].day)
  /\ moved' = FALSE
  /\ UNCHANGED <<rows, route, lst, cal, data, submitting, confirm, calls,
                 calm, acts>>

Submit ==
  /\ Free /\ route = "entry"
  /\ form.filled /\ MayEdit(form.date) /\ ~submitting
  /\ Act
  /\ submitting' = TRUE
  /\ calls' = Plus(calls, [Call(IF form.editing = Null THEN "create" ELSE "update")
                EXCEPT !.row = form.editing, !.day = form.date, !.was = form.was,
                       !.moved = moved])
  /\ UNCHANGED <<rows, screen, data, confirm, history>>

AskDelete(i) ==
  /\ Free /\ i \in Editable
  /\ confirm' = i
  /\ Local /\ UNCHANGED <<lst, cal, form>>

CancelDelete ==
  /\ confirm # Null
  /\ confirm' = Null
  /\ Local /\ UNCHANGED <<lst, cal, form>>

ConfirmDelete ==
  /\ confirm # Null
  /\ Act
  /\ confirm' = Null
  /\ calls' = Plus(calls, [Call("delete") EXCEPT !.row = confirm])
  /\ UNCHANGED <<rows, screen, data, submitting, history>>

-----------------------------------------------------------------------------
(* The server: each call is handled in one transaction.                     *)

browser == <<screen, data, submitting, confirm, history, acts>>

\* The answer of a call whose screen is gone reaches nobody.
Answer(c, d) == calls' = (calls \ {c}) \cup {e \in {d} : e.live}

\* list_entries: a worker gets own entries, whatever the filter says.
Matching(q) ==
  [i \in Ids |->
     IF /\ rows[i] # Null
        /\ rows[i].owner \in (IF IsWorker THEN {Me} ELSE q.owners)
        /\ rows[i].day \in q.days
        /\ i \in q.ids
       THEN rows[i] ELSE Null]

ServeGet(c) ==
  /\ c.op \in Gets /\ ~c.served
  /\ Answer(c, [c EXCEPT !.served = TRUE,
                         !.rows = IF c.op = "days" THEN NoRows ELSE Matching(c.query)])
  /\ UNCHANGED <<rows, browser>>

Change(i, e) == rows' = [rows EXCEPT ![i] = e]

\* An own entry is created, or one that is within the window changed.
ServeWrite(c) ==
  /\ c.op \in Writes /\ ~c.served
  /\ IF c.op = "create"
       THEN \E i \in Ids : rows[i] = Null /\ Change(i, [owner |-> Me, day |-> c.day])
       ELSE /\ rows[c.row] # Null /\ rows[c.row].owner = Me /\ MayEdit(rows[c.row].day)
            /\ Change(c.row, IF c.op = "delete" THEN Null ELSE [owner |-> Me, day |-> c.day])
  /\ Answer(c, [c EXCEPT !.served = TRUE])
  /\ UNCHANGED browser

\* What a call without a screen asked for may also be refused or get lost.
Drop(c) ==
  /\ ~c.live
  /\ calls' = calls \ {c}
  /\ UNCHANGED <<rows, browser>>

-----------------------------------------------------------------------------
(* The answers.                                                             *)

\* An error may come before the call is served (a rule of the server, no
\* connection) or instead of the answer to one that was.
Answered(c, ok, ops) == c.live /\ c.op \in ops /\ (ok => c.served)

Failed(c, ok) == ~ok /\ (c.op \in Gets \/ c.served)

\* The first list of the form opens the entry of the URL.
Opened(t) ==
  LET i == form.pending IN
  IF i = Null
    THEN form
    ELSE IF t[i] # Null /\ t[i].owner = Me /\ MayEdit(t[i].day)
           THEN [Edited(form, i, t[i].day) EXCEPT !.pending = Null]
           ELSE [form EXCEPT !.pending = Null]

DeliverList(c, ok) ==
  /\ Answered(c, ok, {"list"})
  /\ shown' = IF ok THEN c.rows ELSE NoRows
  /\ loading' = FALSE
  /\ form' = IF ok THEN Opened(c.rows) ELSE form
  /\ calls' = calls \ {c}
  /\ calm' = (calm /\ ~Failed(c, ok))
  /\ UNCHANGED <<rows, route, lst, cal, charts, expected, submitting, confirm, moved, acts>>

DeliverCharts(c, ok) ==
  /\ Answered(c, ok, {"charts"})
  /\ charts' = IF ok THEN c.rows ELSE NoRows
  /\ calls' = calls \ {c}
  /\ calm' = (calm /\ ~Failed(c, ok))
  /\ UNCHANGED <<rows, screen, shown, expected, loading, submitting, confirm, moved, acts>>

DeliverDays(c, ok) ==
  /\ Answered(c, ok, {"days"})
  /\ expected' = IF ok THEN c.year ELSE Null
  /\ calls' = calls \ {c}
  /\ calm' = (calm /\ ~Failed(c, ok) /\ InFlight({"days"}) = {c})
  /\ UNCHANGED <<rows, screen, shown, charts, loading, submitting, confirm, moved, acts>>

\* An error of a save or a deletion is only told.
Told(c, ok) ==
  /\ calls' = calls \ {c}
  /\ calm' = (calm /\ ~Failed(c, ok))
  /\ UNCHANGED <<form, loading>>

\* The answer to a save clears the form, whatever it holds by then.
DeliverSave(c, ok) ==
  /\ Answered(c, ok, {"create", "update"})
  /\ submitting' = FALSE
  /\ IF ok THEN form' = Reset(form) /\ Ask(calls \ {c}, Query) ELSE Told(c, ok)
  /\ UNCHANGED <<rows, route, lst, cal, shown, charts, expected, confirm, moved, acts>>

\* Mutant: the calendar keeps the entry.
DeliverDelete_keep(c, ok) ==
  /\ Answered(c, ok, {"delete"})
  /\ IF ok /\ route # "my"
       THEN /\ form' = IF form.editing = c.row THEN Reset(form) ELSE form
            /\ Ask(calls \ {c}, Query)
       ELSE Told(c, ok)
  /\ UNCHANGED <<rows, route, lst, cal, shown, charts, expected, submitting, confirm, moved,
                 acts>>

\* Mutant: the list only drops the entry too, its charts keep it.
DeliverDelete_local(c, ok) ==
  /\ Answered(c, ok, {"delete"})
  /\ Told(c, ok)
  /\ shown' = IF ok THEN [shown EXCEPT ![c.row] = Null] ELSE shown
  /\ UNCHANGED <<rows, route, lst, cal, charts, expected, submitting, confirm, moved, acts>>

\* The list and the form reload, the calendar only drops the entry.
DeliverDelete(c, ok) ==
  /\ Answered(c, ok, {"delete"})
  /\ IF ok /\ route # "my"
       THEN /\ form' = IF form.editing = c.row THEN Reset(form) ELSE form
            /\ Ask(calls \ {c}, Query)
       ELSE Told(c, ok)
  /\ shown' = IF ok /\ route = "my" THEN [shown EXCEPT ![c.row] = Null] ELSE shown
  /\ UNCHANGED <<rows, route, lst, cal, charts, expected, submitting, confirm, moved, acts>>

-----------------------------------------------------------------------------
Click ==
  \/ \E r \in {"list", "my", "entry"} : Navigate(r)
  \/ \E i \in Ids : EditEntry(i) \/ Edit(i) \/ AskDelete(i)
  \/ \E d \in Days : AddEntry(d) \/ SelectDay(d) \/ SetDate(d)
  \/ ChangeFilter \/ ToggleSort \/ ToggleBelowExpected
  \/ \E p \in 0..(lst.page + Cardinality(Users)) : SetPage(p)
  \/ ChangeMonth
  \/ Type \/ Clear \/ Submit
  \/ CancelDelete \/ ConfirmDelete

Deliver(c, ok) ==
  \/ DeliverList(c, ok)
  \/ DeliverCharts(c, ok)
  \/ DeliverDays(c, ok)
  \/ DeliverSave(c, ok)
  \/ DeliverDelete(c, ok)

ScreensNext ==
  \/ Click
  \/ \E c \in calls : ServeGet(c) \/ ServeWrite(c) \/ Drop(c)
  \/ \E c \in calls, ok \in BOOLEAN : Deliver(c, ok)

ScreensSpec == ScreensInit /\ [][ScreensNext]_screenVars

-----------------------------------------------------------------------------
(* Properties                                                               *)

Settled == calm /\ InFlight(Gets \cup Writes) = {}

\* Once everything is answered the list shows the entries its filters ask for as
\* they are in the database, its figures and charts add up the same entries, and a workbook
\* exported then holds them all, none outside the dates of its title
\* (workload-list.component.ts:425-469, 518-579, 676-688).
TableAndChartsFollow ==
  Settled /\ route = "list" =>
    /\ shown = Matching(Query)
    /\ Kpis.totalEntries = Cardinality(Listed(shown))
    /\ DOMAIN Trend = {shown[i].day : i \in Listed(shown)}
    /\ \A d \in DOMAIN Trend :
         Trend[d] = EntryHours * Cardinality({i \in Listed(shown) : shown[i].day = d})
    /\ UNION Workbook.groups = Listed(Matching(Query))
    /\ \A i \in UNION Workbook.groups : rows[i].day \in InRange(Workbook.title)

\* A settled calendar marks a day as missing if and only if it is a past weekday
\* without an own entry, and has the working days of its year; a settled form
\* lists the entries of its date (my-workload.component.ts:110-151, 231-239, 306;
\* workload-entry.component.ts:147-152, 183-188).
OwnDaysAreRight ==
  /\ Settled /\ route = "my" =>
       /\ MissingDays = {d \in MonthQuery(cal).days \ Weekend :
                           d <= Today /\ Hours(rows, Me, {d}) = 0}
       /\ expected = cal.year
  /\ Settled /\ route = "entry" =>
       DayEntries = {i \in Listed(rows) : rows[i] = [owner |-> Me, day |-> form.date]}

\* A save moves an entry to another day only if the user changed the date after
\* choosing the entry, however late the lists of other days come
\* (workload-entry.component.ts:147-152, 192-195, 299-313).
SaveKeepsTheDay ==
  \A c \in InFlight({"update"}) : c.moved \/ c.day = c.was

=============================================================================
