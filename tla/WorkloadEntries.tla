--------------------------- MODULE WorkloadEntries ---------------------------
(***************************************************************************)
(* The workload API (backend/app/services/workload_service.py): a worker   *)
(* creates, edits and deletes dated entries of their own; administrators   *)
(* add categories and switch them off and on meanwhile; days go by.        *)
(*                                                                         *)
(* As in PositionTree an action is one await of one request, and only the  *)
(* columns a PATCH changes are written.  The service alone checks that a   *)
(* category belongs to the entry's activity type: one integer column       *)
(* points into three tables.  The CHECK constraints see the final row.     *)
(*                                                                         *)
(* Left out: task type, description, status, complexity, quantity (a bad   *)
(* value shows as Abort), the clock's hours, and the read-only endpoints.  *)
(***************************************************************************)
EXTENDS Nothing, Integers

CONSTANTS
  Entries,      \* ids the sequence hands out
  Owners,       \* the accounts that send requests
  Activities,   \* activity_type_id: 1 PROJECT, 2 NON_PROJECT, 3 SELF_IMP
  Categories,   \* ids of the category tables; an id may be in several of them
  Projects,     \* project ids
  Keep,         \* a field the PATCH body leaves out
  Slots,        \* the requests in flight at once
  Dates,        \* the work dates clients send, as day numbers
  FirstDay, LastDay,  \* the days the behaviours span (a bound)
  Amounts,      \* the hours clients send, in thousandths; at most 999990
  EditWindow,   \* EDIT_WINDOW_DAYS
  MaxRequests   \* how many requests a behaviour starts (a bound)

ASSUME EntryAssumption ==
  /\ Activities \subseteq 1..3
  /\ Dates \subseteq Int
  /\ FirstDay \in Int /\ LastDay \in Int /\ FirstDay <= LastDay
  /\ EditWindow \in Nat
  /\ Amounts \subseteq Nat \ {0}
  /\ MaxRequests \in Nat
  /\ Null \notin Projects \cup {Keep} /\ Keep \notin Projects
  /\ Keep \notin Dates \cup Activities \cup Categories \cup Amounts

VARIABLES
  row,      \* the workload_entries table: a row or Null for each id
  used,     \* the ids the sequence has handed out
  listed,   \* the categories each table holds
  live,     \* those of them with is_active
  today,    \* date.today()
  req,      \* what each slot is doing
  started   \* how many requests have been started

vars == <<row, used, listed, live, today, req, started>>

-----------------------------------------------------------------------------
Rows ==
  [owner : Owners, date : Dates, activity : Activities,
   category : Categories, project : Projects \cup {Null}, hours : Nat]

\* What a body may set; a create names every field.
Bodies ==
  [date : Dates \cup {Keep}, activity : Activities \cup {Keep},
   category : Categories \cup {Keep}, project : Projects \cup {Null, Keep},
   amount : Amounts \cup {Keep}]

NoBody ==
  [date |-> Keep, activity |-> Keep, category |-> Keep, project |-> Keep,
   amount |-> Keep]

Requests ==
  [pc     : {"idle", "load", "category", "write"},
   op     : {"none", "create", "update", "delete"},
   actor  : Owners \cup {Null},
   target : Entries \cup {Null},
   body   : Bodies,
   old    : Rows \cup {Null},
   day    : FirstDay..LastDay]

Idle ==
  [pc |-> "idle", op |-> "none", actor |-> Null, target |-> Null,
   body |-> NoBody, old |-> Null, day |-> FirstDay]

TypeOK ==
  /\ row \in [Entries -> Rows \cup {Null}]
  /\ used \in SUBSET Entries
  /\ \A e \in Entries \ used : row[e] = Null
  /\ listed \in [Activities -> SUBSET Categories]
  /\ live \in [Activities -> SUBSET Categories]
  /\ \A a \in Activities : live[a] \subseteq listed[a]
  /\ today \in FirstDay..LastDay
  /\ req \in [Slots -> Requests]
  /\ started \in 0..MaxRequests

-----------------------------------------------------------------------------
(* The rules of an entry. *)

\* A project entry names its project, any other entry names none.
Consistent(a, g) == (a = 1) = (g # Null)

InWindow(d, day) == d <= day /\ day - EditWindow <= d

\* Half-even to hundredths (Decimal.to_integral_value), as the schema counts
\* quarters of an hour; half-up to hundredths, as NUMERIC(5, 2) stores them.
HalfEven(h) ==
  LET c == h \div 10
  IN IF h % 10 > 5 \/ (h % 10 = 5 /\ c % 2 = 1) THEN c + 1 ELSE c

Numeric52(h) == (h + 5) \div 10

OnGrid(hundredths) == hundredths % 25 = 0

-----------------------------------------------------------------------------
(* The seed: any categories, all active, and any legal entries.             *)
Init ==
  /\ listed \in [Activities -> SUBSET Categories]
  /\ live = listed
  /\ today = FirstDay
  /\ used \in SUBSET Entries
  /\ row \in [Entries -> Rows \cup {Null}]
  /\ \A e \in Entries :
       IF e \notin used
         THEN row[e] = Null
         ELSE /\ row[e] # Null
              /\ row[e].date <= today
              /\ row[e].category \in listed[row[e].activity]
              /\ Consistent(row[e].activity, row[e].project)
              /\ row[e].hours > 0 /\ OnGrid(row[e].hours)
  /\ req = [s \in Slots |-> Idle]
  /\ started = 0

-----------------------------------------------------------------------------
Start(s, r) ==
  /\ req[s].pc = "idle"
  /\ started < MaxRequests
  /\ started' = started + 1
  /\ req' = [req EXCEPT ![s] = [r EXCEPT !.day = today]]
  /\ UNCHANGED <<row, used, listed, live, today>>

\* A body the schema accepts, dated inside the window (a refused one changes
\* nothing and is left out); the next await looks up the category.
StartCreate(s, o, b) ==
  /\ \A f \in {"date", "activity", "category", "amount", "project"} : b[f] # Keep
  /\ Consistent(b.activity, b.project)
  /\ OnGrid(HalfEven(b.amount))
  /\ InWindow(b.date, today)
  /\ Start(s, [Idle EXCEPT !.pc = "category", !.op = "create",
                           !.actor = o, !.body = b])

StartUpdate(s, o, e, b) ==
  Start(s, [Idle EXCEPT !.pc = "load", !.op = "update", !.actor = o,
                        !.target = e, !.body = b])

StartDelete(s, o, e) ==
  Start(s, [Idle EXCEPT !.pc = "load", !.op = "delete", !.actor = o,
                        !.target = e])

-----------------------------------------------------------------------------
Goto(s, r) ==
  /\ req' = [req EXCEPT ![s] = r]
  /\ UNCHANGED <<row, used, listed, live, today, started>>

\* The HTTP error path: nothing is written.
Reject(s) == Goto(s, Idle)

\* The row as the request would have it.
Set(new, old) == IF new = Keep THEN old ELSE new

Merged(b, base) ==
  [base EXCEPT !.date = Set(b.date, @),
               !.activity = Set(b.activity, @),
               !.category = Set(b.category, @),
               !.project = Set(b.project, @),
               !.hours = IF b.amount = Keep THEN @ ELSE Numeric52(b.amount)]

\* Mutant: an administrator's right is enough.
MayTouch_anyActor(r, e) ==
  /\ InWindow(e.date, today)
  /\ r.body.date \in {Keep, e.date} \/ InWindow(r.body.date, today)

\* Mutant: only the date the entry will have is checked.
MayTouch_oldDateToo(r, e) ==
  /\ e.owner = r.actor
  /\ InWindow(Set(r.body.date, e.date), today)

\* _enforce_ownership, then the window of the row's date and of a new one.
MayTouch(r, e) ==
  /\ e.owner = r.actor
  /\ InWindow(e.date, today)
  /\ r.body.date \in {Keep, e.date} \/ InWindow(r.body.date, today)

\* Mutant: a PATCH that names only the activity keeps its category unchecked.
Loaded_categoryOnly(r, e) ==
  [r EXCEPT !.old = e,
            !.day = today,
            !.pc = IF r.body.category = Keep THEN "write" ELSE "category"]

\* On to the lookup of the category if the body names half of the pair.
Loaded(r, e) ==
  [r EXCEPT !.old = e,
            !.day = today,
            !.pc = IF r.body.activity = Keep /\ r.body.category = Keep
                     THEN "write" ELSE "category"]

\* get_entry and all the checks that need no further query.
LoadEntry(s) ==
  LET r == req[s]
      e == row[r.target]
  IN
  /\ r.pc = "load"
  /\ IF \/ e = Null
        \/ ~MayTouch(r, e)
        \/ /\ r.op = "update"
           /\ ~Consistent(Merged(r.body, e).activity, Merged(r.body, e).project)
       THEN Reject(s)
       ELSE Goto(s, Loaded(r, e))

\* _validate_category_for_activity: an active row of the activity's table.
ValidateCategory(s) ==
  LET r == req[s]
      a == IF r.body.activity = Keep THEN r.old.activity ELSE r.body.activity
      c == IF r.body.category = Keep THEN r.old.category ELSE r.body.category
  IN
  /\ r.pc = "category"
  /\ IF c \in live[a]
       THEN Goto(s, [r EXCEPT !.pc = "write"])
       ELSE Reject(s)

-----------------------------------------------------------------------------
\* Mutant: one of the two constraints is missing.
Checks_noConsistency(e) == e.hours > 0

\* The CHECK constraints of the table, on the row as it would be stored.
Checks(e) == e.hours > 0 /\ Consistent(e.activity, e.project)

Finish(s) ==
  /\ req' = [req EXCEPT ![s] = Idle]
  /\ UNCHANGED <<listed, live, today, started>>

\* Mutant: the id is computed from the rows that are left.
CommitCreate_freeId(s) ==
  LET r == req[s]
      new == [owner |-> r.actor, date |-> r.body.date,
              activity |-> r.body.activity, category |-> r.body.category,
              project |-> r.body.project, hours |-> Numeric52(r.body.amount)]
  IN
  /\ r.pc = "write"
  /\ r.op = "create"
  /\ Checks(new)
  /\ \E e \in Entries \ used : row' = [row EXCEPT ![e] = new]
  /\ UNCHANGED used
  /\ Finish(s)

\* flush and commit of a create, always on the actor's account.
CommitCreate(s) ==
  LET r == req[s]
      new == [owner |-> r.actor, date |-> r.body.date,
              activity |-> r.body.activity, category |-> r.body.category,
              project |-> r.body.project, hours |-> Numeric52(r.body.amount)]
  IN
  /\ r.pc = "write"
  /\ r.op = "create"
  /\ Checks(new)
  /\ \E e \in Entries \ used :
       /\ used' = used \cup {e}
       /\ row' = [row EXCEPT ![e] = new]
  /\ Finish(s)

\* The columns the UPDATE statement sets: those whose value is not the loaded
\* one (the hours are compared before the column rounds them).
Changed(r) ==
  [date     |-> IF r.body.date = r.old.date THEN Keep ELSE r.body.date,
   activity |-> IF r.body.activity = r.old.activity THEN Keep ELSE r.body.activity,
   category |-> IF r.body.category = r.old.category THEN Keep ELSE r.body.category,
   project  |-> IF r.body.project = r.old.project THEN Keep ELSE r.body.project,
   amount   |-> IF r.body.amount = 10 * r.old.hours THEN Keep ELSE r.body.amount]

\* Mutant: a row that is gone is written again (merge instead of update).
CommitUpdate_upserts(s) ==
  LET r == req[s]
      new == Merged(Changed(r), IF row[r.target] = Null THEN r.old ELSE row[r.target])
  IN
  /\ r.pc = "write"
  /\ r.op = "update"
  /\ Checks(new)
  /\ row' = [row EXCEPT ![r.target] = new]
  /\ UNCHANGED used
  /\ Finish(s)

\* flush, refresh and commit of an update.  A row deleted meanwhile fails the
\* flush or the refresh.
CommitUpdate(s) ==
  LET r == req[s]
      new == Merged(Changed(r), row[r.target])
  IN
  /\ r.pc = "write"
  /\ r.op = "update"
  /\ row[r.target] # Null
  /\ Checks(new)
  /\ row' = [row EXCEPT ![r.target] = new]
  /\ UNCHANGED used
  /\ Finish(s)

\* DELETE by primary key; a row that is already gone is no error.
CommitDelete(s) ==
  /\ req[s].pc = "write"
  /\ req[s].op = "delete"
  /\ row' = [row EXCEPT ![req[s].target] = Null]
  /\ UNCHANGED used
  /\ Finish(s)

\* A failed CHECK or foreign key, a stale row, a lost connection, a crash.
Abort(s) ==
  /\ req[s].pc # "idle"
  /\ Reject(s)

-----------------------------------------------------------------------------
\* lookup_service: a category is added, switched off or switched on again,
\* whoever uses it.
AddCategory(a, c) ==
  /\ c \notin listed[a]
  /\ started < MaxRequests
  /\ started' = started + 1
  /\ listed' = [listed EXCEPT ![a] = @ \cup {c}]
  /\ live' = [live EXCEPT ![a] = @ \cup {c}]
  /\ UNCHANGED <<row, used, today, req>>

SwitchCategory(a, c) ==
  /\ c \in listed[a]
  /\ started < MaxRequests
  /\ started' = started + 1
  /\ live' = [live EXCEPT ![a] = IF c \in @ THEN @ \ {c} ELSE @ \cup {c}]
  /\ UNCHANGED <<row, used, listed, today, req>>

Tick ==
  /\ today < LastDay
  /\ today' = today + 1
  /\ UNCHANGED <<row, used, listed, live, req, started>>

-----------------------------------------------------------------------------
StartSome(s) ==
  \E o \in Owners :
    \/ \E b \in Bodies : StartCreate(s, o, b)
    \/ \E e \in Entries, b \in Bodies : StartUpdate(s, o, e, b)
    \/ \E e \in Entries : StartDelete(s, o, e)

RequestStep(s) ==
  \/ StartSome(s)
  \/ LoadEntry(s)
  \/ ValidateCategory(s)
  \/ CommitCreate(s)
  \/ CommitUpdate(s)
  \/ CommitDelete(s)
  \/ Abort(s)

Next ==
  \/ \E s \in Slots : RequestStep(s)
  \/ \E a \in Activities, c \in Categories : AddCategory(a, c) \/ SwitchCategory(a, c)
  \/ Tick

Spec == Init /\ [][Next]_vars

-----------------------------------------------------------------------------
(* Properties                                                               *)

\* The category of an entry is a row of the table its activity type points to,
\* which no foreign key enforces (models/workload_entry.py:37-40): the service
\* keeps it when requests do not overlap.
CategoryFits ==
  \A e \in Entries : row[e] # Null => row[e].category \in listed[row[e].activity]

\* A project entry has a project and no other entry has one, although two
\* overlapping PATCHes may each write half of the pair (the CHECK constraint,
\* models/workload_entry.py:74-78, sees the row they add up to).
ProjectMatchesActivity ==
  \A e \in Entries : row[e] # Null => Consistent(row[e].activity, row[e].project)

\* An amount the schema accepts (greater than 0) may be stored as 0.00 after
\* NUMERIC(5, 2) rounds it; such a request fails (models/workload_entry.py:73).
HoursPositive ==
  \A e \in Entries : row[e] # Null => row[e].hours > 0

\* However requests overlap and whenever midnight falls, no entry lies in the
\* future (workload_service.py:42 and 182).
NoFutureEntries ==
  \A e \in Entries : row[e] # Null => row[e].date <= today

\* Only a request of its owner changes or removes an entry, and nobody can give
\* an entry away (_enforce_ownership, workload_service.py:218, and line 152).
OnlyOwnersTouch ==
  [][ \A e \in Entries :
        row[e] # Null /\ row'[e] # row[e] =>
          /\ \E s \in Slots : /\ req[s].target = e /\ req[s].pc = "write"
                              /\ req[s].actor = row[e].owner
          /\ row'[e] = Null \/ row'[e].owner = row[e].owner ]_vars

\* An entry that is gone stays gone, also when a PATCH that loaded it before
\* commits after the DELETE (workload_service.py:177-207 and 211-215).
DeletedStayDeleted ==
  [][ \A e \in used : row[e] = Null => row'[e] = Null ]_vars

\* When requests do not overlap, an entry older than the edit window, as of the
\* day its request was checked, is neither changed, nor removed, nor made, nor
\* can an entry be moved out of the window (workload_service.py:40-48, 148,
\* 179-183, 213; docs/TASK.md:214 has a window of 30 days).
WindowOf(days) ==
  \A e \in Entries : row'[e] # row[e] =>
    \E s \in Slots :
      /\ req[s].pc = "write"
      /\ row[e] # Null => req[s].day - days <= row[e].date
      /\ row'[e] # Null /\ (row[e] = Null \/ row'[e].date # row[e].date) =>
           req[s].day - days <= row'[e].date

EditWindowKept == [][WindowOf(EditWindow)]_vars

=============================================================================
