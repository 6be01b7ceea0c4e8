------------------------------ MODULE Prototype ------------------------------
(***************************************************************************)
(* The clickable prototype: one page application without a server, whose    *)
(* users, tables and entries are the state of two React contexts.  The menu *)
(* and the buttons are its only access control, the login is answered by a  *)
(* timer, and the panels and dialogs work on copies.                        *)
(*                                                                         *)
(* A user is its account, and an e-mail address belongs to one user.  The   *)
(* other fields of users and entries are taken to be filled in.  A dialog   *)
(* covers the window, so nothing behind it is clicked; today stays today.   *)
(***************************************************************************)
EXTENDS Integers, Sequences, FiniteSetsExt, SequencesExt

CONSTANTS
  Accounts,    \* numbered in the order of their names
  Roles,
  Passwords,
  Items,       \* the ids of rows of the lookup tables
  Days, Today,
  Ahead,       \* 1 in a time zone ahead of UTC, else 0
  Filters,     \* the filters of the list that are tried (a bound)
  Sizes,       \* the sizes of its pages, of which DefaultSize is the first
  DefaultSize,
  Null,
  MaxEntries, MaxTimers,
  MaxActs      \* changes of data and of what a page shows, second logins (a bound)

Row == [role : Roles, active : BOOLEAN, password : Passwords]

\* What is taken for granted about the parameters.
Setting ==
  /\ Accounts \subseteq Nat /\ Items \subseteq Nat /\ Days \subseteq Nat
  /\ {"ADMIN", "WORKER"} \subseteq Roles
  /\ Today \in Days /\ Ahead \in {0, 1} /\ DefaultSize \in Sizes /\ Sizes \subseteq Nat \ {0}
  /\ Filters \subseteq [from : Nat, only : Accounts \cup {Null}]
  /\ MaxEntries \in Nat /\ MaxTimers \in Nat /\ MaxActs \in Nat
  /\ Null \notin Row

ASSUME PrototypeAssumption == Setting

VARIABLES
  users,      \* AuthContext.users, Null for an account nobody has
  tables,     \* WorkloadContext: the ids in each lookup table, and those in use
  entries,    \* WorkloadContext.entries, the newest first
  made,       \* (history) how many entries there have been: Date.now gives no id twice
  session,    \* AuthContext.currentUser, the copy of a row at login
  route,      \* RouterContext.currentRoute
  page,       \* the state of the page that is mounted
  timers,     \* the logins that wait for their timer
  strayed,    \* (history) the session comes from a login screen that was gone
  acts

data == <<users, tables, entries, made>>
shell == <<session, route, timers, strayed>>
vars == <<data, shell, page, acts>>

-----------------------------------------------------------------------------
(* The data of the demonstration.                                          *)

ProjectActivity == 1
Activities == 1..3

\* getCategoriesForActivity: an activity type that was added has no categories.
TableOf(activity) ==
  IF activity \in Activities
  THEN <<"projectCategories", "nonProjCategories", "selfImpCategories">>[activity]
  ELSE "none"

\* The tabs; task types, which no entry here has, behave like projects.
Kinds ==
  {"projects", "activityTypes", "projectCategories", "nonProjCategories", "selfImpCategories"}

Live(kind) == IF kind = "none" THEN {} ELSE tables[kind].live

Sessions == [account : Accounts, role : Roles]

Entry ==
  [id : 1..MaxEntries, owner : Accounts, day : Days, activity : Activities,
   category : Items, project : Items \cup {Null}]

\* MOCK_USERS: everybody is active, one of them is an administrator.
SeedUsers(u) ==
  /\ u \in [Accounts -> Row \cup {Null}]
  /\ \E a \in Accounts : u[a] # Null /\ u[a].role = "ADMIN"
  /\ \A a \in Accounts : u[a] # Null => u[a].active

\* The mock tables: everything is in use, the activity types are the three.
SeedTables(t) ==
  /\ t \in [Kinds -> [listed : SUBSET Items, live : SUBSET Items]]
  /\ t["activityTypes"].listed = Activities
  /\ \A k \in Kinds : t[k].live = t[k].listed

\* buildMockEntries: entries of several users up to today, numbered as they are
\* made; a project exactly for the project activity, a category of its activity.
SeedEntries(s, u, t) ==
  /\ s \in Seq(Entry)
  /\ \A i \in 1..Len(s) :
       /\ s[i].id = i /\ s[i].day <= Today
       /\ u[s[i].owner] # Null
       /\ s[i].category \in t[TableOf(s[i].activity)].listed
       /\ IF s[i].activity = ProjectActivity
          THEN s[i].project \in t["projects"].listed ELSE s[i].project = Null

\* isEditable: the last 30 days, and up to ten years ahead.  Whole days are counted
\* from midnight UTC of the day to local midnight, which is earlier ahead of UTC.
EditWindow == 30
Editable(day) == Today - Ahead - day \in (-3650)..EditWindow

\* filter: what is at these places, in the same order.
Kept(s, places) ==
  [k \in 1..Cardinality(places) |->
     s[CHOOSE i \in places : Cardinality({j \in places : j <= i}) = k]]

-----------------------------------------------------------------------------
(* What a page starts with when it is mounted.                             *)

EmptyForm == [activity |-> Null, category |-> Null, project |-> Null]
UsersState ==
  [selected |-> Null, creating |-> FALSE, form |-> Null, dialog |-> "none", status |-> "active"]
EntryState == [date |-> Today, editing |-> Null, form |-> EmptyForm, confirm |-> Null]
ListState ==
  [filter |-> [from |-> Today - EditWindow, only |-> Null], size |-> DefaultSize, number |-> 1,
   key |-> "work_date", dir |-> "desc", editing |-> Null, form |-> Null, confirm |-> Null]
LookupsState == [tab |-> "projects", status |-> "active", modal |-> Null, confirm |-> Null]

Routes == {"dashboard", "workload-entry", "workload-list", "yearly-report", "users", "lookups"}

\* AppShell: the route alone chooses the page, whoever is logged in.  The
\* dashboard and the report, which only show, have no state here.
Mounted(r) ==
  CASE r = "users" -> UsersState
    [] r = "workload-entry" -> EntryState
    [] r = "workload-list" -> ListState
    [] r = "lookups" -> LookupsState
    [] OTHER -> Null

\* MENU_BY_ROLE
Menu(role) ==
  IF role = "WORKER" THEN {"dashboard", "workload-entry", "workload-list"} ELSE Routes

On(r) == session # Null /\ route = r

\* A dialog is open.
Covered ==
  \/ On("users") /\ page.dialog # "none"
  \/ On("workload-entry") /\ page.confirm # Null
  \/ On("workload-list") /\ (page.form # Null \/ page.confirm # Null)
  \/ On("lookups") /\ (page.modal # Null \/ page.confirm # Null)

Free(r) == On(r) /\ ~Covered

Act == acts > 0 /\ acts' = acts - 1

-----------------------------------------------------------------------------
(* AuthProvider, the login screen and the menu.                            *)

\* login, as the timer will find it: it sees the users of the moment it was set.
LoginResult(a, p) ==
  IF users[a] # Null /\ users[a].active /\ users[a].password = p
  THEN [account |-> a, role |-> users[a].role] ELSE Null

\* handleSubmit.  The button is disabled while it waits, the key Enter is not.
Submit(a, p) ==
  /\ session = Null
  /\ Len(timers) < MaxTimers
  /\ timers' = Append(timers, [result |-> LoginResult(a, p), own |-> TRUE])
  /\ IF timers = <<>> THEN UNCHANGED acts ELSE Act
  /\ UNCHANGED <<data, session, route, strayed, page>>

\* The timer fires, whether or not its login screen is still there.
Elapse ==
  /\ timers # <<>>
  /\ \/ /\ Head(timers).result = Null
        /\ timers' = Tail(timers)
        /\ UNCHANGED <<session, strayed, page>>
     \/ /\ Head(timers).result # Null
        /\ timers' = [i \in 1..(Len(timers) - 1) |-> [timers[i + 1] EXCEPT !.own = FALSE]]
        /\ session' = Head(timers).result
        /\ strayed' = ~Head(timers).own
        /\ page' = IF session = Null THEN Mounted(route) ELSE page
  /\ UNCHANGED <<data, route, acts>>

\* The route stays for whoever comes next.
Logout ==
  /\ session # Null /\ ~Covered
  /\ session' = Null /\ page' = Null /\ strayed' = FALSE
  /\ UNCHANGED <<data, route, timers, acts>>

Navigate(r) ==
  /\ session # Null /\ ~Covered
  /\ r \in Menu(session.role) \ {route}
  /\ route' = r /\ page' = Mounted(r)
  /\ UNCHANGED <<data, session, timers, strayed, acts>>

\* A click that changes the page alone; none are tried once the acts are used up.
Click == acts > 0 /\ UNCHANGED <<data, shell, acts>>

-----------------------------------------------------------------------------
(* UsersPage.                                                              *)

ListedUsers ==
  {a \in Accounts : users[a] # Null /\
     (page.status = "all" \/ users[a].active = (page.status = "active"))}

ChooseStatus(s) ==
  /\ Free("users") /\ s # page.status
  /\ page' = [page EXCEPT !.status = s]
  /\ Click

StartEdit(a) ==
  /\ Free("users") /\ a \in ListedUsers
  /\ page' = [page EXCEPT !.creating = FALSE, !.selected = a,
                          !.form = [id |-> a, row |-> users[a]]]
  /\ Click

StartCreate ==
  /\ Free("users")
  /\ page' = [page EXCEPT !.creating = TRUE, !.selected = Null, !.form =
       [id |-> Null, row |-> [role |-> "WORKER", active |-> TRUE, password |-> Null]]]
  /\ Click

CloseEdit ==
  /\ Free("users") /\ page.form # Null
  /\ page' = [page EXCEPT !.creating = FALSE, !.selected = Null, !.form = Null]
  /\ Click

\* The form's role; its state and, once the user exists, its account are read-only.
EditRole(r) ==
  /\ Free("users") /\ page.form # Null /\ r # page.form.row.role
  /\ page' = [page EXCEPT !.form.row.role = r]
  /\ Click

\* handleSave of a new user.  The form does not learn the id of its user, so a
\* later save from the same panel finds no row to change.
SaveNew(a, p) ==
  /\ Free("users") /\ page.creating /\ users[a] = Null
  /\ Act
  /\ LET row == [page.form.row EXCEPT !.password = p]
     IN /\ users' = [users EXCEPT ![a] = row]
        /\ page' = [page EXCEPT !.selected = a, !.creating = FALSE, !.form.row = row]
  /\ UNCHANGED <<tables, entries, made, shell>>

\* handleSave of an existing user: the whole copy that the panel was opened with.
SaveUser ==
  /\ Free("users") /\ page.selected # Null
  /\ page.form.id # Null /\ page.form.row # users[page.selected]
  /\ Act
  /\ users' = [users EXCEPT ![page.form.id] = page.form.row]
  /\ UNCHANGED <<tables, entries, made, shell, page>>

\* Mutant: the button looks at the state of the account only.
MayDeactivate_anyone(a) == users[a].active

\* The button is disabled for one's own account.
MayDeactivate(a) == users[a].active /\ a # session.account

AskDeactivate ==
  /\ Free("users") /\ page.selected # Null
  /\ MayDeactivate(page.selected)
  /\ page' = [page EXCEPT !.dialog = "deactivate"]
  /\ Click

AskReset ==
  /\ Free("users") /\ page.selected # Null /\ session.role = "ADMIN"
  /\ page' = [page EXCEPT !.dialog = "reset"]
  /\ Click

CancelUser ==
  /\ On("users") /\ page.dialog # "none"
  /\ page' = [page EXCEPT !.dialog = "none"]
  /\ Click

\* handleSoftDelete
Deactivate ==
  /\ On("users") /\ page.dialog = "deactivate"
  /\ Act
  /\ users' = [users EXCEPT ![page.selected].active = FALSE]
  /\ page' = [page EXCEPT !.dialog = "none", !.creating = FALSE, !.selected = Null, !.form = Null]
  /\ UNCHANGED <<tables, entries, made, shell>>

\* handleReactivate and handlePwdReset leave the copy in the form as it was.
Reactivate ==
  /\ Free("users") /\ page.selected # Null /\ ~users[page.selected].active
  /\ Act
  /\ users' = [users EXCEPT ![page.selected].active = TRUE]
  /\ UNCHANGED <<tables, entries, made, shell, page>>

ResetPassword(p) ==
  /\ On("users") /\ page.dialog = "reset"
  /\ Act
  /\ users' = [users EXCEPT ![page.selected].password = p]
  /\ page' = [page EXCEPT !.dialog = "none"]
  /\ UNCHANGED <<tables, entries, made, shell>>

UsersNext ==
  \/ \E s \in {"active", "inactive", "all"} : ChooseStatus(s)
  \/ \E a \in Accounts : StartEdit(a)
  \/ StartCreate \/ CloseEdit \/ SaveUser
  \/ \E r \in Roles : EditRole(r)
  \/ \E a \in Accounts, p \in Passwords : SaveNew(a, p)
  \/ AskDeactivate \/ AskReset \/ CancelUser \/ Deactivate \/ Reactivate
  \/ \E p \in Passwords : ResetPassword(p)

-----------------------------------------------------------------------------
(* The fields of an entry, on its page and in the dialog of the list.      *)

FormOf(e) == [activity |-> e.activity, category |-> e.category, project |-> e.project]

FormOpen ==
  \/ Free("workload-entry")
  \/ On("workload-list") /\ page.form # Null

FormValid ==
  /\ page.form.activity # Null /\ page.form.category # Null
  /\ page.form.activity = ProjectActivity => page.form.project # Null

\* Mutant: a change of the activity keeps the category.
WithActivity_keepsCategory(form, x) == [activity |-> x, category |-> form.category, project |-> Null]

\* handleActivityTypeChange and handleActivityChange: the categories are others.
WithActivity(form, x) == [activity |-> x, category |-> Null, project |-> Null]

ChooseActivity(x) ==
  /\ FormOpen /\ x \in Live("activityTypes")
  /\ page' = [page EXCEPT !.form = WithActivity(page.form, x)]
  /\ Click

ChooseCategory(c) ==
  /\ FormOpen /\ c \in Live(TableOf(page.form.activity))
  /\ page' = [page EXCEPT !.form.category = c]
  /\ Click

\* The field is there for the project activity only.
ChooseProject(p) ==
  /\ FormOpen /\ page.form.activity = ProjectActivity /\ p \in Live("projects")
  /\ page' = [page EXCEPT !.form.project = p]
  /\ Click

\* The part of the payload that both save functions build.
Saved(form) ==
  [form EXCEPT !.project = IF form.activity = ProjectActivity THEN form.project ELSE Null]

\* updateEntry: the fields of the patch replace those of the entry.
Patched(id, patch) ==
  [i \in DOMAIN entries |->
     IF entries[i].id = id
     THEN [k \in DOMAIN entries[i] |-> IF k \in DOMAIN patch THEN patch[k] ELSE entries[i][k]]
     ELSE entries[i]]

-----------------------------------------------------------------------------
(* WorkloadEntryPage.                                                      *)

DayEntries == {e \in Range(entries) : e.owner = session.account /\ e.day = page.date}

\* Mutant: only the fields are emptied.
Cleared_stillEditing(p) == [p EXCEPT !.form = EmptyForm]

\* resetForm
Cleared(p) == [p EXCEPT !.form = EmptyForm, !.editing = Null]

\* The input of the date and the button for today.
SetDate(d) ==
  /\ Free("workload-entry") /\ d # page.date
  /\ Act /\ page' = [Cleared(page) EXCEPT !.date = d]
  /\ UNCHANGED <<data, shell>>

ResetForm ==
  /\ Free("workload-entry")
  /\ page' = Cleared(page)
  /\ Click

\* EntryRow: an entry outside of the window shows a lock instead of its buttons.
EditEntry(e) ==
  /\ Free("workload-entry") /\ e \in DayEntries /\ Editable(e.day)
  /\ page' = [page EXCEPT !.editing = e.id, !.form = FormOf(e)]
  /\ Click

AskDelete(e) ==
  /\ Free("workload-entry") /\ e \in DayEntries /\ Editable(e.day)
  /\ page' = [page EXCEPT !.confirm = e.id]
  /\ Click

CancelDelete ==
  /\ On("workload-entry") /\ page.confirm # Null
  /\ page' = [page EXCEPT !.confirm = Null]
  /\ Click

Payload ==
  LET form == Saved(page.form)
  IN [owner |-> session.account, day |-> page.date, activity |-> form.activity,
      category |-> form.category, project |-> form.project]

\* handleSubmit: what is edited is overwritten, a new entry goes to the front.
SubmitEntry ==
  /\ Free("workload-entry") /\ FormValid /\ Editable(page.date)
  /\ Act
  /\ \/ /\ page.editing # Null
        /\ entries' = Patched(page.editing, Payload)
        /\ UNCHANGED made
     \/ /\ page.editing = Null /\ made < MaxEntries
        /\ made' = made + 1
        /\ entries' = <<[id |-> made + 1, owner |-> Payload.owner, day |-> Payload.day,
                         activity |-> Payload.activity, category |-> Payload.category,
                         project |-> Payload.project]>> \o entries
  /\ page' = Cleared(page)
  /\ UNCHANGED <<users, tables, shell>>

DeleteEntry(id) == entries' = Kept(entries, {i \in DOMAIN entries : entries[i].id # id})

ConfirmDelete ==
  /\ On("workload-entry") /\ page.confirm # Null
  /\ Act
  /\ DeleteEntry(page.confirm)
  /\ page' = [(IF page.editing = page.confirm THEN Cleared(page) ELSE page)
                EXCEPT !.confirm = Null]
  /\ UNCHANGED <<users, tables, made, shell>>

EntryNext ==
  \/ \E d \in Days : SetDate(d)
  \/ \E e \in Range(entries) : EditEntry(e) \/ AskDelete(e)
  \/ ResetForm \/ CancelDelete \/ SubmitEntry \/ ConfirmDelete

-----------------------------------------------------------------------------
(* WorkloadListPage.                                                       *)

\* filteredEntries: the first day and the users stand for the other filters.
Matches(e) ==
  /\ e.day >= page.filter.from
  /\ page.filter.only = Null \/ e.owner = page.filter.only

Matching == Kept(entries, {i \in DOMAIN entries : Matches(entries[i])})

\* sortedEntries: day and user stand for the other columns, equal rows stay in order.
Precedes(s, i, j) ==
  LET Key(e) == IF page.key = "user" THEN e.owner ELSE e.day
      a == Key(s[i])
      b == Key(s[j])
  IN \/ IF page.dir = "asc" THEN a < b ELSE a > b
     \/ a = b /\ i < j

TotalPages ==
  Max({1, (Len(Matching) + page.size - 1) \div page.size})

\* Mutant: the number is used as it is kept.
CurrentPage_unclamped == page.number

\* The number of the page outlives filters and deletions.
CurrentPage == Min({page.number, TotalPages})

\* pagedEntries, and with them the rows whose buttons can be clicked.
PagedEntries ==
  LET s == Matching
      Rank(i) == Cardinality({j \in 1..Len(s) : Precedes(s, j, i)})
  IN {s[i] : i \in {j \in 1..Len(s) :
        Rank(j) \in ((CurrentPage - 1) * page.size)..(CurrentPage * page.size - 1)}}

ChangeFilter(f) ==
  /\ Free("workload-list") /\ f # page.filter
  /\ Act /\ page' = [page EXCEPT !.filter = f]
  /\ UNCHANGED <<data, shell>>

ClearAllFilters ==
  /\ Free("workload-list")
  /\ Act /\ page' = [page EXCEPT !.filter = ListState.filter, !.number = 1]
  /\ UNCHANGED <<data, shell>>

ToggleSort(k) ==
  /\ Free("workload-list")
  /\ Act
  /\ page' = IF page.key = k
             THEN [page EXCEPT !.dir = IF page.dir = "asc" THEN "desc" ELSE "asc"]
             ELSE [page EXCEPT !.key = k, !.dir = "desc"]
  /\ UNCHANGED <<data, shell>>

ChangeSize(n) ==
  /\ Free("workload-list")
  /\ Act /\ page' = [page EXCEPT !.size = n, !.number = 1]
  /\ UNCHANGED <<data, shell>>

TurnPage(n) ==
  /\ Free("workload-list") /\ n \in {CurrentPage - 1, CurrentPage + 1} \cap 1..TotalPages
  /\ Act /\ page' = [page EXCEPT !.number = n]
  /\ UNCHANGED <<data, shell>>

\* Mutant: only the day decides.
RowEditable_byDay(e) == Editable(e.day)

\* The rows of a worker have no buttons.
RowEditable(e) == session.role # "WORKER" /\ Editable(e.day)

OpenModal(e) ==
  /\ Free("workload-list") /\ e \in PagedEntries /\ RowEditable(e)
  /\ page' = [page EXCEPT !.editing = e.id, !.form = FormOf(e)]
  /\ Click

CloseModal ==
  /\ On("workload-list") /\ page.form # Null
  /\ page' = [page EXCEPT !.editing = Null, !.form = Null]
  /\ Click

\* EntryEditModal.handleSave and handleSaveEdit: owner and day are not in the patch.
SaveModal ==
  /\ On("workload-list") /\ page.form # Null /\ FormValid
  /\ Act
  /\ entries' = Patched(page.editing, Saved(page.form))
  /\ page' = [page EXCEPT !.editing = Null, !.form = Null]
  /\ UNCHANGED <<users, tables, made, shell>>

AskDeleteRow(e) ==
  /\ Free("workload-list") /\ e \in PagedEntries /\ RowEditable(e)
  /\ page' = [page EXCEPT !.confirm = e.id]
  /\ Click

CancelDeleteRow ==
  /\ On("workload-list") /\ page.confirm # Null
  /\ page' = [page EXCEPT !.confirm = Null]
  /\ Click

ConfirmDeleteRow ==
  /\ On("workload-list") /\ page.confirm # Null
  /\ Act
  /\ DeleteEntry(page.confirm)
  /\ page' = [page EXCEPT !.confirm = Null]
  /\ UNCHANGED <<users, tables, made, shell>>

ListNext ==
  \/ \E f \in Filters : ChangeFilter(f)
  \/ \E k \in {"work_date", "user"} : ToggleSort(k)
  \/ \E n \in Sizes : ChangeSize(n)
  \/ \E n \in 1..MaxEntries : TurnPage(n)
  \/ \E e \in Range(entries) : OpenModal(e) \/ AskDeleteRow(e)
  \/ ClearAllFilters \/ CloseModal \/ SaveModal \/ CancelDeleteRow \/ ConfirmDeleteRow

-----------------------------------------------------------------------------
(* LookupsPage.                                                            *)

ChooseTab(k) ==
  /\ Free("lookups") /\ k # page.tab
  /\ page' = [page EXCEPT !.tab = k]
  /\ Click

ChooseItemStatus(s) ==
  /\ Free("lookups") /\ s # page.status
  /\ page' = [page EXCEPT !.status = s]
  /\ Click

ListedItems ==
  {i \in tables[page.tab].listed :
     page.status = "all" \/ (i \in tables[page.tab].live) = (page.status = "active")}

OpenItem(i) ==
  /\ Free("lookups") /\ i \in ListedItems
  /\ page' = [page EXCEPT !.modal = [id |-> i, live |-> i \in tables[page.tab].live]]
  /\ Click

OpenNewItem ==
  /\ Free("lookups")
  /\ page' = [page EXCEPT !.modal = [id |-> Null, live |-> TRUE]]
  /\ Click

CloseItem ==
  /\ On("lookups") /\ (page.modal # Null \/ page.confirm # Null)
  /\ page' = [page EXCEPT !.modal = Null, !.confirm = Null]
  /\ Click

\* Whether the copy of a row says that it is in use.
WithItem(table, i, live) ==
  [listed |-> table.listed \cup {i},
   live |-> IF live THEN table.live \cup {i} ELSE table.live \ {i}]

\* handleCreate and handleUpdate: the time gives an id no table has.
SaveItem(i) ==
  /\ On("lookups") /\ page.modal # Null
  /\ IF page.modal.id = Null
     THEN \A k \in Kinds : i \notin tables[k].listed
     ELSE i = page.modal.id
  /\ Act
  /\ tables' = [tables EXCEPT ![page.tab] = WithItem(@, i, page.modal.live)]
  /\ page' = [page EXCEPT !.modal = Null]
  /\ UNCHANGED <<users, entries, made, shell>>

\* The button of a row retires it or brings it back, each after a question.
AskToggle(i) ==
  /\ Free("lookups") /\ i \in ListedItems
  /\ page' = [page EXCEPT !.confirm = [id |-> i, live |-> i \notin tables[page.tab].live]]
  /\ Click

\* handleSoftDelete and handleReactivate
ToggleItem ==
  /\ On("lookups") /\ page.confirm # Null
  /\ Act
  /\ tables' = [tables EXCEPT ![page.tab] = WithItem(@, page.confirm.id, page.confirm.live)]
  /\ page' = [page EXCEPT !.confirm = Null]
  /\ UNCHANGED <<users, entries, made, shell>>

LookupsNext ==
  \/ \E k \in Kinds : ChooseTab(k)
  \/ \E s \in {"active", "inactive", "all"} : ChooseItemStatus(s)
  \/ \E i \in Items : OpenItem(i) \/ SaveItem(i) \/ AskToggle(i)
  \/ OpenNewItem \/ CloseItem \/ ToggleItem

-----------------------------------------------------------------------------
Init ==
  /\ SeedUsers(users) /\ SeedTables(tables) /\ SeedEntries(entries, users, tables)
  /\ made = Len(entries)
  /\ session = Null /\ route = "dashboard" /\ page = Null
  /\ timers = <<>> /\ strayed = FALSE
  /\ acts = MaxActs

Next ==
  \/ \E a \in Accounts, p \in Passwords : Submit(a, p)
  \/ Elapse \/ Logout
  \/ \E r \in Routes : Navigate(r)
  \/ UsersNext
  \/ \E x \in Items : ChooseActivity(x) \/ ChooseCategory(x) \/ ChooseProject(x)
  \/ EntryNext \/ ListNext \/ LookupsNext

Spec == Init /\ [][Next]_vars

-----------------------------------------------------------------------------
(* What the prototype should hold to.                                      *)

TypeOK ==
  /\ users \in [Accounts -> Row \cup {Null}]
  /\ tables \in [Kinds -> [listed : SUBSET Items, live : SUBSET Items]]
  /\ entries \in Seq(Entry) /\ made \in 0..MaxEntries
  /\ session \in Sessions \cup {Null}
  /\ timers \in Seq([result : Sessions \cup {Null}, own : BOOLEAN])
  /\ route \in Routes /\ (session = Null => page = Null)
  /\ strayed \in BOOLEAN /\ acts \in 0..MaxActs

\* Nobody works in an account that is switched off: the panel saves copies that
\* may be stale and the session is a copy itself, but nobody can switch off the
\* account they are in (line 1328), and the login refuses those that are.
SessionIsActive ==
  session # Null /\ ~strayed => users[session.account] # Null /\ users[session.account].active

\* An entry names a category of its own activity's table and a project exactly
\* if that is the project activity, whichever way its form was filled, although
\* the same ids stand for other categories in the other tables (lines 1622-1625).
EntriesFit ==
  \A e \in Range(entries) :
    /\ users[e.owner] # Null
    /\ e.activity \in Activities /\ e.category \in tables[TableOf(e.activity)].listed
    /\ IF e.activity = ProjectActivity THEN e.project \in tables["projects"].listed ELSE e.project = Null

\* The list shows rows whenever any match, although its page number is kept while
\* filters, deletions and edits make the list shorter (lines 2807-2809).
ListIsNotBlank ==
  On("workload-list") => (Matching # <<>> <=> PagedEntries # {})

\* A saved form never moves an entry to another day or owner, although it writes
\* both from the page around it; and what is older than the window is neither
\* changed nor deleted (lines 1708, 1632-1638, 1547).
EntriesKeepTheirPlace ==
  [][~strayed =>
       \A e \in Range(entries) :
         /\ \A f \in Range(entries') :
              f.id = e.id => f.owner = e.owner /\ f.day = e.day
         /\ ~Editable(e.day) => e \in Range(entries')]_vars

\* A worker on a page of their own menu changes their own entries and nothing
\* else; that the menu leaves pages out and rows have no buttons is all that
\* sees to it (lines 133, 3259).
WorkersTouchOnlyTheirOwn ==
  [][session # Null /\ session.role = "WORKER" /\ route \in Menu("WORKER") /\ ~strayed =>
       /\ users' = users /\ tables' = tables
       /\ \A e \in Range(entries) \cup Range(entries') :
            \/ e \in Range(entries) \cap Range(entries')
            \/ e.owner = session.account]_vars
=============================================================================
