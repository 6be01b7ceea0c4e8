# Workload tracking: a TLA+ model

The repository is a workload-tracking product: a FastAPI service on PostgreSQL
(`backend/`), an Angular client (`frontend/`), a clickable prototype (`mockup/`) and
a task description (`docs/TASK.md`). This directory holds TLA+ modules that model
the service's rules, every screen of the client, and most of the prototype, TLC
configurations that check them on small instances, and proofs that TLAPS checks for
instances of every size.

## 1. The system

### How a request runs

`core/database.py` gives every request a session of its own. The event loop
interleaves requests at every `await`; PostgreSQL runs at READ COMMITTED, so each
SELECT sees what is committed at that moment; `autoflush=False` and one explicit
`flush` and `commit` per request make the commit the only point where a request
changes the database. The ORM writes only the columns whose value differs from
the loaded one, and it answers a repeated query for a loaded row with the row it
already holds (the identity map). Any exception rolls the session back. These
four facts are the concurrency model of the server: **one action is one awaited
query of one request, and a request's writes happen in one action.**

### How a screen runs

JavaScript runs one handler or one callback at a time, so one action of a client
module is one click, one callback of an answer, or one step of the server. What
interleaves are the answers: nothing orders two requests, an answer may be lost or be
an error, and it arrives at components that show something else by then or are gone.
In the client modules a request is a record in the set `calls`; it is sent by a
click or a callback, served by a step of its own, and answered by a `Deliver...` step.
Where two steps of the server matter (a read and a later commit) they are apart. A
dialog covers the screen, so nothing behind it is clicked.

### Inventory

| Component | State | Operations | Hard behaviour | Correct when |
|---|---|---|---|---|
| Positions (`api/v1/positions.py`) | tree of positions, active flags | create, update, soft delete, activate | the walk up the tree is one query per level, others commit in between | the tree is a forest; nothing a request does not name changes; requests end |
| Users (`services/user_service.py`) | position, manager, role, active flag of each account | create, update, soft delete, activate, password reset | the rule relates a user, their manager and the tree; checks read stale rows | changes keep the reporting rule; deletions spare reports; the last administrator is lost by their own change of role or their role's only |
| Authentication and permissions (`api/deps.py`, `core/permissions.py`) | none (token, role) | check at request start | the actor may be switched off while the request runs | requests start only for active actors with the permission |
| Workload entries (`services/workload_service.py`) | dated entries of an owner | create, update, hard delete; lists, aggregates, CSV | midnight; two half-updates of a pair of columns; delete against update; rounding | category fits activity, project fits activity, owner only, inside the window |
| Lookups (`services/lookup_service.py`) | projects, categories, task types, teams, with active flags | create, update, soft delete, activate | switched off while in use | codes are unique; entries keep what they refer to |
| Roles (`services/role_service.py`, `core/rbac_sync.py`) | roles, permissions, system flags | create, update, delete, synchronise at start-up | code generation loop; deletion against assignment | codes unique, system roles intact, the loop ends |
| Working days and yearly report (`services/working_day_service.py`, `report_service.py`) | days per month | upsert; report | two upserts of a new month | one row per month; the report adds up |
| Auth API (`api/v1/auth.py`, `core/security.py`) | token expiry | login, change password, logout | stateless tokens | only active accounts log in |
| Browser session (`auth.service.ts`, interceptors, guards, shell, login form, password dialog) | token, current user, route, what the shell loads | login, logout, reload, navigate, change the password, 401 handling | answers that arrive after the session changed; another tab writes the same storage | token, stored user and shown user are one session; menu and guards agree; forms know their requests |
| Client caches (`users.service.ts`, roles, lookups) | directory, role list, lookups | lazy load, refresh | single flight, failures, never invalidated | shows what the server holds after a change |
| Lookups screen (`features/lookups/`) | open tab, filter, rows shown, two dialogs, caches of the other pages | select tab, show inactive, create, edit, deactivate, reactivate | answers out of order; tab and row read at different times | a change goes to the table its row is from; the page and the caches follow its own changes |
| Users screen (`features/users/`) | filters, page of the table, rows shown, the dialog's user and its form, three small dialogs | filter, page, create, edit, deactivate, reactivate, reset a password, add a team | answers close dialogs; the dialog's user and form are set by different clicks | a save sends the fields of the user it names; the table follows the filters and its own changes |
| Workload list (`features/workload-list/`) | filters, sort, pages of groups, rows, figures, confirmation | filter, sort, turn pages, delete, export | list and figures are two requests that each change sends | table, figures, charts and workbook agree with the filters |
| My workload (`features/my-workload/`) | month, selected day, rows, working days | turn months, select, delete, go to the form | entries per month, working days per year | a past weekday without entries is marked, and no other |
| Workload entry (`features/workload-entry/`) | date, form, what is edited, a pending edit from the URL | choose a date, fill, edit, save, delete | lists of other dates arrive late | a save keeps the day of what it edits |
| Roles screen (`features/roles/`) | roles, catalog, editor, confirmation | create, edit, toggle, save, delete | answers to saves reload while other lists are on their way | the page shows the table |
| Yearly report and dashboard (`features/yearly-report/`, `features/dashboard/`) | filters, report, editor of working days; chart, panels, export | filter, select, expand, page, edit days, export | the editor outlives the report it copied; saves of the same year overlap; an export fails half-way, or outlives its dashboard | days are written to the year they came from; cells are coloured by the stored days; nobody is missing from the chart |
| Prototype (`mockup/workload-app.jsx`) | users, tables, entries, session, route, the open page | login, logout, navigate; users, entry, list and lookup pages | timers, copies of rows in panels and in the session, a route that outlives the login | only active accounts work; entries fit their tables; a worker changes own entries only |

Components talk in three ways: the client calls the service over HTTP; inside the
service the
positions, users and workload services share the database (the positions API
counts the users that hold a position, the users API walks the position tree, the
workload API reads the category tables); at start-up `rbac_sync` writes the
permission tables before requests are served.

`PROJECT.json` lists the components and, under `hazards`, every place where the code
can go wrong in a way a test would hardly reach.

## 2. The modules

| Module | Models | Notes |
|---|---|---|
| `PositionTree` | the positions API | a request is a record in a slot; `pc` is the await it is at |
| `OrgForest` | what that API promises, each request in one step | refined by `PositionTree` when requests do not overlap |
| `PositionTreeProofs` | | inductive invariant and theorems |
| `OrgChart` | the users API, with `PositionTree` running inside it | `Tree == INSTANCE PositionTree WITH held <- Held`: the positions active users hold |
| `Nothing` | | the value `Null`, which the modules with users and entries share |
| `WorkloadEntries` | the workload API, category administration, the calendar | dates are day numbers, hours are thousandths |
| `LookupsPage` | the lookups screen, the caches it reloads, the lookup endpoints | a request is a record in flight; the answers come in any order |
| `LookupsPageProofs` | | inductive invariants and theorems |
| `UsersPage` | the users screen and the users endpoints it calls | like `LookupsPage`, with the dialog's user and form apart |
| `UsersProofs` | | about `OrgChart`, with the proofs of `PositionTree` beside the users API, and about `UsersPage` |
| `WorkloadScreens` | list, calendar and entry form, and the endpoints they call | one screen is open, leaving it forgets it |
| `WorkloadProofs` | | about `WorkloadEntries` and `WorkloadScreens` |
| `ReportScreens` | the yearly report with its editor, the org chart, the service of the working days | a save reads and commits in two steps |
| `ReportScreensProofs` | | inductive invariant, sums and reachability, theorems |
| `Session` | AuthService, interceptors, guards, menu, shell, login form, password dialog, `auth.py` | |
| `SessionProofs` | | inductive invariants and theorems |
| `RolesPage` | `role_service.py` and the roles screen | server requests in two steps, read and commit |
| `RolesPageProofs` | | inductive invariants and theorems |
| `Prototype` | the prototype's data, session and four of its pages | no server: every action is one handler |
| `PrototypeProofs` | | inductive invariant and theorems |
| `MC...` | instances for TLC | seeds, symmetry, the re-parenting sub-behaviours |

### PositionTree

`exists`, `parent` and `active` are the table; `held` is what the users table says of
it (an input that changes freely here and is computed in `OrgChart`); `req` holds a
record per request in flight. `Load` is `_get` on the row to change, `GetParent` the
`_get` on the new parent, `CheckNoCycle` one turn of the loop in `_check_no_cycle` with
its two tests, `CountHolders` the count before a soft delete, `CommitChange` and
`CommitCreate` the flush and commit. `Abort` covers everything that rolls back: a name
clash, a constraint, a lost connection, a crash. `dirty` is a history variable: it
records that a parent was re-assigned while this request was walking or about to
commit. The positions' names and descriptions are not modelled.

Initially the tree is any forest of active positions, a superset of what the
migration seeds.

### OrgChart

`accounts`, `enabled`, `position`, `manager` and `role` are the users table, `granted` the
roles whose permissions hold `users.manage`; `ureq` holds the requests. `Administrators`
are the active users whose role is a superuser's or granted; only they send requests.
`view` is the part of the session's identity map that matters: the position rows the
request has loaded, each with the values of its first SELECT. `StartUserRequest` with
`StartUser` is `get_current_user` and `require_permission`; `LoadUser` and `LoadForCreate`
the loads and the self-deactivation guard; `CheckPosition`, `CheckManager` and
`ClimbAncestors` are `_validate_hierarchy`, its manager query and the turns of
`_ancestor_position_ids` with the limit `guard`; `CheckReports` the query before a soft
delete; `CommitUser` and `CommitNewUser` the flush and commit with the foreign keys.
`ManagerRow` says whose row answers the manager query: the row to change and the actor's
own row are the loaded ones. A body may carry a new role, which the commit writes like
every other column. `ChangeGrants` is the PATCH of a role, whose two steps `RolesPage`
has, in one. A step of the positions API is a step of `Tree`.

E-mails, names, passwords and teams are left out; roles are never created or deleted here. The
password reset changes none of the modelled state.

### WorkloadEntries

`row` is the table, `used` the ids the sequence has handed out, `listed` and `live` the
three category tables (an id may be in several of them), `today` the server's date.
`StartCreate` holds the schema's checks and the window check, which precede the first
query of a create; `LoadEntry` holds all that `update_entry` and `delete_entry` check
without a further query; `ValidateCategory` is the lookup of the pair; the commits
apply the CHECK constraints to the row that results from the columns the request
changed (`Changed`). `HalfEven` and `Numeric52` are the two roundings of an amount: the
schema's and the column's. `AddCategory`, `SwitchCategory` and `Tick` are the rest of
the world.

### LookupsPage

`rows` are the tables and `version` counts commits; the rest is the browser. `tab`,
`full`, `shown`, `loading`, `saving`, `modal` and `confirm` are the component's signals
(`shown` and the dialogs also record which table a row was read from, which the code
does not know), `cache` the version each kind has in `LookupService`, `TeamsService` or
`PositionsService`. `calls` are the requests in flight: a call is sent by a click,
served by one `Serve` step (one per table for `loadAll`, a `forkJoin` of GETs), and
answered by one `Deliver` step, the callback that `subscribe` registered. Nothing
orders two calls. `Reload` is the constructor's effect, which Angular runs when the tab or
the filter changes; `Refetch` is `refetch`, which reads the tab that is open by then.
`Joined` are the kinds `loadAll` reads together, `Shared` those whose service hands out a
load that is already on its way. Both dialogs cover the page, so the tab cannot change
under them (`PageFree`). A save the form refuses sends nothing and is left out.

`calm` is a history variable: no load has failed, and none was sent while another one
of the same thing was on its way. `acked` is the version of the last own change that
was answered.

### UsersPage

`rows` and `version` are as in `LookupsPage`, for the one table of users. `filter` holds
`statusFilter` and, as a set of users, what the role, team and search filters let
through; `shown` is `items`. `selected` is `selectedId`, `form` stands for `form` and
`originalForm`: whose fields it holds (a history, the code does not know), whether it was
edited, and its `isActive`. `opened` is a history variable: whether a row or one of the
icons in it opened the dialog, as the icons set `selectedId` without filling the form.
`confirm`, `reset` and `addingTeam` are the small dialogs, which lie over the page and
over the large dialog (`PageFree`, `OnTop`). `Reload` is the pair of effects in the
constructor, `Refetch` is `refetch`, `Closed` is `closeDialog`. A PATCH carries the whole
form, so `ServeChange` takes the account's state from it. `PageOf` and `Window` are
`pagedItems` and `paginationWindow`. The order of the users on the pages is not modelled, so
a click may be on any listed row. The rules of the users API are in `OrgChart`; here a
request may fail for any reason (`Fail`). The administrator is a superuser: the
buttons to reset a password are there.

### WorkloadScreens

`rows` is the table of entries. `lst`, `cal` and `form` are the signals of the three
components, of which `route` names the one that exists; `shown` is its `entries()`,
`charts` the `aggregates()` of the list, told by the entries they add up, `expected` the
year whose working days the calendar has. An entry is its owner and its day, because
these decide which query returns it. `ListQuery` and `MonthQuery` are what `fetch` asks;
`Matching` is the server's answer. `Groups`, `Kpis`, `Trend` and `Workbook` are what the
template and the export compute. `moved` records that the date was changed under the
entry being edited, and travels with the save; `calm` that no request failed and none of
the same kind was on its way when another was sent. The rules of the server about
entries are in `WorkloadEntries`; here a request may fail for any reason.

### ReportScreens

`days` is `expected_working_days`. `filter`, `report`, `selected`, `page`, `size`,
`expanded` and `editor` are the signals of the report and its editor, `people`, `waiting`
and `exporting` those of the dashboard. Every call of `exportPng` is a member of `Exports`:
`job` is the `await` it is at, `copies` are those whose copy of the chart is in the document.
Nothing ends a call when its dashboard is left (`Navigate`), and a dashboard that is opened
again may start another one beside it; `mine` says which one the open dashboard started. A
save of another
administrator is a `Rivals` record and overlaps with the user's own. `Committed` writes
only the months that differ from what the save has read, and fails at the unique key
if another save inserted the month meanwhile. The org chart is computed as the template
does: `Roots`, the panels, the branches and their strips. `origin` is a history variable: the
year the editor's values came from, and whether that was the report of the filters;
`overtaken` travels with a save.

### Session

`storage` is `localStorage`, `user` the signal `_currentUser`, `route` the router with
its guards (`Target`), `ready`, `directory` and `waiting` what the shell loads. `accounts` is
the server's table, which administrators change (`Administer`). A call carries the
token that the interceptor read from the storage, and whether the component that sent
it is still there (`own`) or the whole page (`live`). `Refuse` is the interceptor's
`catchError`: a 401 to a request that carried a token ends the session. `OtherTab` writes the storage behind
the page's back. `mixed` is a history variable: a refresh that was sent from another
session, or another tab, has put together a token and a user that do not belong
together; `spoilt` says that an answer was lost or rights changed since the shell was
opened.

### RolesPage

The server's part is `roles`, `assigned` (the users' foreign key) and `lastId`; the
browser's is `cache` (RolesService), `shown`, `catalog` and the editor. A request is
`sent`, `read` (the row is loaded, the name and the users are counted) and committed, in
separate steps; `Rival` is a save or a deletion of another administrator and `Assign`
gives a user another role. A code is a slug and a number; `UniqueCode` is the search. Codes are
cut after 50 characters, so that a slug has `Room` of them: one of 50 characters has one, one
of 49 two (the cut leaves `_` of every suffix), one of 48 ten. When these are taken, the request waits for
ever (in the service its loop, which has no `await`, holds up the event loop as well).
`old` marks a list that a later one was asked after, `passed` one that a later list
of the same page was asked after, `stale` that one of these, another page or a lost
answer has left the page behind.

### Prototype

`users`, `tables` and `entries` are the state of `AuthProvider` and `WorkloadProvider`,
`session` the copy of the row at login, `route` the router, `page` the state of the one
page that is mounted. `timers` are the logins that `setTimeout` holds; each has computed
nothing yet but sees the users of the moment it was set. The panels hold copies:
`page.form.row` of the users page is `editForm`, `page.form` of the entry page and of the
list's dialog the fields of an entry. `Patched` is `updateEntry`, with the fields of the
patch only. `PagedEntries` is filter, sort and page of the list. A user is its account
and has one e-mail address. `strayed` is a history variable: the session was begun by a
timer whose login screen was already gone. Today stays today, so that it does not matter that
the save of an open dialog does not look at the day again; `Ahead` is the time zone, in which
`isEditable` lets in one day more east of UTC.

## 3. What TLC checks

All runs set `CHECK_DEADLOCK FALSE`: a behaviour starts a bounded number of requests
and then stops.

| Run | Question | Result |
|---|---|---|
| `tree_overlap` | three re-parents, deletions or creations, two overlapping, from every forest, under fairness | a cycle needs a walk that was overtaken (`CycleNeedsOverlap`); commits keep what they do not name; every request ends, also on a tree with a cycle |
| `tree_cycle` | is the tree a forest when requests overlap? | **violated**: two re-parents close a cycle |
| `org_serial` | three requests to either API, no overlap, two or three positions | the positions are a forest and every step of both APIs together is a step of `OrgForest`; the reporting rule for the changed row, both deletion guards; the last administrator goes only by their own change of role or by a change of their role's permissions (`AdministratorsRemain`) |
| `entries_serial` | two accounts, no overlap, midnight, categories switched | types, category, ownership, edit window |
| `entries_overlap` | two overlapping requests to the same entries | project fits activity; what is deleted stays deleted |
| `lookups_page` | two tabs, two requests of the user with the reloads they cause | changes go to the table of their row, and the page and caches follow them, as long as no two lists overlap |
| `users_page` | two users on two pages, two requests of the administrator with their reloads | the dialog's user is listed; a save sends its own user's form unless an icon opened the dialog; the table follows its filters and changes; no page of it is empty |
| `workload_screens` | list, calendar and form, two requests of the user and those they cause | once all is answered, table, figures, charts and workbook agree (`TableAndChartsFollow`), the calendar and the form show the own days (`OwnDaysAreRight`); a save keeps the day unless the user changed it (`SaveKeepsTheDay`) |
| `report_screens` | report, editor and org chart, two requests of the user, or one beside a rival's | cells are coloured by the stored days; a save writes days of its own year unless the editor was opened too early; a commit leaves a whole year or was overtaken; only circles and strips lose users; spinners end, and copies of the chart go with their own export (`SpinnersEnd`) |
| `session` | three logins, logouts, reloads or changes by others, every answer late | one session or a remembered mixture; the shell is complete once all is answered; menu and guards agree; forms know their requests |
| `roles` | two requests of the user, or one beside two of others | the foreign key and the codes hold (`TableIsSound`); the page shows the table (`RolesFollow`); system roles stay |
| `prototype` | an administrator and a worker, three changes and any clicks | who is logged in is active; entries fit their tables; the list is not blank; saves keep day and owner; a worker changes own entries only |

Bounds. Three positions are the smallest tree in which a walk takes more than one
turn and a cycle of two leaves a bystander to walk into it. Two overlapping requests
are what every race here needs; the third in `tree_overlap` is for the walk over the
broken tree. `MaxRequests`, `MaxUserRequests`, `MaxTotal` and `MaxInFlight` count
requests: one positions request and two users requests in `org_serial` are enough to
deactivate a position, move a user and delete their manager in any order; two users requests
also to give up a role, or take its permission, and to switch off who is left. Three users
are an administrator, a manager whose role is granted `users.manage`, and a newcomer. A
request that changes a role names no position and no manager (`RolesApart` in `MCOrgChart`): no
rule of the hierarchy reads a role. `WalkGuard` is 4, above the depth of any
tree of three positions, as 50 is above that of any real one; in a cycle it is what ends
the walk. In the workload runs `EditWindow` is the code's 32, today is day 32 and
then 33, and the dates 0 and 33 are the last day inside and the first outside of each
end of the window. Two projects are needed for two half-updates to disagree; the
category `c1` is in every table and `c2` in one of them, as ids of the three tables
overlap in the seed. An amount of 4 thousandths is accepted and rounds to zero. On the
lookups page one kind is `Joined` and one `Shared`, every table has an active row and
a second id that is free or inactive; two requests of the user (a change of tab and
a deactivation, or two changes) with their reloads put up to six calls in flight.

On the users page a page of the table has one row, so that two users make two pages and
every user who leaves the list empties one; the bounds of requests are those of the
lookups page.

In `workload_screens` an own entry and one of another user lie on four days around the
turn of a year, one of them locked, one a weekend day. In `report_screens` three users
have four positions, the subtree of HR and two others, in four distributions and with
any managers, circles included; two months and two years are enough for a save to meet
another year's days and for a rival's save to mix with the user's; two exports are one that was left behind and
one of the dashboard that was opened again. In `session` two accounts, two passwords and three acts suffice for a logout and a login
while an answer is late. In `roles` the first name is also the slug of 50 characters, with one code, and
belongs to a system role. In `prototype` the worker has an entry inside the window and
one on the first day outside, counted east of UTC; ids of the category tables overlap, and
pages of the list have one or two rows.

`MaxActs` counts what changes data or asks a server, `MaxRivals` what others do;
`report_screens` and `roles` let the user act twice alone, or once beside others. In
`prototype` a second login in a row is an act too, and nothing is clicked once the acts
are used up: only acts make the list shorter or change what is stored.

Each module keeps a type invariant. Those of `OrgChart` (`OrgTypeOK`), `LookupsPage`,
`UsersPage`, the screens, `Session`, `RolesPage` and `Prototype` document their variables and
were checked on the same instances; they are not among the runs' properties. Those of `OrgChart`
and `Prototype` are proved as well (`OrgTypes`, `PrototypeTypes`).

Symmetry over positions, slots and owners is used only in runs without liveness, and
only where no constant names a member of the set.

Fairness. `tree_overlap` assumes weak fairness of each slot's `Proceed(s) \/ Abort(s)`: the
event loop resumes a coroutine once its query has been answered, and a query that is
never answered ends in an exception. Nothing is assumed about starting requests, about
which request goes first, or that a request succeeds. The client modules state no fairness:
an answer may never come, and their properties speak of states in which all is answered.

Every property of a passing run has a mutant of the code (operators with a suffix, for
instance `CheckNoCycle_noSeenTest`) that TLC finds it violated by; they stand right
before the definition they change.

### Further disagreements

Places where the code does something else than its documents or its own interface say,
found while modelling, without a run of their own.

*Service.*
- The schema says "hours_spent must be a multiple of 0.25" (`schemas/workload.py:41`) but
  rounds half-even where the column rounds half-up, so 0.505 is stored as 0.51, and a PATCH
  is not checked at all.
- PATCH `is_active=false` deactivates a position that active users hold, which DELETE refuses
  (`positions.py:162`), and likewise "a manager with active reports" who "cannot be deleted"
  (`docs/TASK.md:182`, `user_service.py:208`). Two overlapping requests defeat both deletion
  guards, and two overlapping administrators can switch each other off (`deps.py:54`).
- "You cannot deactivate yourself" (`user_service.py:186-187`), but the last administrator may
  PATCH their own role to one without `users.manage` (`user_service.py:208-209`), or take the
  permission from that role (`role_service.py:94-95`): nobody can manage users then.
- A user who moves below their own old position may name themselves manager: the identity
  map answers the manager query with the row as it was loaded (`user_service.py:206`, against
  the rule of `user_service.py:4-5`). A manager's own change of position, or a change of a
  position's parent, leaves reports that break the same rule. A position more than 50 levels
  deep cannot be climbed to the top (`user_service.py:39`).
- `models/position.py:9-10` says that managers hold the parent position where the code accepts
  every position above; `docs/TASK.md:214` has a window of 30 days where `EDIT_WINDOW_DAYS` is 32.
- Two overlapping PATCHes, one of the activity and one of the category, leave an entry with a
  category of another activity's table (`workload_service.py:200`, against
  `models/workload_entry.py:38-39`).
- Overlapping saves of a year's working days mix the months of both
  (`working_day_service.py:36-60`).
- An emptied description of a role is not saved (`role_service.py:91`), and the search for a
  free code never ends for a slug of 50 characters that is taken, one of 49 whose two codes are
  taken, and so on (`role_service.py:48`).

*Screens.*
- Lookups: `refetch` says that it refreshes "global caches so other pages (filters, dropdowns)
  see the change" (`lookups.component.ts:155`), but the cache of teams or positions misses a
  change whose answer comes under another tab or during another load. After a quick change of
  tab the first list arrives under the second tab (`lookups.component.ts:140-143`), and a
  confirmed deactivation then hits a row of the wrong table (`lookups.component.ts:259`).
- Users: the page means to "sync selection if it disappeared from the list"
  (`users.component.ts:223`), but every list that arrives also closes the dialog for a new user,
  who is in no list; the key and power icons of a row open the edit dialog with an empty or a
  leftover form, which a save writes over the row's user; the answer to a save closes the dialog
  of another user that was opened meanwhile. The status All (`users.component.html:53`) sends no
  `is_active` (`users.service.ts:50`), and the endpoint then lists active users only
  (`users.py:43`, `docs/TASK.md:166`).
- Roles: the answer to a save closes whichever editor is open; the editor of a deleted role can
  stay open; lists that come out of order, or the answer to a save of a page that was left and
  opened again, leave the page stale.
- Entry form and calendar: the answer to a save discards the edit of another entry begun
  meanwhile (`workload-entry.component.ts:246`); a list in flight brings a deleted entry back to
  the calendar (`my-workload.component.ts:306`). The workbook of the list is grouped by name and
  merges namesakes (`workload-list.component.ts:570-578`).
- Report: the editor opened while the report of a new year is loading, or has failed, copies
  another year's days, or 22s, and a save writes them to the new year.
- Dashboard: an export goes on after the dashboard is left, and a dashboard that is opened
  again offers another one beside it (`dashboard.component.ts:244`). The users below a user of
  a roster strip are never drawn, although "Tree contains everyone whose position is not under
  HR or QA" (`dashboard.component.ts:93`).
- Session: a late `/auth/me` after a logout writes the user back without a token; a late 401 of
  an earlier session ends the present one; the promise of the directory is joined by the next
  session; Enter submits the login twice; a wrong password on `/login`, reached with the back
  button, ends the session that is still there. `docs/TASK.md:282` has the guard check
  the token where the code checks the user.

*Prototype.*
- The route outlives the logout and the shell checks no role: a worker who logs in after an
  administrator is on the administrator's page. The timer of a login logs in over another session.
- A save from a panel that was opened before a reactivation or a new password restores the old
  state or password; a save after a create changes nothing, as the form has no id; an edit may
  give a user another's e-mail address. The root's manager may be one of their reports, and
  `OrgNode` then recurses without end. A new activity type has no categories.

## 4. What is proved

TLAPS checks every leaf. The theorems hold for any sets of positions, slots, entries,
owners, categories and so on, under the assumptions named in the modules
(`NullAssumption`, `MaxRequestsAssumption`, `EntryAssumption`, `UserAssumption`,
`RolesAssumption`, `SessionAssumption`, `DialogAssumption`, `ScreensAssumption` and others:
`Null` and `Keep` are not values, bounds are numbers), which TLC evaluates in the runs. Those
of `ReportScreens` and `Prototype` are one definition each, `Setting`, which says in addition
what the parameters are: users and months finitely many, years and accounts numbers, pages of
at least one row, today a day.
Where a theorem assumes that requests do not overlap, it says so in its statement, and the
paragraph says what an overlap breaks.

**PositionTreeProofs.** `IInv` is `TypeOK`, that parents are rows, what each request's
fields are at each `pc`, and the walk: as long as `dirty` is false, `seen` with the cursor
is closed under `parent`, contains the new parent and not the position that moves.
`TypeOK` and `Acyclic` alone are not inductive: at the commit one must know that the set
the walk has seen, closed under `parent`, separates the new parent from the target;
`MoveKeepsAcyclic` turns that into acyclicity. Acyclicity is stated without
recursion: no nonempty set of positions is closed under "has a parent in the set".
- `TypeCorrect`, `Invariance`: `Spec => []TypeOK`, `Spec => []IInv`.
- `OnlyOverlapClosesCycles`: a commit that closes a cycle had `dirty` set. So the walk is
  correct, and the missing lock is the only hole.
- `SerialAcyclic`, `SerialImplementsForest`: with one slot, `Acyclic` always holds and the
  specification implements `OrgForest`.
- `UnnamedColumnsStay`: for any overlap, a commit leaves the columns its request does not
  name. It needs to know whose step it is: `WhoEndsWrites` says that a request in `write`
  only ends by a step of its own, whatever others do to its record (they set `dirty`).

**WorkloadProofs: the API.** The first part is for any number of slots. Its `IInv` says of
a request past its load that its target's id was handed out and that the row, if it is
still there, belongs to the actor: ids are never reused, so nobody else's row can
appear under the id that was checked. From it follow `OwnersOnly`, `DeletionIsFinal`,
`ConstraintsHold` and `NothingInTheFuture`. The second part assumes one slot; there the
loaded row is still the row at the commit, and `SerialCategories` and `SerialEditWindow`
follow. Overlapping PATCHes break both: the assumption is needed. `ConstraintsHold` also gives
`HoursPositive`, and `NothingInTheFuture` gives `NoFutureEntries`.

**LookupsPageProofs.** `PageInv` says that in calm every list on its way is of the open
tab, rows that can be clicked were read from it, and so was the row of an open
dialog. The property alone is not inductive: a change takes its kind from the tab and
its id from a dialog, which took it from rows shown before; `PageInv` ties each to the
tab. `PageRowsBelong` follows for any tables, rows and number of requests. Without
calm it fails: the first list may arrive under the second tab.

`OwnChangesAreShown` and `CachesAreFollowing` say that page and caches end up with the own
changes. Both speak of a state without requests; `FollowInv` says what holds before. In calm
there is one list on its way at most, it is of the open tab, and if it has read its table it
has read every own change that was answered: news of a change comes in the answer that asks
for the new list. With no list on its way the one that is shown is such a list. The same
holds of `loadAll` and the tables it joins, where the read of each table counts by itself.

**UsersProofs: the screen.** `FormInv` says that a dialog no icon opened holds the form of its
user (of nobody, for a new one), that every save on its way took its form from such a
dialog, and that the dialog's user is listed. `ForeignFormNeedsIcon` alone is not
inductive: a save is right only because the open dialog was, after any number of lists
that closed it and left its form behind. `RowFormsSaveTheirRow` and `DialogUserIsListed`
follow for any users, requests and answers. `PagesAreNeverEmpty` holds for any page size
and any number of users; it rests on `LastPage`, the arithmetic of the rounded-up
division, and on the page number staying positive. `OwnChangesAreShown` has the argument of
the lookups page, for the one table and its filters (`ShownInv`).

**UsersProofs: the API.** `HoldersInv` says that the accounts' positions exist and that a request
past its load names an account. With it every step of the users API is, for the positions
API, a `HoldersChange` or a stutter: `OrgImplementsTree` holds for any overlap, and with
`TreeProofs == INSTANCE PositionTreeProofs WITH held <- Held` the theorems about
`PositionTree` hold beside the users API: `OrgStaysForest` and `OrgImplementsForest`, with
one request to the positions API at a time and any number to the users API. `OrgTypes` is the
type invariant of both APIs for any overlap, with the foreign keys of a row; a walk needs its
own invariant for it (`Walks`): it stands on a position and has turns left.
`AdministratorsKept` and `DependentsAreSpared` assume one request at a time (`OneAtATime`).
`AloneInv` says of that request that its sender is an administrator whom it does not
switch off, and that what a deletion has counted still holds at its write; neither
property is inductive without it. The sender is still an administrator at the commit, as
permissions are not changed meanwhile (`GrantsStayAlone`); if nobody is one after it, the
sender has stepped down (`StepsDown`). Two overlapping requests can switch off the last
administrator or delete a manager who has just got a report, so the assumption is needed.

`HierarchyIsKept` is about `_validate_hierarchy` as a whole, under the same assumption. The
write changes position and manager, the rule was tested up to as many queries earlier as the
tree is deep, on rows the session had kept. `RuleInv` ties these together: every row that the
session has loaded is as it is in the tables (`ViewRight`, `TargetRead`, `ManagerMet`), the
climb has only met positions above the new one (`above` is a part of `Above(...)`, which is
stated without recursion, like the forest), and a request about to write keeps the rule
(`RuleKept`). No bound on the depth of the tree is needed: a climb that the limit stops
refuses more, not less.

**RolesPageProofs.** `RolesInv` holds for any number of overlapping requests. A request
that was read has a code or an id that was handed out, and a role with that id is of the
kind that was read: ids are never reused, and kinds do not change. `RolesStaySound` and
`SystemRolesAreKept` follow. `CodeIsFree` is about the search for a code: the code it
answers is free, and by the pigeonhole principle (`SomeNumberFree`) the search answers every
slug that has more codes than there are roles.

`RolesAreFollowed` holds for lists that overlap in any way, since the model remembers which
of them a later one was asked after. `FollowInv` says that of the lists that may fill the
page (or the service) one at most is the newest; that a list that nobody overtook has the
rows of the table; that the newest one, if a commit overtook it, is followed by the answer to a
change that asks again; and that a page that is not up to date is corrected by one of these.
Telling a list passed by another one of its page from one passed by a list of a page that
was left is needed: with one mark for both, a page that was opened again could be left
behind by its own older list without being `stale`.

**SessionProofs.** `SessionInv` adds to `SessionIsOne` that answers are honest: the user in
an answer is that of the account that logged in, or whose token was sent. Without it an
answer that is still on its way could put anybody on the page. `SessionStaysOne` holds for
any accounts, rights and number of requests; `MenuMatchesGuards` for any user.

`WaitInv` is who waits for what. Whatever the shell lacks is on its way, and an answer to
its own `/auth/me` carries the account as the table has it until an administrator changes
it; so the shell is complete and fresh once all is answered (`ShellEndsFresh`), although the
directory may be one an earlier session asked for. A busy form has its own request on its
way, and a dialog that has changed the password without knowing still waits for the answer that
says so, even if Enter sent the request twice (`FormsAreTold`).

**WorkloadProofs: the screens.** `ScreensInv` is about the three screens at once, since one is
left for another while requests are on their way. The list and the form load again after
every change, and so does every click that changes what they ask for: what they show is what
their query returns from the table, or a list with the present query is on its way that has
not read the table yet or has read it as it is, or a change is made and its answer will ask
(`ReloadInv`, `Current`). The calendar does not load again. There (`CalendarInv`) what is
shown differs from the table only in entries whose deletion is made and not answered, and
nothing can be deleted while a list is on its way, as the days cannot be selected then.
For `SaveKeepsTheDay`, `FormInv` says that the entry being edited is of the form's date, and
so will be an entry of the URL that has not arrived yet, unless the user has changed the
date; a list brings no entry of another day. `ListFollowsTheTable`, `OwnDaysFollowTheTable`
and `SavesKeepTheDay` follow, for any users, entries, days and filters; the first also needs
that the groups of the workbook hold all the rows.

**ReportScreensProofs.** `ReportInv` has a part for each way a screen can be wrong later.
`EditorInv`: the values of an editor that was opened in a steady state are of the year of the
filters, as the filters cannot be changed under it. `SavesInv`: what a save has read is in the
table until another one commits, and that one marks it `overtaken`. `FreshInv`: as long as
nothing has failed, the report that is shown, or the one on its way, is that of the filters,
and has the days of the table unless the answer to a save, which asks for the report again,
is still to come. `SpinInv` and `DirectoryInv` say the same of the spinners and of the list of
users; of the export `SpinInv` says that the dashboard's flag is set exactly as long as the call
it has started runs, and that the copies are those of the calls that draw, whatever became of
their dashboards. None of the properties is inductive without these: each speaks of a state where all is
answered, or of a value that was copied several steps before.
`DaysComeFromTheirYearAlways`, `SavesAreWholeAlways` and `SpinnersEndAlways` follow, for any
users, years and number of requests. Two theorems need more than the invariant:
- `ReportFollowsTheDaysAlways` compares sums. `SumsExchange` says that a table adds up to the
  same by rows and by columns, for any finite sets of users and months. A sum is known by what
  it adds first and what is left (`IsFold`, `FoldUnique`). Induction is done on sets, not on
  formulas: every set of numbers has a least one (`SmallestOf`), so that a set with 0 and the
  successor of each of its members has all numbers (`AllNumbers`), and a family of subsets that
  can be built up member by member has all of them (`AllSubsets`).
- `OnlyTheseAreLostEver` is about reachability, since the template draws the trees of the roots.
  Who is on a card has everyone above on a card and is on no circle (`CardsAreTrees`). A user
  without a card who is not below a strip has a manager like that; such a chain has no end, and
  by the pigeonhole principle meets a user twice, which is the circle (`TheLostAreBlocked`).

**PrototypeProofs.** There is no server that would refuse anything, so that everything rests on
copies staying true. `ProtoInv` says of each page what its copies are: the copy of a user in
the panel keeps the own account active, and a question to switch an account off is not about
the own one (`UsersPage`); a form names what the tables have for its activity (`FormInv`); what
the page of a day edits or asks about is an own entry of that day inside the window
(`EntryPage`, `OwnEntry`); what the list edits or asks about is inside the window and never a
worker's (`ListPage`). `SessionInv` says of the logins on their way that those of the login
screen that is open find their account as it is, because users change only while somebody is
logged in. With `EntriesInv` (ids are given once, entries fit) these are preserved together:
a page is the only place where what it copied can change, and a dialog covers its page.
- `SessionsAreActive`, `EntriesAlwaysFit`, `PlacesAreKept` and `WorkersStayWithTheirOwn` follow
  for any accounts, tables, entries and logins.
- `ListIsNeverBlank` says that the rows of the clamped page number exist. `Ranks` shows that in
  a strict order of a finite set every rank is taken once; the columns of the list order its
  rows strictly (`RowsAreOrdered`), and the first rank of the page is below the number of rows
  (`LastPage`, `PageInRange`). `KeptAre` is the same lemma for `filter`.

Wherever a login timer or another session's answer can put one session in the place of
another, the theorems exclude it by a history variable (`strayed`, `mixed`): the code does let
it happen, and the properties fail then.

Only model-checked. `RequestsFinish` is liveness under fairness, which is out of the prover's
reach. The types of the client modules other than `Prototype` were checked by TLC; the proofs
use the parts of them that they need, stated in the invariants.

## 5. What is not modelled

- Service: the CSV export and the daily total, which change nothing; the synchronisation of
  the permission catalog, which runs alone at start-up; the rate limiter and the layout and
  expiry of tokens (a refused login, a disabled account); the breakdown of the yearly report;
  migrations, which run once, offline, and whose rows are the initial states.
- Client: toasts and their timers, the language switch and both dictionaries, the number
  and date formats, the interceptor that renames fields, the layout of charts, workbooks and
  pictures, styling.
- Prototype: search boxes, managers and teams, toasts, exports and charts, the dashboard, and
  the yearly report, whose editor of expected days is modelled for the client that
  replaced it (`ReportScreens`).
- Switches instead of details: which fields make the entry form valid (`filled`), what the
  report breaks down (`detail`), names, descriptions and e-mail addresses wherever no rule
  reads them.

## 6. Plan

1. The prototype's dashboard and report; toasts whose timer clears a later toast.
2. The CSV export of the workload API and the daily total.
