------------------------------ MODULE Session ------------------------------
(***************************************************************************)
(* The session of a user in one tab of the browser: AuthService with the    *)
(* storage it keeps the token in, the interceptors and guards, the login    *)
(* form, the shell around the screens with its menu and the data it loads,  *)
(* and the dialog that changes the password; with the endpoints of auth.py. *)
(*                                                                         *)
(* A token stands for its account; one that expires is an account that is   *)
(* disabled until the next login.  Requests are answered in any order, also *)
(* after the component or the session that sent them is gone.               *)
(***************************************************************************)
EXTENDS FiniteSetsExt, Integers

CONSTANTS
  Accounts,
  Passwords,
  Codes,      \* the permission codes
  Rights,     \* what a role may grant (a bound)
  Null,
  MaxActs     \* how often the user, another tab and the administrators act (a bound)

ASSUME SessionAssumption ==
  /\ Null \notin Accounts /\ Null \notin Passwords
  /\ Null \notin [account : Accounts, rights : Rights]
  /\ Rights \subseteq [super : BOOLEAN, perms : SUBSET Codes]
  /\ MaxActs \in Nat

VARIABLES
  accounts,   \* the table users, with the role of each
  storage,    \* localStorage: the token and the user
  user,       \* _currentUser
  route,
  ready,      \* LookupService.ready
  directory,  \* whether the directory is loaded
  waiting,    \* directoryPromise
  loading,    \* the login form is waiting
  dialog,     \* the dialog for the password, Null if it is closed
  calls,      \* the HTTP requests in flight
  mixed,      \* (history) the session is not of one piece, see DeliverMe and OtherTab
  spoilt,     \* (history) something went wrong, or changed, since the shell was opened
  acts        \* how often something is still done

session == <<storage, user, mixed>>
data == <<ready, directory, waiting>>
forms == <<loading, dialog>>
vars == <<accounts, session, route, data, forms, calls, spoilt, acts>>

-----------------------------------------------------------------------------
Users == [account : Accounts, rights : Rights]

UserOf(a) == [account |-> a, rights |-> accounts[a].rights]

Dialogs ==
  [saving : BOOLEAN, error : {"none", "form", "wrong", "failed"},
   changed : BOOLEAN, told : BOOLEAN]

ASSUME DialogAssumption == Null \notin Dialogs

\* changed, told (history): a request of this dialog was carried out, and none
\* of their answers was lost.
OpenedDialog == [saving |-> FALSE, error |-> "none", changed |-> FALSE, told |-> TRUE]

\* own: what sent it is still on the screen; live: its page still exists.
Calls ==
  [id : Nat, op : {"login", "me", "lookups", "directory", "password"},
   token : Accounts \cup {Null}, own : BOOLEAN, live : BOOLEAN,
   account : Accounts \cup {Null}, password : Passwords \cup {Null},
   next : Passwords \cup {Null},
   status : {"none", "ok", "unauthorized", "wrong"}, user : Users \cup {Null}]

\* authInterceptor: a request goes with the token of the storage.
Call(op, token) ==
  [id |-> 0, op |-> op, token |-> token, own |-> TRUE, live |-> TRUE, account |-> Null,
   password |-> Null, next |-> Null, status |-> "none", user |-> Null]

Plus(S, c) ==
  S \cup {[c EXCEPT !.id = CHOOSE n \in 0..Cardinality(S) :
                               \A d \in S : d.op = c.op => d.id # n]}

-----------------------------------------------------------------------------
(* The routes, their guards and the menu.                                   *)

Paths ==
  {"dashboard", "my-workload", "workload-entry", "workload-list", "yearly-report",
   "users", "lookups", "roles"}

\* The codes of permissionGuard; a route without it is for everyone.
Guards ==
  [p \in Paths |-> CASE p = "yearly-report" -> {"yearly_report.view"}
                     [] p = "users"         -> {"users.view"}
                     [] p = "lookups"       -> {"lookups.view"}
                     [] p = "roles"         -> {"roles.view", "roles.manage"}
                     [] OTHER               -> {}]

\* MENU_TREE: its groups, and the codes of its leaves.
MenuGroups ==
  {{"dashboard"},
   {"my-workload", "workload-entry", "workload-list", "yearly-report"},
   {"lookups", "users", "roles"}}

Leaf(p) ==
  CASE p = "yearly-report" -> {"yearly_report.view"}
    [] p = "lookups"       -> {"lookups.view"}
    [] p = "users"         -> {"users.view"}
    [] p = "roles"         -> {"roles.view", "roles.manage"}
    [] OTHER               -> {}

HasPermission(u, codes) == u.rights.super \/ codes \cap u.rights.perms # {}

Menu(u) ==
  UNION {{p \in group : Leaf(p) = {} \/ HasPermission(u, Leaf(p))} : group \in MenuGroups}

\* authGuard and permissionGuard: where the router ends up.
Target(p, u) ==
  IF p = "login" \/ u = Null THEN "login"
  ELSE IF Guards[p] = {} \/ HasPermission(u, Guards[p]) THEN p
  ELSE "dashboard"

TypeOK ==
  /\ accounts \in [Accounts -> [enabled : BOOLEAN, rights : Rights, password : Passwords]]
  /\ storage \in [token : Accounts \cup {Null}, user : Users \cup {Null}]
  /\ user \in Users \cup {Null}
  /\ route \in Paths \cup {"login"}
  /\ ready \in BOOLEAN /\ directory \in BOOLEAN /\ waiting \in BOOLEAN
  /\ loading \in BOOLEAN /\ dialog \in Dialogs \cup {Null}
  /\ calls \subseteq Calls
  /\ mixed \in BOOLEAN /\ spoilt \in BOOLEAN /\ acts \in 0..MaxActs

-----------------------------------------------------------------------------
(* The shell, which loads what all screens use when it is opened.           *)

Opened(S, token, known, listed) ==
  LET me == Plus(S, Call("me", token))
      all == IF known THEN me ELSE Plus(me, Call("lookups", token))
  IN  IF listed THEN all ELSE Plus(all, Call("directory", token))

\* The component that sent them is destroyed.
Orphans(S) == {[c EXCEPT !.own = FALSE] : c \in S}

\* The page is (re)loaded at p; only what changes the server survives.
Boot(p) ==
  LET r == Target(p, storage.user)
      sent == Orphans({[c EXCEPT !.live = FALSE] :
                         c \in {d \in calls : d.op = "password" /\ d.status = "none"}})
  IN
  /\ route' = r /\ user' = storage.user
  /\ ready' = FALSE /\ directory' = FALSE /\ waiting' = (r # "login")
  /\ loading' = FALSE /\ dialog' = Null
  /\ calls' = IF r = "login" THEN sent ELSE Opened(sent, storage.token, FALSE, FALSE)
  /\ spoilt' = FALSE

Init ==
  /\ accounts \in [Accounts -> [enabled : BOOLEAN, rights : Rights, password : Passwords]]
  /\ \/ storage = [token |-> Null, user |-> Null]
     \/ \E u \in Users : storage = [token |-> u.account, user |-> u]
  /\ user = storage.user /\ mixed = FALSE
  /\ route = (IF user = Null THEN "login" ELSE "dashboard")
  /\ ready = FALSE /\ directory = FALSE /\ waiting = (route # "login")
  /\ loading = FALSE /\ dialog = Null
  /\ calls = IF route = "login" THEN {} ELSE Opened({}, storage.token, FALSE, FALSE)
  /\ spoilt = FALSE /\ acts = MaxActs

\* The router goes to p for the user u, who has that token.
Go(p, u, token, S) ==
  LET r == Target(p, u)
      opens == route = "login" /\ r # "login"
      rest == IF (route = "login") = (r = "login") THEN S ELSE Orphans(S)
  IN
  /\ route' = r
  /\ dialog' = IF r = "login" THEN Null ELSE dialog
  /\ waiting' = (waiting \/ (opens /\ ~directory))
  /\ calls' = IF opens THEN Opened(rest, token, ready, directory \/ waiting) ELSE rest

\* Mutant: the user stays in the storage.
Cleared_tokenOnly == [storage EXCEPT !.token = Null]

\* What logout leaves in the storage.
Cleared == [token |-> Null, user |-> Null]

\* logout, with the requests S in flight.
LogOut(S) ==
  /\ storage' = Cleared /\ user' = Null /\ mixed' = FALSE
  /\ route' = "login" /\ dialog' = Null
  /\ calls' = IF route = "login" THEN S ELSE Orphans(S)

-----------------------------------------------------------------------------
(* What the user does; the dialog covers the rest of the page.              *)

Act == acts > 0 /\ acts' = acts - 1

\* submit of the form, which does not ask whether it is waiting.
SubmitLogin(a, p) ==
  /\ route = "login" /\ Act
  /\ loading' = TRUE
  /\ calls' = Plus(calls, [Call("login", storage.token) EXCEPT !.account = a, !.password = p])
  /\ UNCHANGED <<accounts, session, route, data, dialog, spoilt>>

ClickLogout ==
  /\ route # "login" /\ dialog = Null /\ Act
  /\ LogOut(calls)
  /\ UNCHANGED <<accounts, data, loading, spoilt>>

\* A leaf of the menu, or the history of the browser, which no dialog stops.
Navigate(p) ==
  /\ p # route /\ Act
  /\ Go(p, user, storage.token, calls)
  /\ loading' = (loading /\ Target(p, user) = "login")
  /\ spoilt' = (spoilt /\ route # "login")
  /\ UNCHANGED <<accounts, session, ready, directory>>

Reload(p) ==
  /\ Act
  /\ Boot(p)
  /\ UNCHANGED <<accounts, storage, mixed>>

\* openPasswordDialog, and its cancel.
ToggleDialog ==
  /\ route # "login"
  /\ dialog' = IF dialog = Null THEN OpenedDialog ELSE Null
  /\ calls' = {IF c.op = "password" THEN [c EXCEPT !.own = FALSE] ELSE c : c \in calls}
  /\ UNCHANGED <<accounts, session, route, data, loading, spoilt, acts>>

\* submit of the dialog: an incomplete form is only told.
SubmitPassword(cur, new) ==
  /\ dialog # Null /\ Act
  /\ \/ dialog' = [dialog EXCEPT !.error = "form"] /\ UNCHANGED calls
     \/ /\ dialog' = [dialog EXCEPT !.error = "none", !.saving = TRUE]
        /\ calls' = Plus(calls, [Call("password", storage.token) EXCEPT !.password = cur,
                                                                        !.next = new])
  /\ UNCHANGED <<accounts, session, route, data, loading, spoilt>>

-----------------------------------------------------------------------------
(* The rest of the world, and the server.                                   *)

\* Another tab logs in or out: the storage is shared, the page is not.
OtherTab ==
  /\ Act
  /\ storage' \in {[token |-> Null, user |-> Null]}
                  \cup {[token |-> a, user |-> UserOf(a)] : a \in {b \in Accounts : accounts[b].enabled}}
  /\ mixed' = TRUE
  /\ UNCHANGED <<accounts, user, route, data, forms, calls, spoilt>>

\* An administrator changes the role of a user, or disables or enables him.
Administer(a) ==
  /\ Act
  /\ \/ \E r \in Rights : accounts' = [accounts EXCEPT ![a].rights = r]
     \/ accounts' = [accounts EXCEPT ![a].enabled = ~@]
  /\ spoilt' = TRUE
  /\ UNCHANGED <<session, route, data, forms, calls>>

\* get_current_user
Authenticated(token) == token # Null /\ accounts[token].enabled

Reply(c, status, u) ==
  calls' = (calls \ {c}) \cup {d \in {[c EXCEPT !.status = status, !.user = u]} : d.live}

Waits(c, op) == c.op = op /\ c.status = "none"

\* login
ServeLogin(c) ==
  LET ok == accounts[c.account].enabled /\ accounts[c.account].password = c.password IN
  /\ Waits(c, "login")
  /\ Reply(c, IF ok THEN "ok" ELSE "unauthorized", IF ok THEN UserOf(c.account) ELSE Null)
  /\ UNCHANGED <<accounts, session, route, data, forms, spoilt, acts>>

\* me
ServeMe(c) ==
  LET ok == Authenticated(c.token) IN
  /\ Waits(c, "me")
  /\ Reply(c, IF ok THEN "ok" ELSE "unauthorized", IF ok THEN UserOf(c.token) ELSE Null)
  /\ UNCHANGED <<accounts, session, route, data, forms, spoilt, acts>>

\* change_password
ServePassword(c) ==
  LET status == IF ~Authenticated(c.token) THEN "unauthorized"
                ELSE IF accounts[c.token].password # c.password THEN "wrong" ELSE "ok"
  IN
  /\ Waits(c, "password")
  /\ Reply(c, status, Null)
  /\ accounts' = IF status = "ok" THEN [accounts EXCEPT ![c.token].password = c.next]
                 ELSE accounts
  /\ dialog' = IF status = "ok" /\ c.own THEN [dialog EXCEPT !.changed = TRUE] ELSE dialog
  /\ UNCHANGED <<session, route, data, loading, spoilt, acts>>

-----------------------------------------------------------------------------
(* The answers; a request may be lost before or after it is served.  What   *)
(* the server only reads for the shell is read on the way.                  *)

Outcome(c) ==
  CASE c.op \in {"lookups", "directory"} ->
         IF Authenticated(c.token) THEN "ok" ELSE "unauthorized"
    [] OTHER -> c.status

Answered(c, op, s) == c.live /\ c.op = op /\ s \in {Outcome(c), "lost"} \ {"none"}

\* authInterceptor: a request that went with a token and is refused ends the
\* session, whichever it is by now.
Refuse(c, s) ==
  IF s = "unauthorized" /\ c.token # Null
    THEN LogOut(calls \ {c})
    ELSE calls' = calls \ {c} /\ UNCHANGED <<session, route, dialog>>

DeliverLogin(c, s) ==
  /\ Answered(c, "login", s)
  /\ IF s = "ok"
       THEN /\ storage' = [token |-> c.account, user |-> c.user]
            /\ user' = c.user /\ mixed' = FALSE
            /\ Go("dashboard", c.user, c.account, calls \ {c})
            /\ loading' = FALSE
            /\ spoilt' = (route # "login")
       ELSE /\ Refuse(c, s)
            /\ loading' = (loading /\ ~c.own)
            /\ UNCHANGED <<waiting, spoilt>>
  /\ UNCHANGED <<accounts, ready, directory, acts>>

\* refreshFromServer: the user is stored for whichever session there is.
DeliverMe(c, s) ==
  /\ Answered(c, "me", s)
  /\ IF s = "ok"
       THEN /\ storage' = [storage EXCEPT !.user = c.user] /\ user' = c.user
            /\ mixed' = ~(c.own /\ c.token = storage.token)
            /\ calls' = calls \ {c}
            /\ UNCHANGED <<route, dialog, spoilt>>
       ELSE Refuse(c, s) /\ spoilt' = TRUE
  /\ UNCHANGED <<accounts, data, loading, acts>>

DeliverLookups(c, s) ==
  /\ Answered(c, "lookups", s)
  /\ ready' = (ready \/ s = "ok")
  /\ Refuse(c, s) /\ spoilt' = (spoilt \/ s # "ok")
  /\ UNCHANGED <<accounts, directory, waiting, loading, acts>>

\* Mutant: a promise that failed is kept.
DeliverDirectory_promiseKept(c, s) ==
  /\ Answered(c, "directory", s)
  /\ directory' = (directory \/ s = "ok") /\ waiting' = (s # "ok")
  /\ Refuse(c, s) /\ spoilt' = (spoilt \/ s # "ok")
  /\ UNCHANGED <<accounts, ready, loading, acts>>

\* loadDirectory: the promise is forgotten, whatever came of it.
DeliverDirectory(c, s) ==
  /\ Answered(c, "directory", s)
  /\ directory' = (directory \/ s = "ok") /\ waiting' = FALSE
  /\ Refuse(c, s) /\ spoilt' = (spoilt \/ s # "ok")
  /\ UNCHANGED <<accounts, ready, loading, acts>>

\* Mutant: the dialog shows the error of the other request and stays.
DeliverPassword_staysOnError(c, s) ==
  /\ Answered(c, "password", s)
  /\ IF s = "ok" /\ c.own /\ dialog.error = "none"
       THEN /\ dialog' = Null
            /\ calls' = {IF d.op = "password" THEN [d EXCEPT !.own = FALSE] ELSE d :
                           d \in calls \ {c}}
            /\ UNCHANGED <<session, route>>
       ELSE IF c.own /\ ~(s = "unauthorized" /\ c.token # Null)
       THEN /\ dialog' = [dialog EXCEPT !.saving = FALSE]
            /\ calls' = calls \ {c} /\ UNCHANGED <<session, route>>
       ELSE Refuse(c, s)
  /\ UNCHANGED <<accounts, data, loading, spoilt, acts>>

DeliverPassword(c, s) ==
  /\ Answered(c, "password", s)
  /\ CASE s = "ok" /\ c.own ->
            /\ dialog' = Null
            /\ calls' = {IF d.op = "password" THEN [d EXCEPT !.own = FALSE] ELSE d :
                           d \in calls \ {c}}
            /\ UNCHANGED <<session, route>>
       [] c.own /\ (s \in {"wrong", "lost"} \/ (s = "unauthorized" /\ c.token = Null)) ->
            /\ dialog' = [dialog EXCEPT !.saving = FALSE, !.told = @ /\ s # "lost",
                                        !.error = IF s = "wrong" THEN "wrong" ELSE "failed"]
            /\ calls' = calls \ {c} /\ UNCHANGED <<session, route>>
       [] OTHER -> Refuse(c, s)
  /\ UNCHANGED <<accounts, data, loading, spoilt, acts>>

-----------------------------------------------------------------------------
Click ==
  \/ \E a \in Accounts, p \in Passwords : SubmitLogin(a, p)
  \/ ClickLogout
  \/ \E p \in Paths \cup {"login"} : Navigate(p) \/ Reload(p)
  \/ ToggleDialog
  \/ \E cur, new \in Passwords : SubmitPassword(cur, new)

Serve(c) == ServeLogin(c) \/ ServeMe(c) \/ ServePassword(c)

Deliver(c, s) ==
  \/ DeliverLogin(c, s)
  \/ DeliverMe(c, s)
  \/ DeliverLookups(c, s)
  \/ DeliverDirectory(c, s)
  \/ DeliverPassword(c, s)

Next ==
  \/ Click
  \/ OtherTab
  \/ \E a \in Accounts : Administer(a)
  \/ \E c \in calls : Serve(c)
  \/ \E c \in calls, s \in {"ok", "unauthorized", "wrong", "lost"} : Deliver(c, s)

Spec == Init /\ [][Next]_vars

-----------------------------------------------------------------------------
(* Properties                                                               *)

\* The session is one thing: the user on the page, the user in the storage and
\* the account of the token are the same, or there is none of them, and no screen
\* is open without a user.  Only a refresh that was sent from another session, or
\* another tab, comes in between, and the next login, logout or refresh heals it
\* (auth.service.ts:32-49, 78-95; auth.interceptor.ts:13-21; the guards).
SessionIsOne ==
  /\ route # "login" => user # Null
  /\ ~mixed => /\ user = storage.user
               /\ user = Null <=> storage.token = Null
               /\ user # Null => user.account = storage.token

\* When all is answered and nothing failed since the shell was opened, it has
\* the lookups and the directory, although the promise of the directory may be one
\* of an earlier session, and the page knows the rights the user has now; the menu
\* shows exactly the screens whose guards let him in
\* (app-shell.component.ts:60-72; users.service.ts:58-78;
\* top-nav.component.ts:53-84, 151-170; app.routes.ts:19-71).
ShellIsFresh ==
  /\ route # "login" /\ calls = {} /\ ~mixed /\ ~spoilt =>
       ready /\ directory /\ ~waiting /\ user = UserOf(user.account)
  /\ user # Null => Menu(user) = {p \in Paths : Target(p, user) = p}

\* A form that says it is busy has a request in flight, and a dialog that is
\* still open when all its answers are known did not change the password, even if
\* Enter sent it twice (login.component.ts:60-82;
\* change-password-dialog.component.ts:99-134).
FormsKnowTheirRequests ==
  LET own(op) == {c \in calls : c.op = op /\ c.own} IN
  /\ loading => own("login") # {}
  /\ dialog # Null =>
       /\ dialog.saving => own("password") # {}
       /\ own("password") = {} /\ dialog.told => ~dialog.changed

=============================================================================
