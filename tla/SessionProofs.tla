--------------------------- MODULE SessionProofs ---------------------------
(***************************************************************************)
(* Why the session stays of one piece, whoever logs in or out while answers *)
(* of earlier sessions are still on their way, why a shell ends complete and  *)
(* fresh, and why a form always knows the request that it waits for: for any *)
(* accounts, rights and number of requests.                                 *)
(***************************************************************************)
EXTENDS Session, TLAPS

CallFields ==
  {"id", "op", "token", "own", "live", "account", "password", "next", "status", "user"}

\* A request is made for an account of the table, and the user in an answer is
\* that of the account that logged in, or whose token was sent.
Honest(c) ==
  /\ DOMAIN c = CallFields
  /\ c.token \in Accounts \cup {Null}
  /\ c.op = "login" => c.account \in Accounts
  /\ c.status = "ok" =>
       /\ c.op = "login" => c.user \in Users /\ c.user.account = c.account
       /\ c.op = "me" => c.user \in Users /\ c.user.account = c.token

AllHonest(S) == \A c \in S : Honest(c)

AccountsTyped ==
  /\ DOMAIN accounts = Accounts
  /\ \A a \in Accounts :
       DOMAIN accounts[a] = {"enabled", "rights", "password"} /\ accounts[a].rights \in Rights

SessionTyped ==
  /\ storage \in [token : Accounts \cup {Null}, user : Users \cup {Null}]
  /\ user \in Users \cup {Null}

SessionInv == AccountsTyped /\ SessionTyped /\ SessionIsOne /\ AllHonest(calls)

LEMMA NullIsNobody == Null \notin Accounts /\ Null \notin Users
  BY SessionAssumption DEF Users

-----------------------------------------------------------------------------
(* The requests in flight.                                                  *)

\* The marks on a request do not count.
Same(d, c) ==
  /\ DOMAIN d = CallFields /\ d.op = c.op /\ d.token = c.token /\ d.account = c.account
  /\ d.status = c.status /\ d.user = c.user

LEMMA SameIsHonest ==
  ASSUME NEW c, NEW d, Honest(c), Same(d, c)
  PROVE  Honest(d)
  BY DEF Honest, Same

LEMMA MarkedIsHonest ==
  ASSUME NEW c, Honest(c), NEW v
  PROVE  /\ Honest([c EXCEPT !.id = v]) /\ Honest([c EXCEPT !.own = v])
         /\ Honest([c EXCEPT !.live = v])
<1>1. /\ Same([c EXCEPT !.id = v], c) /\ Same([c EXCEPT !.own = v], c)
      /\ Same([c EXCEPT !.live = v], c)
  BY DEF Honest, Same, CallFields
<1> QED BY <1>1, SameIsHonest

LEMMA PlusHonest ==
  ASSUME NEW S, AllHonest(S), NEW c, Honest(c)
  PROVE  AllHonest(Plus(S, c))
<1>1. \A v : Honest([c EXCEPT !.id = v])
  BY MarkedIsHonest
<1>2. \E v : Plus(S, c) = S \cup {[c EXCEPT !.id = v]}
  BY DEF Plus
<1> QED BY <1>1, <1>2 DEF AllHonest

LEMMA SentIsHonest ==
  ASSUME NEW t \in Accounts \cup {Null}, NEW op
  PROVE  /\ op # "login" => Honest(Call(op, t))
         /\ \A a \in Accounts : \A p :
              Honest([Call("login", t) EXCEPT !.account = a, !.password = p])
         /\ \A p, q : Honest([Call("password", t) EXCEPT !.password = p, !.next = q])
  BY DEF Call, Honest, CallFields

LEMMA OpenedHonest ==
  ASSUME NEW S, AllHonest(S), NEW t \in Accounts \cup {Null}, NEW known, NEW listed
  PROVE  AllHonest(Opened(S, t, known, listed))
<1>1. AllHonest(Plus(S, Call("me", t)))
  BY SentIsHonest, PlusHonest
<1>2. AllHonest(IF known THEN Plus(S, Call("me", t))
                ELSE Plus(Plus(S, Call("me", t)), Call("lookups", t)))
  BY <1>1, SentIsHonest, PlusHonest
<1> QED BY <1>2, SentIsHonest, PlusHonest DEF Opened

LEMMA OrphansHonest ==
  ASSUME NEW S, AllHonest(S)
  PROVE  AllHonest(Orphans(S))
  BY MarkedIsHonest DEF Orphans, AllHonest

-----------------------------------------------------------------------------
(* What the steps have in common.                                           *)

LEMMA NobodyGoesNowhere ==
  ASSUME NEW p, NEW u
  PROVE  Target(p, u) # "login" => u # Null
  BY DEF Target

LEMMA LogOutStep ==
  ASSUME SessionInv, NEW S, AllHonest(S), LogOut(S), AccountsTyped'
  PROVE  SessionInv'
<1>1. AllHonest(calls')
  BY OrphansHonest DEF LogOut
<1>2. SessionTyped' /\ SessionIsOne'
  BY DEF LogOut, Cleared, SessionTyped, SessionIsOne
<1> QED BY <1>1, <1>2 DEF SessionInv, AllHonest

\* The session and the screen stay.
LEMMA QuietStep ==
  ASSUME SessionInv, UNCHANGED <<session, route>>, AccountsTyped', AllHonest(calls')
  PROVE  SessionInv'
<1>1. SessionTyped' /\ SessionIsOne'
  BY DEF SessionInv, session, SessionTyped, SessionIsOne
<1> QED BY <1>1 DEF SessionInv, AllHonest

LEMMA RefuseStep ==
  ASSUME SessionInv, NEW c, NEW s, Refuse(c, s), AccountsTyped'
  PROVE  SessionInv'
<1>1. AllHonest(calls \ {c})
  BY DEF SessionInv, AllHonest
<1> QED BY <1>1, LogOutStep, QuietStep DEF Refuse

LEMMA SessionInit == Init => SessionInv
<1> SUFFICES ASSUME Init
             PROVE  SessionInv
  OBVIOUS
<1>1. AccountsTyped
  BY DEF Init, AccountsTyped
<1>2. SessionTyped
  BY DEF Init, SessionTyped, Users
<1>3. SessionIsOne
  BY NullIsNobody DEF Init, SessionIsOne, Users
<1>4. AllHonest(calls)
  <2>1. AllHonest({}) /\ storage.token \in Accounts \cup {Null}
    BY <1>2 DEF AllHonest, SessionTyped
  <2> QED BY <2>1, OpenedHonest DEF Init
<1> QED BY <1>1, <1>2, <1>3, <1>4 DEF SessionInv

-----------------------------------------------------------------------------
(* Every step keeps the invariant.                                          *)

LEMMA ClickStep ==
  ASSUME SessionInv, Click
  PROVE  SessionInv'
<1>0. /\ AccountsTyped /\ SessionTyped /\ SessionIsOne /\ AllHonest(calls)
      /\ storage.token \in Accounts \cup {Null}
  BY DEF SessionInv, SessionTyped
<1>1. UNCHANGED accounts => AccountsTyped'
  BY <1>0 DEF AccountsTyped
<1>2. ASSUME NEW a \in Accounts, NEW p \in Passwords, SubmitLogin(a, p)
      PROVE  SessionInv'
  <2>1. AllHonest(calls')
    BY <1>0, <1>2, SentIsHonest, PlusHonest DEF SubmitLogin
  <2> QED BY <1>1, <1>2, <2>1, QuietStep DEF SubmitLogin
<1>3. CASE ClickLogout
  BY <1>0, <1>1, <1>3, LogOutStep DEF ClickLogout
<1>4. ASSUME NEW p, Navigate(p)
      PROVE  SessionInv'
  <2>1. AllHonest(calls')
    BY <1>0, <1>4, OrphansHonest, OpenedHonest DEF Navigate, Go
  <2>2. UNCHANGED <<accounts, session>> /\ route' = Target(p, user)
    BY <1>4 DEF Navigate, Go
  <2>3. SessionTyped' /\ SessionIsOne'
    BY <1>0, <2>2, NobodyGoesNowhere DEF session, SessionTyped, SessionIsOne
  <2> QED BY <1>1, <2>1, <2>2, <2>3 DEF SessionInv, AllHonest
<1>5. ASSUME NEW p, Reload(p)
      PROVE  SessionInv'
  <2> DEFINE kept == {[c EXCEPT !.live = FALSE] :
                        c \in {d \in calls : d.op = "password" /\ d.status = "none"}}
  <2>1. AllHonest(kept)
    <3>1. \A d \in calls : Honest([d EXCEPT !.live = FALSE])
      BY <1>0, MarkedIsHonest DEF AllHonest
    <3> QED BY <3>1 DEF AllHonest
  <2>2. AllHonest(Orphans(kept))
    BY <2>1, OrphansHonest
  <2>3. /\ UNCHANGED <<accounts, storage, mixed>> /\ user' = storage.user
        /\ route' = Target(p, storage.user)
        /\ calls' = IF Target(p, storage.user) = "login" THEN Orphans(kept)
                    ELSE Opened(Orphans(kept), storage.token, FALSE, FALSE)
    BY <1>5 DEF Reload, Boot
  <2> HIDE DEF kept
  <2>4. AllHonest(calls')
    BY <1>0, <2>2, <2>3, OpenedHonest
  <2>5. SessionTyped'
    BY <1>0, <2>3 DEF SessionTyped
  <2>6. SessionIsOne'
    BY <1>0, <2>3, NobodyGoesNowhere DEF SessionIsOne
  <2> QED BY <1>1, <2>3, <2>4, <2>5, <2>6 DEF SessionInv, AllHonest
<1>6. CASE ToggleDialog
  <2>1. AllHonest(calls')
    <3>1. \A d \in calls : Honest(d) /\ Honest([d EXCEPT !.own = FALSE])
      BY <1>0, MarkedIsHonest DEF AllHonest
    <3> QED BY <1>6, <3>1 DEF ToggleDialog, AllHonest
  <2> QED BY <1>1, <1>6, <2>1, QuietStep DEF ToggleDialog
<1>7. ASSUME NEW p \in Passwords, NEW q \in Passwords, SubmitPassword(p, q)
      PROVE  SessionInv'
  <2>1. AllHonest(calls')
    <3>1. Honest([Call("password", storage.token) EXCEPT !.password = p, !.next = q])
      BY <1>0, SentIsHonest
    <3>2. AllHonest(Plus(calls, [Call("password", storage.token) EXCEPT !.password = p, !.next = q]))
      BY <1>0, <3>1, PlusHonest
    <3> QED BY <1>0, <1>7, <3>2 DEF SubmitPassword
  <2> QED BY <1>1, <1>7, <2>1, QuietStep DEF SubmitPassword
<1> QED BY <1>2, <1>3, <1>4, <1>5, <1>6, <1>7 DEF Click

LEMMA AdministerStep ==
  ASSUME SessionInv, NEW a \in Accounts, Administer(a)
  PROVE  SessionInv'
<1>1. AccountsTyped'
  <2>1. CASE \E r \in Rights : accounts' = [accounts EXCEPT ![a].rights = r]
    BY <2>1 DEF SessionInv, AccountsTyped
  <2>2. CASE accounts' = [accounts EXCEPT ![a].enabled = ~@]
    BY <2>2 DEF SessionInv, AccountsTyped
  <2> QED BY <2>1, <2>2 DEF Administer
<1>2. UNCHANGED <<session, route>> /\ AllHonest(calls')
  BY DEF Administer, SessionInv, AllHonest
<1> QED BY <1>1, <1>2, QuietStep

LEMMA OtherTabStep ==
  ASSUME SessionInv, OtherTab
  PROVE  SessionInv'
<1>1. AccountsTyped' /\ AllHonest(calls')
  BY DEF OtherTab, SessionInv, AccountsTyped, AllHonest
<1>2. storage' \in [token : Accounts \cup {Null}, user : Users \cup {Null}]
  <2>1. \A a \in Accounts : UserOf(a) \in Users
    BY DEF SessionInv, AccountsTyped, UserOf, Users
  <2> QED BY <2>1 DEF OtherTab
<1>3. SessionTyped' /\ SessionIsOne'
  BY <1>2 DEF OtherTab, SessionInv, SessionTyped, SessionIsOne
<1> QED BY <1>1, <1>3 DEF SessionInv, AllHonest

LEMMA ServeStep ==
  ASSUME SessionInv, NEW c \in calls, Serve(c)
  PROVE  SessionInv'
<1>0. /\ Honest(c) /\ AllHonest(calls) /\ AccountsTyped
      /\ \A a \in Accounts : UserOf(a) \in Users /\ UserOf(a).account = a
  BY DEF SessionInv, AllHonest, AccountsTyped, UserOf, Users
<1>1. ASSUME NEW s, NEW u, Reply(c, s, u), Honest([c EXCEPT !.status = s, !.user = u])
      PROVE  AllHonest(calls')
  BY <1>0, <1>1 DEF Reply, AllHonest
<1>2. ASSUME NEW s, NEW u,
             s = "ok" => /\ c.op = "login" => u \in Users /\ u.account = c.account
                         /\ c.op = "me" => u \in Users /\ u.account = c.token
      PROVE  Honest([c EXCEPT !.status = s, !.user = u])
  BY <1>0, <1>2 DEF Honest, CallFields
<1>3. CASE ServeLogin(c)
  <2> DEFINE ok == accounts[c.account].enabled /\ accounts[c.account].password = c.password
  <2>1. /\ c.op = "login" /\ UNCHANGED <<accounts, session, route>>
        /\ Reply(c, IF ok THEN "ok" ELSE "unauthorized", IF ok THEN UserOf(c.account) ELSE Null)
    BY <1>3 DEF ServeLogin, Waits
  <2> HIDE DEF ok
  <2>2. AllHonest(calls')
    BY <1>0, <1>1, <1>2, <2>1 DEF Honest
  <2>3. AccountsTyped'
    BY <1>0, <2>1 DEF AccountsTyped
  <2> QED BY <2>1, <2>2, <2>3, QuietStep
<1>4. CASE ServeMe(c)
  <2> DEFINE ok == Authenticated(c.token)
  <2>1. /\ c.op = "me" /\ UNCHANGED <<accounts, session, route>>
        /\ Reply(c, IF ok THEN "ok" ELSE "unauthorized", IF ok THEN UserOf(c.token) ELSE Null)
    BY <1>4 DEF ServeMe, Waits
  <2>2. ok => c.token \in Accounts
    BY <1>0 DEF Authenticated, Honest
  <2> HIDE DEF ok
  <2>3. AllHonest(calls')
    BY <1>0, <1>1, <1>2, <2>1, <2>2
  <2>4. AccountsTyped'
    BY <1>0, <2>1 DEF AccountsTyped
  <2> QED BY <2>1, <2>3, <2>4, QuietStep
<1>5. CASE ServePassword(c)
  <2>1. c.op = "password" /\ UNCHANGED <<session, route>> /\ \E s : Reply(c, s, Null)
    BY <1>5 DEF ServePassword, Waits
  <2>2. AllHonest(calls')
    BY <1>1, <1>2, <2>1
  <2>3. AccountsTyped'
    <3>1. accounts' = accounts \/ accounts' = [accounts EXCEPT ![c.token].password = c.next]
      BY <1>5 DEF ServePassword
    <3>2. ASSUME accounts' = [accounts EXCEPT ![c.token].password = c.next]
          PROVE  AccountsTyped'
      BY <1>0, <3>2 DEF AccountsTyped
    <3> QED BY <1>0, <3>1, <3>2 DEF AccountsTyped
  <2> QED BY <2>1, <2>2, <2>3, QuietStep
<1> QED BY <1>3, <1>4, <1>5 DEF Serve

LEMMA DeliverStep ==
  ASSUME SessionInv, NEW c \in calls, NEW s, Deliver(c, s)
  PROVE  SessionInv'
<1>0. /\ Honest(c) /\ AllHonest(calls \ {c}) /\ AccountsTyped
      /\ SessionTyped /\ SessionIsOne
  BY DEF SessionInv, AllHonest
<1>1. UNCHANGED accounts => AccountsTyped'
  BY <1>0 DEF AccountsTyped
<1>2. CASE DeliverLogin(c, s)
  <2>1. CASE s = "ok"
    <3>1. c.op = "login" /\ c.status = "ok" /\ UNCHANGED accounts
      BY <1>2, <2>1 DEF DeliverLogin, Answered, Outcome
    <3>2. /\ storage' = [token |-> c.account, user |-> c.user] /\ user' = c.user
          /\ Go("dashboard", c.user, c.account, calls \ {c})
      BY <1>2, <2>1 DEF DeliverLogin
    <3>3. c.account \in Accounts /\ c.user \in Users /\ c.user.account = c.account
      BY <1>0, <3>1 DEF Honest
    <3>4. AllHonest(calls')
      BY <1>0, <3>2, <3>3, OrphansHonest, OpenedHonest DEF Go
    <3>5. SessionTyped'
      BY <3>2, <3>3 DEF SessionTyped
    <3>6. SessionIsOne'
      BY <3>2, <3>3, NullIsNobody DEF SessionIsOne
    <3> QED BY <1>1, <3>1, <3>4, <3>5, <3>6 DEF SessionInv, AllHonest
  <2>2. CASE s # "ok"
    BY <1>1, <1>2, <2>2, RefuseStep DEF DeliverLogin
  <2> QED BY <2>1, <2>2
<1>3. CASE DeliverMe(c, s)
  <2>1. CASE s = "ok"
    <3>1. c.op = "me" /\ c.status = "ok" /\ UNCHANGED <<accounts, route>>
      BY <1>3, <2>1 DEF DeliverMe, Answered, Outcome
    <3>2. /\ storage' = [storage EXCEPT !.user = c.user] /\ user' = c.user
          /\ mixed' = ~(c.own /\ c.token = storage.token) /\ calls' = calls \ {c}
      BY <1>3, <2>1 DEF DeliverMe
    <3>3. c.user \in Users /\ c.user.account = c.token /\ c.user # Null
      BY <1>0, <3>1, NullIsNobody DEF Honest
    <3>4. c.user.account \in Accounts
      BY <3>3 DEF Users
    <3>5. storage'.user = c.user /\ storage'.token = storage.token /\ SessionTyped'
      BY <1>0, <3>2, <3>3 DEF SessionTyped
    <3>6. SessionIsOne'
      BY <3>2, <3>3, <3>4, <3>5, NullIsNobody DEF SessionIsOne
    <3> QED BY <1>0, <1>1, <3>1, <3>2, <3>5, <3>6 DEF SessionInv, AllHonest
  <2>2. CASE s # "ok"
    BY <1>1, <1>3, <2>2, RefuseStep DEF DeliverMe
  <2> QED BY <2>1, <2>2
<1>4. CASE DeliverLookups(c, s)
  BY <1>1, <1>4, RefuseStep DEF DeliverLookups
<1>5. CASE DeliverDirectory(c, s)
  BY <1>1, <1>5, RefuseStep DEF DeliverDirectory
<1>6. CASE DeliverPassword(c, s)
  <2>1. \A d \in calls \ {c} : Honest(d) /\ Honest([d EXCEPT !.own = FALSE])
    BY <1>0, MarkedIsHonest DEF AllHonest
  <2>2. \/ UNCHANGED <<session, route>> /\ AllHonest(calls')
        \/ Refuse(c, s)
    BY <1>6, <2>1 DEF DeliverPassword, AllHonest
  <2> QED BY <1>1, <1>6, <2>2, QuietStep, RefuseStep DEF DeliverPassword
<1> QED BY <1>2, <1>3, <1>4, <1>5, <1>6 DEF Deliver

LEMMA SessionStep == SessionInv /\ [Next]_vars => SessionInv'
<1> SUFFICES ASSUME SessionInv, [Next]_vars
             PROVE  SessionInv'
  OBVIOUS
<1>1. CASE UNCHANGED vars
  BY <1>1, QuietStep DEF vars, SessionInv, AccountsTyped, AllHonest
<1>2. CASE Next
  BY <1>2, ClickStep, OtherTabStep, AdministerStep, ServeStep, DeliverStep DEF Next
<1> QED BY <1>1, <1>2

-----------------------------------------------------------------------------
\* The session is one thing: the user on the page, the user in the storage and the
\* account of the token are the same, or there is none of them, and no screen is
\* open without a user, unless a refresh of another session or another tab came in
\* between (auth.service.ts:32-49, 78-95; auth.interceptor.ts:13-21; the guards).
THEOREM SessionStaysOne == Spec => []SessionIsOne
<1>1. SessionInv => SessionIsOne
  BY DEF SessionInv
<1> QED BY SessionInit, SessionStep, <1>1, PTL DEF Spec

\* For every user, with whatever rights, the menu shows exactly the screens whose
\* guards let him in (top-nav.component.ts:53-84, 151-170; app.routes.ts:19-71).
THEOREM MenuMatchesGuards ==
  ASSUME NEW u, u # Null
  PROVE  Menu(u) = {p \in Paths : Target(p, u) = p}
<1>1. ASSUME NEW p \in Paths
      PROVE  Guards[p] = Leaf(p) /\ p # "login" /\ (Leaf(p) # {} => p # "dashboard")
  BY DEF Paths, Guards, Leaf
<1>2. UNION MenuGroups = Paths
  BY DEF MenuGroups, Paths
<1>3. Menu(u) = {p \in Paths : Leaf(p) = {} \/ HasPermission(u, Leaf(p))}
  BY <1>2 DEF Menu
<1>4. ASSUME NEW p \in Paths
      PROVE  Target(p, u) = p <=> Leaf(p) = {} \/ HasPermission(u, Leaf(p))
  BY <1>1 DEF Target
<1> QED BY <1>3, <1>4

-----------------------------------------------------------------------------
(* Who waits for what.                                                      *)

Has(S, op) == \E c \in S : c.op = op

HasOwn(S, op) == \E c \in S : c.op = op /\ c.own

\* A page that was left keeps only its changes of a password, and nobody waits
\* for them.
LiveInv == \A c \in calls : ~c.live => c.op = "password" /\ ~c.own

\* A dialog is open as long as a request is its own; if it has changed the
\* password and knows the answers so far, the one that says so is still on its way.
FormsInv ==
  /\ loading => route = "login" /\ HasOwn(calls, "login")
  /\ dialog = Null => ~HasOwn(calls, "password")
  /\ dialog # Null =>
       /\ route # "login" /\ dialog \in Dialogs
       /\ dialog.saving => HasOwn(calls, "password")
       /\ dialog.changed /\ dialog.told =>
            \E c \in calls : c.op = "password" /\ c.own /\ c.status = "ok"

\* What the shell does not have yet is on its way; a user who came from its own
\* refresh is as the table has it, and no administrator came after.
ShellInv ==
  /\ waiting => Has(calls, "directory")
  /\ route # "login" /\ ~spoilt =>
       /\ ready \/ Has(calls, "lookups")
       /\ directory \/ waiting
       /\ \A c \in calls : c.op = "me" /\ c.own /\ c.status = "ok" => c.user = UserOf(c.token)
       /\ mixed \/ user = UserOf(user.account) \/ HasOwn(calls, "me")

WaitInv == LiveInv /\ FormsInv /\ ShellInv

\* All that happens to the requests in flight when some are added.
LEMMA PlusAdds ==
  ASSUME NEW S, NEW c, DOMAIN c = CallFields
  PROVE  \E d : /\ Plus(S, c) = S \cup {d} /\ DOMAIN d = CallFields
                /\ d.op = c.op /\ d.own = c.own /\ d.live = c.live /\ d.status = c.status
<1> DEFINE v == CHOOSE n \in 0..Cardinality(S) : \A e \in S : e.op = c.op => e.id # n
<1>1. Plus(S, c) = S \cup {[c EXCEPT !.id = v]}
  BY DEF Plus
<1> HIDE DEF v
<1> DEFINE d == [c EXCEPT !.id = v]
<1>2. DOMAIN d = CallFields /\ d.op = c.op /\ d.own = c.own /\ d.live = c.live /\ d.status = c.status
  BY DEF CallFields
<1>3. Plus(S, c) = S \cup {d}
  BY <1>1
<1> HIDE DEF d
<1> QED BY <1>2, <1>3

\* A request of the shell.
Fresh(d) == d.own = TRUE /\ d.live = TRUE /\ d.status = "none" /\ d.op # "password"

LEMMA OpenedAdds ==
  ASSUME NEW S, NEW t, NEW known, NEW listed
  PROVE  /\ S \subseteq Opened(S, t, known, listed)
         /\ \A d \in Opened(S, t, known, listed) : d \in S \/ Fresh(d)
         /\ HasOwn(Opened(S, t, known, listed), "me")
         /\ ~known => Has(Opened(S, t, known, listed), "lookups")
         /\ ~listed => Has(Opened(S, t, known, listed), "directory")
<1>1. ASSUME NEW op
      PROVE  /\ DOMAIN Call(op, t) = CallFields /\ Call(op, t).op = op /\ Call(op, t).own = TRUE
             /\ Call(op, t).live = TRUE /\ Call(op, t).status = "none"
  BY DEF Call, CallFields
<1>2. ASSUME NEW R, NEW op, op # "password"
      PROVE  \E d : Plus(R, Call(op, t)) = R \cup {d} /\ d.op = op /\ Fresh(d)
  <2> DEFINE c == Call(op, t)
  <2>1. DOMAIN c = CallFields /\ c.op = op /\ c.own = TRUE /\ c.live = TRUE /\ c.status = "none"
    BY <1>1
  <2> HIDE DEF c
  <2>2. \E d : /\ Plus(R, c) = R \cup {d} /\ DOMAIN d = CallFields
               /\ d.op = c.op /\ d.own = c.own /\ d.live = c.live /\ d.status = c.status
    BY <2>1, PlusAdds
  <2>3. \E d : Plus(R, c) = R \cup {d} /\ d.op = op /\ Fresh(d)
    BY <1>2, <2>1, <2>2 DEF Fresh
  <2> QED BY <2>3 DEF c
<1>3. PICK m : Plus(S, Call("me", t)) = S \cup {m} /\ m.op = "me" /\ Fresh(m)
  BY <1>2
<1>4. PICK l : Plus(S \cup {m}, Call("lookups", t)) = S \cup {m} \cup {l} /\ l.op = "lookups" /\ Fresh(l)
  BY <1>2
<1> DEFINE all == IF known THEN S \cup {m} ELSE S \cup {m} \cup {l}
<1>5. PICK d : Plus(all, Call("directory", t)) = all \cup {d} /\ d.op = "directory" /\ Fresh(d)
  BY <1>2
<1>6. Opened(S, t, known, listed) = IF listed THEN all ELSE all \cup {d}
  BY <1>3, <1>4, <1>5 DEF Opened
<1> QED BY <1>3, <1>4, <1>5, <1>6 DEF Has, HasOwn, Fresh

\* d is c, of which nobody waits for the answer any more.
Disowned(d, c) ==
  /\ d.op = c.op /\ d.live = c.live /\ d.status = c.status /\ d.user = c.user
  /\ d.token = c.token /\ d.own = FALSE

LEMMA DisownedIs ==
  ASSUME NEW c, Honest(c)
  PROVE  Disowned([c EXCEPT !.own = FALSE], c)
  BY DEF Honest, CallFields, Disowned

LEMMA OrphansKeep ==
  ASSUME NEW S, AllHonest(S)
  PROVE  /\ \A d \in Orphans(S) : \E c \in S : Disowned(d, c)
         /\ \A op : Has(S, op) => Has(Orphans(S), op)
  BY DisownedIs DEF Orphans, AllHonest, Has, Disowned

-----------------------------------------------------------------------------
(* What the steps have in common, for those who wait.                       *)

\* The login form or the dialog sends d.
LEMMA SendWaits ==
  ASSUME WaitInv, UNCHANGED <<accounts, session, route, data, spoilt>>,
         NEW d, calls' = calls \cup {d}, d.live = TRUE, d.own = TRUE, d.op \in {"login", "password"},
         d.op = "login" => route = "login" /\ loading' = TRUE /\ dialog' = dialog,
         d.op = "password" =>
           /\ dialog # Null /\ loading' = loading
           /\ dialog' = [dialog EXCEPT !.error = "none", !.saving = TRUE]
  PROVE  WaitInv'
<1>1. LiveInv'
  BY DEF WaitInv, LiveInv
<1>2. FormsInv'
  <2>1. CASE d.op = "login"
    BY <2>1 DEF WaitInv, FormsInv, HasOwn
  <2>2. CASE d.op = "password"
    <3>1. dialog' \in Dialogs /\ dialog' # Null
      BY <2>2, DialogAssumption DEF WaitInv, FormsInv, Dialogs
    <3>2. dialog'.changed = dialog.changed /\ dialog'.told = dialog.told
      BY <2>2 DEF WaitInv, FormsInv, Dialogs
    <3> QED BY <2>2, <3>1, <3>2 DEF WaitInv, FormsInv, HasOwn
  <2> QED BY <2>1, <2>2
<1>3. ShellInv'
  BY DEF WaitInv, ShellInv, Has, HasOwn, session, data, UserOf
<1> QED BY <1>1, <1>2, <1>3 DEF WaitInv

\* S are the requests that were not answered just now.
LEMMA LogOutWaits ==
  ASSUME SessionInv, WaitInv, NEW S, S \subseteq calls, LogOut(S),
         waiting' => Has(S, "directory"), loading' => loading /\ (route = "login" => HasOwn(S, "login"))
  PROVE  WaitInv'
<1>1. AllHonest(S)
  BY DEF SessionInv, AllHonest
<1>2. /\ route' = "login" /\ dialog' = Null /\ calls' = IF route = "login" THEN S ELSE Orphans(S)
  BY DEF LogOut
<1>3. /\ \A d \in Orphans(S) : \E c \in S : Disowned(d, c)
      /\ \A op : Has(S, op) => Has(Orphans(S), op)
  BY <1>1, OrphansKeep
<1>4. LiveInv'
  BY <1>2, <1>3 DEF WaitInv, LiveInv, Disowned
<1>5. FormsInv'
  BY <1>2, <1>3 DEF WaitInv, FormsInv, HasOwn, Disowned
<1>6. ShellInv'
  BY <1>2, <1>3 DEF ShellInv
<1> QED BY <1>4, <1>5, <1>6 DEF WaitInv

LEMMA GoWaits ==
  ASSUME SessionInv, WaitInv, NEW p, NEW u, NEW token, NEW S, Go(p, u, token, S),
         S \subseteq calls, \A c \in calls \ S : c.op = "login",
         UNCHANGED <<accounts, ready, directory>>,
         loading' => loading /\ route' = "login" /\ S = calls,
         ~spoilt' => route = "login" \/ (~spoilt /\ UNCHANGED <<user, mixed>>)
  PROVE  WaitInv'
<1> DEFINE r == Target(p, u)
           opens == route = "login" /\ r # "login"
           rest == IF (route = "login") = (r = "login") THEN S ELSE Orphans(S)
<1>1. AllHonest(S)
  BY DEF SessionInv, AllHonest
<1>2. /\ route' = r /\ dialog' = (IF r = "login" THEN Null ELSE dialog)
      /\ waiting' = (waiting \/ (opens /\ ~directory))
      /\ calls' = IF opens THEN Opened(rest, token, ready, directory \/ waiting) ELSE rest
  BY DEF Go
<1>3. /\ \A d \in Orphans(S) : \E c \in S : Disowned(d, c)
      /\ \A op : Has(S, op) => Has(Orphans(S), op)
  BY <1>1, OrphansKeep
<1> HIDE DEF r
<1>4. /\ \A d \in rest : d \in S \/ \E c \in S : Disowned(d, c)
      /\ \A op : Has(S, op) => Has(rest, op)
  BY <1>3
<1>5. CASE opens
  <2>1. rest = Orphans(S)
    BY <1>5
  <2>2. \A d \in rest : d.own = FALSE /\ (~d.live => d.op = "password")
    BY <1>3, <2>1 DEF Disowned, WaitInv, LiveInv
  <2> HIDE DEF rest
  <2>3. /\ rest \subseteq calls' /\ \A d \in calls' : d \in rest \/ Fresh(d)
        /\ HasOwn(calls', "me") /\ (~ready => Has(calls', "lookups"))
        /\ ~(directory \/ waiting) => Has(calls', "directory")
    BY <1>2, <1>5, OpenedAdds
  <2>4. LiveInv'
    BY <2>2, <2>3 DEF LiveInv, Fresh
  <2>5. FormsInv'
    <3>1. dialog = Null
      BY <1>5 DEF WaitInv, FormsInv
    <3>2. ~HasOwn(calls', "password")
      BY <2>2, <2>3 DEF HasOwn, Fresh
    <3> QED BY <1>2, <1>5, <3>1, <3>2 DEF FormsInv
  <2>6. ShellInv'
    <3>1. waiting => Has(rest, "directory")
      BY <1>4 DEF WaitInv, ShellInv, Has
    <3>2. waiting' => Has(calls', "directory")
      BY <1>2, <2>3, <3>1 DEF Has
    <3> QED BY <1>2, <1>5, <2>2, <2>3, <3>2 DEF ShellInv, Fresh
  <2> QED BY <2>4, <2>5, <2>6 DEF WaitInv
<1>6. CASE ~opens
  <2>1. calls' = rest /\ (waiting' <=> waiting)
    BY <1>2, <1>6
  <2>2. LiveInv'
    BY <1>4, <2>1 DEF WaitInv, LiveInv, Disowned
  <2>3. FormsInv'
    <3>1. CASE r = "login"
      BY <1>2, <1>3, <2>1, <3>1 DEF WaitInv, FormsInv, HasOwn, Disowned
    <3>2. CASE r # "login"
      BY <1>2, <1>6, <2>1, <3>2 DEF WaitInv, FormsInv, HasOwn
    <3> QED BY <3>1, <3>2
  <2>4. ShellInv'
    <3>1. waiting' => Has(calls', "directory")
      BY <1>4, <2>1 DEF WaitInv, ShellInv, Has
    <3>2. CASE r # "login"
      BY <1>2, <1>6, <2>1, <3>1, <3>2 DEF WaitInv, ShellInv, Has, HasOwn, UserOf
    <3> QED BY <1>2, <3>1, <3>2 DEF ShellInv
  <2> QED BY <2>2, <2>3, <2>4 DEF WaitInv
<1> QED BY <1>5, <1>6

\* A request was refused or failed, and has been told to whoever waits for it.
LEMMA RefuseWaits ==
  ASSUME SessionInv, WaitInv, NEW c \in calls, NEW s, Refuse(c, s), UNCHANGED accounts,
         IF c.op = "directory" THEN waiting' = FALSE ELSE UNCHANGED waiting,
         loading' => loading /\ ~(c.op = "login" /\ c.own),
         c.op = "password" /\ c.own => s = "unauthorized" /\ c.token # Null,
         ready => ready', directory => directory',
         ~spoilt' => /\ ~spoilt /\ c.op # "me"
                     /\ c.op = "lookups" => ready'
                     /\ c.op = "directory" => directory'
  PROVE  WaitInv'
<1> DEFINE S == calls \ {c}
<1>1. waiting' => Has(S, "directory")
  BY DEF WaitInv, ShellInv, Has
<1>2. loading' => HasOwn(S, "login")
  BY DEF WaitInv, FormsInv, HasOwn
<1>3. CASE s = "unauthorized" /\ c.token # Null
  BY <1>1, <1>2, <1>3, LogOutWaits DEF Refuse
<1>4. CASE ~(s = "unauthorized" /\ c.token # Null)
  <2>1. calls' = S /\ UNCHANGED <<session, route, dialog>>
    BY <1>4 DEF Refuse
  <2>2. LiveInv'
    BY <2>1 DEF WaitInv, LiveInv
  <2>3. FormsInv'
    BY <1>2, <1>4, <2>1 DEF WaitInv, FormsInv, HasOwn
  <2>4. ShellInv'
    BY <1>1, <2>1 DEF WaitInv, ShellInv, Has, HasOwn, session, UserOf
  <2> QED BY <2>2, <2>3, <2>4 DEF WaitInv
<1> QED BY <1>3, <1>4

LEMMA WaitInit == Init => WaitInv
<1> SUFFICES ASSUME Init
             PROVE  WaitInv
  OBVIOUS
<1>1. /\ \A d \in calls : Fresh(d)
      /\ route # "login" => HasOwn(calls, "me") /\ Has(calls, "lookups") /\ Has(calls, "directory")
  BY OpenedAdds DEF Init
<1>2. LiveInv
  BY <1>1 DEF LiveInv, Fresh
<1>3. FormsInv
  BY <1>1 DEF Init, FormsInv, HasOwn, Fresh
<1>4. ShellInv
  BY <1>1 DEF Init, ShellInv, Fresh
<1> QED BY <1>2, <1>3, <1>4 DEF WaitInv

-----------------------------------------------------------------------------
(* Every step keeps it.                                                     *)

LEMMA ClickWaits ==
  ASSUME SessionInv, WaitInv, Click
  PROVE  WaitInv'
<1>0. LiveInv /\ FormsInv /\ ShellInv /\ AllHonest(calls)
  BY DEF SessionInv, WaitInv
<1>1. ASSUME NEW a \in Accounts, NEW p \in Passwords, SubmitLogin(a, p)
      PROVE  WaitInv'
  <2> DEFINE c == [Call("login", storage.token) EXCEPT !.account = a, !.password = p]
  <2>1. DOMAIN c = CallFields /\ c.op = "login" /\ c.live = TRUE /\ c.own = TRUE
    BY DEF Call, CallFields
  <2>2. calls' = Plus(calls, c)
    BY <1>1 DEF SubmitLogin
  <2> HIDE DEF c
  <2>3. PICK d : calls' = calls \cup {d} /\ d.op = "login" /\ d.live = TRUE /\ d.own = TRUE
    BY <2>1, <2>2, PlusAdds
  <2> QED BY <1>1, <2>3, SendWaits DEF SubmitLogin
<1>2. CASE ClickLogout
  <2>1. waiting' => Has(calls, "directory")
    BY <1>0, <1>2 DEF ClickLogout, ShellInv, data
  <2> QED BY <1>2, <2>1, LogOutWaits DEF ClickLogout
<1>3. ASSUME NEW p, Navigate(p)
      PROVE  WaitInv'
  <2>1. route' = Target(p, user)
    BY <1>3 DEF Navigate, Go
  <2> QED BY <1>3, <2>1, GoWaits DEF Navigate, session
<1>4. ASSUME NEW p, Reload(p)
      PROVE  WaitInv'
  <2> DEFINE kept == {[c EXCEPT !.live = FALSE] :
                        c \in {d \in calls : d.op = "password" /\ d.status = "none"}}
             r == Target(p, storage.user)
  <2>1. AllHonest(kept) /\ \A d \in kept : d.op = "password"
    <3>1. \A d \in calls : Honest([d EXCEPT !.live = FALSE])
      BY <1>0, MarkedIsHonest DEF AllHonest
    <3>2. \A d \in calls : [d EXCEPT !.live = FALSE].op = d.op
      BY <1>0 DEF AllHonest, Honest, CallFields
    <3> QED BY <3>1, <3>2 DEF AllHonest
  <2>2. /\ route' = r /\ waiting' = (r # "login") /\ loading' = FALSE /\ dialog' = Null
        /\ calls' = IF r = "login" THEN Orphans(kept)
                    ELSE Opened(Orphans(kept), storage.token, FALSE, FALSE)
    BY <1>4 DEF Reload, Boot
  <2> HIDE DEF kept, r
  <2>3. \A d \in Orphans(kept) : d.op = "password" /\ d.own = FALSE
    BY <2>1, OrphansKeep DEF Disowned
  <2>4. /\ \A d \in calls' : Fresh(d) \/ (d.op = "password" /\ d.own = FALSE)
        /\ r # "login" => HasOwn(calls', "me") /\ Has(calls', "lookups") /\ Has(calls', "directory")
    BY <2>2, <2>3, OpenedAdds
  <2>5. LiveInv' /\ FormsInv'
    BY <2>2, <2>4 DEF LiveInv, FormsInv, HasOwn, Fresh
  <2>6. ShellInv'
    BY <2>2, <2>4 DEF ShellInv, Fresh
  <2> QED BY <2>5, <2>6 DEF WaitInv
<1>5. CASE ToggleDialog
  <2>1. /\ UNCHANGED <<accounts, session, route, data, loading, spoilt>> /\ route # "login"
        /\ dialog' = Null \/ dialog' = OpenedDialog
        /\ calls' = {IF c.op = "password" THEN [c EXCEPT !.own = FALSE] ELSE c : c \in calls}
    BY <1>5 DEF ToggleDialog
  <2>2. /\ \A c \in calls : c.op # "password" => c \in calls'
        /\ \A d \in calls' : IF d.op = "password" THEN d.own = FALSE ELSE d \in calls
    <3>1. \A c \in calls : Disowned([c EXCEPT !.own = FALSE], c)
      BY <1>0, DisownedIs DEF AllHonest
    <3> QED BY <2>1, <3>1 DEF Disowned
  <2>3. LiveInv'
    BY <1>0, <2>2 DEF LiveInv
  <2>4. FormsInv'
    <3>1. OpenedDialog \in Dialogs /\ OpenedDialog.saving = FALSE /\ OpenedDialog.changed = FALSE
      BY DEF OpenedDialog, Dialogs
    <3> QED BY <1>0, <2>1, <2>2, <3>1 DEF FormsInv, HasOwn
  <2>5. ShellInv'
    BY <1>0, <2>1, <2>2 DEF ShellInv, Has, HasOwn, session, data, UserOf
  <2> QED BY <2>3, <2>4, <2>5 DEF WaitInv
<1>6. ASSUME NEW p \in Passwords, NEW q \in Passwords, SubmitPassword(p, q)
      PROVE  WaitInv'
  <2>1. CASE dialog' = [dialog EXCEPT !.error = "form"] /\ UNCHANGED calls
    <3>1. dialog \in Dialogs /\ dialog # Null
      BY <1>0, <1>6 DEF SubmitPassword, FormsInv
    <3>2. /\ dialog' \in Dialogs /\ dialog' # Null /\ dialog'.saving = dialog.saving
          /\ dialog'.changed = dialog.changed /\ dialog'.told = dialog.told
      BY <2>1, <3>1, DialogAssumption DEF Dialogs
    <3>3. LiveInv' /\ FormsInv'
      BY <1>0, <1>6, <2>1, <3>1, <3>2 DEF SubmitPassword, LiveInv, FormsInv, HasOwn
    <3>4. ShellInv'
      BY <1>0, <1>6, <2>1 DEF SubmitPassword, ShellInv, Has, HasOwn, session, data, UserOf
    <3> QED BY <3>3, <3>4 DEF WaitInv
  <2>2. CASE /\ dialog' = [dialog EXCEPT !.error = "none", !.saving = TRUE]
             /\ calls' = Plus(calls, [Call("password", storage.token) EXCEPT !.password = p, !.next = q])
    <3> DEFINE c == [Call("password", storage.token) EXCEPT !.password = p, !.next = q]
    <3>1. DOMAIN c = CallFields /\ c.op = "password" /\ c.live = TRUE /\ c.own = TRUE
      BY DEF Call, CallFields
    <3>2. calls' = Plus(calls, c)
      BY <2>2
    <3> HIDE DEF c
    <3>3. PICK d : calls' = calls \cup {d} /\ d.op = "password" /\ d.live = TRUE /\ d.own = TRUE
      BY <3>1, <3>2, PlusAdds
    <3> QED BY <1>6, <2>2, <3>3, SendWaits DEF SubmitPassword
  <2> QED BY <1>6, <2>1, <2>2 DEF SubmitPassword
<1> QED BY <1>1, <1>2, <1>3, <1>4, <1>5, <1>6 DEF Click

LEMMA OthersWait ==
  ASSUME WaitInv, OtherTab \/ \E a \in Accounts : Administer(a)
  PROVE  WaitInv'
<1>1. UNCHANGED <<route, data, forms, calls>>
  BY DEF OtherTab, Administer
<1>2. LiveInv' /\ FormsInv'
  BY <1>1 DEF WaitInv, LiveInv, FormsInv, HasOwn, forms
<1>3. ShellInv'
  <2>1. CASE OtherTab
    BY <2>1 DEF OtherTab, WaitInv, ShellInv, Has, data, UserOf
  <2>2. CASE \E a \in Accounts : Administer(a)
    BY <2>2, <1>1 DEF Administer, WaitInv, ShellInv, Has, data
  <2> QED BY <2>1, <2>2
<1> QED BY <1>2, <1>3 DEF WaitInv

\* The server answers c with the status s and the user u.
LEMMA ReplyKeeps ==
  ASSUME SessionInv, WaitInv, NEW c \in calls, NEW s, NEW u, Reply(c, s, u), c.status = "none"
  PROVE  /\ LiveInv'
         /\ \A d \in calls' : \/ d \in calls
                              \/ d.op = c.op /\ d.status = s /\ d.user = u /\ d.token = c.token
         /\ \A op : HasOwn(calls, op) <=> HasOwn(calls', op)
         /\ \A op : op # "password" => (Has(calls, op) => Has(calls', op))
         /\ \A d \in calls : d.status # "none" => d \in calls'
         /\ c.own => \E d \in calls' : d.op = c.op /\ d.own /\ d.status = s
<1> DEFINE d == [c EXCEPT !.status = s, !.user = u]
<1>1. Honest(c) /\ (~c.live => c.op = "password" /\ ~c.own)
  BY DEF SessionInv, AllHonest, WaitInv, LiveInv
<1>2. /\ d.op = c.op /\ d.own = c.own /\ d.live = c.live /\ d.status = s /\ d.user = u
      /\ d.token = c.token
  BY <1>1 DEF Honest, CallFields
<1>3. calls' = (calls \ {c}) \cup {e \in {d} : e.live}
  BY DEF Reply
<1> HIDE DEF d
<1> QED BY <1>1, <1>2, <1>3 DEF WaitInv, LiveInv, Has, HasOwn

LEMMA ServeWaits ==
  ASSUME SessionInv, WaitInv, NEW c \in calls, Serve(c)
  PROVE  WaitInv'
<1>0. FormsInv /\ ShellInv /\ Honest(c) /\ AllHonest(calls) /\ AccountsTyped /\ SessionTyped
  BY DEF SessionInv, WaitInv, AllHonest
<1>1. /\ c.status = "none" /\ UNCHANGED <<session, route, data, loading, spoilt>>
      /\ \E s, u : /\ Reply(c, s, u)
                   /\ c.op = "me" /\ s = "ok" => u = UserOf(c.token)
                   /\ \/ UNCHANGED dialog
                      \/ s = "ok" /\ c.op = "password" /\ c.own /\ dialog' = [dialog EXCEPT !.changed = TRUE]
  BY DEF Serve, ServeLogin, ServeMe, ServePassword, Waits, forms
<1>2. \A a \in Accounts : UserOf(a)' = UserOf(a)
  <2>1. \/ accounts' = accounts
        \/ accounts' = [accounts EXCEPT ![c.token].password = c.next]
    BY DEF Serve, ServeLogin, ServeMe, ServePassword
  <2>2. ASSUME NEW a \in Accounts, accounts' = [accounts EXCEPT ![c.token].password = c.next]
        PROVE  accounts'[a].rights = accounts[a].rights
    BY <1>0, <2>2 DEF AccountsTyped
  <2> QED BY <2>1, <2>2 DEF UserOf
<1>3. PICK s, u : /\ Reply(c, s, u)
                  /\ c.op = "me" /\ s = "ok" => u = UserOf(c.token)
                  /\ \/ UNCHANGED dialog
                     \/ s = "ok" /\ c.op = "password" /\ c.own /\ dialog' = [dialog EXCEPT !.changed = TRUE]
  BY <1>1
<1>4. /\ LiveInv'
      /\ \A d \in calls' : \/ d \in calls
                           \/ d.op = c.op /\ d.status = s /\ d.user = u /\ d.token = c.token
      /\ \A op : HasOwn(calls, op) <=> HasOwn(calls', op)
      /\ \A op : op # "password" => (Has(calls, op) => Has(calls', op))
      /\ \A d \in calls : d.status # "none" => d \in calls'
      /\ c.own => \E d \in calls' : d.op = c.op /\ d.own /\ d.status = s
  BY <1>1, <1>3, ReplyKeeps
<1>5. FormsInv'
  <2>1. CASE UNCHANGED dialog
    BY <1>0, <1>1, <1>4, <2>1 DEF FormsInv
  <2>2. CASE s = "ok" /\ c.op = "password" /\ c.own /\ dialog' = [dialog EXCEPT !.changed = TRUE]
    <3>1. dialog # Null /\ dialog \in Dialogs
      BY <1>0, <2>2 DEF FormsInv, HasOwn
    <3>2. dialog' \in Dialogs /\ dialog'.saving = dialog.saving /\ dialog' # Null
      BY <2>2, <3>1, DialogAssumption DEF Dialogs
    <3> QED BY <1>0, <1>1, <1>4, <2>2, <3>1, <3>2 DEF FormsInv
  <2> QED BY <1>3, <2>1, <2>2
<1>6. ShellInv'
  <2>1. ASSUME NEW d \in calls', d.op = "me", d.own, d.status = "ok", route # "login", ~spoilt
        PROVE  d.user = UserOf(d.token)'
    <3>1. CASE d \in calls
      <4>1. d.user = UserOf(d.token) /\ d.user \in Users /\ d.user.account = d.token
        BY <1>0, <2>1, <3>1 DEF ShellInv, AllHonest, Honest
      <4> QED BY <1>2, <4>1 DEF Users
    <3>2. CASE d \notin calls
      <4>1. c.op = "me" /\ d.user = UserOf(c.token) /\ d.token = c.token
        BY <1>3, <1>4, <2>1, <3>2
      <4>2. accounts' = accounts
        BY <4>1 DEF Serve, ServeLogin, ServeMe, ServePassword, Waits
      <4> QED BY <4>1, <4>2 DEF UserOf
    <3> QED BY <3>1, <3>2
  <2>2. route # "login" => user.account \in Accounts
    BY DEF SessionInv, SessionIsOne, SessionTyped, Users
  <2>3. route # "login" => UserOf(user.account)' = UserOf(user.account)
    BY <1>1, <1>2, <2>2 DEF session, UserOf
  <2>4. waiting' => Has(calls', "directory")
    BY <1>0, <1>1, <1>4 DEF ShellInv, data
  <2>5. route # "login" /\ ~spoilt => ready' \/ Has(calls', "lookups")
    BY <1>0, <1>1, <1>4 DEF ShellInv, data
  <2>6. route # "login" /\ ~spoilt =>
          mixed' \/ user' = UserOf(user.account)' \/ HasOwn(calls', "me")
    BY <1>0, <1>1, <1>4, <2>3 DEF ShellInv, session
  <2> QED BY <1>0, <1>1, <2>1, <2>4, <2>5, <2>6 DEF ShellInv, session, data
<1> QED BY <1>4, <1>5, <1>6 DEF WaitInv

LEMMA DeliverWaits ==
  ASSUME SessionInv, WaitInv, NEW c \in calls,
         NEW s \in {"ok", "unauthorized", "wrong", "lost"}, Deliver(c, s)
  PROVE  WaitInv'
<1>0. LiveInv /\ FormsInv /\ ShellInv /\ Honest(c) /\ AllHonest(calls) /\ SessionTyped
  BY DEF SessionInv, WaitInv, AllHonest
<1>1. CASE DeliverLogin(c, s)
  <2>1. CASE s = "ok"
    BY <1>1, <2>1, GoWaits DEF DeliverLogin, Answered
  <2>2. CASE s # "ok"
    <3>1. /\ c.op = "login" /\ Refuse(c, s) /\ (loading' <=> loading /\ ~c.own)
          /\ UNCHANGED <<waiting, spoilt, accounts, ready, directory>>
      BY <1>1, <2>2 DEF DeliverLogin, Answered
    <3> QED BY <3>1, RefuseWaits
  <2> QED BY <2>1, <2>2
<1>2. CASE DeliverMe(c, s)
  <2>1. CASE s = "ok"
    <3>1. /\ c.op = "me" /\ c.status = "ok" /\ calls' = calls \ {c} /\ user' = c.user
          /\ mixed' = ~(c.own /\ c.token = storage.token)
          /\ UNCHANGED <<accounts, route, dialog, data, loading, spoilt>>
      BY <1>2, <2>1 DEF DeliverMe, Answered, Outcome
    <3>2. LiveInv' /\ FormsInv'
      BY <1>0, <3>1 DEF LiveInv, FormsInv, HasOwn
    <3>3. c.own /\ route # "login" /\ ~spoilt => c.user = UserOf(c.token) /\ c.user.account = c.token
      BY <1>0, <3>1 DEF ShellInv, UserOf
    <3>4. route # "login" /\ ~spoilt => mixed' \/ user' = UserOf(user.account)'
      BY <3>1, <3>3 DEF UserOf
    <3>5. ShellInv'
      BY <1>0, <3>1, <3>4 DEF ShellInv, Has, data, UserOf
    <3> QED BY <3>2, <3>5 DEF WaitInv
  <2>2. CASE s # "ok"
    BY <1>2, <2>2, RefuseWaits DEF DeliverMe, Answered, data
  <2> QED BY <2>1, <2>2
<1>3. CASE DeliverLookups(c, s)
  BY <1>3, RefuseWaits DEF DeliverLookups, Answered
<1>4. CASE DeliverDirectory(c, s)
  BY <1>4, RefuseWaits DEF DeliverDirectory, Answered
<1>5. CASE DeliverPassword(c, s)
  <2>0. c.op = "password" /\ UNCHANGED <<accounts, data, loading, spoilt>>
    BY <1>5 DEF DeliverPassword, Answered
  <2>1. CASE s = "ok" /\ c.own
    <3>1. /\ dialog' = Null /\ UNCHANGED <<session, route>>
          /\ calls' = {IF d.op = "password" THEN [d EXCEPT !.own = FALSE] ELSE d : d \in calls \ {c}}
      BY <1>5, <2>1 DEF DeliverPassword
    <3>2. /\ \A d \in calls : d.op # "password" => d \in calls'
          /\ \A d \in calls' : IF d.op = "password" THEN d.own = FALSE ELSE d \in calls
      <4>1. \A d \in calls : Disowned([d EXCEPT !.own = FALSE], d)
        BY <1>0, DisownedIs DEF AllHonest
      <4> QED BY <2>0, <3>1, <4>1 DEF Disowned
    <3>3. LiveInv' /\ FormsInv'
      BY <1>0, <2>0, <3>1, <3>2 DEF LiveInv, FormsInv, HasOwn
    <3>4. ShellInv'
      BY <1>0, <2>0, <3>1, <3>2 DEF ShellInv, Has, HasOwn, session, data, UserOf
    <3> QED BY <3>3, <3>4 DEF WaitInv
  <2>2. CASE c.own /\ (s \in {"wrong", "lost"} \/ (s = "unauthorized" /\ c.token = Null))
    <3>1. /\ dialog' = [dialog EXCEPT !.saving = FALSE, !.told = @ /\ s # "lost",
                                      !.error = IF s = "wrong" THEN "wrong" ELSE "failed"]
          /\ calls' = calls \ {c} /\ UNCHANGED <<session, route>>
      BY <1>5, <2>2 DEF DeliverPassword
    <3>2. dialog # Null /\ dialog \in Dialogs
      BY <1>0, <2>0, <2>2 DEF FormsInv, HasOwn
    <3>3. /\ dialog' \in Dialogs /\ dialog' # Null /\ dialog'.saving = FALSE
          /\ dialog'.changed = dialog.changed /\ (dialog'.told <=> dialog.told /\ s # "lost")
      BY <3>1, <3>2, DialogAssumption DEF Dialogs
    <3>4. s # "lost" => c.status # "ok"
      BY <1>5, <2>0, <2>2 DEF DeliverPassword, Answered, Outcome
    <3>5. LiveInv' /\ FormsInv'
      BY <1>0, <2>0, <3>1, <3>2, <3>3, <3>4 DEF LiveInv, FormsInv, HasOwn
    <3>6. ShellInv'
      BY <1>0, <2>0, <3>1 DEF ShellInv, Has, HasOwn, session, data, UserOf
    <3> QED BY <3>5, <3>6 DEF WaitInv
  <2>3. CASE ~(s = "ok" /\ c.own)
             /\ ~(c.own /\ (s \in {"wrong", "lost"} \/ (s = "unauthorized" /\ c.token = Null)))
    <3>1. Refuse(c, s)
      BY <1>5, <2>3 DEF DeliverPassword
    <3>2. c.own => s = "unauthorized" /\ c.token # Null
      BY <2>3
    <3> QED BY <2>0, <3>1, <3>2, RefuseWaits DEF data
  <2> QED BY <2>1, <2>2, <2>3
<1> QED BY <1>1, <1>2, <1>3, <1>4, <1>5 DEF Deliver

LEMMA SessionWaits == Spec => [](SessionInv /\ WaitInv)
<1>1. SessionInv /\ WaitInv /\ [Next]_vars => SessionInv' /\ WaitInv'
  <2> SUFFICES ASSUME SessionInv, WaitInv, [Next]_vars
               PROVE  WaitInv'
    BY SessionStep
  <2>1. CASE UNCHANGED vars
    BY <2>1 DEF vars, session, data, forms, WaitInv, LiveInv, FormsInv, ShellInv, Has, HasOwn, UserOf
  <2>2. CASE Next
    BY <2>2, ClickWaits, OthersWait, ServeWaits, DeliverWaits DEF Next
  <2> QED BY <2>1, <2>2
<1> QED BY SessionInit, WaitInit, <1>1, PTL DEF Spec

\* When all is answered and nothing failed since the shell was opened, it has the
\* lookups, the directory and the rights of its user as they are, however many
\* sessions came and went while answers were on their way
\* (app-shell.component.ts:60-72; users.service.ts:58-78;
\* top-nav.component.ts:53-84, 151-170).
THEOREM ShellEndsFresh == Spec => []ShellIsFresh
<1>1. SessionInv /\ WaitInv => ShellIsFresh
  BY MenuMatchesGuards DEF WaitInv, ShellInv, ShellIsFresh, Has, HasOwn
<1> QED BY SessionWaits, <1>1, PTL

\* A form that says it is busy waits for a request, and a dialog that knows all its
\* answers is gone if one of them changed the password
\* (login.component.ts:60-82; change-password-dialog.component.ts:99-134).
THEOREM FormsAreTold == Spec => []FormsKnowTheirRequests
<1>1. WaitInv => FormsKnowTheirRequests
  BY DEF WaitInv, FormsInv, FormsKnowTheirRequests, HasOwn
<1> QED BY SessionWaits, <1>1, PTL

=============================================================================
