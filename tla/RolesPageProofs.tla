-------------------------- MODULE RolesPageProofs --------------------------
(***************************************************************************)
(* Why overlapping changes of the roles leave no user without a role and no *)
(* two roles with one code, and why no order of them takes a system role    *)
(* away; and why the page shows the table once all is answered, although    *)
(* lists overlap: for any names, permissions, users and number of requests. *)
(***************************************************************************)
EXTENDS RolesPage, TLAPS, FiniteSetTheorems, FunctionTheorems, WellFoundedInduction

CallFields ==
  {"id", "op", "own", "live", "role", "form", "stage", "row", "code", "rows",
   "first", "fills", "old", "passed", "overtaken"}

\* What a request asks for, and what the server knows about one it has read, with
\* the roles R and the last id L: a code for a new role; and the kind of the role
\* to change, which that role has as long as it exists.
Asked(c) ==
  /\ DOMAIN c = CallFields
  /\ c.role \in Ids \cup {0} /\ c.form \in Forms /\ c.rows \in Lists
  /\ c.op = "delete" => c.role \in Ids

SameKind(c, R) ==
  c.role \in Listed(R) => /\ R[c.role].super = c.row.super
                          /\ c.op = "delete" => ~R[c.role].system

Known(c, R, L) ==
  c.stage = "read" =>
    /\ c.op = "save" /\ c.role = 0 => c.code \in Codes
    /\ c.role # 0 => c.role <= L /\ SameKind(c, R)

AllGood(S, R, L) == \A c \in S : Asked(c) /\ Known(c, R, L)

TableTyped ==
  /\ roles \in Lists /\ lastId \in Nat /\ lastId <= MaxId
  /\ assigned \in [Employees -> Ids]

PageTyped ==
  /\ shown \in Lists /\ catalog \subseteq Perms
  /\ editing \in Ids \cup {0, Null} /\ form \in Forms /\ confirm \in Ids \cup {Null}

RolesInv == TableTyped /\ TableIsSound /\ PageTyped /\ AllGood(calls, roles, lastId)

-----------------------------------------------------------------------------
LEMMA Bounds == MaxId \in Nat /\ Null \notin Roles
  BY RolesAssumption, Zenon

LEMMA EmptyFormTyped == EmptyForm \in Forms
<1>1. ASSUME NEW e \in Names
      PROVE  [name |-> e, desc |-> Null, perms |-> {}] \in Forms
  BY DEF Forms
<1>2. "" \in Names
  BY RolesAssumption, Zenon
<1> QED BY <1>1, <1>2, Zenon DEF EmptyForm

-----------------------------------------------------------------------------
(* The search for a free code.                                              *)

LEMMA SmallestOf ==
  ASSUME NEW T \in SUBSET Nat, T # {}
  PROVE  \E k \in T : \A j \in T : k <= j
<1> DEFINE R == OpToRel(<, Nat)
<1>1. IsWellFoundedOn(R, Nat)
  BY NatLessThanWellFounded
<1>2. PICK k \in T : \A j \in T : <<j, k>> \notin R
  <2> HIDE DEF R
  <2> QED BY <1>1, WFMin
<1>3. ASSUME NEW j \in T
      PROVE  k <= j
  <2>1. ~(j < k)
    BY <1>2 DEF OpToRel
  <2> QED BY <2>1
<1> QED BY <1>3

LEMMA ListedFinite ==
  ASSUME NEW R
  PROVE  IsFiniteSet(Listed(R)) /\ Cardinality(Listed(R)) \in Nat
<1>1. 1 \in Int /\ MaxId \in Int
  BY Bounds
<1>2. IsFiniteSet(Ids)
  BY <1>1, FS_Interval DEF Ids
<1> QED BY <1>2, FS_Subset, FS_CardinalityType DEF Listed

\* m codes cannot take m + 1 numbers.
LEMMA SomeNumberFree ==
  ASSUME NEW R \in Lists, NEW s
  PROVE  \E k \in 1..(Cardinality(Listed(R)) + 1) :
           \A i \in Listed(R) : R[i].code # [slug |-> s, n |-> k]
<1> DEFINE m == Cardinality(Listed(R))
           Taken(k) == {i \in Listed(R) : R[i].code = [slug |-> s, n |-> k]}
           f == [k \in 1..(m + 1) |-> CHOOSE i \in Listed(R) : R[i].code = [slug |-> s, n |-> k]]
<1>1. IsFiniteSet(Listed(R)) /\ m \in Nat
  BY ListedFinite
<1>2. IsFiniteSet(1..(m + 1)) /\ Cardinality(1..(m + 1)) = m + 1
  BY <1>1, FS_Interval
<1>3. SUFFICES ASSUME \A k \in 1..(m + 1) :
                        \E i \in Listed(R) : R[i].code = [slug |-> s, n |-> k]
               PROVE  FALSE
  OBVIOUS
<1>4. f \in [1..(m + 1) -> Listed(R)]
  BY <1>3
<1>5. \A k \in 1..(m + 1) : R[f[k]].code = [slug |-> s, n |-> k]
  BY <1>3
<1>6. PICK x, y \in 1..(m + 1) : x # y /\ f[x] = f[y]
  <2> HIDE DEF f
  <2>1. m < m + 1
    BY <1>1
  <2> QED BY <1>1, <1>2, <1>4, <2>1, FS_PigeonHole
<1>7. [slug |-> s, n |-> x] = [slug |-> s, n |-> y]
  BY <1>5, <1>6
<1> QED BY <1>6, <1>7

\* _unique_code answers a code that no role has, if it answers; and it does answer
\* a slug that has more codes than there are roles.
THEOREM CodeIsFree ==
  ASSUME roles \in Lists, NEW n \in Names
  PROVE  \/ /\ UniqueCode(n) \in Codes
            /\ \A i \in Listed(roles) : roles[i].code # UniqueCode(n)
         \/ UniqueCode(n) = Null /\ ~(Cardinality(Listed(roles)) < Room[Slug[n]])
<1> DEFINE s == Slug[n]
           free == {k \in 1..Room[s] :
                      \A i \in Listed(roles) : roles[i].code # [slug |-> s, n |-> k]}
           least == CHOOSE k \in free : \A j \in free : k <= j
<1>0. Room[s] \in Nat
  BY RolesAssumption
<1>1. UniqueCode(n) = IF free = {} THEN Null ELSE [slug |-> s, n |-> least]
  BY DEF UniqueCode
<1>2. free \subseteq Nat
  BY <1>0
<1>3. CASE free = {}
  <2>1. PICK k \in 1..(Cardinality(Listed(roles)) + 1) :
               \A i \in Listed(roles) : roles[i].code # [slug |-> s, n |-> k]
    <3> HIDE DEF s, free
    <3>1. roles \in Lists
      OBVIOUS
    <3> QED BY <3>1, SomeNumberFree
  <2>2. k \notin 1..Room[s]
    BY <1>3, <2>1
  <2>3. Cardinality(Listed(roles)) \in Nat
    BY ListedFinite
  <2>4. ~(Cardinality(Listed(roles)) < Room[s])
    BY <1>0, <2>1, <2>2, <2>3
  <2> QED BY <1>1, <1>3, <2>4
<1>4. CASE free # {}
  <2>1. least \in free
    <3> HIDE DEF free
    <3>1. \E k \in free : \A j \in free : k <= j
      BY <1>2, <1>4, SmallestOf
    <3> QED BY <3>1
  <2>2. PICK k \in free : UniqueCode(n) = [slug |-> s, n |-> k]
    <3> HIDE DEF free, least, s
    <3> QED BY <1>1, <1>4, <2>1
  <2> QED BY <1>2, <2>2 DEF Codes
<1> QED BY <1>3, <1>4

-----------------------------------------------------------------------------
(* The requests in flight.                                                  *)

\* The marks on a request do not count.
Same(d, c) ==
  /\ DOMAIN d = CallFields /\ d.op = c.op /\ d.role = c.role /\ d.form = c.form
  /\ d.stage = c.stage /\ d.row = c.row /\ d.code = c.code /\ d.rows = c.rows

LEMMA SameIsGood ==
  ASSUME NEW c, NEW d, NEW R, NEW L, Asked(c), Known(c, R, L), Same(d, c)
  PROVE  Asked(d) /\ Known(d, R, L)
<1>1. Asked(d)
  BY DEF Asked, Same
<1>2. Known(d, R, L)
  BY DEF Known, SameKind, Same
<1> QED BY <1>1, <1>2

LEMMA MarkedIsSame ==
  ASSUME NEW c, DOMAIN c = CallFields, NEW v
  PROVE  /\ Same([c EXCEPT !.id = v], c)
         /\ \A w \in BOOLEAN : Same([c EXCEPT !.old = TRUE, !.passed = @ \/ w], c)
         /\ Same([c EXCEPT !.own = v], c) /\ Same([c EXCEPT !.overtaken = v], c)
  BY DEF Same, CallFields

LEMMA PlusGood ==
  ASSUME NEW S, NEW R, NEW L, AllGood(S, R, L), NEW c, Asked(c), Known(c, R, L)
  PROVE  AllGood(Plus(S, c), R, L)
<1>1. \A v : Asked([c EXCEPT !.id = v]) /\ Known([c EXCEPT !.id = v], R, L)
  <2> TAKE v
  <2>1. Same([c EXCEPT !.id = v], c)
    BY MarkedIsSame DEF Asked
  <2> QED BY <2>1, SameIsGood
<1>2. \E v : Plus(S, c) = S \cup {[c EXCEPT !.id = v]}
  BY DEF Plus
<1> QED BY <1>1, <1>2 DEF AllGood

\* A list is asked for, the page is left, or a commit outdates what was read.
LEMMA MarkedGood ==
  ASSUME NEW S, NEW R, NEW L, AllGood(S, R, L)
  PROVE  /\ \A w \in BOOLEAN : AllGood(Older(S, w), R, L)
         /\ AllGood({[d EXCEPT !.own = FALSE] : d \in S}, R, L)
         /\ AllGood(Outdated(S), R, L)
<1>1. \A d \in S : /\ Asked(d) /\ Known(d, R, L)
                   /\ \A w \in BOOLEAN : Same([d EXCEPT !.old = TRUE, !.passed = @ \/ w], d)
                   /\ Same([d EXCEPT !.own = FALSE], d)
                   /\ Same([d EXCEPT !.overtaken = TRUE], d)
  BY MarkedIsSame DEF AllGood, Asked
<1>2. \A d \in S : /\ \A w \in BOOLEAN : LET e == [d EXCEPT !.old = TRUE, !.passed = @ \/ w]
                             IN  Asked(e) /\ Known(e, R, L)
                   /\ Asked([d EXCEPT !.own = FALSE]) /\ Known([d EXCEPT !.own = FALSE], R, L)
                   /\ Asked([d EXCEPT !.overtaken = TRUE])
                   /\ Known([d EXCEPT !.overtaken = TRUE], R, L)
  BY <1>1, SameIsGood
<1> QED BY <1>1, <1>2 DEF AllGood, Outdated, Older

LEMMA CallFresh ==
  ASSUME NEW op
  PROVE  /\ DOMAIN Call(op) = CallFields /\ Call(op).op = op /\ Call(op).stage = "sent"
         /\ Call(op).role = 0 /\ Call(op).form \in Forms /\ Call(op).rows \in Lists
<1>1. EmptyForm \in Forms /\ None \in Lists
  BY EmptyFormTyped DEF None, Lists
<1> QED BY <1>1 DEF Call, CallFields

LEMMA SentGood ==
  ASSUME NEW R, NEW L, NEW c, DOMAIN c = CallFields, c.stage = "sent",
         c.role \in Ids \cup {0}, c.form \in Forms, c.rows \in Lists,
         c.op = "delete" => c.role \in Ids
  PROVE  Asked(c) /\ Known(c, R, L)
  BY DEF Asked, Known

LEMMA ReadsGood ==
  ASSUME NEW R, NEW L, NEW m
  PROVE  /\ Asked(Call("catalog")) /\ Known(Call("catalog"), R, L)
         /\ Asked(Call("list")) /\ Known(Call("list"), R, L)
         /\ LET c == [Call("list") EXCEPT !.first = TRUE, !.fills = TRUE]
            IN  Asked(c) /\ Known(c, R, L)
         /\ LET c == [Call("list") EXCEPT !.fills = TRUE, !.own = m]
            IN  Asked(c) /\ Known(c, R, L)
<1>1. ASSUME NEW op \in {"catalog", "list"}
      PROVE  Asked(Call(op)) /\ Known(Call(op), R, L)
  BY CallFresh, SentGood
<1>2. ASSUME NEW f, Same(f, Call("list"))
      PROVE  Asked(f) /\ Known(f, R, L)
  BY <1>1, <1>2, SameIsGood
<1>3. Same([Call("list") EXCEPT !.first = TRUE, !.fills = TRUE], Call("list"))
  BY CallFresh DEF Same, CallFields
<1>4. Same([Call("list") EXCEPT !.fills = TRUE, !.own = m], Call("list"))
  BY CallFresh DEF Same, CallFields
<1> QED BY <1>1, <1>2, <1>3, <1>4

LEMMA ChangesGood ==
  ASSUME NEW R, NEW L, NEW i \in Ids, NEW r \in Ids \cup {0}, NEW f \in Forms
  PROVE  /\ LET c == [Call("delete") EXCEPT !.role = i] IN Asked(c) /\ Known(c, R, L)
         /\ LET c == [Call("save") EXCEPT !.role = r, !.form = f] IN Asked(c) /\ Known(c, R, L)
         /\ \A op \in {"save", "delete"} :
              LET c == [Call(op) EXCEPT !.live = FALSE, !.own = FALSE, !.role = i, !.form = f]
              IN  Asked(c) /\ Known(c, R, L)
<1>1. LET c == [Call("delete") EXCEPT !.role = i] IN
        /\ DOMAIN c = CallFields /\ c.stage = "sent" /\ c.role = i
        /\ c.form \in Forms /\ c.rows \in Lists
  BY CallFresh DEF CallFields
<1>2. LET c == [Call("save") EXCEPT !.role = r, !.form = f] IN
        /\ DOMAIN c = CallFields /\ c.stage = "sent" /\ c.role = r
        /\ c.form \in Forms /\ c.rows \in Lists /\ c.op = "save"
  BY CallFresh DEF CallFields
<1>3. ASSUME NEW op \in {"save", "delete"}
      PROVE  LET c == [Call(op) EXCEPT !.live = FALSE, !.own = FALSE, !.role = i, !.form = f] IN
               /\ DOMAIN c = CallFields /\ c.stage = "sent" /\ c.role = i
               /\ c.form \in Forms /\ c.rows \in Lists
  BY CallFresh DEF CallFields
<1>4. LET c == [Call("delete") EXCEPT !.role = i] IN Asked(c) /\ Known(c, R, L)
  BY <1>1, SentGood
<1>5. LET c == [Call("save") EXCEPT !.role = r, !.form = f] IN Asked(c) /\ Known(c, R, L)
  BY <1>2, SentGood
<1>6. ASSUME NEW op \in {"save", "delete"}
      PROVE  LET c == [Call(op) EXCEPT !.live = FALSE, !.own = FALSE, !.role = i, !.form = f]
             IN  Asked(c) /\ Known(c, R, L)
  BY <1>3, SentGood
<1> QED BY <1>4, <1>5, <1>6

LEMMA PlusListGood ==
  ASSUME NEW S, NEW R, NEW L, AllGood(S, R, L), NEW c, Asked(c), Known(c, R, L)
  PROVE  AllGood(PlusList(S, c), R, L)
  BY MarkedGood, PlusGood DEF PlusList

LEMMA OpeningGood ==
  ASSUME NEW S, NEW R, NEW L, AllGood(S, R, L)
  PROVE  AllGood(Opening(S), R, L)
  BY ReadsGood, PlusGood, PlusListGood DEF Opening

-----------------------------------------------------------------------------
(* Every step keeps the invariant, and the kind of every role.              *)

KindsStay ==
  /\ \A i \in Listed(roles) : roles[i].system => i \in Listed(roles')
  /\ \A i \in Listed(roles') :
       IF i \in Listed(roles)
         THEN /\ roles'[i].system = roles[i].system /\ roles'[i].super = roles[i].super
              /\ roles[i].super => roles'[i].perms = roles[i].perms
         ELSE ~roles'[i].system /\ ~roles'[i].super

LEMMA RolesInit == Init => RolesInv
<1> SUFFICES ASSUME Init
             PROVE  RolesInv
  OBVIOUS
<1>1. TableTyped /\ TableIsSound
  BY Bounds DEF Init, TableTyped, TableIsSound, Listed, Ids
<1>2. PageTyped
  BY EmptyFormTyped DEF Init, PageTyped, None, Lists
<1>3. AllGood(calls, roles, lastId)
  <2>1. AllGood({}, roles, lastId)
    BY DEF AllGood
  <2>2. AllGood(PlusList({}, Call("list")), roles, lastId)
    BY <2>1, ReadsGood, PlusListGood
  <2> QED BY <2>2, OpeningGood DEF Init
<1> QED BY <1>1, <1>2, <1>3 DEF RolesInv

\* What leaves the table alone.
LEMMA QuietStep ==
  ASSUME RolesInv, UNCHANGED <<roles, lastId>>, assigned' \in [Employees -> Listed(roles)],
         PageTyped', AllGood(calls', roles, lastId)
  PROVE  RolesInv' /\ KindsStay
<1>1. TableTyped' /\ TableIsSound'
  BY DEF RolesInv, TableTyped, TableIsSound, Listed
<1>2. KindsStay
  BY DEF KindsStay
<1> QED BY <1>1, <1>2 DEF RolesInv

LEMMA AssignedListed ==
  ASSUME RolesInv
  PROVE  assigned \in [Employees -> Listed(roles)]
  BY DEF RolesInv, TableTyped, TableIsSound

LEMMA FormOfRow ==
  ASSUME NEW R \in Lists, NEW i \in Listed(R)
  PROVE  /\ [name |-> R[i].name, desc |-> R[i].desc, perms |-> R[i].perms] \in Forms
         /\ \A P \in SUBSET Perms : [name |-> R[i].name, desc |-> Null, perms |-> P] \in Forms
<1>1. R[i] \in Roles
  BY DEF Lists, Listed
<1> QED BY <1>1 DEF Roles, Forms

LEMMA ClickStep ==
  ASSUME RolesInv, Click
  PROVE  RolesInv' /\ KindsStay
<1> USE DEF table, editor
<1>0. /\ assigned \in [Employees -> Listed(roles)] /\ PageTyped
      /\ AllGood(calls, roles, lastId) /\ EmptyForm \in Forms
  BY AssignedListed, EmptyFormTyped DEF RolesInv
<1>1. CASE StartCreate
  <2>1. PageTyped' /\ UNCHANGED <<roles, lastId, assigned, calls>>
    BY <1>0, <1>1 DEF StartCreate, Editing, PageTyped
  <2> QED BY <1>0, <2>1, QuietStep
<1>2. CASE CloseEditor
  <2>1. PageTyped' /\ UNCHANGED <<roles, lastId, assigned, calls>>
    BY <1>0, <1>2 DEF CloseEditor, Editing, PageTyped
  <2> QED BY <1>0, <2>1, QuietStep
<1>3. CASE Save
  <2>1. /\ editing # Null /\ UNCHANGED <<roles, lastId, assigned, shown, catalog, editing, form, confirm>>
        /\ calls' = Plus(calls, [Call("save") EXCEPT !.role = editing, !.form = form])
    BY <1>3, Zenon DEF Save
  <2>2. PageTyped' /\ editing \in Ids \cup {0} /\ form \in Forms
    BY <1>0, <2>1 DEF PageTyped
  <2>3. LET c == [Call("save") EXCEPT !.role = editing, !.form = form]
        IN  Asked(c) /\ Known(c, roles, lastId)
    BY <2>2, CallFresh, SentGood DEF CallFields
  <2>4. AllGood(calls', roles, lastId)
    BY <1>0, <2>1, <2>3, PlusGood
  <2> QED BY <1>0, <2>1, <2>2, <2>4, QuietStep
<1>4. CASE Reopen
  <2>1. /\ UNCHANGED <<roles, lastId, assigned>>
        /\ calls' = Opening({[c EXCEPT !.own = FALSE] : c \in calls})
    BY <1>4 DEF Reopen
  <2>2. PageTyped'
    BY <1>0, <1>4 DEF Reopen, PageTyped, None, Lists
  <2>3. AllGood(calls', roles, lastId)
    BY <1>0, <2>1, MarkedGood, OpeningGood
  <2> QED BY <1>0, <2>1, <2>2, <2>3, QuietStep
<1>5. ASSUME NEW i \in Listed(shown), StartEdit(i)
      PROVE  RolesInv' /\ KindsStay
  <2>1. [name |-> shown[i].name, desc |-> shown[i].desc, perms |-> shown[i].perms] \in Forms
    BY <1>0, FormOfRow DEF PageTyped
  <2>2. PageTyped' /\ UNCHANGED <<roles, lastId, assigned, calls>>
    BY <1>0, <1>5, <2>1 DEF StartEdit, Editing, PageTyped, Listed
  <2> QED BY <1>0, <2>2, QuietStep
<1>6. ASSUME NEW i \in Listed(shown), AskDelete(i)
      PROVE  RolesInv' /\ KindsStay
  <2>1. PageTyped' /\ UNCHANGED <<roles, lastId, assigned, calls>>
    BY <1>0, <1>6 DEF AskDelete, PageTyped, Listed
  <2> QED BY <1>0, <2>1, QuietStep
<1>7. ASSUME NEW n \in Names, NEW d \in Texts \cup {Null}, Type(n, d)
      PROVE  RolesInv' /\ KindsStay
  <2>1. [form EXCEPT !.name = n, !.desc = d] \in Forms
    BY <1>0 DEF PageTyped, Forms
  <2>2. PageTyped' /\ UNCHANGED <<roles, lastId, assigned, calls>>
    BY <1>0, <1>7, <2>1 DEF Type, Editing, PageTyped
  <2> QED BY <1>0, <2>2, QuietStep
<1>8. ASSUME NEW p \in Perms, TogglePerm(p)
      PROVE  RolesInv' /\ KindsStay
  <2>1. [form EXCEPT !.perms = IF p \in @ THEN @ \ {p} ELSE @ \cup {p}] \in Forms
    BY <1>0 DEF PageTyped, Forms
  <2>2. PageTyped' /\ UNCHANGED <<roles, lastId, assigned, calls>>
    BY <1>0, <1>8, <2>1 DEF TogglePerm, Editing, PageTyped
  <2> QED BY <1>0, <2>2, QuietStep
<1>9. ASSUME NEW yes \in BOOLEAN, AnswerConfirm(yes)
      PROVE  RolesInv' /\ KindsStay
  <2>1. PageTyped' /\ UNCHANGED <<roles, lastId, assigned>>
    BY <1>0, <1>9 DEF AnswerConfirm, PageTyped
  <2>2. confirm \in Ids
    BY <1>0, <1>9 DEF AnswerConfirm, PageTyped
  <2>3. LET c == [Call("delete") EXCEPT !.role = confirm] IN Asked(c) /\ Known(c, roles, lastId)
    BY <2>2, EmptyFormTyped, ChangesGood
  <2>4. AllGood(calls', roles, lastId)
    BY <1>0, <1>9, <2>3, PlusGood DEF AnswerConfirm
  <2> QED BY <1>0, <2>1, <2>4, QuietStep
<1> QED BY <1>1, <1>2, <1>3, <1>4, <1>5, <1>6, <1>7, <1>8, <1>9 DEF Click

LEMMA OthersStep ==
  ASSUME RolesInv, Others
  PROVE  RolesInv' /\ KindsStay
<1> USE DEF table, editor, page
<1>0. /\ assigned \in [Employees -> Listed(roles)] /\ PageTyped /\ roles \in Lists
      /\ AllGood(calls, roles, lastId)
  BY AssignedListed DEF RolesInv, TableTyped
<1>1. ASSUME NEW i \in Listed(roles), NEW e \in Employees, Assign(e, i)
      PROVE  RolesInv' /\ KindsStay
  <2>1. /\ UNCHANGED <<roles, lastId, calls>> /\ assigned' \in [Employees -> Listed(roles)]
        /\ PageTyped'
    BY <1>0, <1>1 DEF Assign, PageTyped
  <2> QED BY <1>0, <2>1, QuietStep
<1>2. ASSUME NEW i \in Listed(roles), NEW op \in {"save", "delete"}, NEW f \in Forms, Rival(op, i, f)
      PROVE  RolesInv' /\ KindsStay
  <2>1. UNCHANGED <<roles, lastId, assigned>> /\ PageTyped' /\ i \in Ids
    BY <1>0, <1>2 DEF Rival, PageTyped, Listed
  <2>2. LET c == [Call(op) EXCEPT !.live = FALSE, !.own = FALSE, !.role = i, !.form = f]
        IN  Asked(c) /\ Known(c, roles, lastId)
    BY <2>1, ChangesGood
  <2>3. AllGood(calls', roles, lastId)
    BY <1>0, <1>2, <2>2, PlusGood DEF Rival
  <2> QED BY <1>0, <2>1, <2>3, QuietStep
<1>3. \A i \in Listed(roles), P \in SUBSET Perms :
        [name |-> roles[i].name, desc |-> Null, perms |-> P] \in Forms
  BY <1>0, FormOfRow
<1> QED BY <1>1, <1>2, <1>3, EmptyFormTyped DEF Others

-----------------------------------------------------------------------------
(* The server reads.                                                        *)

LEMMA ReadStep ==
  ASSUME RolesInv, NEW c \in calls, NEW d, Replace(c, d), UNCHANGED <<table, page>>,
         Asked(d), Known(d, roles, lastId)
  PROVE  RolesInv' /\ KindsStay
<1>1. PageTyped' /\ UNCHANGED <<roles, lastId, assigned>>
  BY DEF RolesInv, PageTyped, table, page, editor
<1>2. AllGood(calls', roles, lastId)
  BY DEF RolesInv, AllGood, Replace
<1> QED BY <1>1, <1>2, AssignedListed, QuietStep

LEMMA FailedStep ==
  ASSUME RolesInv, NEW c \in calls, Failed(c)
  PROVE  RolesInv' /\ KindsStay
<1>1. Asked(c)
  BY DEF RolesInv, AllGood
<1>2. LET d == [c EXCEPT !.stage = "refused"] IN Asked(d) /\ Known(d, roles, lastId)
  BY <1>1 DEF Asked, Known, CallFields
<1> QED BY <1>2, ReadStep DEF Failed

LEMMA ReadsStep ==
  ASSUME RolesInv, NEW c \in calls,
         ServeList(c) \/ ReadCreate(c) \/ ReadUpdate(c) \/ ReadDelete(c)
  PROVE  RolesInv' /\ KindsStay
<1>0. /\ Asked(c) /\ roles \in Lists /\ \A i \in Listed(roles) : i <= lastId
  BY DEF RolesInv, AllGood, TableTyped, TableIsSound
<1>1. CASE ServeList(c)
  <2>1. LET d == [c EXCEPT !.stage = "ok", !.rows = roles] IN Asked(d) /\ Known(d, roles, lastId)
    BY <1>0 DEF Asked, Known, CallFields
  <2> QED BY <1>1, <2>1, ReadStep DEF ServeList
<1>2. CASE ReadCreate(c)
  <2> DEFINE d == [c EXCEPT !.stage = "read", !.code = UniqueCode(c.form.name)]
  <2>1. UniqueCode(c.form.name) \in Codes
    BY <1>0, <1>2, CodeIsFree DEF ReadCreate, Asked, Forms
  <2>2. c.role = 0 /\ Replace(c, d) /\ UNCHANGED <<table, page>>
    BY <1>2 DEF ReadCreate
  <2>3. Asked(d) /\ Known(d, roles, lastId)
    BY <1>0, <2>1, <2>2 DEF Asked, Known, CallFields
  <2> QED BY <2>2, <2>3, ReadStep
<1>3. ASSUME NEW s \in {"read", "refused"}, NEW d, d = [c EXCEPT !.stage = s, !.row = roles[c.role]],
             c.role \in Listed(roles), c.op = "delete" => ~roles[c.role].system
      PROVE  Asked(d) /\ Known(d, roles, lastId)
  <2>1. c.role # 0 /\ c.role <= lastId
    BY <1>0, <1>3 DEF Listed, Ids
  <2>2. /\ DOMAIN d = CallFields /\ d.role = c.role /\ d.op = c.op /\ d.form = c.form
        /\ d.rows = c.rows /\ d.row = roles[c.role]
    BY <1>0, <1>3 DEF Asked, CallFields
  <2>3. Asked(d)
    BY <1>0, <2>2 DEF Asked
  <2>4. Known(d, roles, lastId)
    BY <1>3, <2>1, <2>2 DEF Known, SameKind
  <2> QED BY <2>3, <2>4
<1>4. LET d == [c EXCEPT !.stage = "refused"] IN Asked(d) /\ Known(d, roles, lastId)
  BY <1>0 DEF Asked, Known, CallFields
<1>5. CASE ReadUpdate(c)
  <2>1. CASE c.role \in Listed(roles)
    BY <1>3, <1>5, <2>1, ReadStep DEF ReadUpdate
  <2>2. CASE c.role \notin Listed(roles)
    BY <1>4, <1>5, <2>2, ReadStep DEF ReadUpdate
  <2> QED BY <2>1, <2>2
<1>6. CASE ReadDelete(c)
  <2>1. CASE c.role \in Listed(roles) /\ ~roles[c.role].system /\ Users(c.role) = {}
    BY <1>3, <1>6, <2>1, ReadStep DEF ReadDelete
  <2>2. CASE ~(c.role \in Listed(roles) /\ ~roles[c.role].system /\ Users(c.role) = {})
    BY <1>4, <1>6, <2>2, ReadStep DEF ReadDelete
  <2> QED BY <2>1, <2>2
<1> QED BY <1>1, <1>2, <1>5, <1>6

-----------------------------------------------------------------------------
(* The server commits.                                                      *)

\* What is left of a request that is committed is good whatever the table is.
LEMMA CommittedCalls ==
  ASSUME NEW c, NEW i \in Ids, NEW row, Committed(c, i, row), Asked(c),
         NEW R, NEW L, AllGood(calls, R, L)
  PROVE  AllGood(calls', R, L) /\ (PageTyped => PageTyped') /\ assigned' = assigned
<1>1. LET d == [c EXCEPT !.stage = "ok", !.role = i, !.row = row] IN Asked(d) /\ Known(d, R, L)
  BY DEF Asked, Known, CallFields
<1>2. AllGood((calls \ {c}) \cup {d \in {[c EXCEPT !.stage = "ok", !.role = i, !.row = row]} : d.live},
              R, L)
  BY <1>1 DEF AllGood
<1>3. AllGood(calls', R, L)
  BY <1>2, MarkedGood DEF Committed
<1> QED BY <1>3 DEF Committed, PageTyped, page, editor

LEMMA CreateStep ==
  ASSUME RolesInv, NEW c \in calls, CommitCreate(c)
  PROVE  RolesInv' /\ KindsStay
<1> DEFINE row == [code |-> c.code, name |-> c.form.name, desc |-> c.form.desc,
                   perms |-> c.form.perms, super |-> FALSE, system |-> FALSE]
<1>0. /\ Asked(c) /\ Known(c, roles, lastId) /\ TableTyped /\ TableIsSound /\ PageTyped
      /\ AllGood(calls, roles, lastId)
  BY DEF RolesInv, AllGood
<1>1. CASE Failed(c)
  BY <1>1, FailedStep
<1>2. CASE /\ \A i \in Listed(roles) : roles[i].code # c.code
           /\ lastId < MaxId /\ lastId' = lastId + 1
           /\ roles' = [roles EXCEPT ![lastId'] = row]
           /\ Committed(c, lastId', roles'[lastId'])
  <2>1. row \in Roles /\ row # Null
    <3>1. c.code \in Codes
      BY <1>0 DEF CommitCreate, Known
    <3>2. c.form \in Forms
      BY <1>0 DEF Asked
    <3>3. row \in Roles
      BY <3>1, <3>2 DEF Forms, Roles
    <3> QED BY <3>3, Bounds
  <2>2. lastId' \in Ids /\ lastId' \notin Listed(roles) /\ lastId' \in Nat /\ lastId' <= MaxId
    BY <1>0, <1>2, Bounds DEF TableTyped, TableIsSound, Ids
  <2>3. /\ roles' \in Lists /\ Listed(roles') = Listed(roles) \cup {lastId'}
        /\ roles'[lastId'] = row
        /\ \A i \in Listed(roles) : roles'[i] = roles[i]
    <3> HIDE DEF row
    <3> QED BY <1>0, <1>2, <2>1, <2>2 DEF TableTyped, Lists, Listed
  <2>4. AllGood(calls, roles', lastId')
    <3>1. ASSUME NEW d \in calls
          PROVE  Asked(d) /\ Known(d, roles', lastId')
      <4>1. Asked(d) /\ Known(d, roles, lastId)
        BY <1>0 DEF AllGood
      <4>2. d.role \in Int /\ lastId \in Int
        BY <1>0, <4>1 DEF Asked, Ids, TableTyped
      <4>3. d.role <= lastId => d.role <= lastId' /\ d.role # lastId'
        BY <1>2, <4>2
      <4> QED BY <2>3, <4>1, <4>3 DEF Known, SameKind
    <3> QED BY <3>1 DEF AllGood
  <2>5. AllGood(calls', roles', lastId') /\ PageTyped' /\ assigned' = assigned
    BY <1>0, <1>2, <2>2, <2>4, CommittedCalls
  <2>6. TableTyped' /\ TableIsSound'
    <3>1. TableTyped'
      BY <1>0, <2>2, <2>3, <2>5 DEF TableTyped
    <3>2. \A e \in Employees : assigned'[e] \in Listed(roles')
      BY <1>0, <2>3, <2>5 DEF TableIsSound
    <3>3. \A i, j \in Listed(roles') : roles'[i].code = roles'[j].code => i = j
      <4>1. roles'[lastId'].code = c.code
        BY <2>3
      <4>2. \A i \in Listed(roles) : roles'[i].code = roles[i].code /\ roles[i].code # c.code
        BY <1>2, <2>3
      <4>3. \A i, j \in Listed(roles) : roles[i].code = roles[j].code => i = j
        BY <1>0 DEF TableIsSound
      <4> HIDE DEF row
      <4> QED BY <2>3, <4>1, <4>2, <4>3
    <3>4. \A i \in Listed(roles') : i <= lastId'
      BY <1>0, <1>2, <2>2, <2>3 DEF TableIsSound, TableTyped, Listed, Ids
    <3> QED BY <3>1, <3>2, <3>3, <3>4 DEF TableIsSound
  <2>7. KindsStay
    BY <2>2, <2>3 DEF KindsStay
  <2> QED BY <2>5, <2>6, <2>7 DEF RolesInv
<1> QED BY <1>1, <1>2 DEF CommitCreate

LEMMA UpdatedRow ==
  ASSUME NEW r \in Roles, NEW c, c.form \in Forms
  PROVE  LET u == Updated(c, r) IN
           /\ u \in Roles /\ u.code = r.code /\ u.super = r.super /\ u.system = r.system
           /\ c.row.super => u.perms = r.perms
<1> DEFINE n == IF c.form.name = c.row.name THEN r.name ELSE c.form.name
           d == IF c.form.desc \in {Null, c.row.desc} THEN r.desc ELSE c.form.desc
           p == IF c.row.super THEN r.perms
                ELSE (r.perms \ (c.row.perms \ c.form.perms)) \cup (c.form.perms \ c.row.perms)
<1>1. n \in Names /\ d \in Texts \cup {Null} /\ p \in SUBSET Perms /\ (c.row.super => p = r.perms)
  BY DEF Roles, Forms
<1>2. Updated(c, r) = [r EXCEPT !.name = n, !.desc = d, !.perms = p]
  BY DEF Updated, Roles
<1> HIDE DEF n, d, p
<1> QED BY <1>1, <1>2 DEF Roles

LEMMA UpdateStep ==
  ASSUME RolesInv, NEW c \in calls, CommitUpdate(c)
  PROVE  RolesInv' /\ KindsStay
<1> DEFINE row == Updated(c, roles[c.role])
<1>0. /\ Asked(c) /\ Known(c, roles, lastId) /\ TableTyped /\ TableIsSound /\ PageTyped
      /\ AllGood(calls, roles, lastId)
  BY DEF RolesInv, AllGood
<1>1. CASE Failed(c)
  BY <1>1, FailedStep
<1>2. CASE /\ c.role \in Listed(roles)
           /\ roles' = [roles EXCEPT ![c.role] = row] /\ UNCHANGED lastId
           /\ Committed(c, c.role, roles'[c.role])
  <2>1. roles[c.role] \in Roles /\ c.role \in Ids /\ c.role # 0
    BY <1>0, <1>2 DEF TableTyped, Lists, Listed, Ids
  <2>2. /\ row \in Roles /\ row.code = roles[c.role].code /\ row.super = roles[c.role].super
        /\ row.system = roles[c.role].system
        /\ c.row.super => row.perms = roles[c.role].perms
    <3>1. c.form \in Forms
      BY <1>0 DEF Asked
    <3> QED BY <2>1, <3>1, UpdatedRow
  <2>3. row # Null
    BY <2>2, Bounds
  <2> HIDE DEF row
  <2>4. /\ roles' \in Lists /\ Listed(roles') = Listed(roles)
        /\ roles'[c.role] = row
        /\ \A i \in Listed(roles) : i # c.role => roles'[i] = roles[i]
    BY <1>0, <1>2, <2>1, <2>2, <2>3 DEF TableTyped, Lists, Listed
  <2>5. \A i \in Listed(roles) : /\ roles'[i].code = roles[i].code
                                 /\ roles'[i].super = roles[i].super
                                 /\ roles'[i].system = roles[i].system
    BY <2>2, <2>4
  <2>6. AllGood(calls, roles', lastId')
    BY <1>0, <1>2, <2>4, <2>5 DEF AllGood, Known, SameKind
  <2>7. AllGood(calls', roles', lastId') /\ PageTyped' /\ assigned' = assigned
    BY <1>0, <1>2, <2>1, <2>6, CommittedCalls
  <2>8. TableTyped' /\ TableIsSound'
    BY <1>0, <1>2, <2>4, <2>5, <2>7 DEF TableTyped, TableIsSound
  <2>9. KindsStay
    <3>1. c.row.super = roles[c.role].super
      BY <1>0, <1>2, <2>1 DEF CommitUpdate, Known, SameKind
    <3>2. \A i \in Listed(roles) : roles[i].super => roles'[i].perms = roles[i].perms
      BY <2>2, <2>4, <3>1
    <3> QED BY <2>4, <2>5, <3>2 DEF KindsStay
  <2> QED BY <2>7, <2>8, <2>9 DEF RolesInv
<1> QED BY <1>1, <1>2 DEF CommitUpdate

LEMMA DeleteStep ==
  ASSUME RolesInv, NEW c \in calls, CommitDelete(c)
  PROVE  RolesInv' /\ KindsStay
<1>0. /\ Asked(c) /\ Known(c, roles, lastId) /\ TableTyped /\ TableIsSound /\ PageTyped
      /\ AllGood(calls, roles, lastId) /\ c.op = "delete" /\ c.stage = "read"
  BY DEF RolesInv, AllGood, CommitDelete
<1>1. CASE Failed(c)
  BY <1>1, FailedStep
<1>2. CASE /\ Users(c.role) = {}
           /\ roles' = [roles EXCEPT ![c.role] = Null] /\ UNCHANGED lastId
           /\ Committed(c, c.role, Null)
  <2>1. c.role \in Ids /\ c.role # 0
    BY <1>0 DEF Asked, Ids
  <2>2. /\ roles' \in Lists /\ Listed(roles') = Listed(roles) \ {c.role}
        /\ \A i \in Listed(roles') : roles'[i] = roles[i]
    BY <1>0, <1>2, <2>1 DEF TableTyped, Lists, Listed
  <2>3. AllGood(calls, roles', lastId')
    BY <1>0, <1>2, <2>2 DEF AllGood, Known, SameKind
  <2>4. AllGood(calls', roles', lastId') /\ PageTyped' /\ assigned' = assigned
    BY <1>0, <1>2, <2>1, <2>3, CommittedCalls
  <2>5. \A e \in Employees : assigned[e] \in Listed(roles')
    BY <1>0, <1>2, <2>2 DEF TableIsSound, Users
  <2>6. TableTyped' /\ TableIsSound'
    <3>1. TableTyped'
      BY <1>0, <1>2, <2>2, <2>4 DEF TableTyped
    <3>2. Listed(roles') \subseteq Listed(roles)
      BY <2>2
    <3>3. /\ \A i, j \in Listed(roles) : roles[i].code = roles[j].code => i = j
          /\ \A i \in Listed(roles) : i <= lastId
      BY <1>0 DEF TableIsSound
    <3>4. \A i, j \in Listed(roles') : roles'[i].code = roles'[j].code => i = j
      BY <2>2, <3>2, <3>3
    <3>5. \A i \in Listed(roles') : i <= lastId'
      BY <1>2, <3>2, <3>3
    <3> QED BY <2>4, <2>5, <3>1, <3>4, <3>5 DEF TableIsSound
  <2>7. KindsStay
    <3>1. c.role \in Listed(roles) => ~roles[c.role].system
      BY <1>0, <2>1 DEF Known, SameKind
    <3> QED BY <2>2, <3>1 DEF KindsStay
  <2> QED BY <2>4, <2>6, <2>7 DEF RolesInv
<1> QED BY <1>1, <1>2 DEF CommitDelete

-----------------------------------------------------------------------------
(* The answers.                                                             *)

LEMMA DeliverStep ==
  ASSUME RolesInv, NEW c \in calls, NEW ok \in BOOLEAN, Deliver(c, ok)
  PROVE  RolesInv' /\ KindsStay
<1> USE DEF table, editor
<1>0. /\ Asked(c) /\ PageTyped /\ EmptyForm \in Forms
      /\ assigned \in [Employees -> Listed(roles)]
      /\ AllGood(calls \ {c}, roles, lastId)
  BY AssignedListed, EmptyFormTyped DEF RolesInv, AllGood
<1>1. CASE DeliverCatalog(c, ok)
  <2>1. PageTyped' /\ UNCHANGED <<roles, lastId, assigned>> /\ calls' = calls \ {c}
    BY <1>0, <1>1 DEF DeliverCatalog, PageTyped
  <2> QED BY <1>0, <2>1, QuietStep
<1>2. CASE DeliverList(c, ok)
  <2>1. None \in Lists
    BY DEF None, Lists
  <2>2. UNCHANGED <<roles, lastId, assigned, catalog, editor>> /\ calls' = calls \ {c}
    BY <1>2 DEF DeliverList
  <2>3. shown' \in Lists
    BY <1>0, <1>2, <2>1 DEF DeliverList, PageTyped, Asked
  <2>4. PageTyped'
    BY <1>0, <2>2, <2>3 DEF PageTyped
  <2> QED BY <1>0, <2>2, <2>4, QuietStep
<1>3. ASSUME UNCHANGED <<roles, lastId, assigned, shown, catalog, confirm>>,
             UNCHANGED <<editing, form>> \/ (editing' = Null /\ form' = EmptyForm),
             IF ok THEN Refresh(c, calls \ {c}) ELSE calls' = calls \ {c}
      PROVE  RolesInv' /\ KindsStay
  <2>1. PageTyped'
    BY <1>0, <1>3 DEF PageTyped
  <2>2. AllGood(calls', roles, lastId)
    BY <1>0, <1>3, ReadsGood, PlusListGood DEF Refresh
  <2> QED BY <1>0, <1>3, <2>1, <2>2, QuietStep
<1>4. CASE DeliverSave(c, ok)
  BY <1>3, <1>4 DEF DeliverSave
<1>5. CASE DeliverDelete(c, ok)
  BY <1>3, <1>5 DEF DeliverDelete
<1> QED BY <1>1, <1>2, <1>4, <1>5 DEF Deliver

-----------------------------------------------------------------------------
LEMMA RolesStep ==
  ASSUME RolesInv, [Next]_vars
  PROVE  RolesInv' /\ [KindsStay]_vars
<1>1. CASE Click
  BY <1>1, ClickStep
<1>2. CASE Others
  BY <1>2, OthersStep
<1>3. ASSUME NEW c \in calls, Serve(c)
      PROVE  RolesInv' /\ KindsStay
  BY <1>3, ReadsStep, CreateStep, UpdateStep, DeleteStep DEF Serve
<1>4. ASSUME NEW c \in calls, NEW ok \in BOOLEAN, Deliver(c, ok)
      PROVE  RolesInv' /\ KindsStay
  BY <1>4, DeliverStep
<1>5. CASE UNCHANGED vars
  BY <1>5 DEF vars, table, editor, RolesInv, TableTyped, TableIsSound, PageTyped
<1> QED BY <1>1, <1>2, <1>3, <1>4, <1>5 DEF Next

\* What both theorems follow from.
THEOREM RolesInvariant == Spec => []RolesInv
<1>1. RolesInv /\ [Next]_vars => RolesInv'
  BY RolesStep
<1> QED BY RolesInit, <1>1, PTL DEF Spec

\* Whatever the administrators do at the same time, the role of every user exists
\* and no two roles have the same code (role_service.py:44-53, 70-84, 101-112;
\* models/user.py:18-22).
THEOREM RolesStaySound == Spec => []TableIsSound
<1>1. RolesInv => TableIsSound
  BY DEF RolesInv
<1> QED BY RolesInvariant, <1>1, PTL

\* No order of overlapping commits takes a system role away, makes a superuser or
\* a system role, or changes the permissions of a superuser (role_service.py:72-84,
\* 93-98, 103).
THEOREM SystemRolesAreKept == Spec => SystemRolesStay
<1>1. RolesInv /\ [Next]_vars => [KindsStay]_vars
  BY RolesStep
<1> QED BY RolesInvariant, <1>1, PTL DEF Spec, SystemRolesStay, KindsStay

-----------------------------------------------------------------------------
(* What the page shows, and who still corrects it.                          *)

NewList(c) == c.op = "list" /\ ~c.old

NewFill(c) == c.op = "list" /\ c.fills /\ c.own /\ ~c.passed

\* A change of this browser that is made and not answered yet.
IsMade(c) == c.op \in {"save", "delete"} /\ c.live /\ c.stage = "ok"

Made(S) == \E c \in S : IsMade(c)

MadeHere(S) == \E c \in S : IsMade(c) /\ c.own

\* One list at most is the newest, and one is the newest that fills the page.
ListsInv(S) ==
  /\ \A c \in S : c.own \in BOOLEAN
  /\ \A c \in S : c.own \/ c.op \in {"list", "catalog"} => c.live
  /\ \A c, d \in S : NewList(c) /\ NewList(d) => c = d
  /\ \A c, d \in S : NewFill(c) /\ NewFill(d) => c = d
  /\ \A c \in S : NewList(c) => ~c.passed
  /\ \A c \in S : c.op = "list" /\ c.stage # "ok" => ~c.overtaken

\* A list that was not overtaken has the rows of the table R; one that was, and is
\* the newest, is followed by another one.
RowsInv(S, R, outdated) ==
  \A c \in S : c.op = "list" /\ c.stage = "ok" =>
    /\ ~c.overtaken => c.rows = R
    /\ NewList(c) /\ c.overtaken => outdated \/ Made(S)
    /\ NewFill(c) /\ c.overtaken => outdated \/ MadeHere(S)

BusyInv ==
  /\ saving => \E c \in calls : c.op = "save" /\ c.own
  /\ loading => \E c \in calls : c.op = "list" /\ c.own /\ c.first

\* What is not up to date is corrected by a list on its way, or by the one that
\* the answer to a change asks for.
PageInv ==
  ~stale =>
    /\ shown = roles \/ MadeHere(calls) \/ \E c \in calls : NewFill(c)
    /\ cache = roles \/ Made(calls) \/ \E c \in calls : NewList(c)

FollowInv == ListsInv(calls) /\ RowsInv(calls, roles, stale) /\ BusyInv /\ PageInv

-----------------------------------------------------------------------------
(* The requests, when some are added or grow older.                         *)

\* d is c, but for its number.
Numbered(d, c) ==
  /\ Same(d, c) /\ d.own = c.own /\ d.live = c.live /\ d.first = c.first
  /\ d.fills = c.fills /\ d.old = c.old /\ d.passed = c.passed /\ d.overtaken = c.overtaken

LEMMA PlusAdds ==
  ASSUME NEW S, NEW c, DOMAIN c = CallFields
  PROVE  \E d : Plus(S, c) = S \cup {d} /\ Numbered(d, c)
<1> DEFINE v == CHOOSE n \in 0..Cardinality(S) : \A e \in S : e.op = c.op => e.id # n
           d == [c EXCEPT !.id = v]
<1>1. Plus(S, c) = S \cup {d}
  BY DEF Plus
<1> HIDE DEF v
<1>2. Numbered(d, c)
  BY DEF Numbered, Same, CallFields
<1> HIDE DEF d
<1> QED BY <1>1, <1>2

\* d is c, after a later list was asked for.
Aged(d, c, fills) ==
  IF c.op = "list"
    THEN /\ Same(d, c) /\ d.own = c.own /\ d.live = c.live /\ d.first = c.first
         /\ d.fills = c.fills /\ d.overtaken = c.overtaken
         /\ d.old = TRUE /\ (d.passed <=> c.passed \/ fills)
    ELSE d = c

Elder(c, fills) ==
  IF c.op = "list" THEN [c EXCEPT !.old = TRUE, !.passed = @ \/ fills] ELSE c

LEMMA OlderAges ==
  ASSUME NEW S, NEW fills \in BOOLEAN, \A c \in S : DOMAIN c = CallFields
  PROVE  /\ Older(S, fills) = {Elder(c, fills) : c \in S}
         /\ \A c \in S : Aged(Elder(c, fills), c, fills)
<1>1. Older(S, fills) = {Elder(c, fills) : c \in S}
  BY DEF Older, Elder
<1>2. ASSUME NEW c \in S
      PROVE  Aged(Elder(c, fills), c, fills)
  BY DEF Aged, Elder, Same, CallFields
<1> QED BY <1>1, <1>2

\* A list that fills the page it is asked for.
FreshList(c) ==
  /\ DOMAIN c = CallFields /\ c.own \in BOOLEAN
  /\ c.op = "list" /\ c.stage = "sent" /\ c.fills = TRUE /\ c.live = TRUE
  /\ c.old = FALSE /\ c.passed = FALSE /\ c.overtaken = FALSE

\* What the lists among the requests S must be like when one is asked for, by a
\* page that is open (own) or by one that is gone.
MayAsk(S, own, R, outdated) ==
  /\ ListsInv(S)
  /\ \A d \in S : DOMAIN d = CallFields
  /\ \A d \in S : d.op = "list" /\ d.stage = "ok" =>
       /\ ~d.overtaken => d.rows = R
       /\ ~own /\ NewFill(d) /\ d.overtaken => outdated \/ MadeHere(S)

\* Then the requests T follow the table R, and what was to come still comes.
Asking(S, T, own, first) ==
  /\ \E d \in T : NewList(d) /\ (own => NewFill(d))
  /\ \E d \in T : d.op = "list" /\ d.own = own /\ d.first = first
  /\ \A d \in S : d.op # "list" => d \in T
  /\ ~own => \A d \in S : NewFill(d) => \E e \in T : NewFill(e)
  /\ \A d \in S : d.op = "list" /\ d.own /\ d.first => \E e \in T : e.op = "list" /\ e.own /\ e.first

\* The list that a page asks for when it is opened or after a change: it is the
\* newest, and the newest to fill the page if that is still open.
LEMMA ListAsked ==
  ASSUME NEW S, NEW R, NEW outdated, NEW c, FreshList(c), MayAsk(S, c.own, R, outdated)
  PROVE  /\ ListsInv(PlusList(S, c)) /\ RowsInv(PlusList(S, c), R, outdated)
         /\ Asking(S, PlusList(S, c), c.own, c.first)
<1> USE DEF FreshList, MayAsk
<1> DEFINE O == Older(S, c.own)
           T == PlusList(S, c)
<1>1. O = {Elder(e, c.own) : e \in S} /\ \A e \in S : Aged(Elder(e, c.own), e, c.own)
  BY OlderAges
<1>2. PICK n : T = O \cup {n} /\ Numbered(n, c)
  <2>1. T = Plus(O, c)
    BY DEF PlusList
  <2> HIDE DEF O, T
  <2> QED BY <2>1, PlusAdds
<1>3. /\ n.op = "list" /\ n.stage = "sent" /\ n.fills = TRUE /\ n.own = c.own /\ n.first = c.first
      /\ n.live = TRUE /\ n.old = FALSE /\ n.passed = FALSE /\ n.overtaken = FALSE
  BY <1>2 DEF Numbered, Same
<1> HIDE DEF O, T
<1>4. \A d \in T : NewList(d) => d = n
  BY <1>1, <1>2 DEF Aged, NewList
<1>5. ASSUME NEW d \in T, NewFill(d), d # n
      PROVE  ~c.own /\ \E e \in S : NewFill(e) /\ d = Elder(e, c.own) /\ Aged(d, e, c.own)
  <2>1. PICK e \in S : d = Elder(e, c.own)
    BY <1>1, <1>2, <1>5
  <2>2. Aged(d, e, c.own)
    BY <1>1, <2>1
  <2>3. NewFill(e) /\ ~c.own
    BY <1>5, <2>2 DEF Aged, Same, NewFill
  <2> QED BY <2>1, <2>2, <2>3
<1>6. NewList(n) /\ (c.own <=> NewFill(n)) /\ ~n.passed
  BY <1>3 DEF NewList, NewFill
<1>7. ASSUME NEW d \in T, NEW e \in T, NewFill(d), NewFill(e)
      PROVE  d = e
  BY <1>5, <1>6, <1>7 DEF ListsInv
<1>8. \A d \in T : /\ d.own \in BOOLEAN
                   /\ d.own \/ d.op \in {"list", "catalog"} => d.live
                   /\ d.op = "list" /\ d.stage # "ok" => ~d.overtaken
  BY <1>1, <1>2, <1>3 DEF Aged, Same, ListsInv
<1>9. ListsInv(T)
  BY <1>4, <1>6, <1>7, <1>8 DEF ListsInv
<1>10. RowsInv(T, R, outdated)
  <2> SUFFICES ASSUME NEW d \in T, d.op = "list", d.stage = "ok"
               PROVE  /\ ~d.overtaken => d.rows = R
                      /\ NewList(d) /\ d.overtaken => outdated \/ Made(T)
                      /\ NewFill(d) /\ d.overtaken => outdated \/ MadeHere(T)
    BY DEF RowsInv
  <2>1. d # n /\ ~NewList(d)
    BY <1>3, <1>4
  <2>2. PICK e \in S : Aged(d, e, c.own)
    BY <1>1, <1>2, <2>1
  <2>3. ~d.overtaken => d.rows = R
    BY <2>2 DEF Aged, Same
  <2>4. ASSUME NewFill(d), d.overtaken
        PROVE  outdated \/ MadeHere(T)
    <3>1. outdated \/ MadeHere(S)
      BY <1>5, <2>1, <2>2, <2>4 DEF Aged, Same
    <3>2. MadeHere(S) => MadeHere(T)
      BY <1>1, <1>2 DEF MadeHere, IsMade, Aged
    <3> QED BY <3>1, <3>2
  <2> QED BY <2>1, <2>3, <2>4
<1>11. \A d \in S : d.op # "list" => d \in T
  BY <1>1, <1>2 DEF Aged
<1>12. ~c.own => \A d \in S : NewFill(d) => \E e \in T : NewFill(e)
  <2> SUFFICES ASSUME ~c.own, NEW d \in S, NewFill(d)
               PROVE  \E e \in T : NewFill(e)
    OBVIOUS
  <2>1. Elder(d, c.own) \in T /\ Aged(Elder(d, c.own), d, c.own)
    BY <1>1, <1>2
  <2>2. NewFill(Elder(d, c.own))
    BY <2>1 DEF Aged, Same, NewFill
  <2> QED BY <2>1, <2>2
<1>13. \A d \in S : d.op = "list" /\ d.own /\ d.first => \E e \in T : e.op = "list" /\ e.own /\ e.first
  <2> SUFFICES ASSUME NEW d \in S, d.op = "list", d.own, d.first
               PROVE  \E e \in T : e.op = "list" /\ e.own /\ e.first
    OBVIOUS
  <2>1. Elder(d, c.own) \in T /\ Aged(Elder(d, c.own), d, c.own)
    BY <1>1, <1>2
  <2> QED BY <2>1 DEF Aged, Same
<1> QED BY <1>2, <1>3, <1>6, <1>9, <1>10, <1>11, <1>12, <1>13 DEF T, Asking

\* What a page asks for when it is opened, and after a change.
LEMMA ListsFresh ==
  ASSUME NEW own \in BOOLEAN
  PROVE  /\ LET c == [Call("list") EXCEPT !.fills = TRUE, !.own = own] IN
              FreshList(c) /\ c.own = own
         /\ LET c == [Call("list") EXCEPT !.first = TRUE, !.fills = TRUE] IN
              FreshList(c) /\ c.own = TRUE /\ c.first = TRUE
         /\ \A op : LET c == Call(op) IN
              /\ DOMAIN c = CallFields /\ c.op = op /\ c.stage = "sent" /\ c.own = TRUE
              /\ c.live = TRUE /\ c.overtaken = FALSE /\ c.passed = FALSE
  BY DEF Call, CallFields, FreshList

LEMMA SentKeepsLists ==
  ASSUME NEW S, NEW R, NEW o, ListsInv(S), NEW d, d.op # "list",
         d.own \in BOOLEAN, d.own \/ d.op = "catalog" => d.live
  PROVE  ListsInv(S \cup {d}) /\ (RowsInv(S, R, o) => RowsInv(S \cup {d}, R, o))
<1>1. ListsInv(S \cup {d})
  BY DEF ListsInv, NewList, NewFill
<1>2. RowsInv(S, R, o) => RowsInv(S \cup {d}, R, o)
  BY DEF RowsInv, Made, MadeHere
<1> QED BY <1>1, <1>2

LEMMA OpeningFollows ==
  ASSUME NEW S, NEW R, NEW o, \A d \in S : DOMAIN d = CallFields, ListsInv(S),
         \A d \in S : d.op = "list" /\ d.stage = "ok" /\ ~d.overtaken => d.rows = R
  PROVE  /\ ListsInv(Opening(S)) /\ RowsInv(Opening(S), R, o)
         /\ \E d \in Opening(S) : NewList(d) /\ NewFill(d)
         /\ \E d \in Opening(S) : d.op = "list" /\ d.own /\ d.first
<1> DEFINE c == [Call("list") EXCEPT !.first = TRUE, !.fills = TRUE]
           q == Call("catalog")
<1>1. FreshList(c) /\ c.own = TRUE /\ c.first = TRUE
  BY ListsFresh
<1>2. DOMAIN q = CallFields /\ q.op = "catalog" /\ q.own = TRUE /\ q.live = TRUE
  BY ListsFresh
<1>3. Opening(S) = PlusList(Plus(S, q), c)
  BY DEF Opening
<1> HIDE DEF c, q
<1>4. PICK n : Plus(S, q) = S \cup {n} /\ Numbered(n, q)
  BY <1>2, PlusAdds
<1>5. n.op = "catalog" /\ n.own = TRUE /\ n.live = TRUE /\ DOMAIN n = CallFields
  BY <1>2, <1>4 DEF Numbered, Same
<1> DEFINE P == S \cup {n}
<1>6. ListsInv(P)
  BY <1>5, SentKeepsLists
<1>7. \A d \in P : /\ DOMAIN d = CallFields
                   /\ d.op = "list" /\ d.stage = "ok" /\ ~d.overtaken => d.rows = R
  BY <1>5
<1> HIDE DEF P
<1>8. MayAsk(P, c.own, R, o)
  BY <1>1, <1>6, <1>7 DEF MayAsk
<1>9. /\ ListsInv(PlusList(P, c)) /\ RowsInv(PlusList(P, c), R, o)
      /\ Asking(P, PlusList(P, c), c.own, c.first)
  BY <1>1, <1>8, ListAsked
<1> QED BY <1>1, <1>3, <1>4, <1>9 DEF P, Asking

LEMMA FollowInit == Init => FollowInv
<1> SUFFICES ASSUME Init
             PROVE  FollowInv
  OBVIOUS
<1> DEFINE c == Call("list")
<1>1. DOMAIN c = CallFields /\ c.op = "list" /\ c.own = TRUE /\ c.live = TRUE
      /\ c.stage = "sent" /\ c.overtaken = FALSE /\ c.passed = FALSE
  BY ListsFresh
<1>2. PlusList({}, c) = Plus({}, c)
  BY DEF PlusList, Older
<1> HIDE DEF c
<1>3. PICK n : PlusList({}, c) = {n} /\ Numbered(n, c)
  BY <1>1, <1>2, PlusAdds
<1>4. ListsInv({n}) /\ DOMAIN n = CallFields /\ n.stage # "ok"
  BY <1>1, <1>3 DEF Numbered, Same, ListsInv
<1>5. calls = Opening({n})
  BY <1>3 DEF Init, c
<1>6. /\ ListsInv(calls) /\ RowsInv(calls, roles, stale)
      /\ \E d \in calls : NewList(d) /\ NewFill(d)
      /\ \E d \in calls : d.op = "list" /\ d.own /\ d.first
  BY <1>4, <1>5, OpeningFollows
<1>7. saving = FALSE
  BY DEF Init
<1> QED BY <1>6, <1>7 DEF FollowInv, BusyInv, PageInv

-----------------------------------------------------------------------------
(* Every step keeps it.                                                     *)

shownState == <<roles, shown, cache, loading, stale>>

LEMMA SentFollows ==
  ASSUME FollowInv, NEW c, DOMAIN c = CallFields, c.op # "list", c.own \in BOOLEAN,
         c.own \/ c.op = "catalog" => c.live, calls' = Plus(calls, c),
         UNCHANGED shownState, saving' => saving \/ (c.op = "save" /\ c.own)
  PROVE  FollowInv'
<1>1. PICK d : calls' = calls \cup {d} /\ Numbered(d, c)
  BY PlusAdds
<1>2. d.op = c.op /\ d.own = c.own /\ d.live = c.live
  BY <1>1 DEF Numbered, Same
<1>3. ListsInv(calls') /\ RowsInv(calls', roles', stale')
  BY <1>1, <1>2, SentKeepsLists DEF FollowInv, shownState
<1>4. BusyInv'
  BY <1>1, <1>2 DEF FollowInv, BusyInv, shownState
<1>5. PageInv'
  BY <1>1 DEF FollowInv, PageInv, shownState, Made, MadeHere
<1> QED BY <1>3, <1>4, <1>5 DEF FollowInv

LEMMA QuietFollows ==
  ASSUME FollowInv, UNCHANGED <<shownState, saving, calls>>
  PROVE  FollowInv'
  BY DEF FollowInv, BusyInv, PageInv, shownState

LEMMA ReopenFollows ==
  ASSUME RolesInv, FollowInv, Reopen
  PROVE  FollowInv'
<1> DEFINE D == {[c EXCEPT !.own = FALSE] : c \in calls}
<1>1. \A c \in calls : DOMAIN c = CallFields
  BY DEF RolesInv, AllGood, Asked
<1>2. \A d \in D : \E c \in calls :
        /\ d = [c EXCEPT !.own = FALSE] /\ DOMAIN d = CallFields /\ d.own = FALSE
        /\ d.op = c.op /\ d.live = c.live /\ d.old = c.old /\ d.passed = c.passed
        /\ d.stage = c.stage /\ d.rows = c.rows /\ d.overtaken = c.overtaken
  BY <1>1 DEF CallFields
<1>3. calls' = Opening(D) /\ saving' = FALSE /\ roles' = roles
  BY DEF Reopen, table
<1> HIDE DEF D
<1>4. ListsInv(D)
  <2>1. ASSUME NEW d \in D, NEW e \in D, NewList(d), NewList(e)
        PROVE  d = e
    <3>1. PICK c \in calls : d = [c EXCEPT !.own = FALSE] /\ NewList(c)
      BY <1>2, <2>1 DEF NewList
    <3>2. PICK f \in calls : e = [f EXCEPT !.own = FALSE] /\ NewList(f)
      BY <1>2, <2>1 DEF NewList
    <3>3. c = f
      BY <3>1, <3>2 DEF ListsInv, FollowInv
    <3> QED BY <3>1, <3>2, <3>3
  <2>2. \A d \in D : ~NewFill(d)
    BY <1>2 DEF NewFill
  <2>3. \A d \in D : /\ d.own \in BOOLEAN
                     /\ d.own \/ d.op \in {"list", "catalog"} => d.live
                     /\ NewList(d) => ~d.passed
                     /\ d.op = "list" /\ d.stage # "ok" => ~d.overtaken
    <3> TAKE d \in D
    <3>1. PICK c \in calls :
            /\ d.own = FALSE /\ d.op = c.op /\ d.live = c.live /\ d.old = c.old
            /\ d.passed = c.passed /\ d.stage = c.stage /\ d.overtaken = c.overtaken
      BY <1>2
    <3> QED BY <3>1 DEF ListsInv, FollowInv, NewList
  <2> QED BY <2>1, <2>2, <2>3 DEF ListsInv
<1>5. \A d \in D : /\ DOMAIN d = CallFields
                   /\ d.op = "list" /\ d.stage = "ok" /\ ~d.overtaken => d.rows = roles
  BY <1>2 DEF FollowInv, RowsInv
<1>6. /\ ListsInv(calls') /\ RowsInv(calls', roles', stale')
      /\ \E d \in calls' : NewList(d) /\ NewFill(d)
      /\ \E d \in calls' : d.op = "list" /\ d.own /\ d.first
  BY <1>3, <1>4, <1>5, OpeningFollows
<1> QED BY <1>3, <1>6 DEF FollowInv, BusyInv, PageInv

LEMMA ClickFollows ==
  ASSUME RolesInv, FollowInv, Click
  PROVE  FollowInv'
<1> USE DEF shownState, table
<1>1. CASE Editing
  BY <1>1, QuietFollows DEF Editing
<1>2. CASE Save
  <2> DEFINE c == [Call("save") EXCEPT !.role = editing, !.form = form]
  <2>1. /\ DOMAIN c = CallFields /\ c.op = "save" /\ c.own = TRUE /\ c.live = TRUE
    BY DEF Call, CallFields
  <2>2. calls' = Plus(calls, c) /\ UNCHANGED shownState
    BY <1>2 DEF Save
  <2> HIDE DEF c
  <2> QED BY <2>1, <2>2, SentFollows
<1>3. ASSUME NEW i, AskDelete(i)
      PROVE  FollowInv'
  BY <1>3, QuietFollows DEF AskDelete
<1>4. ASSUME NEW yes \in BOOLEAN, AnswerConfirm(yes)
      PROVE  FollowInv'
  <2> DEFINE c == [Call("delete") EXCEPT !.role = confirm]
  <2>1. /\ DOMAIN c = CallFields /\ c.op = "delete" /\ c.own = TRUE /\ c.live = TRUE
    BY DEF Call, CallFields
  <2>2. UNCHANGED <<shownState, saving>> /\ calls' = IF yes THEN Plus(calls, c) ELSE calls
    BY <1>4 DEF AnswerConfirm
  <2> HIDE DEF c
  <2>3. CASE yes
    BY <2>1, <2>2, <2>3, SentFollows
  <2>4. CASE ~yes
    BY <2>2, <2>4, QuietFollows
  <2> QED BY <2>3, <2>4
<1>5. CASE Reopen
  BY <1>5, ReopenFollows
<1>6. \A i, n, d, p : \/ StartCreate \/ CloseEditor \/ StartEdit(i) \/ Type(n, d) \/ TogglePerm(p)
                      => Editing
  BY DEF StartCreate, CloseEditor, StartEdit, Type, TogglePerm
<1> QED BY <1>1, <1>2, <1>3, <1>4, <1>5, <1>6 DEF Click

LEMMA OthersFollow ==
  ASSUME FollowInv, Others
  PROVE  FollowInv'
<1> USE DEF shownState, table, page, editor
<1>1. ASSUME NEW e, NEW i, Assign(e, i)
      PROVE  FollowInv'
  BY <1>1, QuietFollows DEF Assign
<1>2. ASSUME NEW op \in {"delete", "save"}, NEW i, NEW f, Rival(op, i, f)
      PROVE  FollowInv'
  <2> DEFINE c == [Call(op) EXCEPT !.live = FALSE, !.own = FALSE, !.role = i, !.form = f]
  <2>1. DOMAIN c = CallFields /\ c.op = op /\ c.own = FALSE
    BY DEF Call, CallFields
  <2>2. calls' = Plus(calls, c) /\ UNCHANGED <<shownState, saving>>
    BY <1>2 DEF Rival
  <2> HIDE DEF c
  <2> QED BY <2>1, <2>2, SentFollows
<1> QED BY <1>1, <1>2 DEF Others

\* The server reads, or refuses: no list, and nothing is made yet.
LEMMA ReplacedFollows ==
  ASSUME FollowInv, NEW c \in calls, NEW d, Replace(c, d), c.op # "list",
         c.stage # "ok", d.stage # "ok", d.op = c.op, d.own = c.own, d.live = c.live,
         UNCHANGED <<shownState, saving>>
  PROVE  FollowInv'
<1>1. /\ \A e \in calls : e # c => e \in calls'
      /\ \A e \in calls' : e = d \/ e \in calls
      /\ c.own => d \in calls'
  BY DEF Replace, FollowInv, ListsInv
<1>2. ListsInv(calls')
  BY <1>1 DEF FollowInv, ListsInv, NewList, NewFill
<1>3. (Made(calls) => Made(calls')) /\ (MadeHere(calls) => MadeHere(calls'))
  BY <1>1 DEF Made, MadeHere, IsMade
<1>4. RowsInv(calls', roles', stale')
  BY <1>1, <1>3 DEF FollowInv, RowsInv, shownState
<1>5. BusyInv'
  BY <1>1 DEF FollowInv, BusyInv, shownState
<1>6. PageInv'
  BY <1>1, <1>3 DEF FollowInv, PageInv, NewList, NewFill, shownState
<1> QED BY <1>2, <1>4, <1>5, <1>6 DEF FollowInv

LEMMA ServedListFollows ==
  ASSUME RolesInv, FollowInv, NEW c \in calls, ServeList(c)
  PROVE  FollowInv'
<1> DEFINE d == [c EXCEPT !.stage = "ok", !.rows = roles]
<1>1. /\ d.op = "list" /\ d.stage = "ok" /\ d.rows = roles /\ d.own = c.own /\ d.live = c.live
      /\ d.first = c.first /\ d.fills = c.fills /\ d.old = c.old /\ d.passed = c.passed
      /\ d.overtaken = c.overtaken
  BY DEF ServeList, RolesInv, AllGood, Asked, CallFields
<1>2. /\ c.op = "list" /\ c.live /\ ~c.overtaken /\ Replace(c, d)
      /\ UNCHANGED <<shownState, saving>>
  BY DEF ServeList, FollowInv, ListsInv, table, page, editor, shownState
<1> HIDE DEF d
<1>3. calls' = (calls \ {c}) \cup {d}
  BY <1>1, <1>2 DEF Replace
<1>4. (NewList(d) <=> NewList(c)) /\ (NewFill(d) <=> NewFill(c))
  BY <1>1, <1>2 DEF NewList, NewFill
<1>5. ListsInv(calls')
  BY <1>1, <1>2, <1>3, <1>4 DEF FollowInv, ListsInv
<1>6. (Made(calls) => Made(calls')) /\ (MadeHere(calls) => MadeHere(calls'))
  BY <1>2, <1>3 DEF Made, MadeHere, IsMade
<1>7. RowsInv(calls', roles', stale')
  BY <1>1, <1>2, <1>3, <1>6 DEF FollowInv, RowsInv, shownState
<1>8. BusyInv'
  BY <1>1, <1>2, <1>3 DEF FollowInv, BusyInv, shownState
<1>9. PageInv'
  BY <1>2, <1>3, <1>4, <1>6 DEF FollowInv, PageInv, shownState
<1> QED BY <1>5, <1>7, <1>8, <1>9 DEF FollowInv

\* A commit outdates what was read; the answer to it asks for a list, unless the
\* page that sent it is gone.
LEMMA CommittedFollows ==
  ASSUME RolesInv, FollowInv, NEW c \in calls, c.op \in {"save", "delete"}, c.stage = "read",
         NEW i, NEW row, Committed(c, i, row)
  PROVE  FollowInv'
<1> DEFINE d == [c EXCEPT !.stage = "ok", !.role = i, !.row = row]
           S == (calls \ {c}) \cup {e \in {d} : e.live}
           Mark(e) == IF e.op = "list" /\ e.stage = "ok" THEN [e EXCEPT !.overtaken = TRUE] ELSE e
<1>1. /\ d.op = c.op /\ d.stage = "ok" /\ d.own = c.own /\ d.live = c.live
      /\ DOMAIN d = CallFields
  BY DEF RolesInv, AllGood, Asked, CallFields
<1>2. /\ calls' = {Mark(e) : e \in S} /\ stale' = (stale \/ ~c.own)
      /\ UNCHANGED <<shown, cache, loading, saving>>
  BY DEF Committed, Outdated, page, editor
<1> HIDE DEF d
<1>3. \A e \in S : /\ Mark(e).op = e.op /\ Mark(e).stage = e.stage /\ Mark(e).own = e.own
                   /\ Mark(e).live = e.live /\ Mark(e).first = e.first /\ Mark(e).old = e.old
                   /\ Mark(e).fills = e.fills /\ Mark(e).passed = e.passed
                   /\ e.op # "list" => Mark(e) = e
                   /\ Mark(e).op = "list" => IF e.stage = "ok" THEN Mark(e).overtaken
                                             ELSE ~Mark(e).overtaken
  <2>1. \A e \in S : DOMAIN e = CallFields /\ (e.op = "list" /\ e.stage # "ok" => ~e.overtaken)
    BY <1>1 DEF RolesInv, AllGood, Asked, FollowInv, ListsInv
  <2> QED BY <2>1 DEF CallFields
<1> HIDE DEF Mark
<1>4. /\ \A e \in S : e = d \/ e \in calls
      /\ c.own => d \in S
      /\ \A e \in calls : e # c => e \in S
  BY <1>1 DEF FollowInv, ListsInv
<1> HIDE DEF S
<1>5. ListsInv(S)
  BY <1>1, <1>4 DEF FollowInv, ListsInv, NewList, NewFill
<1>6. ListsInv(calls')
  <2>1. ASSUME NEW a \in S, NEW b \in S, NewList(Mark(a)), NewList(Mark(b))
        PROVE  Mark(a) = Mark(b)
    BY <1>3, <1>5, <2>1 DEF ListsInv, NewList
  <2>2. ASSUME NEW a \in S, NEW b \in S, NewFill(Mark(a)), NewFill(Mark(b))
        PROVE  Mark(a) = Mark(b)
    BY <1>3, <1>5, <2>2 DEF ListsInv, NewFill
  <2>3. \A e \in S : /\ Mark(e).own \in BOOLEAN
                     /\ Mark(e).own \/ Mark(e).op \in {"list", "catalog"} => Mark(e).live
                     /\ NewList(Mark(e)) => ~Mark(e).passed
                     /\ Mark(e).op = "list" /\ Mark(e).stage # "ok" => ~Mark(e).overtaken
    BY <1>3, <1>5 DEF ListsInv, NewList
  <2> QED BY <1>2, <2>1, <2>2, <2>3 DEF ListsInv
<1>7. c.own => MadeHere(calls') /\ Made(calls')
  <2>1. c.own => d \in calls'
    BY <1>1, <1>2, <1>3, <1>4
  <2>2. c.own => IsMade(d)
    BY <1>1 DEF IsMade, FollowInv, ListsInv
  <2> QED BY <1>1, <2>1, <2>2 DEF MadeHere, Made
<1>8. RowsInv(calls', roles', stale')
  <2>1. stale' \/ (Made(calls') /\ MadeHere(calls'))
    BY <1>2, <1>7
  <2>2. \A e \in calls' : e.op = "list" /\ e.stage = "ok" => e.overtaken
    BY <1>2, <1>3
  <2> QED BY <2>1, <2>2 DEF RowsInv
<1>9. BusyInv'
  <2>1. saving' => \E e \in calls' : e.op = "save" /\ e.own
    <3>1. saving => \E e \in S : e.op = "save" /\ e.own
      BY <1>1, <1>4 DEF FollowInv, BusyInv
    <3> QED BY <1>2, <1>3, <3>1
  <2>2. loading' => \E e \in calls' : e.op = "list" /\ e.own /\ e.first
    <3>1. loading => \E e \in S : e.op = "list" /\ e.own /\ e.first
      BY <1>4 DEF FollowInv, BusyInv
    <3> QED BY <1>2, <1>3, <3>1
  <2> QED BY <2>1, <2>2 DEF BusyInv
<1>10. PageInv'
  BY <1>2, <1>7 DEF PageInv
<1> QED BY <1>6, <1>8, <1>9, <1>10 DEF FollowInv

LEMMA FailedFollows ==
  ASSUME RolesInv, FollowInv, NEW c \in calls, c.op # "list", c.stage # "ok",
         \E x, y : Replace(c, [c EXCEPT !.stage = "refused"])
                   \/ Replace(c, [c EXCEPT !.stage = "read", !.code = x])
                   \/ Replace(c, [c EXCEPT !.stage = "read", !.row = y]),
         UNCHANGED <<table, page, stale>>
  PROVE  FollowInv'
<1>1. PICK d : Replace(c, d) /\ d.op = c.op /\ d.own = c.own /\ d.live = c.live /\ d.stage # "ok"
  <2>1. DOMAIN c = CallFields
    BY DEF RolesInv, AllGood, Asked
  <2>2. PICK x, y : \/ Replace(c, [c EXCEPT !.stage = "refused"])
                    \/ Replace(c, [c EXCEPT !.stage = "read", !.code = x])
                    \/ Replace(c, [c EXCEPT !.stage = "read", !.row = y])
    OBVIOUS
  <2>3. \A d \in {[c EXCEPT !.stage = "refused"], [c EXCEPT !.stage = "read", !.code = x],
                  [c EXCEPT !.stage = "read", !.row = y]} :
          d.op = c.op /\ d.own = c.own /\ d.live = c.live /\ d.stage # "ok"
    BY <2>1 DEF CallFields
  <2> QED BY <2>2, <2>3
<1>2. UNCHANGED <<shownState, saving>>
  BY DEF table, page, editor, shownState
<1> QED BY <1>1, <1>2, ReplacedFollows

LEMMA ServeFollows ==
  ASSUME RolesInv, FollowInv, NEW c \in calls, Serve(c)
  PROVE  FollowInv'
<1>1. CASE ServeList(c)
  BY <1>1, ServedListFollows
<1>2. CASE ReadCreate(c) \/ ReadUpdate(c) \/ ReadDelete(c)
  <2>1. c.op # "list" /\ c.stage # "ok" /\ UNCHANGED <<table, page, stale>>
    BY <1>2 DEF ReadCreate, ReadUpdate, ReadDelete
  <2>2. \/ Replace(c, [c EXCEPT !.stage = "refused"])
        \/ Replace(c, [c EXCEPT !.stage = "read", !.code = UniqueCode(c.form.name)])
        \/ Replace(c, [c EXCEPT !.stage = "read", !.row = roles[c.role]])
    BY <1>2 DEF ReadCreate, ReadUpdate, ReadDelete
  <2> QED BY <2>1, <2>2, FailedFollows
<1>3. CASE CommitCreate(c) \/ CommitUpdate(c) \/ CommitDelete(c)
  <2>1. c.op \in {"save", "delete"} /\ c.stage = "read"
    BY <1>3 DEF CommitCreate, CommitUpdate, CommitDelete
  <2>2. Failed(c) \/ \E i, row : Committed(c, i, row)
    BY <1>3 DEF CommitCreate, CommitUpdate, CommitDelete
  <2>3. CASE Failed(c)
    BY <2>1, <2>3, FailedFollows DEF Failed
  <2>4. ASSUME NEW i, NEW row, Committed(c, i, row)
        PROVE  FollowInv'
    BY <2>1, <2>4, CommittedFollows
  <2> QED BY <2>2, <2>3, <2>4
<1> QED BY <1>1, <1>2, <1>3 DEF Serve

-----------------------------------------------------------------------------
(* The answers.                                                             *)

LEMMA WithoutLists ==
  ASSUME NEW S, NEW c, ListsInv(S)
  PROVE  ListsInv(S \ {c})
  BY DEF ListsInv

\* A request that is no list is answered, and changes nothing that is shown.
LEMMA AnsweredFollows ==
  ASSUME FollowInv, NEW c \in calls, c.op # "list", calls' = calls \ {c},
         ~IsMade(c) \/ stale', stale => stale',
         UNCHANGED <<roles, shown, cache, loading>>,
         saving' => saving /\ ~(c.op = "save" /\ c.own)
  PROVE  FollowInv'
<1>1. ListsInv(calls')
  BY WithoutLists DEF FollowInv
<1>2. stale' \/ ((Made(calls) => Made(calls')) /\ (MadeHere(calls) => MadeHere(calls')))
  BY DEF Made, MadeHere
<1>3. RowsInv(calls', roles', stale')
  BY <1>2 DEF FollowInv, RowsInv
<1>4. BusyInv'
  BY DEF FollowInv, BusyInv
<1>5. PageInv'
  BY <1>2 DEF FollowInv, PageInv, NewList, NewFill
<1> QED BY <1>1, <1>3, <1>4, <1>5 DEF FollowInv

\* A change is confirmed: the page asks for a list.
LEMMA RefreshFollows ==
  ASSUME RolesInv, FollowInv, NEW c \in calls, c.op # "list", Refresh(c, calls \ {c}),
         UNCHANGED <<roles, shown, loading>>, stale => stale',
         saving' => saving /\ ~(c.op = "save" /\ c.own)
  PROVE  FollowInv'
<1> DEFINE l == [Call("list") EXCEPT !.fills = TRUE, !.own = c.own]
           S == calls \ {c}
<1>1. calls' = PlusList(S, l) /\ FreshList(l) /\ l.own = c.own /\ c.own \in BOOLEAN
  <2>1. c.own \in BOOLEAN
    BY DEF FollowInv, ListsInv
  <2> QED BY <2>1, ListsFresh DEF Refresh
<1> HIDE DEF l
<1>2. ~c.own => (MadeHere(calls) => MadeHere(S))
  BY DEF MadeHere
<1>3. MayAsk(S, l.own, roles, stale')
  <2>1. ListsInv(S)
    BY WithoutLists DEF FollowInv
  <2>2. \A d \in S : DOMAIN d = CallFields
    BY DEF RolesInv, AllGood, Asked
  <2>3. \A d \in S : d.op = "list" /\ d.stage = "ok" =>
          /\ ~d.overtaken => d.rows = roles
          /\ ~l.own /\ NewFill(d) /\ d.overtaken => stale' \/ MadeHere(S)
    BY <1>1, <1>2 DEF FollowInv, RowsInv
  <2> QED BY <2>1, <2>2, <2>3 DEF MayAsk
<1>4. /\ ListsInv(calls') /\ RowsInv(calls', roles', stale')
      /\ Asking(S, calls', l.own, l.first)
  BY <1>1, <1>3, ListAsked
<1>5. /\ \E d \in calls' : NewList(d) /\ (c.own => NewFill(d))
      /\ \A d \in S : d.op # "list" => d \in calls'
      /\ ~c.own => \A d \in S : NewFill(d) => \E e \in calls' : NewFill(e)
      /\ \A d \in S : d.op = "list" /\ d.own /\ d.first =>
           \E e \in calls' : e.op = "list" /\ e.own /\ e.first
  BY <1>1, <1>4 DEF Asking
<1>6. BusyInv'
  <2>1. saving' => \E e \in calls' : e.op = "save" /\ e.own
    <3>1. saving' => \E e \in S : e.op = "save" /\ e.own
      BY DEF FollowInv, BusyInv
    <3> QED BY <1>5, <3>1
  <2>2. loading' => \E e \in calls' : e.op = "list" /\ e.own /\ e.first
    <3>1. loading => \E e \in S : e.op = "list" /\ e.own /\ e.first
      BY DEF FollowInv, BusyInv
    <3> QED BY <1>5, <3>1
  <2> QED BY <2>1, <2>2 DEF BusyInv
<1>7. PageInv'
  <2> SUFFICES ASSUME ~stale', ~c.own
               PROVE  shown' = roles' \/ MadeHere(calls') \/ \E d \in calls' : NewFill(d)
    BY <1>5 DEF PageInv
  <2>1. shown = roles \/ MadeHere(S) \/ \E d \in calls : NewFill(d)
    BY <1>2 DEF FollowInv, PageInv
  <2>2. MadeHere(S) => MadeHere(calls')
    BY <1>5 DEF MadeHere, IsMade
  <2>3. \A d \in calls : NewFill(d) => d \in S
    BY DEF NewFill
  <2> QED BY <1>5, <2>1, <2>2, <2>3
<1> QED BY <1>4, <1>6, <1>7 DEF FollowInv

\* A list comes: the newest one corrects all, an older one is followed by another.
LEMMA ListFollows ==
  ASSUME FollowInv, NEW c \in calls, NEW ok \in BOOLEAN, DeliverList(c, ok)
  PROVE  FollowInv'
<1> DEFINE fills == c.fills /\ c.own
           late == c.old /\ \A d \in calls : d.op = "list" => d.old
           lateHere == fills /\ c.passed /\ \A d \in calls :
                         d.op = "list" /\ d.fills /\ d.own => d.passed
<1>1. /\ c.op = "list" /\ calls' = calls \ {c} /\ roles' = roles /\ saving' = saving
      /\ loading' = (loading /\ ~(c.first /\ c.own))
  BY DEF DeliverList, Answered, table, editor
<1>2. ListsInv(calls')
  BY <1>1, WithoutLists DEF FollowInv
<1>3. BusyInv'
  BY <1>1 DEF FollowInv, BusyInv
<1>4. (Made(calls) => Made(calls')) /\ (MadeHere(calls) => MadeHere(calls'))
  BY <1>1 DEF Made, MadeHere, IsMade
<1>5. CASE ~ok
  <2>1. stale' = TRUE
    BY <1>5 DEF DeliverList
  <2> QED BY <1>1, <1>2, <1>3, <2>1 DEF FollowInv, RowsInv, PageInv
<1>6. CASE ok /\ fills /\ ~c.old
  <2>1. c.stage = "ok" /\ cache' = c.rows /\ shown' = c.rows /\ stale' = c.overtaken
    BY <1>6 DEF DeliverList, Answered
  <2>2. NewList(c) /\ NewFill(c)
    BY <1>1, <1>6 DEF NewList, NewFill, FollowInv, ListsInv
  <2>3. \A d \in calls' : ~NewList(d) /\ ~NewFill(d)
    BY <1>1, <2>2 DEF FollowInv, ListsInv
  <2>4. RowsInv(calls', roles', stale')
    BY <1>1, <2>3 DEF FollowInv, RowsInv
  <2>5. PageInv'
    BY <1>1, <2>1 DEF FollowInv, RowsInv, PageInv
  <2> QED BY <1>2, <1>3, <2>4, <2>5 DEF FollowInv
<1>7. CASE ok /\ ~(fills /\ ~c.old)
  <2>1. /\ c.stage = "ok" /\ cache' = c.rows
        /\ shown' = IF fills THEN c.rows ELSE shown
        /\ stale' = (stale \/ late \/ lateHere)
    BY <1>7 DEF DeliverList, Answered
  <2>2. RowsInv(calls', roles', stale')
    BY <1>1, <1>4, <2>1 DEF FollowInv, RowsInv
  <2>3. ASSUME ~stale'
        PROVE  cache' = roles' \/ Made(calls') \/ \E d \in calls' : NewList(d)
    <3>1. CASE c.old
      BY <1>1, <2>1, <2>3, <3>1 DEF NewList
    <3>2. CASE ~c.old
      <4>1. NewList(c)
        BY <1>1, <3>2 DEF NewList
      <4> QED BY <1>1, <1>4, <2>1, <2>3, <4>1 DEF FollowInv, RowsInv
    <3> QED BY <3>1, <3>2
  <2>4. ASSUME ~stale'
        PROVE  shown' = roles' \/ MadeHere(calls') \/ \E d \in calls' : NewFill(d)
    <3>1. CASE ~fills
      <4>1. ~NewFill(c)
        BY <3>1 DEF NewFill
      <4> QED BY <1>1, <1>4, <2>1, <2>4, <3>1, <4>1 DEF FollowInv, PageInv
    <3>2. CASE fills /\ c.passed
      BY <1>1, <2>1, <2>4, <3>2 DEF NewFill
    <3>3. CASE fills /\ ~c.passed
      <4>1. NewFill(c)
        BY <1>1, <3>3 DEF NewFill
      <4> QED BY <1>1, <1>4, <2>1, <2>4, <3>3, <4>1 DEF FollowInv, RowsInv
    <3> QED BY <3>1, <3>2, <3>3
  <2>5. PageInv'
    BY <2>3, <2>4 DEF PageInv
  <2> QED BY <1>2, <1>3, <2>2, <2>5 DEF FollowInv
<1> QED BY <1>5, <1>6, <1>7

LEMMA DeliverFollows ==
  ASSUME RolesInv, FollowInv, NEW c \in calls, NEW ok \in BOOLEAN, Deliver(c, ok)
  PROVE  FollowInv'
<1>1. CASE DeliverCatalog(c, ok)
  BY <1>1, AnsweredFollows DEF DeliverCatalog, Answered, IsMade, table, editor
<1>2. CASE DeliverList(c, ok)
  BY <1>2, ListFollows
<1>3. CASE DeliverSave(c, ok)
  <2>1. /\ c.op = "save" /\ UNCHANGED <<roles, shown, loading>>
        /\ saving' => saving /\ ~c.own
    BY <1>3 DEF DeliverSave, Answered, table
  <2>2. CASE ok
    <3>1. Refresh(c, calls \ {c}) /\ (stale => stale')
      BY <1>3, <2>2 DEF DeliverSave
    <3> QED BY <2>1, <3>1, RefreshFollows
  <2>3. CASE ~ok
    <3>1. calls' = calls \ {c} /\ cache' = cache /\ (stale \/ c.stage = "ok" => stale')
      BY <1>3, <2>3 DEF DeliverSave
    <3> QED BY <2>1, <3>1, AnsweredFollows DEF IsMade
  <2> QED BY <2>2, <2>3
<1>4. CASE DeliverDelete(c, ok)
  <2>1. c.op = "delete" /\ UNCHANGED <<roles, shown, loading, saving>>
    BY <1>4 DEF DeliverDelete, Answered, table
  <2>2. CASE ok
    <3>1. Refresh(c, calls \ {c}) /\ (stale => stale')
      BY <1>4, <2>2 DEF DeliverDelete
    <3> QED BY <2>1, <3>1, RefreshFollows
  <2>3. CASE ~ok
    <3>1. calls' = calls \ {c} /\ cache' = cache /\ (stale \/ c.stage = "ok" => stale')
      BY <1>4, <2>3 DEF DeliverDelete
    <3> QED BY <2>1, <3>1, AnsweredFollows DEF IsMade
  <2> QED BY <2>2, <2>3
<1> QED BY <1>1, <1>2, <1>3, <1>4 DEF Deliver

LEMMA FollowStep ==
  ASSUME RolesInv, FollowInv, [Next]_vars
  PROVE  FollowInv'
<1>1. CASE UNCHANGED vars
  BY <1>1, QuietFollows DEF vars, table, editor, shownState
<1> QED BY <1>1, ClickFollows, OthersFollow, ServeFollows, DeliverFollows DEF Next

\* Once everything is answered, the page and the service hold the roles of the
\* table, and nothing says that it is busy; the exceptions are a change of another
\* page, a lost answer, and a list that is overtaken by a later one
\* (users.service.ts:130-175; roles.component.ts:100-111, 162-212).
THEOREM RolesAreFollowed == Spec => []RolesFollow
<1>1. FollowInv => RolesFollow
  <2> SUFFICES ASSUME FollowInv
               PROVE  RolesFollow
    OBVIOUS
  <2>1. ASSUME \A c \in calls : c.live => c.op = "catalog"
        PROVE  /\ ~MadeHere(calls) /\ ~Made(calls)
               /\ \A d \in calls : ~NewFill(d) /\ ~NewList(d)
    BY <2>1 DEF FollowInv, ListsInv, Made, MadeHere, IsMade, NewFill, NewList
  <2> QED BY <2>1 DEF FollowInv, ListsInv, BusyInv, PageInv, RolesFollow, InFlight
<1>2. RolesInv /\ FollowInv /\ [Next]_vars => FollowInv'
  BY FollowStep
<1> QED BY RolesInvariant, FollowInit, <1>1, <1>2, PTL DEF Spec

=============================================================================
