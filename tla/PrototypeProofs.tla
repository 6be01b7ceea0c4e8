-------------------------- MODULE PrototypeProofs --------------------------
(***************************************************************************)
(* Why the prototype holds to what it should although it has no server:     *)
(* what its panels and dialogs copy stays true of what they were copied     *)
(* from for as long as they are open, because a dialog covers everything    *)
(* else and leaving a page forgets its state.  A session that a forgotten   *)
(* timer put in the place of another is the exception, and strayed says so. *)
(***************************************************************************)
EXTENDS Prototype, TLAPS, FiniteSetTheorems, SequenceTheorems

\* The logins on their way: those of the login screen that is open find the
\* account as it still is, and no session begins before one of them is done.
SessionInv ==
  /\ session # Null => users[session.account] # Null
  /\ \A i \in 1..Len(timers) :
       LET t == timers[i] IN
       /\ t.own => session = Null
       /\ t.result # Null => /\ users[t.result.account] # Null
                             /\ t.own => users[t.result.account].active
  /\ SessionIsActive

\* Ids are given once.
EntriesInv ==
  /\ EntriesFit
  /\ \A i, j \in 1..Len(entries) : entries[i].id = entries[j].id => i = j
  /\ \A i \in 1..Len(entries) : entries[i].id <= made

TablesInv == \A k \in Kinds : tables[k].live \subseteq tables[k].listed

Form ==
  [activity : Items \cup Activities \cup {Null}, category : Items \cup {Null},
   project : Items \cup {Null}]

\* A form names what the tables have for its activity.
FormInv(f) ==
  /\ f \in Form
  /\ f.category # Null =>
       f.activity \in Activities /\ f.category \in tables[TableOf(f.activity)].listed
  /\ f.project # Null => f.project \in tables["projects"].listed

Draft == [role : Roles, active : BOOLEAN, password : Passwords \cup {Null}]
Panel == [id : Accounts \cup {Null}, row : Draft]

\* The copy of a user keeps the own account active.
PanelInv(f) ==
  /\ f \in Panel
  /\ f.id # Null =>
       /\ users[f.id] # Null /\ f.row.password \in Passwords
       /\ f.id = session.account /\ ~strayed => f.row.active

\* A question to switch an account off is not about the own one.
UsersPage(p) ==
  /\ p \in [selected : Accounts \cup {Null}, creating : BOOLEAN, form : Panel \cup {Null},
            dialog : {"none", "deactivate", "reset"}, status : {"active", "inactive", "all"}]
  /\ p.selected # Null => users[p.selected] # Null
  /\ p.selected # Null \/ p.creating \/ p.form # Null => PanelInv(p.form)
  /\ p.dialog # "none" => p.selected # Null
  /\ p.dialog = "deactivate" /\ ~strayed => p.selected # session.account

\* An own entry of the day that may be changed.
OwnEntry(id, day) ==
  \E e \in Range(entries) :
    e.id = id /\ e.owner = session.account /\ e.day = day /\ Editable(day)

\* What the page of a day edits or asks about is on it.
EntryPage(p) ==
  /\ p \in [date : Days, editing : 1..MaxEntries \cup {Null}, form : Form,
            confirm : 1..MaxEntries \cup {Null}]
  /\ FormInv(p.form)
  /\ ~strayed => /\ p.editing # Null => OwnEntry(p.editing, p.date)
                 /\ p.confirm # Null => OwnEntry(p.confirm, p.date)

EditableEntry(id) == \E e \in Range(entries) : e.id = id /\ Editable(e.day)

\* What the list edits or asks about is in it, one entry at a time and none for
\* a worker.
ListPage(p) ==
  /\ p \in [filter : [from : Int, only : Accounts \cup {Null}], size : Sizes,
            number : Nat \ {0}, key : {"work_date", "user"}, dir : {"asc", "desc"},
            editing : 1..MaxEntries \cup {Null}, form : Form \cup {Null},
            confirm : 1..MaxEntries \cup {Null}]
  /\ p.form # Null => p.confirm = Null /\ FormInv(p.form) /\ EditableEntry(p.editing)
  /\ p.confirm # Null => EditableEntry(p.confirm)
  /\ session.role = "WORKER" /\ ~strayed => p.form = Null /\ p.confirm = Null

LookupsPage(p) ==
  p \in [tab : Kinds, status : {"active", "inactive", "all"},
         modal : [id : Items \cup {Null}, live : BOOLEAN] \cup {Null},
         confirm : [id : Items, live : BOOLEAN] \cup {Null}]

PageInv ==
  session # Null =>
    /\ route = "users" => UsersPage(page)
    /\ route = "workload-entry" => EntryPage(page)
    /\ route = "workload-list" => ListPage(page)
    /\ route = "lookups" => LookupsPage(page)

ProtoInv == Setting /\ TypeOK /\ SessionInv /\ EntriesInv /\ TablesInv /\ PageInv

-----------------------------------------------------------------------------
(* Places in an order.                                                      *)

Ordered(S, R) ==
  /\ \A i \in S : <<i, i>> \notin R
  /\ \A i, j, k \in S : <<i, j>> \in R /\ <<j, k>> \in R => <<i, k>> \in R
  /\ \A i, j \in S : i # j => <<i, j>> \in R \/ <<j, i>> \in R

Below(S, R, i) == {j \in S : <<j, i>> \in R}

Ranked(S, R) ==
  /\ Cardinality(S) \in Nat
  /\ \A i \in S : Cardinality(Below(S, R, i)) \in 0..(Cardinality(S) - 1)
  /\ \A i, j \in S : Cardinality(Below(S, R, i)) = Cardinality(Below(S, R, j)) => i = j
  /\ \A n \in 0..(Cardinality(S) - 1) : \E i \in S : Cardinality(Below(S, R, i)) = n

\* A finite set in a strict order: its elements have the ranks from zero to the
\* last one, each of them once.
LEMMA Ranks ==
  ASSUME NEW S, NEW R, IsFiniteSet(S), Ordered(S, R)
  PROVE  Ranked(S, R)
<1> DEFINE c == Cardinality(S)
           f == [i \in S |-> Cardinality(Below(S, R, i))]
           T == 0..(c - 1)
<1>1. c \in Nat
  BY FS_CardinalityType
<1>2. ASSUME NEW i \in S
      PROVE  /\ IsFiniteSet(Below(S, R, i)) /\ Cardinality(Below(S, R, i)) \in T
             /\ i \notin Below(S, R, i)
  <2>1. Below(S, R, i) \in SUBSET S /\ i \notin Below(S, R, i)
    BY DEF Below, Ordered
  <2>2. /\ IsFiniteSet(Below(S, R, i)) /\ Cardinality(Below(S, R, i)) <= c
        /\ Cardinality(S) = Cardinality(Below(S, R, i)) => S = Below(S, R, i)
    BY <2>1, FS_Subset
  <2>3. Cardinality(Below(S, R, i)) \in Nat
    BY <2>2, FS_CardinalityType
  <2>4. Cardinality(Below(S, R, i)) # c
    BY <2>1, <2>2
  <2> HIDE DEF c
  <2> QED BY <1>1, <2>1, <2>2, <2>3, <2>4
<1>3. ASSUME NEW i \in S, NEW j \in S, <<i, j>> \in R
      PROVE  Cardinality(Below(S, R, i)) # Cardinality(Below(S, R, j))
  <2>1. Below(S, R, i) \in SUBSET Below(S, R, j) /\ i \in Below(S, R, j)
    BY <1>3 DEF Below, Ordered
  <2> QED BY <2>1, <1>2, FS_Subset
<1>4. \A i, j \in S : Cardinality(Below(S, R, i)) = Cardinality(Below(S, R, j)) => i = j
  BY <1>3 DEF Ordered
<1>5. IsFiniteSet(T) /\ Cardinality(T) = c
  <2>1. (c - 1) \in Int /\ 0 \in Int
    BY <1>1
  <2>2. IsFiniteSet(T) /\ Cardinality(T) = IF 0 > c - 1 THEN 0 ELSE (c - 1) - 0 + 1
    BY <2>1, FS_Interval
  <2> HIDE DEF c, T
  <2> QED BY <1>1, <2>2
<1>6. f \in Injection(S, T)
  BY <1>2, <1>4 DEF Injection, IsInjective
<1>7. f \in Surjection(S, T)
  BY <1>5, <1>6, FS_Injection
<1>8. \A n \in T : \E i \in S : Cardinality(Below(S, R, i)) = n
  BY <1>7 DEF Surjection
<1> QED BY <1>1, <1>2, <1>4, <1>8 DEF Ranked

\* What filter keeps: the elements at the places, each once and no other.
LEMMA KeptAre ==
  ASSUME NEW T, NEW s \in Seq(T), NEW P \in SUBSET (1..Len(s))
  PROVE  /\ Kept(s, P) \in Seq(T) /\ Len(Kept(s, P)) = Cardinality(P)
         /\ Cardinality(P) \in Nat /\ IsFiniteSet(P)
         /\ \E f \in [1..Cardinality(P) -> P] :
              /\ \A k \in 1..Cardinality(P) : Kept(s, P)[k] = s[f[k]]
              /\ \A k, l \in 1..Cardinality(P) : f[k] = f[l] => k = l
              /\ \A i \in P : \E k \in 1..Cardinality(P) : f[k] = i
<1> DEFINE R == {r \in P \X P : r[1] < r[2]}
           c == Cardinality(P)
           UpTo(i) == {j \in P : j <= i}
           f == [k \in 1..c |-> CHOOSE i \in P : Cardinality(UpTo(i)) = k]
<1>1. Len(s) \in Nat /\ P \subseteq Int
  BY LenProperties
<1>2. IsFiniteSet(P)
  <2>1. IsFiniteSet(1..Len(s))
    BY <1>1, FS_Interval
  <2> QED BY <2>1, FS_Subset
<1>0. \A i, j \in P : <<i, j>> \in R <=> i < j
  BY <1>1
<1> HIDE DEF R
<1>3. Ordered(P, R)
  BY <1>0, <1>1 DEF Ordered
<1>4. /\ c \in Nat
      /\ \A i \in P : Cardinality(Below(P, R, i)) \in 0..(c - 1)
      /\ \A i, j \in P : Cardinality(Below(P, R, i)) = Cardinality(Below(P, R, j)) => i = j
      /\ \A n \in 0..(c - 1) : \E i \in P : Cardinality(Below(P, R, i)) = n
  <2>1. Ranked(P, R)
    BY <1>2, <1>3, Ranks
  <2> QED BY <2>1 DEF Ranked
<1>5. ASSUME NEW i \in P PROVE Cardinality(UpTo(i)) = Cardinality(Below(P, R, i)) + 1
  <2>1. UpTo(i) = Below(P, R, i) \cup {i} /\ i \notin Below(P, R, i)
    <3>1. \A j \in P : j \in Below(P, R, i) <=> j < i
      BY <1>0 DEF Below
    <3>2. Below(P, R, i) \subseteq P /\ UpTo(i) \subseteq P /\ i \in Int
      BY <1>1 DEF Below
    <3>3. \A j \in P : j \in Int /\ (j \in UpTo(i) <=> j <= i)
      BY <1>1
    <3> HIDE DEF UpTo
    <3>4. \A j \in P : j \in UpTo(i) <=> j \in Below(P, R, i) \/ j = i
      BY <3>1, <3>2, <3>3
    <3>5. i \notin Below(P, R, i)
      BY <3>1, <3>2
    <3>6. \A x : x \in UpTo(i) <=> x \in Below(P, R, i) \cup {i}
      BY <3>2, <3>4
    <3> QED BY <3>5, <3>6
  <2>2. IsFiniteSet(Below(P, R, i))
    <3>1. Below(P, R, i) \in SUBSET P
      BY DEF Below
    <3> QED BY <1>2, <3>1, FS_Subset
  <2> HIDE DEF UpTo
  <2> QED BY <2>1, <2>2, FS_AddElement
<1>6. \A i \in P : Cardinality(UpTo(i)) \in 1..c
  <2> HIDE DEF UpTo, c
  <2> QED BY <1>4, <1>5
<1>7. \A i, j \in P : Cardinality(UpTo(i)) = Cardinality(UpTo(j)) => i = j
  <2> HIDE DEF UpTo, c
  <2> QED BY <1>4, <1>5
<1>8. ASSUME NEW k \in 1..c PROVE f[k] \in P /\ Cardinality(UpTo(f[k])) = k
  <2>1. \E i \in P : Cardinality(UpTo(i)) = k
    <3> HIDE DEF UpTo, c
    <3>1. k - 1 \in 0..(c - 1)
      BY <1>4
    <3>2. PICK i \in P : Cardinality(Below(P, R, i)) = k - 1
      BY <1>4, <3>1
    <3>3. Cardinality(UpTo(i)) = k
      BY <1>5, <3>2
    <3> QED BY <3>3
  <2>2. f[k] = CHOOSE i \in P : Cardinality(UpTo(i)) = k
    OBVIOUS
  <2> HIDE DEF f, UpTo, c
  <2> QED BY <2>1, <2>2
<1>9. f \in [1..c -> P]
  BY <1>8
<1>10. Kept(s, P) = [k \in 1..c |-> s[f[k]]]
  BY DEF Kept
<1> HIDE DEF f, UpTo
<1>11. \A i \in P : \E k \in 1..c : f[k] = i
  BY <1>6, <1>7, <1>8
<1>12. \A k, l \in 1..c : f[k] = f[l] => k = l
  BY <1>8
<1>13. Kept(s, P) \in [1..c -> T]
  <2>1. \A k \in 1..c : s[f[k]] \in T
    BY <1>9, ElementOfSeq
  <2> HIDE DEF c
  <2> QED BY <1>10, <2>1
<1>14. Kept(s, P) \in Seq(T) /\ Len(Kept(s, P)) = c
  <2> HIDE DEF c
  <2>1. Kept(s, P) \in Seq(T)
    BY <1>4, <1>13, SeqDef
  <2>2. DOMAIN Kept(s, P) = 1..c /\ DOMAIN Kept(s, P) = 1..Len(Kept(s, P)) /\ Len(Kept(s, P)) \in Nat
    BY <1>13, <2>1, LenProperties
  <2> QED BY <1>4, <2>1, <2>2
<1>15. \A k \in 1..c : Kept(s, P)[k] = s[f[k]]
  BY <1>10
<1> QED BY <1>2, <1>4, <1>9, <1>11, <1>12, <1>14, <1>15

\* The same, as a set.
LEMMA KeptRange ==
  ASSUME NEW T, NEW s \in Seq(T), NEW P \in SUBSET (1..Len(s))
  PROVE  Range(Kept(s, P)) = {s[i] : i \in P}
<1> DEFINE c == Cardinality(P)
<1>1. PICK f \in [1..c -> P] :
        /\ \A k \in 1..c : Kept(s, P)[k] = s[f[k]]
        /\ \A i \in P : \E k \in 1..c : f[k] = i
  BY KeptAre
<1>2. DOMAIN Kept(s, P) = 1..c
  BY DEF Kept
<1>3. Range(Kept(s, P)) = {Kept(s, P)[k] : k \in 1..c}
  BY <1>2 DEF Range
<1> HIDE DEF c
<1>4. \A i \in P : \E k \in 1..c : Kept(s, P)[k] = s[i]
  BY <1>1
<1>5. ASSUME NEW x \in Range(Kept(s, P)) PROVE x \in {s[i] : i \in P}
  <2>1. PICK k \in 1..c : x = Kept(s, P)[k]
    BY <1>3
  <2>2. x = s[f[k]] /\ f[k] \in P
    BY <1>1, <2>1
  <2> QED BY <2>2
<1>6. ASSUME NEW i \in P PROVE s[i] \in Range(Kept(s, P))
  BY <1>3, <1>4
<1> QED BY <1>5, <1>6

-----------------------------------------------------------------------------
(* The pages of the list.                                                   *)

LEMMA Typed ==
  ASSUME ProtoInv
  PROVE  /\ entries \in Seq(Entry) /\ Len(entries) \in Nat
         /\ entries \in [1..Len(entries) -> Entry] /\ DOMAIN entries = 1..Len(entries)
         /\ Range(entries) = {entries[i] : i \in 1..Len(entries)}
         /\ Range(entries) \subseteq Entry
<1>1. entries \in Seq(Entry)
  BY DEF ProtoInv, TypeOK
<1>2. Len(entries) \in Nat /\ entries \in [1..Len(entries) -> Entry] /\ DOMAIN entries = 1..Len(entries)
  BY <1>1, LenProperties
<1>3. Range(entries) = {entries[i] : i \in 1..Len(entries)}
  BY <1>2 DEF Range
<1>4. Range(entries) \subseteq Entry
  <2>1. \A i \in 1..Len(entries) : entries[i] \in Entry
    BY <1>2
  <2> QED BY <1>3, <2>1
<1> QED BY <1>1, <1>2, <1>3, <1>4

LEMMA MatchingTyped ==
  ASSUME ProtoInv
  PROVE  /\ Matching \in Seq(Entry) /\ Len(Matching) \in Nat
         /\ \A i \in 1..Len(Matching) : Matching[i] \in Entry
         /\ Range(Matching) \subseteq Range(entries)
         /\ Matching # <<>> <=> Len(Matching) > 0
<1> DEFINE P == {i \in DOMAIN entries : Matches(entries[i])}
<1>1. P \in SUBSET (1..Len(entries)) /\ entries \in Seq(Entry)
  BY Typed
<1>2. Matching = Kept(entries, P)
  BY DEF Matching
<1> HIDE DEF P
<1>3. Matching \in Seq(Entry) /\ Len(Matching) \in Nat
  BY <1>1, <1>2, KeptAre
<1>4. \A i \in 1..Len(Matching) : Matching[i] \in Entry
  BY <1>3, ElementOfSeq
<1>5. Range(Matching) \subseteq Range(entries)
  BY <1>1, <1>2, KeptRange, Typed
<1>6. Matching # <<>> <=> Len(Matching) > 0
  BY <1>3, EmptySeq
<1> QED BY <1>3, <1>4, <1>5, <1>6

\* The last page holds the last row: n - 1 divided by s, plus one.
LEMMA LastPage ==
  ASSUME NEW n \in Nat \ {0}, NEW s \in Nat \ {0}
  PROVE  LET q == (n + s - 1) \div s IN q \in Nat \ {0} /\ (q - 1) * s < n
<1> DEFINE m == n + s - 1
           q == m \div s
<1>1. m \in Nat /\ m >= s
  OBVIOUS
<1>2. q \in Int /\ q * s <= m /\ m < (q + 1) * s
  <2> HIDE DEF m
  <2>1. QED
    BY <1>1, SMTT(60)
<1>3. q >= 1
  <2> HIDE DEF q
  <2>1. CASE q <= 0
    <3>1. (q + 1) * s <= s
      BY <1>2, <2>1, SMTT(60)
    <3>2. QED
      BY <3>1, <1>1, <1>2
  <2>2. QED
    BY <2>1, <1>2
<1>4. (q - 1) * s = q * s - s /\ q * s \in Int
  <2> HIDE DEF q
  <2>1. QED
    BY <1>2
<1>5. QED
  BY <1>2, <1>3, <1>4

\* The rows are in a strict order, whichever column they are sorted by.
LEMMA RowsAreOrdered ==
  ASSUME ProtoInv
  PROVE  LET s == Matching IN
         Ordered(1..Len(s), {r \in (1..Len(s)) \X (1..Len(s)) : Precedes(s, r[1], r[2])})
<1> DEFINE s == Matching
           D == 1..Len(s)
           Key(e) == IF page.key = "user" THEN e.owner ELSE e.day
           k == [i \in D |-> Key(s[i])]
           R == {r \in D \X D : Precedes(s, r[1], r[2])}
<1>1. \A i \in D : k[i] \in Int /\ i \in Int
  <2>1. \A i \in D : s[i] \in Entry
    BY MatchingTyped
  <2>2. Accounts \subseteq Int /\ Days \subseteq Int
    BY DEF ProtoInv, Setting
  <2>3. \A e \in Entry : Key(e) \in Int
    BY <2>2 DEF Entry
  <2>4. \A i \in D : i \in Int
    BY MatchingTyped
  <2> HIDE DEF Key, s
  <2> QED BY <2>1, <2>3, <2>4
<1>2. ASSUME NEW i \in D, NEW j \in D
      PROVE  <<i, j>> \in R <=> \/ IF page.dir = "asc" THEN k[i] < k[j] ELSE k[i] > k[j]
                                \/ k[i] = k[j] /\ i < j
  BY DEF Precedes
<1> HIDE DEF k, R, D
<1>3. \A i \in D : <<i, i>> \notin R
  BY <1>1, <1>2
<1>4. \A i, j, l \in D : <<i, j>> \in R /\ <<j, l>> \in R => <<i, l>> \in R
  BY <1>1, <1>2
<1>5. \A i, j \in D : i # j => <<i, j>> \in R \/ <<j, i>> \in R
  BY <1>1, <1>2
<1>6. Ordered(D, R)
  BY <1>3, <1>4, <1>5 DEF Ordered
<1> QED BY <1>6 DEF D, R

LEMMA PageInRange ==
  ASSUME NEW n \in Nat \ {0}, Len(Matching) = n,
         page.size \in Nat \ {0}, page.number \in Nat \ {0}
  PROVE  /\ CurrentPage \in Nat \ {0}
         /\ (CurrentPage - 1) * page.size \in 0..(n - 1)
         /\ (CurrentPage - 1) * page.size <= CurrentPage * page.size - 1
<1> DEFINE q == (n + page.size - 1) \div page.size
           z == page.size
           c == CurrentPage
<1>1. q \in Nat \ {0} /\ (q - 1) * z < n
  BY LastPage
<1> HIDE DEF q
<1>2. TotalPages = q
  <2>1. \E x \in {1, q} : \A y \in {1, q} : x >= y
    BY <1>1
  <2>2. TotalPages = Max({1, q})
    BY DEF TotalPages, q
  <2>3. TotalPages \in {1, q} /\ \A y \in {1, q} : TotalPages >= y
    BY <2>1, <2>2 DEF Max
  <2> QED BY <1>1, <2>3
<1>3. c \in Nat \ {0} /\ c <= q
  <2>1. \E x \in {page.number, q} : \A y \in {page.number, q} : x <= y
    BY <1>1
  <2>2. c \in {page.number, q} /\ \A y \in {page.number, q} : c <= y
    BY <1>2, <2>1 DEF CurrentPage, Min
  <2> QED BY <1>1, <2>2
<1> HIDE DEF c
<1>4. z \in Nat \ {0}
  OBVIOUS
<1> HIDE DEF z
<1>5. (c - 1) * z \in Nat /\ (c - 1) * z <= (q - 1) * z
  BY <1>1, <1>3, <1>4, SMTT(60)
<1>6. c * z = (c - 1) * z + z
  BY <1>3, <1>4, SMTT(60)
<1>7. (c - 1) * z \in 0..(n - 1)
  <2>1. (q - 1) * z \in Int
    BY <1>1, <1>4
  <2> QED BY <1>1, <1>5, <2>1
<1> QED BY <1>3, <1>4, <1>5, <1>6, <1>7 DEF c, z

LEMMA ListShows == ProtoInv => ListIsNotBlank
<1> SUFFICES ASSUME ProtoInv, On("workload-list")
             PROVE  Matching # <<>> <=> PagedEntries # {}
  BY DEF ListIsNotBlank
<1> DEFINE s == Matching
           n == Len(s)
           D == 1..n
           R == {r \in D \X D : Precedes(s, r[1], r[2])}
           Rank(i) == Cardinality({j \in D : Precedes(s, j, i)})
           first == (CurrentPage - 1) * page.size
           last == CurrentPage * page.size - 1
<1>1. n \in Nat /\ (s # <<>> <=> n > 0)
  BY MatchingTyped
<1>2. PagedEntries = {s[i] : i \in {j \in D : Rank(j) \in first..last}}
  BY DEF PagedEntries
<1>3. CASE n = 0
  <2>1. D = {}
    BY <1>3
  <2>2. s = <<>>
    BY <1>1, <1>3
  <2>3. ~(\E j \in D : Rank(j) \in first..last)
    <3> HIDE DEF D, first, last, Rank
    <3> QED BY <2>1
  <2>4. PagedEntries = {}
    <3> HIDE DEF D, s, first, last, Rank
    <3> QED BY <1>2, <2>3
  <2> QED BY <2>2, <2>4 DEF s
<1>4. CASE n # 0
  <2>1. page.size \in Nat \ {0} /\ page.number \in Nat \ {0}
    <3>1. ListPage(page) /\ Setting
      BY DEF ProtoInv, PageInv, On
    <3>2. page.size \in Sizes /\ page.number \in Nat \ {0} /\ Sizes \subseteq Nat \ {0}
      BY <3>1 DEF ListPage, Setting
    <3> QED BY <3>2
  <2>2. first \in 0..(n - 1) /\ first \in first..last
    <3>1. n \in Nat \ {0}
      BY <1>1, <1>4
    <3>2. /\ CurrentPage \in Nat \ {0}
          /\ first \in 0..(n - 1) /\ first <= last
      <4> HIDE DEF n
      <4>1. Len(Matching) = n
        BY DEF n
      <4> QED BY <2>1, <3>1, <4>1, PageInRange
    <3>3. last \in Int
      BY <2>1, <3>2
    <3> HIDE DEF first, last, n
    <3> QED BY <3>1, <3>2, <3>3
  <2>3. IsFiniteSet(D) /\ Cardinality(D) = n
    <3> HIDE DEF n
    <3>1. IsFiniteSet(1..n) /\ Cardinality(1..n) = IF 1 > n THEN 0 ELSE n - 1 + 1
      BY <1>1, FS_Interval
    <3> QED BY <1>1, <3>1
  <2>4. Ordered(D, R)
    BY RowsAreOrdered
  <2>5. \A i \in D : Rank(i) = Cardinality(Below(D, R, i))
    <3>1. \A i \in D : {j \in D : Precedes(s, j, i)} = Below(D, R, i)
      BY DEF Below
    <3> QED BY <3>1
  <2> HIDE DEF D, s, n, first, last, Rank, R
  <2>6. Ranked(D, R)
    BY <2>3, <2>4, Ranks
  <2>7. PICK i \in D : Rank(i) = first
    BY <2>2, <2>3, <2>5, <2>6 DEF Ranked
  <2>8. s[i] \in PagedEntries
    BY <1>2, <2>2, <2>7
  <2> QED BY <1>1, <1>4, <2>8 DEF s
<1> QED BY <1>3, <1>4

-----------------------------------------------------------------------------
(* The demonstration begins with the invariant.                             *)

LEMMA InitInv == Init => ProtoInv
<1> SUFFICES ASSUME Init PROVE ProtoInv
  OBVIOUS
<1>1. Setting
  BY PrototypeAssumption
<1>2. /\ entries \in Seq(Entry) /\ Len(entries) \in Nat
      /\ DOMAIN entries = 1..Len(entries)
      /\ \A i \in 1..Len(entries) : entries[i] \in Entry
      /\ Range(entries) = {entries[i] : i \in 1..Len(entries)}
  <2>1. entries \in Seq(Entry)
    BY DEF Init, SeedEntries
  <2>2. /\ Len(entries) \in Nat /\ DOMAIN entries = 1..Len(entries)
        /\ \A i \in 1..Len(entries) : entries[i] \in Entry
    BY <2>1, LenProperties, ElementOfSeq
  <2> QED BY <2>1, <2>2 DEF Range
<1>3. \A i \in 1..Len(entries) : entries[i].id = i
  BY DEF Init, SeedEntries
<1>4. made \in 0..MaxEntries
  <2>1. CASE Len(entries) = 0
    BY <1>1, <2>1 DEF Init, Setting
  <2>2. CASE Len(entries) # 0
    <3>1. Len(entries) \in 1..Len(entries)
      BY <1>2, <2>2
    <3>2. entries[Len(entries)].id \in 1..MaxEntries
      BY <1>2, <3>1 DEF Entry
    <3> QED BY <1>1, <1>3, <3>1, <3>2 DEF Init, Setting
  <2> QED BY <2>1, <2>2
<1>5. SeedUsers(users) /\ SeedTables(tables)
  BY DEF Init
<1>6. TypeOK
  <2>1. timers \in Seq([result : Sessions \cup {Null}, own : BOOLEAN])
    BY EmptySeq DEF Init
  <2>2. /\ users \in [Accounts -> Row \cup {Null}]
        /\ tables \in [Kinds -> [listed : SUBSET Items, live : SUBSET Items]]
    BY <1>5 DEF SeedUsers, SeedTables
  <2>3. session = Null /\ page = Null /\ route \in Routes /\ strayed \in BOOLEAN
    BY DEF Init, Routes
  <2>4. acts \in 0..MaxActs
    BY <1>1 DEF Init, Setting
  <2> QED BY <1>2, <1>4, <2>1, <2>2, <2>3, <2>4 DEF TypeOK
<1>7. SessionInv
  <2>1. Len(timers) = 0
    BY EmptySeq DEF Init
  <2> QED BY <2>1 DEF SessionInv, SessionIsActive, Init
<1>8. EntriesInv
  <2>1. EntriesFit
    <3>1. \A i \in 1..Len(entries) :
            /\ users[entries[i].owner] # Null
            /\ entries[i].category \in tables[TableOf(entries[i].activity)].listed
            /\ IF entries[i].activity = ProjectActivity
               THEN entries[i].project \in tables["projects"].listed
               ELSE entries[i].project = Null
      BY DEF Init, SeedEntries
    <3>2. \A i \in 1..Len(entries) : entries[i].activity \in Activities
      BY <1>2 DEF Entry
    <3> QED BY <1>2, <3>1, <3>2 DEF EntriesFit
  <2>2. \A i \in 1..Len(entries) : entries[i].id <= made
    BY <1>2, <1>3 DEF Init
  <2> QED BY <1>3, <2>1, <2>2 DEF EntriesInv
<1>9. TablesInv
  BY <1>5 DEF TablesInv, SeedTables
<1>10. PageInv
  BY DEF PageInv, Init
<1> QED BY <1>1, <1>6, <1>7, <1>8, <1>9, <1>10 DEF ProtoInv

-----------------------------------------------------------------------------
(* What a step has to show, by what it changes.                             *)

\* A step of the page alone.
LEMMA PageSteps ==
  ASSUME ProtoInv, session # Null, UNCHANGED <<data, shell>>, acts' \in 0..MaxActs, PageInv'
  PROVE  ProtoInv'
<1>1. Setting'
  BY DEF ProtoInv, Setting
<1>2. TypeOK'
  BY DEF ProtoInv, TypeOK, data, shell
<1>3. SessionInv'
  BY DEF ProtoInv, SessionInv, SessionIsActive, data, shell
<1>4. EntriesInv'
  BY DEF ProtoInv, EntriesInv, EntriesFit, data, shell
<1>5. TablesInv'
  BY DEF ProtoInv, TablesInv, data, shell
<1> QED BY <1>1, <1>2, <1>3, <1>4, <1>5 DEF ProtoInv

\* While somebody is logged in no login screen is there.
LEMMA NoOwnTimers ==
  ASSUME ProtoInv, session # Null
  PROVE  \A i \in 1..Len(timers) : ~timers[i].own
BY DEF ProtoInv, SessionInv

\* A row is written: nobody goes, and the own account stays switched on.
LEMMA UserSteps ==
  ASSUME ProtoInv, session # Null, UNCHANGED <<tables, entries, made, shell>>,
         acts' \in 0..MaxActs, PageInv',
         NEW a \in Accounts, NEW row \in Row, users' = [users EXCEPT ![a] = row],
         session.account = a /\ ~strayed => row.active
  PROVE  ProtoInv'
<1>1. Setting'
  BY DEF ProtoInv, Setting
<1>2. TypeOK'
  BY DEF ProtoInv, TypeOK, shell
<1>3. /\ users \in [Accounts -> Row \cup {Null}] /\ Null \notin Row
      /\ session \in Sessions /\ session.account \in Accounts
      /\ timers \in Seq([result : Sessions \cup {Null}, own : BOOLEAN])
  <2>1. session \in Sessions
    BY DEF ProtoInv, TypeOK
  <2> QED BY <2>1 DEF ProtoInv, TypeOK, Setting, Sessions
<1>4. \A x \in Accounts : users[x] # Null => users'[x] # Null
  BY <1>3
<1>5. SessionInv'
  <2>1. UNCHANGED <<session, timers, strayed>>
    BY DEF shell
  <2>2. users'[session.account] # Null
    BY <1>3, <1>4 DEF ProtoInv, SessionInv
  <2>3. SessionIsActive'
    <3>1. ~strayed => users[session.account].active
      BY DEF ProtoInv, SessionInv, SessionIsActive
    <3> QED BY <1>3, <2>1, <2>2, <3>1 DEF SessionIsActive
  <2>4. ASSUME NEW i \in 1..Len(timers), timers[i].result # Null
        PROVE  users'[timers[i].result.account] # Null
    <3>1. timers[i] \in [result : Sessions \cup {Null}, own : BOOLEAN]
      BY <1>3, ElementOfSeq
    <3>2. timers[i].result.account \in Accounts
      BY <2>4, <3>1 DEF Sessions
    <3>3. users[timers[i].result.account] # Null
      BY <2>4 DEF ProtoInv, SessionInv
    <3> QED BY <1>4, <3>2, <3>3
  <2> QED BY <2>1, <2>2, <2>3, <2>4, NoOwnTimers DEF SessionInv
<1>6. EntriesInv'
  <2>1. \A e \in Range(entries) : users'[e.owner] # Null
    <3>1. \A e \in Range(entries) : users[e.owner] # Null /\ e.owner \in Accounts
      BY Typed DEF ProtoInv, EntriesInv, EntriesFit, Entry
    <3> QED BY <1>4, <3>1
  <2> QED BY <2>1 DEF ProtoInv, EntriesInv, EntriesFit
<1>7. TablesInv'
  BY DEF ProtoInv, TablesInv
<1> QED BY <1>1, <1>2, <1>5, <1>6, <1>7 DEF ProtoInv

\* A row of a table is written: nothing that is listed goes.
LEMMA TableSteps ==
  ASSUME ProtoInv, session # Null, UNCHANGED <<users, entries, made, shell>>,
         acts' \in 0..MaxActs, PageInv',
         NEW k \in Kinds, NEW i \in Items, NEW live \in BOOLEAN,
         tables' = [tables EXCEPT ![k] = WithItem(@, i, live)]
  PROVE  ProtoInv'
<1>1. Setting'
  BY DEF ProtoInv, Setting
<1>2. tables \in [Kinds -> [listed : SUBSET Items, live : SUBSET Items]]
  BY DEF ProtoInv, TypeOK
<1>3. /\ tables' \in [Kinds -> [listed : SUBSET Items, live : SUBSET Items]]
      /\ \A x \in Kinds : tables[x].listed \subseteq tables'[x].listed
      /\ tables'[k].live \subseteq tables'[k].listed
  BY <1>2 DEF WithItem, ProtoInv, TablesInv
<1>4. TypeOK'
  BY <1>3 DEF ProtoInv, TypeOK, shell
<1>5. SessionInv'
  BY DEF ProtoInv, SessionInv, SessionIsActive, shell
<1>6. EntriesInv'
  <2>1. \A e \in Range(entries) : e.activity \in Activities => TableOf(e.activity) \in Kinds
    BY DEF TableOf, Kinds, Activities
  <2>2. "projects" \in Kinds
    BY DEF Kinds
  <2> QED BY <1>3, <2>1, <2>2 DEF ProtoInv, EntriesInv, EntriesFit
<1>7. TablesInv'
  BY <1>2, <1>3 DEF ProtoInv, TablesInv
<1> QED BY <1>1, <1>4, <1>5, <1>6, <1>7 DEF ProtoInv

\* The entries change.
LEMMA EntrySteps ==
  ASSUME ProtoInv, session # Null, UNCHANGED <<users, tables, shell>>,
         acts' \in 0..MaxActs, PageInv',
         entries' \in Seq(Entry), made' \in 0..MaxEntries, EntriesInv'
  PROVE  ProtoInv'
<1>1. Setting'
  BY DEF ProtoInv, Setting
<1>2. TypeOK'
  BY DEF ProtoInv, TypeOK, shell
<1>3. SessionInv'
  BY DEF ProtoInv, SessionInv, SessionIsActive, shell
<1>4. TablesInv'
  BY DEF ProtoInv, TablesInv
<1> QED BY <1>1, <1>2, <1>3, <1>4 DEF ProtoInv

-----------------------------------------------------------------------------
(* The page of the users.                                                   *)

LEMMA ActsTyped ==
  ASSUME ProtoInv, Act \/ UNCHANGED acts
  PROVE  acts' \in 0..MaxActs
<1>1. acts \in 0..MaxActs /\ MaxActs \in Nat
  BY DEF ProtoInv, TypeOK, Setting
<1> QED BY <1>1 DEF Act

LEMMA UsersClicks ==
  ASSUME ProtoInv, On("users"), Click, UsersPage(page)'
  PROVE  ProtoInv'
<1>1. UNCHANGED <<data, shell>> /\ acts' \in 0..MaxActs /\ session # Null /\ route = "users"
  BY ActsTyped DEF Click, On
<1>2. PageInv'
  BY <1>1 DEF PageInv, shell
<1> QED BY <1>1, <1>2, PageSteps

LEMMA UsersPageSteps ==
  ASSUME ProtoInv, UsersNext
  PROVE  ProtoInv'
<1> DEFINE Page == [selected : Accounts \cup {Null}, creating : BOOLEAN, form : Panel \cup {Null},
                    dialog : {"none", "deactivate", "reset"}, status : {"active", "inactive", "all"}]
<1>1. On("users")
  BY DEF UsersNext, ChooseStatus, StartEdit, StartCreate, CloseEdit, SaveUser, EditRole, SaveNew,
         AskDeactivate, AskReset, CancelUser, Deactivate, Reactivate, ResetPassword, Free
<1>2. UsersPage(page) /\ session \in Sessions /\ session.account \in Accounts
  BY <1>1 DEF ProtoInv, PageInv, TypeOK, On, Sessions
<1>3. page \in Page
  BY <1>2 DEF UsersPage
<1>4. users \in [Accounts -> Row \cup {Null}] /\ Null \notin Row
  BY DEF ProtoInv, TypeOK, Setting
<1>5. \A a \in Accounts : users[a] # Null => users[a] \in Row
  BY <1>4
<1>6. ~strayed => users[session.account].active
  BY <1>1 DEF ProtoInv, SessionInv, SessionIsActive, On
<1>7. users[session.account] # Null
  BY <1>1 DEF ProtoInv, SessionInv, On
<1>8. ASSUME NEW s \in {"active", "inactive", "all"}, ChooseStatus(s) PROVE ProtoInv'
  <2>1. page' = [page EXCEPT !.status = s] /\ Click
    BY <1>8 DEF ChooseStatus
  <2>2. UsersPage(page)'
    BY <1>2, <2>1 DEF UsersPage, PanelInv, Click, data, shell
  <2> QED BY <1>1, <2>1, <2>2, UsersClicks
<1>9. ASSUME NEW a \in Accounts, StartEdit(a) PROVE ProtoInv'
  <2>1. /\ page' = [page EXCEPT !.creating = FALSE, !.selected = a,
                                !.form = [id |-> a, row |-> users[a]]]
        /\ Click /\ users[a] # Null /\ page.dialog = "none"
    BY <1>1, <1>9 DEF StartEdit, ListedUsers, Free, Covered
  <2>2. users[a] \in Row /\ users[a] \in Draft
    BY <1>5, <2>1 DEF Row, Draft
  <2>3. [id |-> a, row |-> users[a]] \in Panel
    BY <2>2 DEF Panel
  <2>4. page' \in Page
    BY <1>3, <2>1, <2>3
  <2>5. PanelInv([id |-> a, row |-> users[a]])'
    BY <1>6, <2>1, <2>2, <2>3 DEF PanelInv, Row, Click, data, shell
  <2>6. page'.form = [id |-> a, row |-> users[a]] /\ page'.selected = a /\ page'.dialog = "none"
    BY <1>3, <2>1
  <2>7. UNCHANGED users
    BY <2>1 DEF Click, data
  <2> HIDE DEF Page
  <2>8. UsersPage(page)'
    BY <2>1, <2>4, <2>5, <2>6, <2>7 DEF UsersPage, Page
  <2> QED BY <1>1, <2>1, <2>8, UsersClicks
<1>10. ASSUME StartCreate PROVE ProtoInv'
  <2> DEFINE f == [id |-> Null, row |-> [role |-> "WORKER", active |-> TRUE, password |-> Null]]
  <2>1. /\ page' = [page EXCEPT !.creating = TRUE, !.selected = Null, !.form = f]
        /\ Click /\ page.dialog = "none"
    BY <1>1, <1>10 DEF StartCreate, Free, Covered
  <2>2. f \in Panel
    BY DEF Panel, Draft, ProtoInv, Setting
  <2>3. page' \in Page
    BY <1>3, <2>1, <2>2
  <2>4. PanelInv(f)'
    BY <2>2 DEF PanelInv
  <2>5. page'.form = f /\ page'.selected = Null /\ page'.dialog = "none"
    BY <1>3, <2>1
  <2> HIDE DEF f
  <2>6. UsersPage(page)'
    BY <2>3, <2>4, <2>5 DEF UsersPage
  <2> QED BY <1>1, <2>1, <2>6, UsersClicks
<1>11. ASSUME CloseEdit PROVE ProtoInv'
  <2>1. /\ page' = [page EXCEPT !.creating = FALSE, !.selected = Null, !.form = Null]
        /\ Click /\ page.dialog = "none"
    BY <1>1, <1>11 DEF CloseEdit, Free, Covered
  <2>2. UsersPage(page)'
    BY <1>3, <2>1 DEF UsersPage
  <2> QED BY <1>1, <2>1, <2>2, UsersClicks
<1>12. ASSUME NEW r \in Roles, EditRole(r) PROVE ProtoInv'
  <2>0. PICK f : f = [page.form EXCEPT !.row.role = r]
    OBVIOUS
  <2>1. /\ page' = [page EXCEPT !.form.row.role = r] /\ page.form # Null
        /\ Click /\ page.dialog = "none"
    BY <1>1, <1>12 DEF EditRole, Free, Covered
  <2>2. PanelInv(page.form)
    BY <1>2, <2>1 DEF UsersPage
  <2>3. page.form \in Panel /\ page.form.row \in Draft
    BY <2>2 DEF PanelInv, Panel
  <2>4. f \in Panel /\ f.id = page.form.id /\ f.row.active = page.form.row.active
                    /\ f.row.password = page.form.row.password
    BY <2>0, <2>3 DEF Panel, Draft
  <2>5. page' = [page EXCEPT !.form = f]
    BY <1>3, <2>0, <2>1, <2>3 DEF Panel
  <2>6. page' \in Page /\ page'.form = f /\ page'.dialog = "none" /\ page'.selected = page.selected
    BY <1>3, <2>1, <2>4, <2>5
  <2>7. PanelInv(f)'
    BY <2>1, <2>2, <2>4 DEF PanelInv, Click, data, shell
  <2>8. UNCHANGED users
    BY <2>1 DEF Click, data
  <2>9. UsersPage(page)'
    BY <1>2, <2>6, <2>7, <2>8 DEF UsersPage
  <2> QED BY <1>1, <2>1, <2>9, UsersClicks
<1>13. ASSUME NEW a \in Accounts, NEW p \in Passwords, SaveNew(a, p) PROVE ProtoInv'
  <2>0. PICK row, f : row = [page.form.row EXCEPT !.password = p]
                      /\ f = [page.form EXCEPT !.row = row]
    OBVIOUS
  <2>1. /\ users[a] = Null /\ page.creating /\ page.dialog = "none" /\ Act
        /\ users' = [users EXCEPT ![a] = row]
        /\ page' = [page EXCEPT !.selected = a, !.creating = FALSE, !.form.row = row]
        /\ UNCHANGED <<tables, entries, made, shell>>
    BY <1>1, <1>13, <2>0 DEF SaveNew, Free, Covered
  <2>2. PanelInv(page.form)
    BY <1>2, <2>1 DEF UsersPage
  <2>3. page.form \in Panel /\ page.form.row \in Draft
    BY <2>2 DEF PanelInv, Panel
  <2>4. row \in Row /\ row \in Draft /\ row.active = page.form.row.active /\ row.password = p
    BY <2>0, <2>3 DEF Draft, Row
  <2>5. page' = [page EXCEPT !.selected = a, !.creating = FALSE, !.form = f]
    BY <1>3, <2>0, <2>1, <2>3 DEF Panel
  <2>6. f \in Panel /\ f.id = page.form.id /\ f.row = row
    BY <2>0, <2>3, <2>4 DEF Panel
  <2>7. page' \in Page /\ page'.form = f /\ page'.dialog = "none" /\ page'.selected = a
    BY <1>3, <2>1, <2>5, <2>6
  <2>8. users'[a] # Null /\ \A x \in Accounts : users[x] # Null => users'[x] # Null
    BY <1>4, <2>1, <2>4
  <2>9. PanelInv(f)'
    <3>1. UNCHANGED <<session, strayed>>
      BY <2>1 DEF shell
    <3>2. f.id \in Accounts \cup {Null}
      BY <2>6 DEF Panel
    <3> QED BY <2>2, <2>4, <2>6, <2>8, <3>1, <3>2 DEF PanelInv
  <2>10. UsersPage(page)'
    BY <2>7, <2>8, <2>9 DEF UsersPage
  <2>11. PageInv'
    BY <1>1, <2>1, <2>10 DEF PageInv, On, shell
  <2>12. acts' \in 0..MaxActs
    BY <2>1, ActsTyped
  <2>13. session.account # a
    BY <1>7, <2>1
  <2> QED BY <1>1, <2>1, <2>4, <2>11, <2>12, <2>13, UserSteps DEF On
<1>14. ASSUME SaveUser PROVE ProtoInv'
  <2>1. /\ page.selected # Null /\ page.form.id # Null /\ page.dialog = "none" /\ Act
        /\ users' = [users EXCEPT ![page.form.id] = page.form.row]
        /\ UNCHANGED <<tables, entries, made, shell, page>>
    BY <1>1, <1>14 DEF SaveUser, Free, Covered
  <2>2. PanelInv(page.form)
    BY <1>2, <2>1 DEF UsersPage
  <2>3. page.form.id \in Accounts /\ page.form.row \in Row
    BY <2>1, <2>2 DEF PanelInv, Panel, Draft, Row
  <2>4. \A x \in Accounts : users[x] # Null => users'[x] # Null
    BY <1>4, <2>1, <2>3
  <2>5. UsersPage(page)'
    <3>1. UNCHANGED <<session, strayed, page>>
      BY <2>1 DEF shell
    <3>2. page.selected \in Accounts \cup {Null} /\ (page.selected # Null => users'[page.selected] # Null)
      BY <1>2, <1>3, <2>4 DEF UsersPage
    <3>3. PanelInv(page.form)'
      BY <2>1, <2>2, <2>3, <2>4, <3>1 DEF PanelInv
    <3> QED BY <1>2, <2>1, <3>1, <3>2, <3>3 DEF UsersPage
  <2>6. PageInv'
    BY <1>1, <2>1, <2>5 DEF PageInv, On, shell
  <2>7. acts' \in 0..MaxActs
    BY <2>1, ActsTyped
  <2>8. session.account = page.form.id /\ ~strayed => page.form.row.active
    BY <2>1, <2>2 DEF PanelInv
  <2> QED BY <1>1, <2>1, <2>3, <2>6, <2>7, <2>8, UserSteps DEF On
<1>15. ASSUME AskDeactivate \/ AskReset \/ CancelUser PROVE ProtoInv'
  <2>1. PICK d \in {"none", "deactivate", "reset"} :
          /\ page' = [page EXCEPT !.dialog = d] /\ Click
          /\ d # "none" => page.selected # Null
          /\ d = "deactivate" => page.selected # session.account
    BY <1>15 DEF AskDeactivate, AskReset, CancelUser, MayDeactivate
  <2>2. /\ page' \in Page /\ page'.dialog = d
        /\ page'.selected = page.selected /\ page'.form = page.form /\ page'.creating = page.creating
    BY <1>3, <2>1
  <2>3. UNCHANGED <<users, session, strayed>>
    BY <2>1 DEF Click, data, shell
  <2>4. UsersPage(page)'
    BY <1>2, <2>1, <2>2, <2>3 DEF UsersPage, PanelInv
  <2> QED BY <1>1, <2>1, <2>4, UsersClicks
<1>16. ASSUME Deactivate PROVE ProtoInv'
  <2>1. /\ page.dialog = "deactivate" /\ Act
        /\ users' = [users EXCEPT ![page.selected].active = FALSE]
        /\ page' = [page EXCEPT !.dialog = "none", !.creating = FALSE, !.selected = Null, !.form = Null]
        /\ UNCHANGED <<tables, entries, made, shell>>
    BY <1>16 DEF Deactivate
  <2>2. page.selected \in Accounts /\ users[page.selected] \in Row
        /\ (~strayed => page.selected # session.account)
    BY <1>2, <1>3, <1>5, <2>1 DEF UsersPage
  <2>3. PICK row \in Row : users' = [users EXCEPT ![page.selected] = row]
    <3>1. [users[page.selected] EXCEPT !.active = FALSE] \in Row
      BY <2>2 DEF Row
    <3>2. users' = [users EXCEPT ![page.selected] = [users[page.selected] EXCEPT !.active = FALSE]]
      BY <1>4, <2>1, <2>2
    <3> QED BY <3>1, <3>2
  <2>4. UsersPage(page)'
    BY <1>3, <2>1 DEF UsersPage
  <2>5. PageInv'
    BY <1>1, <2>1, <2>4 DEF PageInv, On, shell
  <2>6. acts' \in 0..MaxActs
    BY <2>1, ActsTyped
  <2> QED BY <1>1, <2>1, <2>2, <2>3, <2>5, <2>6, UserSteps DEF On
<1>17. ASSUME Reactivate PROVE ProtoInv'
  <2>1. /\ page.selected # Null /\ page.dialog = "none" /\ Act
        /\ users' = [users EXCEPT ![page.selected].active = TRUE]
        /\ UNCHANGED <<tables, entries, made, shell, page>>
    BY <1>1, <1>17 DEF Reactivate, Free, Covered
  <2>2. page.selected \in Accounts /\ users[page.selected] \in Row
    BY <1>2, <1>3, <1>5, <2>1 DEF UsersPage
  <2>3. PICK row \in Row : row.active /\ users' = [users EXCEPT ![page.selected] = row]
    <3>1. [users[page.selected] EXCEPT !.active = TRUE] \in Row
          /\ [users[page.selected] EXCEPT !.active = TRUE].active
      BY <2>2 DEF Row
    <3>2. users' = [users EXCEPT ![page.selected] = [users[page.selected] EXCEPT !.active = TRUE]]
      BY <1>4, <2>1, <2>2
    <3> QED BY <3>1, <3>2
  <2>4. \A x \in Accounts : users[x] # Null => users'[x] # Null
    BY <1>4, <2>2, <2>3
  <2>5. UNCHANGED <<session, strayed, page>>
    BY <2>1 DEF shell
  <2>6. UsersPage(page)'
    <3>1. page.selected # Null => users'[page.selected] # Null
      BY <1>2, <2>2, <2>4 DEF UsersPage
    <3>2. PanelInv(page.form) => PanelInv(page.form)'
      BY <2>4, <2>5 DEF PanelInv, Panel
    <3> QED BY <1>2, <2>5, <3>1, <3>2 DEF UsersPage
  <2>7. PageInv'
    BY <1>1, <2>1, <2>6 DEF PageInv, On, shell
  <2>8. acts' \in 0..MaxActs
    BY <2>1, ActsTyped
  <2> QED BY <1>1, <2>1, <2>2, <2>3, <2>7, <2>8, UserSteps DEF On
<1>18. ASSUME NEW p \in Passwords, ResetPassword(p) PROVE ProtoInv'
  <2>1. /\ page.dialog = "reset" /\ Act
        /\ users' = [users EXCEPT ![page.selected].password = p]
        /\ page' = [page EXCEPT !.dialog = "none"]
        /\ UNCHANGED <<tables, entries, made, shell>>
    BY <1>18 DEF ResetPassword
  <2>2. page.selected \in Accounts /\ users[page.selected] \in Row
    BY <1>2, <1>3, <1>5, <2>1 DEF UsersPage
  <2>3. PICK row \in Row : /\ row.active = users[page.selected].active
                           /\ users' = [users EXCEPT ![page.selected] = row]
    <3>1. [users[page.selected] EXCEPT !.password = p] \in Row
          /\ [users[page.selected] EXCEPT !.password = p].active = users[page.selected].active
      BY <2>2 DEF Row
    <3>2. users' = [users EXCEPT ![page.selected] = [users[page.selected] EXCEPT !.password = p]]
      BY <1>4, <2>1, <2>2
    <3> QED BY <3>1, <3>2
  <2>4. \A x \in Accounts : users[x] # Null => users'[x] # Null
    BY <1>4, <2>2, <2>3
  <2>5. /\ page' \in Page /\ page'.dialog = "none"
        /\ page'.selected = page.selected /\ page'.form = page.form /\ page'.creating = page.creating
    BY <1>3, <2>1
  <2>6. UsersPage(page)'
    <3>1. page.selected # Null => users'[page.selected] # Null
      BY <1>2, <2>2, <2>4 DEF UsersPage
    <3>2. PanelInv(page.form) => PanelInv(page.form)'
      BY <2>1, <2>4, <2>5 DEF PanelInv, Panel, shell
    <3> QED BY <1>2, <2>5, <3>1, <3>2 DEF UsersPage
  <2>7. PageInv'
    BY <1>1, <2>1, <2>6 DEF PageInv, On, shell
  <2>8. acts' \in 0..MaxActs
    BY <2>1, ActsTyped
  <2>9. session.account = page.selected /\ ~strayed => users[page.selected].active
    BY <1>6
  <2> QED BY <1>1, <2>1, <2>2, <2>3, <2>7, <2>8, <2>9, UserSteps DEF On
<1> QED BY <1>8, <1>9, <1>10, <1>11, <1>12, <1>13, <1>14, <1>15, <1>16, <1>17, <1>18
       DEF UsersNext

-----------------------------------------------------------------------------
(* The page of the tables.                                                  *)

LEMMA LookupsPageSteps ==
  ASSUME ProtoInv, LookupsNext
  PROVE  ProtoInv'
<1> DEFINE Modal == [id : Items \cup {Null}, live : BOOLEAN]
           Question == [id : Items, live : BOOLEAN]
           Page == [tab : Kinds, status : {"active", "inactive", "all"},
                    modal : Modal \cup {Null}, confirm : Question \cup {Null}]
<1>1. On("lookups")
  BY DEF LookupsNext, ChooseTab, ChooseItemStatus, OpenItem, OpenNewItem, CloseItem, SaveItem,
         AskToggle, ToggleItem, Free
<1>2. session # Null /\ route = "lookups" /\ page \in Page
  BY <1>1 DEF ProtoInv, PageInv, LookupsPage, On
<1>3. ASSUME UNCHANGED shell, page' \in Page PROVE PageInv'
  BY <1>2, <1>3 DEF PageInv, LookupsPage, shell
<1>4. ASSUME Click, page' \in Page PROVE ProtoInv'
  <2>1. UNCHANGED <<data, shell>> /\ acts' \in 0..MaxActs
    BY <1>4, ActsTyped DEF Click
  <2> HIDE DEF Page
  <2> QED BY <1>2, <1>3, <1>4, <2>1, PageSteps
<1>5. ASSUME NEW k \in Kinds, ChooseTab(k) PROVE ProtoInv'
  <2>1. page' \in Page
    BY <1>2, <1>5 DEF ChooseTab
  <2> HIDE DEF Page
  <2> QED BY <1>4, <1>5, <2>1 DEF ChooseTab
<1>6. ASSUME NEW s \in {"active", "inactive", "all"}, ChooseItemStatus(s) PROVE ProtoInv'
  <2>1. page' \in Page
    BY <1>2, <1>6 DEF ChooseItemStatus
  <2> HIDE DEF Page
  <2> QED BY <1>4, <1>6, <2>1 DEF ChooseItemStatus
<1>7. ASSUME NEW i \in Items, OpenItem(i) PROVE ProtoInv'
  <2>1. page' \in Page
    <3>1. [id |-> i, live |-> i \in tables[page.tab].live] \in Question
      <4>1. (i \in tables[page.tab].live) \in BOOLEAN
        BY SMT
      <4> QED BY <4>1, Zenon
    <3>2. [id |-> i, live |-> i \in tables[page.tab].live] \in Modal
      <4>1. Question \subseteq Modal
        OBVIOUS
      <4> HIDE DEF Question, Modal
      <4> QED BY <3>1, <4>1
    <3> HIDE DEF Modal
    <3> QED BY <1>2, <1>7, <3>2 DEF OpenItem
  <2> HIDE DEF Page
  <2> QED BY <1>4, <1>7, <2>1 DEF OpenItem
<1>8. ASSUME OpenNewItem PROVE ProtoInv'
  <2>1. page' \in Page
    BY <1>2, <1>8 DEF OpenNewItem
  <2> HIDE DEF Page
  <2> QED BY <1>4, <1>8, <2>1 DEF OpenNewItem
<1>9. ASSUME CloseItem PROVE ProtoInv'
  <2>1. page' \in Page
    BY <1>2, <1>9 DEF CloseItem
  <2> HIDE DEF Page
  <2> QED BY <1>4, <1>9, <2>1 DEF CloseItem
<1>10. ASSUME NEW i \in Items, AskToggle(i) PROVE ProtoInv'
  <2>1. page' \in Page
    <3>1. [id |-> i, live |-> i \notin tables[page.tab].live] \in Question
      BY Zenon
    <3> HIDE DEF Question
    <3> QED BY <1>2, <1>10, <3>1 DEF AskToggle
  <2> HIDE DEF Page
  <2> QED BY <1>4, <1>10, <2>1 DEF AskToggle
<1>11. ASSUME NEW i \in Items, SaveItem(i) PROVE ProtoInv'
  <2>1. /\ page.modal # Null /\ Act
        /\ tables' = [tables EXCEPT ![page.tab] = WithItem(@, i, page.modal.live)]
        /\ page' = [page EXCEPT !.modal = Null]
        /\ UNCHANGED <<users, entries, made, shell>>
    BY <1>11 DEF SaveItem
  <2>2. page' \in Page /\ page.tab \in Kinds /\ page.modal.live \in BOOLEAN
    BY <1>2, <2>1
  <2>3. PageInv'
    <3> HIDE DEF Page
    <3> QED BY <1>3, <2>1, <2>2
  <2>4. acts' \in 0..MaxActs
    BY <2>1, ActsTyped
  <2> HIDE DEF Page
  <2> QED BY <1>2, <2>1, <2>2, <2>3, <2>4, TableSteps
<1>12. ASSUME ToggleItem PROVE ProtoInv'
  <2>1. /\ page.confirm # Null /\ Act
        /\ tables' = [tables EXCEPT ![page.tab] = WithItem(@, page.confirm.id, page.confirm.live)]
        /\ page' = [page EXCEPT !.confirm = Null]
        /\ UNCHANGED <<users, entries, made, shell>>
    BY <1>12 DEF ToggleItem
  <2>2. /\ page' \in Page /\ page.tab \in Kinds
        /\ page.confirm.id \in Items /\ page.confirm.live \in BOOLEAN
    BY <1>2, <2>1
  <2>3. PageInv'
    <3> HIDE DEF Page
    <3> QED BY <1>3, <2>1, <2>2
  <2>4. acts' \in 0..MaxActs
    BY <2>1, ActsTyped
  <2> HIDE DEF Page
  <2> QED BY <1>2, <2>1, <2>2, <2>3, <2>4, TableSteps
<1> QED BY <1>5, <1>6, <1>7, <1>8, <1>9, <1>10, <1>11, <1>12 DEF LookupsNext

-----------------------------------------------------------------------------
(* The fields of an entry, the page of a day and the list: their clicks.    *)

LEMMA FormOfFits ==
  ASSUME ProtoInv, NEW e \in Range(entries)
  PROVE  FormInv(FormOf(e)) /\ e.id \in 1..MaxEntries
<1>1. e \in Entry
  BY Typed
<1>2. /\ e.category \in tables[TableOf(e.activity)].listed
      /\ IF e.activity = ProjectActivity
         THEN e.project \in tables["projects"].listed ELSE e.project = Null
  BY DEF ProtoInv, EntriesInv, EntriesFit
<1>3. FormOf(e) \in Form
  BY <1>1 DEF Entry, Form, FormOf
<1> QED BY <1>1, <1>2, <1>3 DEF FormInv, FormOf, Entry

LEMMA EntryPageSteps ==
  ASSUME ProtoInv, On("workload-entry"), UNCHANGED <<data, shell>>, acts' \in 0..MaxActs,
         EntryPage(page)'
  PROVE  ProtoInv'
<1>1. session # Null /\ route = "workload-entry"
  BY DEF On
<1>2. PageInv'
  BY <1>1 DEF PageInv, shell
<1> QED BY <1>1, <1>2, PageSteps

LEMMA ListPageSteps ==
  ASSUME ProtoInv, On("workload-list"), UNCHANGED <<data, shell>>, acts' \in 0..MaxActs,
         ListPage(page)'
  PROVE  ProtoInv'
<1>1. session # Null /\ route = "workload-list"
  BY DEF On
<1>2. PageInv'
  BY <1>1 DEF PageInv, shell
<1> QED BY <1>1, <1>2, PageSteps

LEMMA PageTyped ==
  ASSUME ProtoInv
  PROVE  /\ On("workload-entry") => EntryPage(page)
         /\ On("workload-list") => ListPage(page)
BY DEF ProtoInv, PageInv, On

\* A field of the form is filled in.
LEMMA FormSteps ==
  ASSUME ProtoInv, FormOpen, Click, NEW f, FormInv(f), page' = [page EXCEPT !.form = f]
  PROVE  ProtoInv'
<1>1. UNCHANGED <<data, shell>> /\ acts' \in 0..MaxActs
  BY ActsTyped DEF Click
<1>2. FormInv(f)' /\ f \in Form
  BY <1>1 DEF FormInv, data
<1>3. CASE On("workload-entry")
  <2>1. EntryPage(page)
    BY <1>3, PageTyped
  <2>2. /\ page' \in [date : Days, editing : 1..MaxEntries \cup {Null}, form : Form,
                      confirm : 1..MaxEntries \cup {Null}]
        /\ page'.form = f /\ page'.date = page.date
        /\ page'.editing = page.editing /\ page'.confirm = page.confirm
    BY <1>2, <2>1 DEF EntryPage
  <2>3. \A id, day : OwnEntry(id, day) => OwnEntry(id, day)'
    BY <1>1 DEF OwnEntry, data, shell
  <2>4. EntryPage(page)'
    BY <1>1, <1>2, <2>1, <2>2, <2>3 DEF EntryPage, shell
  <2> QED BY <1>1, <1>3, <2>4, EntryPageSteps
<1>4. CASE On("workload-list") /\ page.form # Null
  <2>1. ListPage(page)
    BY <1>4, PageTyped
  <2>2. /\ page' \in [filter : [from : Int, only : Accounts \cup {Null}], size : Sizes,
              number : Nat \ {0}, key : {"work_date", "user"}, dir : {"asc", "desc"},
              editing : 1..MaxEntries \cup {Null}, form : Form \cup {Null},
              confirm : 1..MaxEntries \cup {Null}]
        /\ page'.form = f /\ page'.editing = page.editing /\ page'.confirm = page.confirm
    BY <1>2, <2>1 DEF ListPage
  <2>3. \A id : EditableEntry(id) => EditableEntry(id)'
    BY <1>1 DEF EditableEntry, data
  <2>4. ListPage(page)'
    BY <1>1, <1>2, <1>4, <2>1, <2>2, <2>3 DEF ListPage, shell
  <2> QED BY <1>1, <1>4, <2>4, ListPageSteps
<1> QED BY <1>3, <1>4 DEF FormOpen, Free

LEMMA FieldSteps ==
  ASSUME ProtoInv, NEW x \in Items, ChooseActivity(x) \/ ChooseCategory(x) \/ ChooseProject(x)
  PROVE  ProtoInv'
<1>1. FormOpen /\ Click
  BY DEF ChooseActivity, ChooseCategory, ChooseProject
<1>2. FormInv(page.form) /\ page.form \in Form
  BY <1>1, PageTyped DEF FormOpen, Free, EntryPage, ListPage, FormInv
<1>3. \A k \in Kinds : tables[k].live \subseteq tables[k].listed
  BY DEF ProtoInv, TablesInv
<1>4. CASE ChooseActivity(x)
  <2>1. FormInv(WithActivity(page.form, x))
    BY DEF FormInv, WithActivity, Form
  <2> QED BY <1>1, <1>4, <2>1, FormSteps DEF ChooseActivity
<1>5. CASE ChooseCategory(x)
  <2>1. PICK f : f = [page.form EXCEPT !.category = x]
    OBVIOUS
  <2>2. f \in Form /\ f.category = x /\ f.activity = page.form.activity /\ f.project = page.form.project
    BY <1>2, <2>1 DEF Form
  <2>3. page.form.activity \in Activities /\ x \in tables[TableOf(page.form.activity)].listed
    <3>1. x \in Live(TableOf(page.form.activity))
      BY <1>5 DEF ChooseCategory
    <3>2. page.form.activity \in Activities
      BY <3>1 DEF Live, TableOf
    <3>3. TableOf(page.form.activity) \in Kinds /\ TableOf(page.form.activity) # "none"
      BY <3>2 DEF TableOf, Kinds, Activities
    <3> QED BY <1>3, <3>1, <3>2, <3>3 DEF Live
  <2>4. FormInv(f)
    BY <1>2, <2>2, <2>3 DEF FormInv
  <2>5. page' = [page EXCEPT !.form = f]
    <3>1. page' = [page EXCEPT !.form.category = x]
      BY <1>5 DEF ChooseCategory
    <3> QED BY <2>1, <3>1
  <2> QED BY <1>1, <2>4, <2>5, FormSteps
<1>6. CASE ChooseProject(x)
  <2>1. PICK f : f = [page.form EXCEPT !.project = x]
    OBVIOUS
  <2>2. f \in Form /\ f.project = x /\ f.activity = page.form.activity /\ f.category = page.form.category
    BY <1>2, <2>1 DEF Form
  <2>3. x \in tables["projects"].listed
    <3>1. x \in Live("projects") /\ "projects" \in Kinds
      BY <1>6 DEF ChooseProject, Kinds
    <3> QED BY <1>3, <3>1 DEF Live
  <2>4. FormInv(f)
    BY <1>2, <2>2, <2>3 DEF FormInv
  <2>5. page' = [page EXCEPT !.form = f]
    <3>1. page' = [page EXCEPT !.form.project = x]
      BY <1>6 DEF ChooseProject
    <3> QED BY <2>1, <3>1
  <2> QED BY <1>1, <2>4, <2>5, FormSteps
<1> QED BY <1>4, <1>5, <1>6

-----------------------------------------------------------------------------
(* What becomes of the entries.                                             *)

Patch(e, patch) == [k \in DOMAIN e |-> IF k \in DOMAIN patch THEN patch[k] ELSE e[k]]

Fits(e) ==
  /\ users[e.owner] # Null
  /\ e.activity \in Activities /\ e.category \in tables[TableOf(e.activity)].listed
  /\ IF e.activity = ProjectActivity THEN e.project \in tables["projects"].listed ELSE e.project = Null

LEMMA OneOfEachId ==
  ASSUME ProtoInv, NEW e \in Range(entries), NEW f \in Range(entries), e.id = f.id
  PROVE  e = f
BY Typed DEF ProtoInv, EntriesInv

LEMMA AllFit ==
  ASSUME ProtoInv, NEW e \in Range(entries)
  PROVE  Fits(e) /\ e.id <= made /\ e \in Entry
BY Typed DEF ProtoInv, EntriesInv, EntriesFit, Fits

\* A patch with the owner and the day, and one without.
LEMMA FullPatch ==
  ASSUME NEW e \in Entry,
         NEW p \in [owner : Accounts, day : Days, activity : Activities, category : Items,
                    project : Items \cup {Null}]
  PROVE  Patch(e, p) = [id |-> e.id, owner |-> p.owner, day |-> p.day, activity |-> p.activity,
                        category |-> p.category, project |-> p.project]
<1>1. DOMAIN e = {"id", "owner", "day", "activity", "category", "project"}
      /\ DOMAIN p = {"owner", "day", "activity", "category", "project"}
  BY DEF Entry
<1>2. DOMAIN Patch(e, p) = {"id", "owner", "day", "activity", "category", "project"}
      /\ Patch(e, p).id = e.id /\ Patch(e, p).owner = p.owner /\ Patch(e, p).day = p.day
      /\ Patch(e, p).activity = p.activity /\ Patch(e, p).category = p.category
      /\ Patch(e, p).project = p.project
  BY <1>1 DEF Patch
<1> QED BY <1>1, <1>2 DEF Patch

LEMMA FieldsPatch ==
  ASSUME NEW e \in Entry,
         NEW p \in [activity : Activities, category : Items, project : Items \cup {Null}]
  PROVE  Patch(e, p) = [id |-> e.id, owner |-> e.owner, day |-> e.day, activity |-> p.activity,
                        category |-> p.category, project |-> p.project]
<1>1. DOMAIN e = {"id", "owner", "day", "activity", "category", "project"}
      /\ DOMAIN p = {"activity", "category", "project"}
  BY DEF Entry
<1>2. DOMAIN Patch(e, p) = {"id", "owner", "day", "activity", "category", "project"}
      /\ Patch(e, p).id = e.id /\ Patch(e, p).owner = e.owner /\ Patch(e, p).day = e.day
      /\ Patch(e, p).activity = p.activity /\ Patch(e, p).category = p.category
      /\ Patch(e, p).project = p.project
  BY <1>1 DEF Patch
<1> QED BY <1>1, <1>2 DEF Patch

\* updateEntry: the others stay, and what is overwritten is as good as the patch.
LEMMA Overwriting ==
  ASSUME ProtoInv, NEW id, NEW patch, UNCHANGED <<users, tables, made>>,
         entries' = Patched(id, patch),
         \A e \in Range(entries) :
            e.id = id => Patch(e, patch) \in Entry /\ Patch(e, patch).id = id /\ Fits(Patch(e, patch))
  PROVE  /\ entries' \in Seq(Entry) /\ EntriesInv'
         /\ \A f \in Range(entries') :
              \/ f \in Range(entries) /\ f.id # id
              \/ \E e \in Range(entries) : e.id = id /\ f = Patch(e, patch)
         /\ \A e \in Range(entries) : e.id # id => e \in Range(entries')
<1> DEFINE n == Len(entries)
           D == 1..n
<1>1. n \in Nat /\ DOMAIN entries = D /\ Range(entries) = {entries[i] : i \in D}
      /\ \A i \in D : entries[i] \in Range(entries) /\ entries[i] \in Entry
  BY Typed
<1>2. entries' = [i \in D |-> IF entries[i].id = id THEN Patch(entries[i], patch) ELSE entries[i]]
  BY <1>1 DEF Patched, Patch
<1>3. \A i \in D : /\ entries'[i] \in Entry /\ Fits(entries'[i])
                   /\ entries'[i].id = entries[i].id
  BY <1>1, <1>2, AllFit
<1>4. entries' \in Seq(Entry) /\ DOMAIN entries' = D /\ Len(entries') = n
  <2> HIDE DEF n
  <2>1. entries' \in [D -> Entry]
    BY <1>2, <1>3
  <2>2. entries' \in Seq(Entry)
    BY <1>1, <2>1, SeqDef
  <2> QED BY <1>1, <1>2, <2>2, LenProperties
<1>5. Range(entries') = {entries'[i] : i \in D}
  BY <1>4 DEF Range
<1> HIDE DEF D
<1>6. EntriesInv'
  <2>1. EntriesFit'
    BY <1>3, <1>5 DEF EntriesFit, Fits
  <2>2. \A i, j \in D : entries'[i].id = entries'[j].id => i = j
    BY <1>3 DEF ProtoInv, EntriesInv, D
  <2>3. \A i \in D : entries'[i].id <= made
    BY <1>3 DEF ProtoInv, EntriesInv, D
  <2> QED BY <1>4, <2>1, <2>2, <2>3 DEF EntriesInv, D
<1>7. ASSUME NEW f \in Range(entries')
      PROVE  \/ f \in Range(entries) /\ f.id # id
             \/ \E e \in Range(entries) : e.id = id /\ f = Patch(e, patch)
  <2>1. PICK i \in D : f = entries'[i]
    BY <1>5
  <2> QED BY <1>1, <1>2, <2>1
<1>8. ASSUME NEW e \in Range(entries), e.id # id PROVE e \in Range(entries')
  <2>1. PICK i \in D : e = entries[i]
    BY <1>1
  <2>2. entries'[i] = e
    BY <1>2, <1>8, <2>1
  <2> QED BY <1>5, <2>2
<1> QED BY <1>4, <1>6, <1>7, <1>8

\* A new entry at the front.
LEMMA Adding ==
  ASSUME ProtoInv, NEW e \in Entry, UNCHANGED <<users, tables>>, made' = made + 1,
         e.id = made + 1, Fits(e), entries' = <<e>> \o entries
  PROVE  /\ entries' \in Seq(Entry) /\ EntriesInv'
         /\ Range(entries') = Range(entries) \cup {e}
<1> DEFINE n == Len(entries)
<1>1. n \in Nat /\ Range(entries) = {entries[i] : i \in 1..n} /\ entries \in Seq(Entry)
      /\ made \in Nat
  BY Typed DEF ProtoInv, TypeOK
<1>2. <<e>> \in Seq(Entry) /\ Len(<<e>>) = 1 /\ <<e>>[1] = e
  OBVIOUS
<1>3. /\ entries' \in Seq(Entry) /\ Len(entries') = n + 1
      /\ entries'[1] = e
      /\ \A i \in 2..(n + 1) : entries'[i] = entries[i - 1]
  <2> HIDE DEF n
  <2>1. /\ entries' \in Seq(Entry) /\ Len(entries') = 1 + n
        /\ \A i \in 1..(1 + n) : entries'[i] = IF i <= 1 THEN <<e>>[i] ELSE entries[i - 1]
    BY <1>1, <1>2, ConcatProperties DEF n
  <2> QED BY <1>1, <1>2, <2>1
<1>4. Range(entries') = {entries'[i] : i \in 1..(n + 1)}
  BY <1>3, LenProperties DEF Range
<1> HIDE DEF n
<1>5. Range(entries') = Range(entries) \cup {e}
  <2>1. ASSUME NEW x \in Range(entries) PROVE x \in Range(entries')
    <3>1. PICK i \in 1..n : x = entries[i]
      BY <1>1
    <3>2. i + 1 \in 2..(n + 1) /\ i + 1 \in 1..(n + 1) /\ (i + 1) - 1 = i
      BY <1>1
    <3>3. entries'[i + 1] = x
      BY <1>3, <3>1, <3>2
    <3> QED BY <1>4, <3>2, <3>3
  <2>2. ASSUME NEW x \in Range(entries') PROVE x \in Range(entries) \cup {e}
    <3>1. PICK i \in 1..(n + 1) : x = entries'[i]
      BY <1>4
    <3>2. i = 1 \/ (i \in 2..(n + 1) /\ i - 1 \in 1..n)
      BY <1>1
    <3> QED BY <1>1, <1>3, <3>1, <3>2
  <2>3. e \in Range(entries')
    <3>1. 1 \in 1..(n + 1)
      BY <1>1
    <3> QED BY <1>3, <1>4, <3>1
  <2> QED BY <2>1, <2>2, <2>3
<1>6. EntriesInv'
  <2>1. EntriesFit'
    BY <1>5, AllFit DEF EntriesFit, Fits
  <2>2. \A i \in 1..n : entries[i].id <= made /\ entries[i].id \in Nat
    BY <1>1, AllFit DEF Entry
  <2>3. \A i, j \in 1..n : entries[i].id = entries[j].id => i = j
    BY DEF ProtoInv, EntriesInv, n
  <2>4. \A i \in 1..(n + 1) : \/ i = 1 /\ entries'[i].id = made + 1
                              \/ i - 1 \in 1..n /\ entries'[i].id = entries[i - 1].id
    BY <1>1, <1>3
  <2>5. PICK m, old, new : /\ m = made /\ m \in Nat
                           /\ old = [i \in 1..n |-> entries[i].id]
                           /\ new = [i \in 1..(n + 1) |-> entries'[i].id]
    BY <1>1
  <2>6. /\ m \in Nat /\ n \in Nat
        /\ \A i \in 1..n : old[i] <= m /\ old[i] \in Nat
        /\ \A i, j \in 1..n : old[i] = old[j] => i = j
        /\ \A i \in 1..(n + 1) : \/ i = 1 /\ new[i] = m + 1
                                 \/ i - 1 \in 1..n /\ new[i] = old[i - 1]
    BY <1>1, <2>2, <2>3, <2>4, <2>5
  <2>7. \A i \in 1..(n + 1) : new[i] <= m + 1
    <3> SUFFICES ASSUME NEW i \in 1..(n + 1) PROVE new[i] <= m + 1
      OBVIOUS
    <3>1. CASE i = 1
      <4>1. new[i] = m + 1
        BY <2>6, <3>1
      <4> QED BY <2>6, <4>1
    <3>2. CASE i # 1
      BY <2>6, <3>2
    <3> QED BY <3>1, <3>2
  <2>8. \A i, j \in 1..(n + 1) : new[i] = new[j] => i = j
    <3> SUFFICES ASSUME NEW i \in 1..(n + 1), NEW j \in 1..(n + 1), new[i] = new[j]
                 PROVE  i = j
      OBVIOUS
    <3>1. CASE i = 1
      BY <2>6, <3>1
    <3>2. CASE j = 1
      BY <2>6, <3>2
    <3>3. CASE i # 1 /\ j # 1
      <4>1. i - 1 = j - 1
        BY <2>6, <3>3
      <4> QED BY <1>1, <4>1
    <3> QED BY <3>1, <3>2, <3>3
  <2>9. \A i \in 1..(n + 1) : entries'[i].id <= made'
    BY <2>5, <2>7
  <2>10. \A i, j \in 1..(n + 1) : entries'[i].id = entries'[j].id => i = j
    BY <2>5, <2>8
  <2> QED BY <1>3, <2>1, <2>9, <2>10 DEF EntriesInv
<1> QED BY <1>3, <1>5, <1>6

\* deleteEntry: exactly the one with the id goes.
LEMMA Deleting ==
  ASSUME ProtoInv, NEW id, UNCHANGED <<users, tables, made>>, DeleteEntry(id)
  PROVE  /\ entries' \in Seq(Entry) /\ EntriesInv'
         /\ Range(entries') = {e \in Range(entries) : e.id # id}
<1> DEFINE P == {i \in DOMAIN entries : entries[i].id # id}
           c == Cardinality(P)
<1>1. entries \in Seq(Entry) /\ P \in SUBSET (1..Len(entries))
      /\ Range(entries) = {entries[i] : i \in 1..Len(entries)} /\ DOMAIN entries = 1..Len(entries)
  BY Typed
<1>2. entries' = Kept(entries, P)
  BY DEF DeleteEntry
<1>3. Range(entries') = {e \in Range(entries) : e.id # id}
  <2>1. Range(entries') = {entries[i] : i \in P}
    <3> HIDE DEF P
    <3> QED BY <1>1, <1>2, KeptRange
  <2> QED BY <1>1, <2>1
<1>4. /\ entries' \in Seq(Entry) /\ Len(entries') = c
      /\ \E f \in [1..c -> P] :
           /\ \A k \in 1..c : entries'[k] = entries[f[k]]
           /\ \A k, l \in 1..c : f[k] = f[l] => k = l
  <2> HIDE DEF P, c
  <2>1. entries \in Seq(Entry) /\ P \in SUBSET (1..Len(entries))
    BY <1>1
  <2>2. /\ Kept(entries, P) \in Seq(Entry) /\ Len(Kept(entries, P)) = Cardinality(P)
        /\ \E f \in [1..Cardinality(P) -> P] :
             /\ \A k \in 1..Cardinality(P) : Kept(entries, P)[k] = entries[f[k]]
             /\ \A k, l \in 1..Cardinality(P) : f[k] = f[l] => k = l
    <3>1. PICK f \in [1..Cardinality(P) -> P] :
            /\ \A k \in 1..Cardinality(P) : Kept(entries, P)[k] = entries[f[k]]
            /\ \A k, l \in 1..Cardinality(P) : f[k] = f[l] => k = l
            /\ \A i \in P : \E k \in 1..Cardinality(P) : f[k] = i
      <4> DEFINE Fit(s, Q, f) ==
                   /\ \A k \in 1..Cardinality(Q) : Kept(s, Q)[k] = s[f[k]]
                   /\ \A k, l \in 1..Cardinality(Q) : f[k] = f[l] => k = l
                   /\ \A i \in Q : \E k \in 1..Cardinality(Q) : f[k] = i
      <4>1. ASSUME NEW T, NEW s \in Seq(T), NEW Q \in SUBSET (1..Len(s))
            PROVE  \E f \in [1..Cardinality(Q) -> Q] : Fit(s, Q, f)
        BY KeptAre
      <4>2. \E f \in [1..Cardinality(P) -> P] : Fit(entries, P, f)
        <5> HIDE DEF Fit
        <5> QED BY <2>1, <4>1, Zenon
      <4> QED BY <4>2
    <3>2. Kept(entries, P) \in Seq(Entry) /\ Len(Kept(entries, P)) = Cardinality(P)
      BY <2>1, KeptAre, Zenon
    <3> QED BY <3>1, <3>2, Zenon
  <2>3. c = Cardinality(P)
    BY DEF c
  <2> QED BY <1>2, <2>2, <2>3, Zenon
<1>5. PICK f \in [1..c -> P] :
        /\ \A k \in 1..c : entries'[k] = entries[f[k]]
        /\ \A k, l \in 1..c : f[k] = f[l] => k = l
  BY <1>4
<1>6. EntriesInv'
  <2>1. EntriesFit'
    BY <1>3, AllFit DEF EntriesFit, Fits
  <2>2. \A k \in 1..c : f[k] \in 1..Len(entries)
    BY <1>1, <1>5
  <2> HIDE DEF P, c
  <2>3. \A k, l \in 1..c : entries'[k].id = entries'[l].id => k = l
    BY <1>5, <2>2 DEF ProtoInv, EntriesInv
  <2>4. \A k \in 1..c : entries'[k].id <= made'
    BY <1>5, <2>2 DEF ProtoInv, EntriesInv
  <2> QED BY <1>4, <2>1, <2>3, <2>4 DEF EntriesInv
<1> QED BY <1>3, <1>4, <1>6

-----------------------------------------------------------------------------
(* The page of a day.                                                       *)

\* The step leaves every entry with its owner and on its day, and what is too
\* old to be edited altogether.
KeepsPlaces ==
  \A e \in Range(entries) :
    /\ \A f \in Range(entries') : f.id = e.id => f.owner = e.owner /\ f.day = e.day
    /\ ~Editable(e.day) => e \in Range(entries')

\* What the step touches belongs to whoever is logged in.
TouchesOwn ==
  \A e \in Range(entries) \cup Range(entries') :
    \/ e \in Range(entries) \cap Range(entries')
    \/ e.owner = session.account

LEMMA Untouched ==
  ASSUME ProtoInv, UNCHANGED entries
  PROVE  KeepsPlaces /\ TouchesOwn
<1>1. \A e, f \in Range(entries) : e.id = f.id => e = f
  BY OneOfEachId
<1> QED BY <1>1 DEF KeepsPlaces, TouchesOwn

LEMMA EntryClicks ==
  ASSUME ProtoInv,
         \/ \E d \in Days : SetDate(d)
         \/ \E e \in Range(entries) : EditEntry(e) \/ AskDelete(e)
         \/ ResetForm \/ CancelDelete
  PROVE  ProtoInv' /\ UNCHANGED data
<1> DEFINE Page == [date : Days, editing : 1..MaxEntries \cup {Null}, form : Form,
                    confirm : 1..MaxEntries \cup {Null}]
<1>1. On("workload-entry") /\ UNCHANGED <<data, shell>> /\ acts' \in 0..MaxActs
  BY ActsTyped DEF SetDate, EditEntry, AskDelete, ResetForm, CancelDelete, Free, Click
<1>2. EntryPage(page) /\ page \in Page
  BY <1>1, PageTyped DEF EntryPage
<1>3. \A id, day : OwnEntry(id, day) => OwnEntry(id, day)'
  BY <1>1 DEF OwnEntry, data, shell
<1>4. ASSUME NEW f, FormInv(f) PROVE FormInv(f)'
  BY <1>1, <1>4 DEF FormInv, data
<1>5. UNCHANGED strayed
  BY <1>1 DEF shell
<1>6. FormInv(EmptyForm)
  BY DEF FormInv, EmptyForm, Form
<1>7. PICK g : g = page.form /\ FormInv(g)' /\ FormInv(EmptyForm)'
  <2>1. PICK g : g = page.form
    OBVIOUS
  <2> QED BY <1>2, <1>4, <1>6, <2>1 DEF EntryPage
<1>8. EmptyForm \in Form
  BY <1>6 DEF FormInv
<1>9. ASSUME NEW d \in Days, SetDate(d) PROVE EntryPage(page)'
  <2>1. page.confirm = Null
    BY <1>1, <1>9 DEF SetDate, Free, Covered
  <2>2. page' = [[page EXCEPT !.form = EmptyForm, !.editing = Null] EXCEPT !.date = d]
    BY <1>9 DEF SetDate, Cleared
  <2>3. /\ page' \in Page /\ page'.form = EmptyForm /\ page'.editing = Null /\ page'.confirm = Null
    BY <1>2, <1>8, <2>1, <2>2
  <2> QED BY <1>7, <2>3 DEF EntryPage
<1>10. ASSUME NEW e \in Range(entries), EditEntry(e) PROVE EntryPage(page)'
  <2>1. /\ page' = [page EXCEPT !.editing = e.id, !.form = FormOf(e)]
        /\ page.confirm = Null /\ e.owner = session.account /\ e.day = page.date /\ Editable(e.day)
    BY <1>1, <1>10 DEF EditEntry, DayEntries, Free, Covered
  <2>2. FormInv(FormOf(e)) /\ e.id \in 1..MaxEntries
    BY FormOfFits
  <2>3. PICK f : f = FormOf(e)
    OBVIOUS
  <2>4. FormInv(f)' /\ f \in Form
    BY <1>4, <2>2, <2>3 DEF FormInv
  <2>5. /\ page' \in Page /\ page'.form = f /\ page'.editing = e.id /\ page'.confirm = Null
        /\ page'.date = page.date
    BY <1>2, <2>1, <2>2, <2>3, <2>4
  <2>6. OwnEntry(e.id, page.date)
    BY <2>1 DEF OwnEntry
  <2> QED BY <1>3, <1>5, <2>4, <2>5, <2>6 DEF EntryPage
<1>11. ASSUME NEW e \in Range(entries), AskDelete(e) PROVE EntryPage(page)'
  <2>1. /\ page' = [page EXCEPT !.confirm = e.id]
        /\ e.owner = session.account /\ e.day = page.date /\ Editable(e.day)
    BY <1>1, <1>11 DEF AskDelete, DayEntries
  <2>2. e.id \in 1..MaxEntries
    BY FormOfFits
  <2>3. /\ page' \in Page /\ page'.form = g /\ page'.editing = page.editing
        /\ page'.confirm = e.id /\ page'.date = page.date
    BY <1>2, <1>7, <2>1, <2>2
  <2>4. OwnEntry(e.id, page.date)
    BY <2>1 DEF OwnEntry
  <2> QED BY <1>2, <1>3, <1>5, <1>7, <2>3, <2>4 DEF EntryPage
<1>12. ASSUME ResetForm PROVE EntryPage(page)'
  <2>1. page.confirm = Null /\ page' = [page EXCEPT !.form = EmptyForm, !.editing = Null]
    BY <1>1, <1>12 DEF ResetForm, Free, Covered, Cleared
  <2>2. /\ page' \in Page /\ page'.form = EmptyForm /\ page'.editing = Null /\ page'.confirm = Null
    BY <1>2, <1>8, <2>1
  <2> QED BY <1>7, <2>2 DEF EntryPage
<1>13. ASSUME CancelDelete PROVE EntryPage(page)'
  <2>1. page' = [page EXCEPT !.confirm = Null]
    BY <1>13 DEF CancelDelete
  <2>2. /\ page' \in Page /\ page'.form = g /\ page'.editing = page.editing
        /\ page'.confirm = Null /\ page'.date = page.date
    BY <1>2, <1>7, <2>1
  <2> QED BY <1>2, <1>3, <1>5, <1>7, <2>2 DEF EntryPage
<1>14. EntryPage(page)'
  BY <1>9, <1>10, <1>11, <1>12, <1>13
<1> QED BY <1>1, <1>14, EntryPageSteps

\* What a valid form says is fit for an entry.
LEMMA ValidForm ==
  ASSUME ProtoInv, FormInv(page.form), FormValid
  PROVE  /\ Saved(page.form) \in
              [activity : Activities, category : Items, project : Items \cup {Null}]
         /\ Saved(page.form).category \in tables[TableOf(Saved(page.form).activity)].listed
         /\ IF Saved(page.form).activity = ProjectActivity
            THEN Saved(page.form).project \in tables["projects"].listed
            ELSE Saved(page.form).project = Null
<1>1. page.form \in Form
  BY DEF FormInv
<1>2. /\ page.form.activity \in Activities /\ page.form.category \in Items
      /\ page.form.category \in tables[TableOf(page.form.activity)].listed
      /\ page.form.activity = ProjectActivity => page.form.project \in tables["projects"].listed
  BY <1>1 DEF FormInv, FormValid, Form
<1>3. PICK f : f = Saved(page.form)
  OBVIOUS
<1>4. /\ f \in Form /\ f.activity = page.form.activity /\ f.category = page.form.category
      /\ f.project = IF page.form.activity = ProjectActivity THEN page.form.project ELSE Null
  BY <1>1, <1>3 DEF Saved, Form
<1> QED BY <1>2, <1>3, <1>4 DEF Form

LEMMA SubmitSteps ==
  ASSUME ProtoInv, SubmitEntry
  PROVE  ProtoInv' /\ UNCHANGED <<users, tables>> /\ (~strayed => KeepsPlaces /\ TouchesOwn)
<1>1. /\ On("workload-entry") /\ session # Null /\ page.confirm = Null
      /\ UNCHANGED <<users, tables, shell>> /\ FormValid /\ Editable(page.date)
      /\ page' = [page EXCEPT !.form = EmptyForm, !.editing = Null]
      /\ acts' \in 0..MaxActs
  BY ActsTyped DEF SubmitEntry, Free, On, Covered, Cleared
<1>2. EntryPage(page) /\ FormInv(page.form) /\ page.date \in Days
  BY <1>1, PageTyped DEF EntryPage
<1>3. session \in Sessions /\ session.account \in Accounts /\ users[session.account] # Null
  BY <1>1 DEF ProtoInv, TypeOK, Sessions, SessionInv
<1>4. PageInv'
  <2>1. FormInv(EmptyForm)' /\ EmptyForm \in Form
    BY DEF FormInv, EmptyForm, Form
  <2>2. /\ page' \in [date : Days, editing : 1..MaxEntries \cup {Null}, form : Form,
                      confirm : 1..MaxEntries \cup {Null}]
        /\ page'.form = EmptyForm /\ page'.editing = Null /\ page'.confirm = Null
    BY <1>1, <1>2, <2>1 DEF EntryPage
  <2>3. EntryPage(page)'
    BY <2>1, <2>2 DEF EntryPage
  <2> QED BY <1>1, <2>3 DEF PageInv, On, shell
<1>5. PICK p : p = Payload
  OBVIOUS
<1>6. /\ p \in [owner : Accounts, day : Days, activity : Activities, category : Items,
                project : Items \cup {Null}]
      /\ p.owner = session.account /\ p.day = page.date
      /\ p.category \in tables[TableOf(p.activity)].listed
      /\ IF p.activity = ProjectActivity
         THEN p.project \in tables["projects"].listed ELSE p.project = Null
  <2>1. PICK f : f = Saved(page.form)
    OBVIOUS
  <2>2. /\ f \in [activity : Activities, category : Items, project : Items \cup {Null}]
        /\ f.category \in tables[TableOf(f.activity)].listed
        /\ IF f.activity = ProjectActivity
           THEN f.project \in tables["projects"].listed ELSE f.project = Null
    BY <1>1, <1>2, <2>1, ValidForm
  <2>3. p = [owner |-> session.account, day |-> page.date, activity |-> f.activity,
             category |-> f.category, project |-> f.project]
    BY <1>5, <2>1 DEF Payload
  <2> QED BY <1>2, <1>3, <2>2, <2>3
<1>7. CASE page.editing # Null /\ entries' = Patched(page.editing, p) /\ UNCHANGED made
  <2>1. PICK id : id = page.editing
    OBVIOUS
  <2>2. ASSUME NEW e \in Range(entries), e.id = id
        PROVE  /\ Patch(e, p) \in Entry /\ Patch(e, p).id = id /\ Fits(Patch(e, p))
               /\ Patch(e, p).owner = p.owner /\ Patch(e, p).day = p.day
    <3>1. e \in Entry
      BY Typed
    <3>2. PICK m : m = Patch(e, p)
      OBVIOUS
    <3>3. m = [id |-> e.id, owner |-> p.owner, day |-> p.day, activity |-> p.activity,
               category |-> p.category, project |-> p.project]
      BY <1>6, <3>1, <3>2, FullPatch
    <3>4. m \in Entry /\ m.id = id /\ m.owner = p.owner /\ m.day = p.day
          /\ m.activity = p.activity /\ m.category = p.category /\ m.project = p.project
      BY <1>6, <2>2, <3>1, <3>3 DEF Entry
    <3>5. Fits(m)
      BY <1>3, <1>6, <3>4 DEF Fits
    <3> QED BY <3>2, <3>4, <3>5
  <2>3. /\ entries' \in Seq(Entry) /\ EntriesInv'
        /\ \A f \in Range(entries') :
             \/ f \in Range(entries) /\ f.id # id
             \/ \E e \in Range(entries) : e.id = id /\ f = Patch(e, p)
        /\ \A e \in Range(entries) : e.id # id => e \in Range(entries')
    BY <1>1, <1>7, <2>1, <2>2, Overwriting
  <2>4. made' \in 0..MaxEntries
    BY <1>7 DEF ProtoInv, TypeOK
  <2>5. ProtoInv'
    BY <1>1, <1>4, <2>3, <2>4, EntrySteps
  <2>6. ASSUME ~strayed PROVE KeepsPlaces /\ TouchesOwn
    <3>1. PICK o \in Range(entries) :
            o.id = id /\ o.owner = session.account /\ o.day = page.date /\ Editable(o.day)
      BY <1>2, <1>7, <2>1, <2>6 DEF EntryPage, OwnEntry
    <3>2. \A e \in Range(entries) : e.id = id => e = o
      BY <3>1, OneOfEachId
    <3>3. \A e, f \in Range(entries) : e.id = f.id => e = f
      BY OneOfEachId
    <3>4. \A f \in Range(entries') :
            \/ f \in Range(entries) /\ f.id # id
            \/ f.id = id /\ f.owner = o.owner /\ f.day = o.day
      BY <1>6, <2>2, <2>3, <3>1
    <3>5. KeepsPlaces
      BY <2>3, <3>1, <3>2, <3>3, <3>4 DEF KeepsPlaces
    <3>6. TouchesOwn
      BY <2>3, <3>1, <3>2, <3>4 DEF TouchesOwn
    <3> QED BY <3>5, <3>6
  <2> QED BY <1>1, <2>5, <2>6
<1>8. CASE /\ made < MaxEntries /\ made' = made + 1
           /\ entries' = <<[id |-> made + 1, owner |-> p.owner, day |-> p.day,
                            activity |-> p.activity, category |-> p.category,
                            project |-> p.project]>> \o entries
  <2>1. PICK e : e = [id |-> made + 1, owner |-> p.owner, day |-> p.day, activity |-> p.activity,
                      category |-> p.category, project |-> p.project]
    OBVIOUS
  <2>2. made \in 0..MaxEntries /\ MaxEntries \in Nat
    BY DEF ProtoInv, TypeOK, Setting
  <2>3. e \in Entry /\ e.id = made + 1 /\ e.owner = p.owner
    BY <1>6, <1>8, <2>1, <2>2 DEF Entry
  <2>4. Fits(e)
    BY <1>3, <1>6, <2>1 DEF Fits
  <2>5. entries' \in Seq(Entry) /\ EntriesInv' /\ Range(entries') = Range(entries) \cup {e}
    BY <1>1, <1>8, <2>1, <2>3, <2>4, Adding
  <2>6. made' \in 0..MaxEntries
    BY <1>8, <2>2
  <2>7. ProtoInv'
    BY <1>1, <1>4, <2>5, <2>6, EntrySteps
  <2>8. \A f \in Range(entries) : f.id # e.id
    <3>1. \A f \in Range(entries) : f.id <= made /\ f.id \in Nat
      BY AllFit DEF Entry
    <3> QED BY <2>2, <2>3, <3>1
  <2>9. \A f, g \in Range(entries) : f.id = g.id => f = g
    BY OneOfEachId
  <2>10. KeepsPlaces
    BY <2>5, <2>8, <2>9 DEF KeepsPlaces
  <2>11. TouchesOwn
    BY <1>6, <2>3, <2>5 DEF TouchesOwn
  <2> QED BY <1>1, <2>7, <2>10, <2>11
<1> QED BY <1>5, <1>7, <1>8 DEF SubmitEntry

LEMMA ConfirmDeleteSteps ==
  ASSUME ProtoInv, ConfirmDelete
  PROVE  ProtoInv' /\ UNCHANGED <<users, tables>> /\ (~strayed => KeepsPlaces /\ TouchesOwn)
<1>1. /\ On("workload-entry") /\ session # Null /\ page.confirm # Null
      /\ UNCHANGED <<users, tables, made, shell>> /\ acts' \in 0..MaxActs
  BY ActsTyped DEF ConfirmDelete, On
<1>2. EntryPage(page)
  BY <1>1, PageTyped
<1>3. PICK id : id = page.confirm
  OBVIOUS
<1>4. /\ entries' \in Seq(Entry) /\ EntriesInv'
      /\ Range(entries') = {e \in Range(entries) : e.id # id}
  <2>1. DeleteEntry(id)
    BY <1>3 DEF ConfirmDelete
  <2> QED BY <1>1, <2>1, Deleting
<1>5. PageInv'
  <2>1. page' = IF page.editing = page.confirm
                THEN [page EXCEPT !.form = EmptyForm, !.editing = Null, !.confirm = Null]
                ELSE [page EXCEPT !.confirm = Null]
    <3>1. page' = [(IF page.editing = page.confirm
                    THEN [page EXCEPT !.form = EmptyForm, !.editing = Null] ELSE page)
                     EXCEPT !.confirm = Null]
      BY DEF ConfirmDelete, Cleared
    <3> QED BY <1>2, <3>1 DEF EntryPage
  <2>2. FormInv(EmptyForm)' /\ EmptyForm \in Form
    BY DEF FormInv, EmptyForm, Form
  <2>3. PICK g : g = page.form
    OBVIOUS
  <2>4. FormInv(g)' /\ g \in Form
    BY <1>1, <1>2, <2>3 DEF EntryPage, FormInv
  <2>5. /\ page' \in [date : Days, editing : 1..MaxEntries \cup {Null}, form : Form,
                      confirm : 1..MaxEntries \cup {Null}]
        /\ page'.form \in {EmptyForm, g} /\ page'.confirm = Null /\ page'.date = page.date
        /\ page'.editing # Null => page'.editing = page.editing /\ page.editing # id
    BY <1>2, <1>3, <2>1, <2>2, <2>3, <2>4 DEF EntryPage
  <2>6. ASSUME NEW x, x # id, NEW day, OwnEntry(x, day) PROVE OwnEntry(x, day)'
    BY <1>1, <1>4, <2>6 DEF OwnEntry, shell
  <2>7. EntryPage(page)'
    BY <1>1, <1>2, <2>2, <2>4, <2>5, <2>6 DEF EntryPage, shell
  <2> QED BY <1>1, <2>7 DEF PageInv, On, shell
<1>6. made' \in 0..MaxEntries
  BY <1>1 DEF ProtoInv, TypeOK
<1>7. ProtoInv'
  BY <1>1, <1>4, <1>5, <1>6, EntrySteps
<1>8. ASSUME ~strayed PROVE KeepsPlaces /\ TouchesOwn
  <2>1. PICK o \in Range(entries) :
          o.id = id /\ o.owner = session.account /\ Editable(o.day)
    BY <1>1, <1>2, <1>3, <1>8 DEF EntryPage, OwnEntry
  <2>2. \A e, f \in Range(entries) : e.id = f.id => e = f
    BY OneOfEachId
  <2>3. \A e \in Range(entries) : e \in Range(entries') \/ e = o
    BY <1>4, <2>1, <2>2
  <2> QED BY <1>4, <2>1, <2>2, <2>3 DEF KeepsPlaces, TouchesOwn
<1> QED BY <1>1, <1>7, <1>8

-----------------------------------------------------------------------------
(* The list.                                                                *)

LEMMA ListClicks ==
  ASSUME ProtoInv,
         \/ \E f \in Filters : ChangeFilter(f)
         \/ \E k \in {"work_date", "user"} : ToggleSort(k)
         \/ \E n \in Sizes : ChangeSize(n)
         \/ \E n \in 1..MaxEntries : TurnPage(n)
         \/ \E e \in Range(entries) : OpenModal(e) \/ AskDeleteRow(e)
         \/ ClearAllFilters \/ CloseModal \/ CancelDeleteRow
  PROVE  ProtoInv' /\ UNCHANGED data
<1> DEFINE Filter == [from : Int, only : Accounts \cup {Null}]
           Number == Nat \ {0}
           Page == [filter : Filter, size : Sizes,
                    number : Number, key : {"work_date", "user"}, dir : {"asc", "desc"},
                    editing : 1..MaxEntries \cup {Null}, form : Form \cup {Null},
                    confirm : 1..MaxEntries \cup {Null}]
<1>1. On("workload-list") /\ UNCHANGED <<data, shell>> /\ acts' \in 0..MaxActs
  BY ActsTyped DEF ChangeFilter, ToggleSort, ChangeSize, TurnPage, OpenModal, AskDeleteRow,
                   ClearAllFilters, CloseModal, CancelDeleteRow, Free, Click
<1>2. ListPage(page) /\ page \in Page
  BY <1>1, PageTyped DEF ListPage
<1>3. UNCHANGED <<strayed, session>>
  BY <1>1 DEF shell
\* What looks at the rows alone leaves the dialogs closed.
<1>4. ASSUME page' \in Page, page'.form = Null, page'.confirm = Null
      PROVE  ListPage(page)'
  BY <1>4 DEF ListPage
<1>5. Filters \subseteq Filter /\ Today - EditWindow \in Int
      /\ 1 \in Number /\ 1..MaxEntries \subseteq Number
  BY DEF ProtoInv, Setting, EditWindow
<1> HIDE DEF Filter, Number
<1>6. ASSUME NEW f \in Filters, ChangeFilter(f) PROVE ListPage(page)'
  <2>1. page.form = Null /\ page.confirm = Null /\ page' = [page EXCEPT !.filter = f]
    BY <1>1, <1>6 DEF ChangeFilter, Free, Covered
  <2>2. page' \in Page /\ page'.form = Null /\ page'.confirm = Null
    BY <1>2, <1>5, <2>1
  <2> HIDE DEF Page
  <2> QED BY <1>4, <2>2
<1>7. ASSUME NEW k \in {"work_date", "user"}, ToggleSort(k) PROVE ListPage(page)'
  <2>1. /\ page.form = Null /\ page.confirm = Null
        /\ page' = IF page.key = k
             THEN [page EXCEPT !.dir = IF page.dir = "asc" THEN "desc" ELSE "asc"]
             ELSE [page EXCEPT !.key = k, !.dir = "desc"]
    BY <1>1, <1>7 DEF ToggleSort, Free, Covered
  <2>2. PICK d \in {"asc", "desc"} : d = IF page.dir = "asc" THEN "desc" ELSE "asc"
    OBVIOUS
  <2>3. page' = IF page.key = k THEN [page EXCEPT !.dir = d] ELSE [page EXCEPT !.key = k, !.dir = "desc"]
    BY <2>1, <2>2, Zenon
  <2>4. page' \in Page /\ page'.form = Null /\ page'.confirm = Null
    <3>1. CASE page.key = k
      BY <1>2, <2>1, <2>3, <3>1
    <3>2. CASE page.key # k
      BY <1>2, <2>1, <2>3, <3>2
    <3> QED BY <3>1, <3>2
  <2> HIDE DEF Page
  <2> QED BY <1>4, <2>4
<1>8. ASSUME NEW n \in Sizes, ChangeSize(n) PROVE ListPage(page)'
  <2>1. /\ page.form = Null /\ page.confirm = Null
        /\ page' = [page EXCEPT !.size = n, !.number = 1]
    BY <1>1, <1>8 DEF ChangeSize, Free, Covered
  <2>2. page' \in Page /\ page'.form = Null /\ page'.confirm = Null
    BY <1>2, <1>5, <2>1
  <2> HIDE DEF Page
  <2> QED BY <1>4, <2>2
<1>9. ASSUME NEW n \in 1..MaxEntries, TurnPage(n) PROVE ListPage(page)'
  <2>1. page.form = Null /\ page.confirm = Null /\ page' = [page EXCEPT !.number = n]
    BY <1>1, <1>9 DEF TurnPage, Free, Covered
  <2>2. page' \in Page /\ page'.form = Null /\ page'.confirm = Null
    <3>1. n \in Number
      BY <1>5
    <3> QED BY <1>2, <2>1, <3>1
  <2> HIDE DEF Page
  <2> QED BY <1>4, <2>2
<1>10. ASSUME ClearAllFilters PROVE ListPage(page)'
  <2>1. /\ page.form = Null /\ page.confirm = Null
        /\ page' = [page EXCEPT !.filter = ListState.filter, !.number = 1]
    BY <1>1, <1>10 DEF ClearAllFilters, Free, Covered
  <2>2. ListState.filter \in Filter
    BY <1>5 DEF ListState, Filter
  <2>3. page' \in Page /\ page'.form = Null /\ page'.confirm = Null
    BY <1>2, <1>5, <2>1, <2>2
  <2> HIDE DEF Page
  <2> QED BY <1>4, <2>3
<1>11. ASSUME NEW e \in Range(entries), OpenModal(e) PROVE ListPage(page)'
  <2>1. /\ page.confirm = Null /\ session.role # "WORKER" /\ Editable(e.day)
        /\ page' = [page EXCEPT !.editing = e.id, !.form = FormOf(e)]
    BY <1>1, <1>11 DEF OpenModal, Free, Covered, RowEditable
  <2>2. FormInv(FormOf(e)) /\ e.id \in 1..MaxEntries
    BY FormOfFits
  <2>3. PICK f, id : f = FormOf(e) /\ id = e.id
    OBVIOUS
  <2>4. FormInv(f)' /\ f \in Form
    BY <1>1, <2>2, <2>3 DEF FormInv, data
  <2>5. EditableEntry(id)'
    BY <1>1, <2>1, <2>3 DEF EditableEntry, data
  <2>6. /\ page' \in Page /\ page'.form = f /\ page'.editing = id /\ page'.confirm = Null
    BY <1>2, <2>1, <2>2, <2>3, <2>4
  <2> QED BY <1>3, <2>1, <2>4, <2>5, <2>6 DEF ListPage, Filter, Number
<1>12. ASSUME NEW e \in Range(entries), AskDeleteRow(e) PROVE ListPage(page)'
  <2>1. /\ page.form = Null /\ session.role # "WORKER" /\ Editable(e.day)
        /\ page' = [page EXCEPT !.confirm = e.id]
    BY <1>1, <1>12 DEF AskDeleteRow, Free, Covered, RowEditable
  <2>2. e.id \in 1..MaxEntries
    BY FormOfFits
  <2>3. PICK id : id = e.id
    OBVIOUS
  <2>4. EditableEntry(id)'
    BY <1>1, <2>1, <2>3 DEF EditableEntry, data
  <2>5. /\ page' \in Page /\ page'.form = Null /\ page'.confirm = id
    BY <1>2, <2>1, <2>2, <2>3
  <2> QED BY <1>3, <2>1, <2>4, <2>5 DEF ListPage, Filter, Number
<1>13. ASSUME CloseModal PROVE ListPage(page)'
  <2>1. page.confirm = Null /\ page' = [page EXCEPT !.editing = Null, !.form = Null]
    BY <1>2, <1>13 DEF CloseModal, ListPage
  <2>2. page' \in Page /\ page'.form = Null /\ page'.confirm = Null
    BY <1>2, <2>1
  <2> HIDE DEF Page
  <2> QED BY <1>4, <2>2
<1>14. ASSUME CancelDeleteRow PROVE ListPage(page)'
  <2>1. page.form = Null /\ page' = [page EXCEPT !.confirm = Null]
    BY <1>2, <1>14 DEF CancelDeleteRow, ListPage
  <2>2. page' \in Page /\ page'.form = Null /\ page'.confirm = Null
    BY <1>2, <2>1
  <2> HIDE DEF Page
  <2> QED BY <1>4, <2>2
<1>15. ListPage(page)'
  BY <1>6, <1>7, <1>8, <1>9, <1>10, <1>11, <1>12, <1>13, <1>14
<1> QED BY <1>1, <1>15, ListPageSteps

\* The dialogs of the list are over when their answer is given.
LEMMA AnswersClose ==
  ASSUME ProtoInv, SaveModal \/ ConfirmDeleteRow
  PROVE  PageInv'
<1>1. On("workload-list") /\ UNCHANGED shell
  BY DEF SaveModal, ConfirmDeleteRow
<1>2. ListPage(page)
  BY <1>1, PageTyped
<1>3. /\ page' \in [filter : [from : Int, only : Accounts \cup {Null}], size : Sizes,
            number : Nat \ {0}, key : {"work_date", "user"}, dir : {"asc", "desc"},
            editing : 1..MaxEntries \cup {Null}, form : Form \cup {Null},
            confirm : 1..MaxEntries \cup {Null}]
      /\ page'.form = Null /\ page'.confirm = Null
  BY <1>2 DEF ListPage, SaveModal, ConfirmDeleteRow
<1>4. ListPage(page)'
  BY <1>3 DEF ListPage
<1> QED BY <1>1, <1>4 DEF PageInv, On, shell

LEMMA SaveModalSteps ==
  ASSUME ProtoInv, SaveModal
  PROVE  /\ ProtoInv' /\ UNCHANGED <<users, tables>>
         /\ ~strayed => KeepsPlaces /\ session.role # "WORKER"
<1>1. /\ On("workload-list") /\ session # Null /\ page.form # Null /\ FormValid
      /\ UNCHANGED <<users, tables, made, shell>> /\ acts' \in 0..MaxActs
  BY ActsTyped DEF SaveModal, On
<1>2. ListPage(page) /\ FormInv(page.form) /\ EditableEntry(page.editing)
  BY <1>1, PageTyped DEF ListPage
<1>3. PICK p, id : p = Saved(page.form) /\ id = page.editing
  OBVIOUS
<1>4. /\ p \in [activity : Activities, category : Items, project : Items \cup {Null}]
      /\ p.category \in tables[TableOf(p.activity)].listed
      /\ IF p.activity = ProjectActivity
         THEN p.project \in tables["projects"].listed ELSE p.project = Null
  BY <1>1, <1>2, <1>3, ValidForm
<1>5. ASSUME NEW e \in Range(entries), e.id = id
      PROVE  /\ Patch(e, p) \in Entry /\ Patch(e, p).id = id /\ Fits(Patch(e, p))
             /\ Patch(e, p).owner = e.owner /\ Patch(e, p).day = e.day
  <2>1. e \in Entry /\ users[e.owner] # Null
    BY AllFit DEF Fits
  <2>2. PICK m : m = Patch(e, p)
    OBVIOUS
  <2>3. m = [id |-> e.id, owner |-> e.owner, day |-> e.day, activity |-> p.activity,
             category |-> p.category, project |-> p.project]
    BY <1>4, <2>1, <2>2, FieldsPatch
  <2>4. m \in Entry /\ m.id = id /\ m.owner = e.owner /\ m.day = e.day
        /\ m.activity = p.activity /\ m.category = p.category /\ m.project = p.project
    BY <1>4, <1>5, <2>1, <2>3 DEF Entry
  <2>5. Fits(m)
    BY <1>4, <2>1, <2>4 DEF Fits
  <2> QED BY <2>2, <2>4, <2>5
<1>6. /\ entries' \in Seq(Entry) /\ EntriesInv'
      /\ \A f \in Range(entries') :
           \/ f \in Range(entries) /\ f.id # id
           \/ \E e \in Range(entries) : e.id = id /\ f = Patch(e, p)
      /\ \A e \in Range(entries) : e.id # id => e \in Range(entries')
  <2>1. entries' = Patched(id, p)
    BY <1>3 DEF SaveModal
  <2> QED BY <1>1, <1>5, <2>1, Overwriting
<1>7. made' \in 0..MaxEntries
  BY <1>1 DEF ProtoInv, TypeOK
<1>8. ProtoInv'
  BY <1>1, <1>6, <1>7, AnswersClose, EntrySteps
<1>9. KeepsPlaces
  <2>1. PICK o \in Range(entries) : o.id = id /\ Editable(o.day)
    BY <1>2, <1>3 DEF EditableEntry
  <2>2. \A e, f \in Range(entries) : e.id = f.id => e = f
    BY OneOfEachId
  <2>3. \A f \in Range(entries') :
          \/ f \in Range(entries) /\ f.id # id
          \/ f.id = id /\ f.owner = o.owner /\ f.day = o.day
    BY <1>5, <1>6, <2>1, <2>2
  <2> QED BY <1>6, <2>1, <2>2, <2>3 DEF KeepsPlaces
<1>10. ~strayed => session.role # "WORKER"
  BY <1>1, <1>2 DEF ListPage
<1> QED BY <1>1, <1>8, <1>9, <1>10

LEMMA ConfirmDeleteRowSteps ==
  ASSUME ProtoInv, ConfirmDeleteRow
  PROVE  /\ ProtoInv' /\ UNCHANGED <<users, tables>>
         /\ ~strayed => KeepsPlaces /\ session.role # "WORKER"
<1>1. /\ On("workload-list") /\ session # Null /\ page.confirm # Null
      /\ UNCHANGED <<users, tables, made, shell>> /\ acts' \in 0..MaxActs
  BY ActsTyped DEF ConfirmDeleteRow, On
<1>2. ListPage(page) /\ EditableEntry(page.confirm)
  BY <1>1, PageTyped DEF ListPage
<1>3. PICK id : id = page.confirm
  OBVIOUS
<1>4. /\ entries' \in Seq(Entry) /\ EntriesInv'
      /\ Range(entries') = {e \in Range(entries) : e.id # id}
  <2>1. DeleteEntry(id)
    BY <1>3 DEF ConfirmDeleteRow
  <2> QED BY <1>1, <2>1, Deleting
<1>5. made' \in 0..MaxEntries
  BY <1>1 DEF ProtoInv, TypeOK
<1>6. ProtoInv'
  BY <1>1, <1>4, <1>5, AnswersClose, EntrySteps
<1>7. KeepsPlaces
  <2>1. PICK o \in Range(entries) : o.id = id /\ Editable(o.day)
    BY <1>2, <1>3 DEF EditableEntry
  <2>2. \A e, f \in Range(entries) : e.id = f.id => e = f
    BY OneOfEachId
  <2> QED BY <1>4, <2>1, <2>2 DEF KeepsPlaces
<1>8. ~strayed => session.role # "WORKER"
  BY <1>1, <1>2 DEF ListPage
<1> QED BY <1>1, <1>6, <1>7, <1>8

-----------------------------------------------------------------------------
(* The login, the menu and the routes.                                      *)

\* A page that has just been mounted has nothing open.
LEMMA MountedInv ==
  ASSUME ProtoInv, NEW r \in Routes, route' = r, page' = Mounted(r)
  PROVE  PageInv'
<1>1. Setting
  BY DEF ProtoInv
<1>2. CASE r = "users"
  <2>1. page' = UsersState
    BY <1>2 DEF Mounted
  <2>2. UsersPage(page)'
    BY <2>1 DEF UsersPage, UsersState
  <2> QED BY <1>2, <2>2 DEF PageInv
<1>3. CASE r = "workload-entry"
  <2>1. page' = EntryState
    BY <1>3 DEF Mounted
  <2>2. FormInv(EmptyForm)' /\ EmptyForm \in Form
    BY DEF FormInv, EmptyForm, Form
  <2>3. EntryPage(page)'
    BY <1>1, <2>1, <2>2 DEF EntryPage, EntryState, Setting
  <2> QED BY <1>3, <2>3 DEF PageInv
<1>4. CASE r = "workload-list"
  <2>1. page' = ListState
    BY <1>4 DEF Mounted
  <2>2. Today - EditWindow \in Int /\ DefaultSize \in Sizes
    BY <1>1 DEF Setting, EditWindow
  <2>3. ListPage(page)'
    BY <2>1, <2>2 DEF ListPage, ListState
  <2> QED BY <1>4, <2>3 DEF PageInv
<1>5. CASE r = "lookups"
  <2>1. page' = LookupsState
    BY <1>5 DEF Mounted
  <2>2. LookupsPage(page)'
    BY <2>1 DEF LookupsPage, LookupsState, Kinds
  <2> QED BY <1>5, <2>2 DEF PageInv
<1>6. CASE r \notin {"users", "workload-entry", "workload-list", "lookups"}
  BY <1>6 DEF PageInv
<1> QED BY <1>2, <1>3, <1>4, <1>5, <1>6

\* What the timers that wait stand for.
TimerInv(t) ==
  /\ t \in [result : Sessions \cup {Null}, own : BOOLEAN]
  /\ t.own => session = Null
  /\ t.result # Null => /\ users[t.result.account] # Null
                        /\ t.own => users[t.result.account].active

LEMMA TimersTyped ==
  ASSUME ProtoInv
  PROVE  /\ timers \in Seq([result : Sessions \cup {Null}, own : BOOLEAN]) /\ Len(timers) \in Nat
         /\ \A i \in 1..Len(timers) : TimerInv(timers[i])
<1>1. timers \in Seq([result : Sessions \cup {Null}, own : BOOLEAN])
  BY DEF ProtoInv, TypeOK
<1>2. Len(timers) \in Nat
      /\ \A i \in 1..Len(timers) : timers[i] \in [result : Sessions \cup {Null}, own : BOOLEAN]
  BY <1>1, LenProperties, ElementOfSeq
<1> QED BY <1>1, <1>2 DEF ProtoInv, SessionInv, TimerInv

\* A step of the login: the data stay as they are.
LEMMA ShellSteps ==
  ASSUME ProtoInv, UNCHANGED data, acts' \in 0..MaxActs, route' \in Routes, PageInv',
         session' \in Sessions \cup {Null}, session' = Null => page' = Null,
         strayed' \in BOOLEAN,
         session' # Null => users[session'.account] # Null,
         session' # Null /\ ~strayed' => users[session'.account].active,
         timers' \in Seq([result : Sessions \cup {Null}, own : BOOLEAN]),
         \A i \in 1..Len(timers') : TimerInv(timers'[i]) /\ (timers'[i].own => session' = Null)
  PROVE  ProtoInv'
<1>1. Setting'
  BY DEF ProtoInv, Setting
<1>2. TypeOK'
  BY DEF ProtoInv, TypeOK, data
<1>3. SessionInv'
  BY DEF SessionInv, SessionIsActive, TimerInv, data
<1>4. EntriesInv'
  BY DEF ProtoInv, EntriesInv, EntriesFit, data
<1>5. TablesInv'
  BY DEF ProtoInv, TablesInv, data
<1> QED BY <1>1, <1>2, <1>3, <1>4, <1>5 DEF ProtoInv

LEMMA SubmitLoginSteps ==
  ASSUME ProtoInv, NEW a \in Accounts, NEW p \in Passwords, Submit(a, p)
  PROVE  ProtoInv' /\ UNCHANGED data
<1>1. PICK t : t = [result |-> LoginResult(a, p), own |-> TRUE]
  OBVIOUS
<1>2. /\ session = Null /\ timers' = Append(timers, t)
      /\ UNCHANGED <<data, session, route, strayed, page>> /\ acts' \in 0..MaxActs
  BY <1>1, ActsTyped DEF Submit
<1>3. TimerInv(t)
  <2>1. users[a] # Null => users[a] \in Row
    BY DEF ProtoInv, TypeOK
  <2>2. CASE users[a] # Null /\ users[a].active /\ users[a].password = p
    <3>1. t = [result |-> [account |-> a, role |-> users[a].role], own |-> TRUE]
      BY <1>1, <2>2 DEF LoginResult
    <3>2. [account |-> a, role |-> users[a].role] \in Sessions
      BY <2>1, <2>2 DEF Sessions, Row
    <3> QED BY <1>2, <2>2, <3>1, <3>2 DEF TimerInv
  <2>3. CASE ~(users[a] # Null /\ users[a].active /\ users[a].password = p)
    <3>1. t = [result |-> Null, own |-> TRUE]
      BY <1>1, <2>3 DEF LoginResult
    <3> QED BY <1>2, <3>1 DEF TimerInv
  <2> QED BY <2>2, <2>3
<1>4. /\ timers' \in Seq([result : Sessions \cup {Null}, own : BOOLEAN])
      /\ \A i \in 1..Len(timers') : TimerInv(timers'[i])
  <2>1. timers \in Seq([result : Sessions \cup {Null}, own : BOOLEAN])
        /\ Len(timers) \in Nat /\ t \in [result : Sessions \cup {Null}, own : BOOLEAN]
    BY <1>3, TimersTyped DEF TimerInv
  <2>2. /\ timers' \in Seq([result : Sessions \cup {Null}, own : BOOLEAN])
        /\ Len(timers') = Len(timers) + 1
        /\ \A i \in 1..Len(timers) : timers'[i] = timers[i]
        /\ timers'[Len(timers) + 1] = t
    BY <1>2, <2>1, AppendProperties
  <2>3. \A i \in 1..Len(timers') : i \in 1..Len(timers) \/ i = Len(timers) + 1
    BY <2>1, <2>2
  <2> QED BY <1>3, <2>2, <2>3, TimersTyped
<1>5. PageInv'
  BY <1>2 DEF PageInv
<1>6. route \in Routes /\ strayed \in BOOLEAN /\ (session = Null => page = Null)
  BY DEF ProtoInv, TypeOK
<1> QED BY <1>2, <1>4, <1>5, <1>6, ShellSteps

LEMMA ElapseSteps ==
  ASSUME ProtoInv, Elapse
  PROVE  ProtoInv' /\ UNCHANGED data
<1> DEFINE n == Len(timers)
           Timer == [result : Sessions \cup {Null}, own : BOOLEAN]
<1>1. /\ timers # <<>> /\ UNCHANGED <<data, route, acts>> /\ acts' \in 0..MaxActs
  BY ActsTyped DEF Elapse
<1>2. /\ timers \in Seq(Timer) /\ n \in Nat /\ n > 0
      /\ \A i \in 1..n : TimerInv(timers[i]) /\ timers[i] \in Timer
      /\ Head(timers) = timers[1] /\ 1 \in 1..n
  BY <1>1, TimersTyped, EmptySeq, HeadTailProperties DEF TimerInv
<1>3. route \in Routes /\ strayed \in BOOLEAN /\ (session = Null => page = Null)
      /\ session \in Sessions \cup {Null}
  BY DEF ProtoInv, TypeOK
<1>4. CASE Head(timers).result = Null /\ timers' = Tail(timers) /\ UNCHANGED <<session, strayed, page>>
  <2>1. /\ timers' \in Seq(Timer) /\ Len(timers') = n - 1
        /\ \A i \in 1..(n - 1) : timers'[i] = timers[i + 1]
    BY <1>1, <1>2, <1>4, HeadTailProperties
  <2>2. \A i \in 1..Len(timers') : i + 1 \in 1..n
    BY <1>2, <2>1
  <2>3. \A i \in 1..Len(timers') : TimerInv(timers'[i])
    <3> HIDE DEF n, Timer
    <3> QED BY <1>2, <2>1, <2>2
  <2>4. PageInv'
    BY <1>1, <1>4 DEF PageInv, UsersPage, PanelInv, EntryPage, OwnEntry, FormInv, ListPage,
                      EditableEntry, LookupsPage, ProtoInv, data
  <2>5. session # Null =>
          users[session.account] # Null /\ (~strayed => users[session.account].active)
    BY DEF ProtoInv, SessionInv, SessionIsActive
  <2>6. \A i \in 1..Len(timers') : timers'[i].own => session = Null
    BY <2>3 DEF TimerInv
  <2> QED BY <1>1, <1>3, <1>4, <2>1, <2>3, <2>4, <2>5, <2>6, ShellSteps
<1>5. CASE /\ Head(timers).result # Null
           /\ timers' = [i \in 1..(n - 1) |-> [timers[i + 1] EXCEPT !.own = FALSE]]
           /\ session' = Head(timers).result /\ strayed' = ~Head(timers).own
           /\ page' = IF session = Null THEN Mounted(route) ELSE page
  <2>1. TimerInv(timers[1]) /\ timers[1] \in Timer /\ Head(timers) = timers[1]
    BY <1>2
  <2>2. /\ session' \in Sessions /\ users[session'.account] # Null
        /\ strayed' \in BOOLEAN
        /\ ~strayed' => users[session'.account].active /\ session = Null
    BY <1>5, <2>1 DEF TimerInv
  <2>3. session' # Null
    BY <1>5
  <2>4. \A i \in 1..(n - 1) :
          /\ timers'[i] \in Timer /\ TimerInv(timers'[i]) /\ timers'[i].own = FALSE
    <3> SUFFICES ASSUME NEW i \in 1..(n - 1)
                 PROVE  timers'[i] \in Timer /\ TimerInv(timers'[i]) /\ timers'[i].own = FALSE
      OBVIOUS
    <3>1. i + 1 \in 1..n
      BY <1>2
    <3>2. PICK t : t = timers[i + 1]
      OBVIOUS
    <3>3. TimerInv(t) /\ t \in Timer
      BY <1>2, <3>1, <3>2
    <3>4. timers'[i] = [t EXCEPT !.own = FALSE]
      BY <1>5, <3>2
    <3>5. timers'[i] \in Timer /\ timers'[i].own = FALSE /\ timers'[i].result = t.result
      BY <3>3, <3>4
    <3> QED BY <3>3, <3>5 DEF TimerInv
  <2>5. timers' \in Seq(Timer) /\ Len(timers') = n - 1
    <3>1. timers' \in [1..(n - 1) -> Timer]
      BY <1>5, <2>4
    <3>2. n - 1 \in Nat
      BY <1>2
    <3> HIDE DEF n, Timer
    <3>3. timers' \in Seq(Timer)
      BY <3>1, <3>2, SeqDef
    <3>4. DOMAIN timers' = 1..(n - 1)
      BY <3>1
    <3> QED BY <3>2, <3>3, <3>4, LenProperties
  <2>6. PageInv'
    <3>1. CASE session = Null
      BY <1>1, <1>3, <1>5, <3>1, MountedInv
    <3>2. CASE session # Null
      <4>1. strayed' /\ page' = page /\ UNCHANGED <<users, tables, entries, route>>
        BY <1>1, <1>5, <2>2, <3>2 DEF data
      <4>2. UsersPage(page) => UsersPage(page)'
        BY <4>1 DEF UsersPage, PanelInv
      <4>3. EntryPage(page) => EntryPage(page)'
        BY <4>1 DEF EntryPage, FormInv
      <4>4. ListPage(page) => ListPage(page)'
        BY <4>1 DEF ListPage, FormInv, EditableEntry
      <4>5. LookupsPage(page) => LookupsPage(page)'
        BY <4>1 DEF LookupsPage
      <4> QED BY <3>2, <4>1, <4>2, <4>3, <4>4, <4>5 DEF PageInv, ProtoInv
    <3> QED BY <3>1, <3>2
  <2>7. \A i \in 1..Len(timers') : TimerInv(timers'[i]) /\ (timers'[i].own => session' = Null)
    <3> HIDE DEF n, Timer
    <3> QED BY <2>4, <2>5
  <2> QED BY <1>1, <1>3, <2>2, <2>3, <2>5, <2>6, <2>7, ShellSteps
<1> QED BY <1>4, <1>5 DEF Elapse

LEMMA MenuSteps ==
  ASSUME ProtoInv, Logout \/ \E r \in Routes : Navigate(r)
  PROVE  ProtoInv' /\ UNCHANGED data
<1>1. /\ session # Null /\ UNCHANGED <<data, timers, acts>> /\ acts' \in 0..MaxActs
  BY ActsTyped DEF Logout, Navigate
<1>2. /\ timers \in Seq([result : Sessions \cup {Null}, own : BOOLEAN])
      /\ \A i \in 1..Len(timers) : TimerInv(timers[i]) /\ ~timers[i].own
  BY <1>1, TimersTyped, NoOwnTimers
<1>3. route \in Routes /\ strayed \in BOOLEAN /\ session \in Sessions \cup {Null}
      /\ users[session.account] # Null /\ (~strayed => users[session.account].active)
  BY <1>1 DEF ProtoInv, TypeOK, SessionInv, SessionIsActive
<1>4. CASE Logout
  <2>1. session' = Null /\ page' = Null /\ strayed' = FALSE /\ route' = route
    BY <1>4 DEF Logout
  <2>2. PageInv'
    BY <2>1 DEF PageInv
  <2> QED BY <1>1, <1>2, <1>3, <2>1, <2>2, ShellSteps
<1>5. ASSUME NEW r \in Routes, Navigate(r) PROVE ProtoInv'
  <2>1. UNCHANGED <<session, strayed>> /\ route' = r /\ page' = Mounted(r)
    BY <1>5 DEF Navigate
  <2>2. PageInv'
    BY <2>1, MountedInv
  <2> QED BY <1>1, <1>2, <1>3, <2>1, <2>2, ShellSteps
<1> QED BY <1>1, <1>4, <1>5

-----------------------------------------------------------------------------
(* Every step, and what follows for the prototype.                          *)

\* A step keeps the invariant.  Only the pages of users and of tables write
\* those, and only the page of a day and the list write entries.
LEMMA Steps ==
  ASSUME ProtoInv, [Next]_vars
  PROVE  /\ ProtoInv'
         /\ ~strayed => KeepsPlaces
         /\ session # Null /\ session.role = "WORKER" /\ route \in Menu("WORKER") /\ ~strayed =>
              users' = users /\ tables' = tables /\ TouchesOwn
<1>1. CASE UNCHANGED vars
  <2>1. ProtoInv'
    BY <1>1 DEF vars, data, shell, ProtoInv, Setting, TypeOK, SessionInv, SessionIsActive,
                EntriesInv, EntriesFit, TablesInv, PageInv, UsersPage, PanelInv, EntryPage,
                OwnEntry, FormInv, ListPage, EditableEntry, LookupsPage
  <2>2. UNCHANGED <<users, tables, entries>>
    BY <1>1 DEF vars, data
  <2> QED BY <2>1, <2>2, Untouched
<1>2. ASSUME ProtoInv', UNCHANGED data
      PROVE  ProtoInv' /\ KeepsPlaces /\ users' = users /\ tables' = tables /\ TouchesOwn
  BY <1>2, Untouched DEF data
<1>3. CASE \E a \in Accounts, p \in Passwords : Submit(a, p)
  BY <1>2, <1>3, SubmitLoginSteps
<1>4. CASE Elapse
  BY <1>2, <1>4, ElapseSteps
<1>5. CASE Logout \/ \E r \in Routes : Navigate(r)
  BY <1>2, <1>5, MenuSteps
<1>6. CASE UsersNext
  <2>1. ProtoInv'
    BY <1>6, UsersPageSteps
  <2>2. UNCHANGED entries /\ route = "users"
    BY <1>6 DEF UsersNext, ChooseStatus, StartEdit, StartCreate, CloseEdit, SaveUser, EditRole,
         SaveNew, AskDeactivate, AskReset, CancelUser, Deactivate, Reactivate, ResetPassword,
         Free, On, Click, data
  <2>3. route \notin Menu("WORKER")
    BY <2>2 DEF Menu
  <2> QED BY <2>1, <2>2, <2>3, Untouched
<1>7. CASE \E x \in Items : ChooseActivity(x) \/ ChooseCategory(x) \/ ChooseProject(x)
  <2>1. ProtoInv' /\ UNCHANGED data
    BY <1>7, FieldSteps DEF ChooseActivity, ChooseCategory, ChooseProject, Click
  <2> QED BY <1>2, <2>1
<1>8. CASE EntryNext
  <2>1. CASE SubmitEntry
    BY <2>1, SubmitSteps
  <2>2. CASE ConfirmDelete
    BY <2>2, ConfirmDeleteSteps
  <2>3. CASE \/ \E d \in Days : SetDate(d)
             \/ \E e \in Range(entries) : EditEntry(e) \/ AskDelete(e)
             \/ ResetForm \/ CancelDelete
    BY <1>2, <2>3, EntryClicks
  <2> QED BY <1>8, <2>1, <2>2, <2>3 DEF EntryNext
<1>9. CASE ListNext
  <2>1. CASE SaveModal
    BY <2>1, SaveModalSteps
  <2>2. CASE ConfirmDeleteRow
    BY <2>2, ConfirmDeleteRowSteps
  <2>3. CASE \/ \E f \in Filters : ChangeFilter(f)
             \/ \E k \in {"work_date", "user"} : ToggleSort(k)
             \/ \E n \in Sizes : ChangeSize(n)
             \/ \E n \in 1..MaxEntries : TurnPage(n)
             \/ \E e \in Range(entries) : OpenModal(e) \/ AskDeleteRow(e)
             \/ ClearAllFilters \/ CloseModal \/ CancelDeleteRow
    BY <1>2, <2>3, ListClicks
  <2> QED BY <1>9, <2>1, <2>2, <2>3 DEF ListNext
<1>10. CASE LookupsNext
  <2>1. ProtoInv'
    BY <1>10, LookupsPageSteps
  <2>2. UNCHANGED entries /\ route = "lookups"
    BY <1>10 DEF LookupsNext, ChooseTab, ChooseItemStatus, OpenItem, OpenNewItem, CloseItem,
         SaveItem, AskToggle, ToggleItem, Free, On, Click, data
  <2>3. route \notin Menu("WORKER")
    BY <2>2 DEF Menu
  <2> QED BY <2>1, <2>2, <2>3, Untouched
<1> QED BY <1>1, <1>3, <1>4, <1>5, <1>6, <1>7, <1>8, <1>9, <1>10 DEF Next

\* The invariant holds in every behaviour: the session and the logins on their way
\* (lines 87-94, 450-463), the panel with its copy of a user (1007-1076, 1292-1343),
\* the entries (406-412, 1627-1679), the forms (1622-1625, 2853-2857) and the tables
\* (2259-2282).
THEOREM ProtoInvariant == Spec => []ProtoInv
<1>1. Init => ProtoInv
  BY InitInv
<1>2. ProtoInv /\ [Next]_vars => ProtoInv'
  BY Steps
<1> QED BY <1>1, <1>2, PTL DEF Spec

\* The variables keep their types.
THEOREM PrototypeTypes == Spec => []TypeOK
<1>1. ProtoInv => TypeOK
  BY DEF ProtoInv
<1> QED BY <1>1, ProtoInvariant, PTL

\* Nobody works in an account that is switched off (line 1328), however many people,
\* accounts and stale copies there are.
THEOREM SessionsAreActive == Spec => []SessionIsActive
<1>1. ProtoInv => SessionIsActive
  BY DEF ProtoInv, SessionInv
<1> QED BY <1>1, ProtoInvariant, PTL

\* Entries name what the tables have for their activity, whichever form they come
\* from (lines 1622-1625).
THEOREM EntriesAlwaysFit == Spec => []EntriesFit
<1>1. ProtoInv => EntriesFit
  BY DEF ProtoInv, EntriesInv
<1> QED BY <1>1, ProtoInvariant, PTL

\* The list shows rows whenever any match, for every size of a page, every filter
\* and both orders (lines 2807-2809).
THEOREM ListIsNeverBlank == Spec => []ListIsNotBlank
<1>1. ProtoInv => ListIsNotBlank
  BY ListShows
<1> QED BY <1>1, ProtoInvariant, PTL

\* Saving never moves an entry, and what is too old stays as it is (lines 1708,
\* 1632-1638, 1547).
THEOREM PlacesAreKept == Spec => EntriesKeepTheirPlace
<1>1. ProtoInv /\ [Next]_vars =>
        [~strayed =>
           \A e \in Range(entries) :
             /\ \A f \in Range(entries') :
                  f.id = e.id => f.owner = e.owner /\ f.day = e.day
             /\ ~Editable(e.day) => e \in Range(entries')]_vars
  <2>1. ProtoInv /\ [Next]_vars => (~strayed => KeepsPlaces)
    BY Steps
  <2> QED BY <2>1 DEF KeepsPlaces
<1> QED BY <1>1, ProtoInvariant, PTL DEF Spec, EntriesKeepTheirPlace

\* Workers on the pages of their menu change their own entries and nothing else
\* (lines 133, 3259).
THEOREM WorkersStayWithTheirOwn == Spec => WorkersTouchOnlyTheirOwn
<1>1. ProtoInv /\ [Next]_vars =>
        [session # Null /\ session.role = "WORKER" /\ route \in Menu("WORKER") /\ ~strayed =>
           /\ users' = users /\ tables' = tables
           /\ \A e \in Range(entries) \cup Range(entries') :
                \/ e \in Range(entries) \cap Range(entries')
                \/ e.owner = session.account]_vars
  <2>1. ProtoInv /\ [Next]_vars =>
          (session # Null /\ session.role = "WORKER" /\ route \in Menu("WORKER") /\ ~strayed =>
             users' = users /\ tables' = tables /\ TouchesOwn)
    BY Steps
  <2> QED BY <2>1 DEF TouchesOwn
<1> QED BY <1>1, ProtoInvariant, PTL DEF Spec, WorkersTouchOnlyTheirOwn

=============================================================================
