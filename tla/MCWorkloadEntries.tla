------------------------- MODULE MCWorkloadEntries --------------------------
(* Instances of WorkloadEntries for TLC: the id c1 is a category of every    *)
(* table, c2 of one only; at most one entry at the start.                    *)
EXTENDS WorkloadEntries, TLC

CONSTANTS e1, c1, c2

SeedInit ==
  /\ listed = [a \in Activities |-> IF a = 2 THEN {c1, c2} ELSE {c1}]
  /\ used \in {{}, {e1}}
  /\ row \in {[e \in Entries |-> IF e = e1 THEN x ELSE Null] :
                x \in {Null} \cup
                      [owner : Owners, date : Dates, activity : Activities,
                       category : Categories, project : Projects \cup {Null},
                       hours : {25}]}
  /\ Init

SeedSpec == SeedInit /\ [][Next]_vars

Symmetry == Permutations(Slots) \cup Permutations(Owners)
=============================================================================
