--------------------------- MODULE MCPositionTree ---------------------------
(* Instances of PositionTree for TLC. *)
EXTENDS PositionTree, TLC

\* Slots and positions are interchangeable; used where no liveness is checked.
Symmetry == Permutations(Positions) \cup Permutations(Slots)

(* The behaviours from any forest in which at most one position is free, and  *)
(* every request re-parents or deactivates one of them or makes the free one: *)
(* the smallest in which two requests close a cycle and a third walks up the  *)
(* broken tree.                                                               *)
ForestInit ==
  /\ Init
  /\ exists \in {Positions, Positions \ {CHOOSE p \in Positions : TRUE}}
  /\ held = {}

ReparentNext ==
  \E s \in Slots :
    \/ \E p, q \in Positions : StartUpdate(s, p, q, "keep")
    \/ \E p \in Positions : StartDelete(s, p)
    \/ exists # Positions /\ \E q \in exists : StartCreate(s, q)
    \/ Proceed(s)
    \/ Abort(s)

ReparentSpec == ForestInit /\ [][ReparentNext]_vars /\ Fairness
=============================================================================
