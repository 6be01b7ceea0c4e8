----------------------------- MODULE OrgForest ------------------------------
(***************************************************************************)
(* What the positions API promises its users, each request in one step: a  *)
(* forest of positions that grows by leaves, in which a position moves     *)
(* only under a position that is not below it, and whose positions can be  *)
(* switched off and on.                                                    *)
(***************************************************************************)
CONSTANTS Positions, Null

VARIABLES exists, parent, active

vars == <<exists, parent, active>>

\* Climbing from q never meets p: some set of positions holds q and all that is
\* above q, but not p.
NotAbove(p, q) ==
  \E T \in SUBSET exists :
    /\ q \in T
    /\ p \notin T
    /\ \A x \in T : parent[x] \in T \cup {Null}

Forest ==
  \A S \in SUBSET exists : S # {} => \E p \in S : parent[p] \notin S

Init ==
  /\ exists \in SUBSET Positions
  /\ parent \in [Positions -> exists \cup {Null}]
  /\ Forest
  /\ active = exists

Grow(p, q) ==
  /\ p \notin exists
  /\ q \in exists \cup {Null}
  /\ exists' = exists \cup {p}
  /\ parent' = [parent EXCEPT ![p] = q]
  /\ active' = active \cup {p}

Switch(p) == active' \in {active, active \cup {p}, active \ {p}}

Move(p, q) ==
  /\ p \in exists
  /\ \/ q = parent[p]
     \/ q = Null
     \/ q \in exists /\ NotAbove(p, q)
  /\ parent' = [parent EXCEPT ![p] = q]
  /\ Switch(p)
  /\ UNCHANGED exists

Next ==
  \E p \in Positions, q \in Positions \cup {Null} : Grow(p, q) \/ Move(p, q)

Spec == Init /\ [][Next]_vars

=============================================================================
