-------------------------- MODULE MCReportScreens --------------------------
(* A small instance of ReportScreens for TLC.                               *)
EXTENDS ReportScreens, TLC

CONSTANTS ann, bob, cy, hr, hr2, top, dev, t1, x1, x2

MCTeam == (ann :> t1) @@ (bob :> t1) @@ (cy :> Null)

\* The subtree of HR, and outside of it a branch position and another one.
MCParent == (hr :> Null) @@ (hr2 :> hr) @@ (top :> Null) @@ (dev :> top)

MCPanel == (hr :> "HR") @@ (hr2 :> Null) @@ (top :> Null) @@ (dev :> Null)

\* Half a month, a full one and more.
MCWorked ==
  [u \in Users |-> [y \in Years |-> [m \in Months |->
     CASE u = ann -> 8 * 11 [] u = bob -> 8 * 22 [] OTHER -> 8 * 23]]]

MCTyped == {-1}

MCRivals == {[m \in Months |-> 21]}

\* The positions of the users.
MCPlaces ==
  {[u \in Users |-> top], (ann :> top) @@ (bob :> dev) @@ (cy :> dev),
   (ann :> top) @@ (bob :> top) @@ (cy :> hr2), (ann :> dev) @@ (bob :> hr) @@ (cy :> Null)}

\* No rows yet, or those of one year.
MCDays ==
  {[y \in Years |-> [m \in Months |-> Null]],
   [y \in Years |-> [m \in Months |-> IF y = ThisYear THEN 20 ELSE Null]]}

\* One chart while the user acts, all of them for a dashboard that is looked at.
SeedInit ==
  /\ days \in MCDays
  /\ \E place \in MCPlaces, boss \in [Users -> Users \cup {Null}] :
       org = [u \in Users |-> [manager |-> boss[u], position |-> place[u]]]
  /\ Init
  /\ \/ org = [u \in Users |-> [manager |-> Null, position |-> top]]
        /\ <<acts, rivals>> \in {<<MaxActs, 0>>, <<1, MaxRivals>>}
     \/ /\ \A y \in Years, m \in Months : days[y][m] = Null
        /\ route = "dashboard" /\ acts = 0 /\ rivals = 0

SeedSpec == SeedInit /\ [][Next]_vars

=============================================================================
