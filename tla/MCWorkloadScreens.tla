------------------------- MODULE MCWorkloadScreens -------------------------
(* A small instance of WorkloadScreens for TLC.                             *)
EXTENDS WorkloadScreens, TLC

CONSTANTS e1, you

\* Two days of a December, two of the January after it; the third is today, the
\* first is locked.
MCMonth == 1 :> <<1, 11>> @@ 2 :> <<1, 11>> @@ 3 :> <<2, 0>> @@ 4 :> <<2, 0>>

MCName == [u \in Users |-> u]

MCRanges == {<<2, 3>>, <<3, 3>>}

MCNarrow == {e1}

\* An own entry of yesterday, and a free row or another user's entry of today.
SeedInit ==
  /\ ScreensInit
  /\ form.date \in {2, 3} /\ form.pending \in {e1, Null}
  /\ rows[e1] = [owner |-> Me, day |-> 2]
  /\ \A i \in Ids \ {e1} : rows[i] \in {Null, [owner |-> you, day |-> 3]}

SeedSpec == SeedInit /\ [][ScreensNext]_screenVars

=============================================================================
