--------------------------- MODULE MCLookupsPage ---------------------------
(***************************************************************************)
(* LookupsPage on small instances, from one assignment of rows to tables.  *)
(***************************************************************************)
EXTENDS LookupsPage, TLC

RowNames == Permutations(Ids)

\* Every table starts with one active row; the other id is free in all tables,
\* or an inactive row in all of them.
SeedInit ==
  /\ Init
  /\ \E other \in {"none", "off"} : \A k \in Kinds : \E i \in Ids :
       rows[k] = [j \in Ids |-> IF j = i THEN "on" ELSE other]

SeedSpec == SeedInit /\ [][Next]_vars
=============================================================================
