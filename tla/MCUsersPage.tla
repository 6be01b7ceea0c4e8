---------------------------- MODULE MCUsersPage ----------------------------
(***************************************************************************)
(* UsersPage on a small instance.                                          *)
(***************************************************************************)
EXTENDS UsersPage, TLC

UserNames == Permutations(Ids)

\* One user is active; the other id is free, or an active or inactive user.
SeedInit ==
  /\ Init
  /\ \E i \in Ids : rows[i] = "on"

SeedSpec == SeedInit /\ [][Next]_vars
=============================================================================
