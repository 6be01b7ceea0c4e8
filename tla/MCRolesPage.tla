---------------------------- MODULE MCRolesPage ----------------------------
(* A small instance of RolesPage for TLC.                                   *)
EXTENDS RolesPage, TLC

MCSlug == [n \in Names |-> n]

\* The first slug has 50 characters, the others are short.
MCRoom == [s \in Names |-> IF s = "admin" THEN 1 ELSE MaxId + 1]

Role(n, perms, super, system) ==
  [code |-> [slug |-> n, n |-> 1], name |-> n, desc |-> Null, perms |-> perms,
   super |-> super, system |-> system]

\* A superuser that is a system role, and a role that may be deleted; the users
\* have the former.  The user acts more often when nobody else does.
SeedInit ==
  /\ roles = [i \in Ids |-> CASE i = 1 -> Role("admin", {}, TRUE, TRUE)
                              [] i = 2 -> Role("dev", {}, FALSE, FALSE)
                              [] OTHER -> Null]
  /\ lastId = 2 /\ assigned = [e \in Employees |-> 1]
  /\ Init
  /\ <<acts, rivals>> \in {<<MaxActs, 0>>, <<1, MaxRivals>>}

SeedSpec == SeedInit /\ [][Next]_vars

=============================================================================
