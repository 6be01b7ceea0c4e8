----------------------------- MODULE MCSession -----------------------------
(* A small instance of Session for TLC.                                     *)
EXTENDS Session, TLC

CONSTANTS ann, bob, p1, p2

MCCodes == {"yearly_report.view", "users.view", "lookups.view", "roles.view", "roles.manage"}

Worker == [super |-> FALSE, perms |-> {}]

MCRights ==
  {Worker, [super |-> FALSE, perms |-> {"roles.manage"}], [super |-> TRUE, perms |-> {}]}

\* Both are enabled and have the same password and the role of a worker; ann is
\* in the storage, or nobody.
SeedInit ==
  /\ accounts = [a \in Accounts |-> [enabled |-> TRUE, rights |-> Worker, password |-> p1]]
  /\ Init
  /\ storage.user \in {Null, [account |-> ann, rights |-> Worker]}

SeedSpec == SeedInit /\ [][Next]_vars

=============================================================================
