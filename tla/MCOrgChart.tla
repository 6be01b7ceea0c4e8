----------------------------- MODULE MCOrgChart -----------------------------
(* Instances of OrgChart for TLC: a chain of two or three positions as the    *)
(* seed migration builds it, two users at its top and in its middle, one      *)
(* account id free; a superuser role and one that is granted users.manage.    *)
EXTENDS OrgChart, TLC

CONSTANTS p1, p2, p3, u1, u2, u3, ADMIN, LEAD,
  MaxTotal   \* requests to both APIs together

SeedInit ==
  /\ exists \in {{p1, p2}, {p1, p2, p3}}
  /\ parent = [p \in Positions |->
       IF p = p2 THEN p1 ELSE IF p = p3 /\ p3 \in exists THEN p2 ELSE Null]
  /\ accounts = {u1, u2}
  /\ position = (u1 :> p1 @@ u2 :> p2 @@ u3 :> Null)
  /\ manager = (u1 :> Null @@ u2 :> u1 @@ u3 :> Null)
  /\ role = (u1 :> ADMIN @@ u2 :> LEAD @@ u3 :> Null)
  /\ granted = {LEAD}
  /\ OrgInit

\* A request that touches the roles names no position and no manager (a bound: the
\* rules of the hierarchy ask for no role).
RolesApart ==
  \A s \in UserSlots :
    \/ ureq[s].newRole = IF ureq[s].op = "create" THEN LEAD ELSE Keep
    \/ ureq[s].newPos \in {Keep, Null} /\ ureq[s].newMgr \in {Keep, Null}

SeedNext == OrgNext /\ started' + ustarted' <= MaxTotal /\ RolesApart'

SeedSpec == SeedInit /\ [][SeedNext]_orgVars
=============================================================================
