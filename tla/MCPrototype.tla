---------------------------- MODULE MCPrototype ----------------------------
(* Instances of Prototype for TLC: an administrator and a worker, one account *)
(* free; an entry of each that may be edited and one that is too old.        *)
EXTENDS Prototype, TLC

SeedInit ==
  /\ users = (1 :> [role |-> "ADMIN", active |-> TRUE, password |-> "p"]
              @@ 2 :> [role |-> "WORKER", active |-> TRUE, password |-> "p"]
              @@ 3 :> Null)
  /\ tables = [k \in Kinds |->
       LET ids == IF k = "activityTypes" THEN 1..3
                  ELSE IF k = "projectCategories" THEN 1..2 ELSE {1}
       IN [listed |-> ids, live |-> ids]]
  /\ entries = <<[id |-> 1, owner |-> 2, day |-> 0, activity |-> 2, category |-> 1, project |-> Null],
                 [id |-> 2, owner |-> 1, day |-> Today, activity |-> 1, category |-> 2, project |-> 1],
                 [id |-> 3, owner |-> 2, day |-> Today, activity |-> 2, category |-> 1, project |-> Null]>>
  /\ Init

SeedSpec == SeedInit /\ [][Next]_vars

ListFilters == {[from |-> 0, only |-> Null], [from |-> 0, only |-> 2]}
=============================================================================
