------------------------------ MODULE MCNodeClass ------------------------------
(* An instance of NodeClass small enough for TLC. *)
EXTENDS NodeClass

(* Nearly everything differs from edit to edit.  The second spec has another *)
(* role and another hashed field, and as many security groups as an instance *)
(* takes; the last has a template and no role.                               *)
SpecsApart ==
  <<[template |-> FALSE, image |-> "A", vswitches |-> {"v1", "v2"}, securityGroups |-> {"s1"},
     role |-> "r1", hashed |-> "h", unhashed |-> "u"],
    [template |-> FALSE, image |-> "B", vswitches |-> {"v3"}, securityGroups |-> {"s2", "s3"},
     role |-> "r2", hashed |-> "g", unhashed |-> "u"],
    [template |-> TRUE, image |-> "C", vswitches |-> {"v4"}, securityGroups |-> {"s4"},
     role |-> "none", hashed |-> "g", unhashed |-> "u"]>>

================================================================================
