-------------------------- MODULE MCInstanceLifecycle --------------------------
(* Instances of InstanceLifecycle small enough for TLC. *)
EXTENDS InstanceLifecycle, TLC

(* The claims are interchangeable: no action orders them. *)
ClaimSymmetry == Permutations(Claim)

(* Bound: with two claims, no reconcile of the tagging controller goes past  *)
(* its Get.  It reads and writes nothing but the tags of its own claim.      *)
NoTagging == tagging \cup tagged = {}

================================================================================
