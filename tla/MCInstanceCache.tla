---------------------------- MODULE MCInstanceCache ----------------------------
(* The instance of InstanceCache that TLC checks. *)
EXTENDS InstanceCache

================================================================================
