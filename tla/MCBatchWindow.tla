---------------------------- MODULE MCBatchWindow -----------------------------
(* BatchWindow with two callers, for TLC. *)
EXTENDS BatchWindow

================================================================================
