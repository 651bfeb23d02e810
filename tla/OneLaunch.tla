------------------------------- MODULE OneLaunch -------------------------------
(***************************************************************************)
(* What a Create does about instances, seen from outside: it is refused     *)
(* some of the launches that would do, launches one instance at most, which *)
(* would do, and gives up for want of capacity only when it was refused all. *)
(***************************************************************************)
VARIABLES
  suitable,     (* the launches that would do                                 *)
  refused,      (* those that ECS had no capacity for                         *)
  launched,     (* what was launched                                          *)
  outcome       (* "pending", "created", "exhausted" or "failed"              *)

vars == <<suitable, refused, launched, outcome>>

Init ==
  /\ refused = {}
  /\ launched = {}
  /\ outcome = "pending"

Refuse(l) ==
  /\ outcome = "pending"
  /\ launched = {}
  /\ l \in suitable \ refused
  /\ refused' = refused \cup {l}
  /\ UNCHANGED <<suitable, launched, outcome>>

(* An instance that is launched may still be lost to an error. *)
Launch(l) ==
  /\ outcome = "pending"
  /\ launched = {}
  /\ l \in suitable \ refused
  /\ launched' = {l}
  /\ outcome' \in {"pending", "failed"}
  /\ UNCHANGED <<suitable, refused>>

Created ==
  /\ outcome = "pending"
  /\ launched # {}
  /\ outcome' = "created"
  /\ UNCHANGED <<suitable, refused, launched>>

Exhausted ==
  /\ outcome = "pending"
  /\ launched = {}
  /\ suitable = refused
  /\ outcome' = "exhausted"
  /\ UNCHANGED <<suitable, refused, launched>>

Fail ==
  /\ outcome = "pending"
  /\ outcome' = "failed"
  /\ UNCHANGED <<suitable, refused, launched>>

Next == Created \/ Exhausted \/ Fail \/ \E l \in suitable : Refuse(l) \/ Launch(l)

Spec == Init /\ [][Next]_vars

================================================================================
