----------------------------- MODULE BatchService -----------------------------
(***************************************************************************)
(* What a caller of InstanceBatcher.CreateInstance may rely on: a request   *)
(* that is submitted is answered at most once, with an error or with an     *)
(* instance that no other caller is told is its own.                        *)
(***************************************************************************)
EXTENDS Naturals

CONSTANT Request

Failure == 0    (* the answer of a request that failed; instances are 1, 2, ... *)

VARIABLES
  caller,   (* "new", "waiting", "served", "cancelled" or "refused"           *)
  answer    (* what the caller was answered: Failure until it is served       *)

vars == <<caller, answer>>

Init ==
  /\ caller = [r \in Request |-> "new"]
  /\ answer = [r \in Request |-> Failure]

Submit(r) ==
  /\ caller[r] = "new"
  /\ caller' = [caller EXCEPT ![r] = "waiting"]
  /\ UNCHANGED answer

Refuse(r) ==
  /\ caller[r] = "new"
  /\ caller' = [caller EXCEPT ![r] = "refused"]
  /\ UNCHANGED answer

(* The answer is any failure, or an instance nobody else was answered. *)
Serve(r) ==
  /\ caller[r] = "waiting"
  /\ caller' = [caller EXCEPT ![r] = "served"]
  /\ answer' = [answer EXCEPT ![r] = answer'[r]]
  /\ answer'[r] \in Nat
  /\ answer'[r] # Failure => \A s \in Request : answer[s] # answer'[r]

Cancel(r) ==
  /\ caller[r] = "waiting"
  /\ caller' = [caller EXCEPT ![r] = "cancelled"]
  /\ UNCHANGED answer

Next == \E r \in Request : Submit(r) \/ Refuse(r) \/ Serve(r) \/ Cancel(r)

Spec == Init /\ [][Next]_vars

================================================================================
