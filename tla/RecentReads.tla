------------------------------ MODULE RecentReads ------------------------------
(***************************************************************************)
(* What a caller of Provider.Get may rely on, whatever is cached: the state *)
(* of the instance it is answered is one that ECS still had at most Bound   *)
(* ago.  The states of an instance are numbered in the order ECS gave it.   *)
(***************************************************************************)
EXTENDS Naturals, Sequences

CONSTANTS Reader, Bound

None == 0         (* no answer yet, or an error *)

VARIABLES
  now,
  began,          (* began[r]: when ECS gave the instance its r-th state      *)
  answer          (* what each reader was last answered                       *)

vars == <<now, began, answer>>

Recent(rev) ==
  /\ rev \in 1..Len(began)
  /\ rev # Len(began) => now <= began[rev + 1] + Bound

Init ==
  /\ now = 0
  /\ began = <<0>>
  /\ answer = [c \in Reader |-> None]

Tick ==
  /\ now' = now + 1
  /\ UNCHANGED <<began, answer>>

Change ==
  /\ began' = Append(began, now)
  /\ UNCHANGED <<now, answer>>

Answer(c) ==
  /\ \E rev \in {None} \cup {r \in 1..Len(began) : Recent(r)} :
       answer' = [answer EXCEPT ![c] = rev]
  /\ UNCHANGED <<now, began>>

Fail ==
  /\ \E failed \in SUBSET Reader :
       answer' = [c \in Reader |-> IF c \in failed THEN None ELSE answer[c]]
  /\ UNCHANGED <<now, began>>

Next == Tick \/ Change \/ Fail \/ \E c \in Reader : Answer(c)

Spec == Init /\ [][Next]_vars

================================================================================
