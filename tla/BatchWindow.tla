------------------------------ MODULE BatchWindow ------------------------------
(***************************************************************************)
(* One window of the RunInstances batcher (pkg/batcher/window.go) with the  *)
(* executor it runs (RunInstancesExecutor.Execute) and the callers that     *)
(* wait on it (InstanceBatcher.CreateInstance).                             *)
(*                                                                         *)
(* Add, the callbacks of the two timers, Close and the end of a flush each  *)
(* hold the lock of the window from first to last line, so each is a step.  *)
(* The goroutine a flush starts runs without the lock: one step per call to *)
(* ECS and one per send on a channel.  A timer that has expired has started *)
(* its callback, which Stop no longer reaches: it may wait for the lock     *)
(* while the window is flushed and filled again.                            *)
(***************************************************************************)
EXTENDS Naturals, Sequences

CONSTANT Request          (* the calls of CreateInstance, with the same batch key *)

ASSUME RequestAssumption == Request # {}

Failure == 0              (* a BatchResult with an Error; instances are 1, 2, ... *)

VARIABLES
  (* the callers *)
  caller,           (* "new", "waiting", "served", "cancelled" or "refused"  *)
  answer,           (* what CreateInstance returned                          *)
  resultCh,         (* the channel of each call, of capacity 1: what it holds *)
  (* the window *)
  items,
  idleTimer,        (* "nil", "armed" or "expired"                           *)
  maxTimer,
  idleCalls,        (* callbacks of idle timers waiting for the lock         *)
  maxCalls,
  started,
  closed,
  flushInProgress,
  (* the goroutine of the flush in progress *)
  phase,            (* "none", "execute", "distribute", "fail", "end"        *)
  batch,            (* the items it took                                     *)
  sent,             (* how many of them it has gone through in this phase    *)
  first,            (* the instances ECS created for earlier batches         *)
  got               (* the instances ECS answered for this one               *)

callerVars == <<caller, answer>>
timerVars  == <<idleTimer, maxTimer, idleCalls, maxCalls>>
windowVars == <<items, timerVars, started, closed, flushInProgress>>
flushVars  == <<phase, batch, sent, first, got>>
vars       == <<callerVars, resultCh, windowVars, flushVars>>

--------------------------------------------------------------------------------
(* InstanceBatcher.CreateInstance. *)

(* BatchWindow.Add, and the wait for the result.  started is what tells the *)
(* first request of a batch, and idleTimer.Reset arms an expired timer too. *)
Add(r) ==
  /\ caller[r] = "new"
  /\ ~closed
  /\ caller' = [caller EXCEPT ![r] = "waiting"]
  /\ items' = Append(items, r)
  /\ IF ~started
       THEN /\ idleTimer' = "armed"
            /\ maxTimer' = "armed"
            /\ started' = TRUE
       ELSE /\ idleTimer' = IF idleTimer = "nil" THEN "nil" ELSE "armed"
            /\ UNCHANGED <<maxTimer, started>>
  /\ UNCHANGED <<answer, resultCh, idleCalls, maxCalls, closed, flushInProgress, flushVars>>

AddRefused(r) ==
  /\ caller[r] = "new"
  /\ closed
  /\ caller' = [caller EXCEPT ![r] = "refused"]
  /\ UNCHANGED <<answer, resultCh, windowVars, flushVars>>

Receive(r) ==
  /\ caller[r] = "waiting"
  /\ caller' = [caller EXCEPT ![r] = "served"]
  /\ \E a \in resultCh[r] : answer' = [answer EXCEPT ![r] = a]
  /\ resultCh' = [resultCh EXCEPT ![r] = {}]
  /\ UNCHANGED <<windowVars, flushVars>>

(* ctx.Done(): the caller is gone, its item stays where it is. *)
Cancel(r) ==
  /\ caller[r] = "waiting"
  /\ caller' = [caller EXCEPT ![r] = "cancelled"]
  /\ UNCHANGED <<answer, resultCh, windowVars, flushVars>>

--------------------------------------------------------------------------------
(* The timers and the flush. *)

IdleExpires ==
  /\ idleTimer = "armed"
  /\ idleTimer' = "expired"
  /\ idleCalls' = idleCalls + 1
  /\ UNCHANGED <<callerVars, resultCh, items, maxTimer, maxCalls, started, closed, flushInProgress, flushVars>>

MaxExpires ==
  /\ maxTimer = "armed"
  /\ maxTimer' = "expired"
  /\ maxCalls' = maxCalls + 1
  /\ UNCHANGED <<callerVars, resultCh, items, idleTimer, idleCalls, started, closed, flushInProgress, flushVars>>

(* Mutation: a flush in progress does not hold the next one back. *)
FlushWhileFlushing ==
  IF items = <<>>
    THEN UNCHANGED <<items, idleTimer, maxTimer, started, flushInProgress, flushVars>>
    ELSE /\ flushInProgress' = TRUE
         /\ idleTimer' = "nil"
         /\ maxTimer' = "nil"
         /\ items' = <<>>
         /\ started' = FALSE
         /\ phase' = "execute"
         /\ batch' = items
         /\ sent' = 0
         /\ UNCHANGED <<first, got>>

(* Mutation: the items stay in the window when they are flushed. *)
FlushKeepsItems ==
  IF items = <<>> \/ flushInProgress
    THEN UNCHANGED <<items, idleTimer, maxTimer, started, flushInProgress, flushVars>>
    ELSE /\ flushInProgress' = TRUE
         /\ idleTimer' = "nil"
         /\ maxTimer' = "nil"
         /\ started' = FALSE
         /\ phase' = "execute"
         /\ batch' = items
         /\ sent' = 0
         /\ UNCHANGED <<items, first, got>>

(* Mutation: a batch of one is not worth a flush. *)
FlushTwoAtLeast ==
  IF Len(items) <= 1 \/ flushInProgress
    THEN UNCHANGED <<items, idleTimer, maxTimer, started, flushInProgress, flushVars>>
    ELSE /\ flushInProgress' = TRUE
         /\ idleTimer' = "nil"
         /\ maxTimer' = "nil"
         /\ items' = <<>>
         /\ started' = FALSE
         /\ phase' = "execute"
         /\ batch' = items
         /\ sent' = 0
         /\ UNCHANGED <<first, got>>

(* flush: nothing to do, or the items are handed to a new goroutine. *)
Flush ==
  IF items = <<>> \/ flushInProgress
    THEN UNCHANGED <<items, idleTimer, maxTimer, started, flushInProgress, flushVars>>
    ELSE /\ flushInProgress' = TRUE
         /\ idleTimer' = "nil"
         /\ maxTimer' = "nil"
         /\ items' = <<>>
         /\ started' = FALSE
         /\ phase' = "execute"
         /\ batch' = items
         /\ sent' = 0
         /\ UNCHANGED <<first, got>>

FlushIdle ==
  /\ idleCalls > 0
  /\ idleCalls' = idleCalls - 1
  /\ Flush
  /\ UNCHANGED <<callerVars, resultCh, maxCalls, closed>>

(* Mutation: the callback runs though no timer has expired. *)
FlushMaxUncounted ==
  /\ maxCalls' = maxCalls - 1
  /\ Flush
  /\ UNCHANGED <<callerVars, resultCh, idleCalls, closed>>

FlushMax ==
  /\ maxCalls > 0
  /\ maxCalls' = maxCalls - 1
  /\ Flush
  /\ UNCHANGED <<callerVars, resultCh, idleCalls, closed>>

Close ==
  /\ ~closed
  /\ closed' = TRUE
  /\ Flush
  /\ UNCHANGED <<callerVars, resultCh, idleCalls, maxCalls>>

--------------------------------------------------------------------------------
(* The goroutine of the flush: RunInstancesExecutor.Execute, then the        *)
(* window's own answer to an error, then the end of the flush.              *)

(* One RunInstances with Amount = len(items); an error yields no instance,  *)
(* and an answer may hold fewer than were asked for.                        *)
RunInstances ==
  /\ phase = "execute"
  /\ \E n \in 0..Len(batch) : got' = n
  /\ phase' = "distribute"
  /\ UNCHANGED <<callerVars, resultCh, windowVars, batch, sent, first>>

(* Mutation: everyone is given the first instance of the answer. *)
DistributeFirst ==
  /\ phase = "distribute"
  /\ sent < Len(batch)
  /\ LET r == batch[sent + 1] IN
       /\ resultCh[r] = {}
       /\ resultCh' = [resultCh EXCEPT ![r] = {IF sent < got THEN first + 1 ELSE Failure}]
  /\ sent' = sent + 1
  /\ UNCHANGED <<callerVars, windowVars, phase, batch, first, got>>

(* Mutation: a short answer is an error for everyone. *)
DistributeAllOrNone ==
  /\ phase = "distribute"
  /\ sent < Len(batch)
  /\ LET r == batch[sent + 1] IN
       /\ resultCh[r] = {}
       /\ resultCh' = [resultCh EXCEPT ![r] = {IF got = Len(batch) THEN first + sent + 1 ELSE Failure}]
  /\ sent' = sent + 1
  /\ UNCHANGED <<callerVars, windowVars, phase, batch, first, got>>

(* A send that waits for room in the channel. *)
Distribute ==
  /\ phase = "distribute"
  /\ sent < Len(batch)
  /\ LET r == batch[sent + 1] IN
       /\ resultCh[r] = {}
       /\ resultCh' = [resultCh EXCEPT ![r] = {IF sent < got THEN first + sent + 1 ELSE Failure}]
  /\ sent' = sent + 1
  /\ UNCHANGED <<callerVars, windowVars, phase, batch, first, got>>

(* Execute returns an error unless every item was given an instance. *)
ExecuteReturns ==
  /\ phase = "distribute"
  /\ sent = Len(batch)
  /\ first' = first + got
  /\ got' = 0
  /\ IF got < Len(batch) THEN phase' = "fail" /\ sent' = 0 ELSE phase' = "end" /\ UNCHANGED sent
  /\ UNCHANGED <<callerVars, resultCh, windowVars, batch>>

(* A send that is skipped when the channel is full. *)
SendError ==
  /\ phase = "fail"
  /\ sent < Len(batch)
  /\ LET r == batch[sent + 1] IN
       resultCh' = [resultCh EXCEPT ![r] = IF @ = {} THEN {Failure} ELSE @]
  /\ sent' = sent + 1
  /\ UNCHANGED <<callerVars, windowVars, phase, batch, first, got>>

(* Mutation: an executor that returns early leaves the flag set. *)
FlushNeverEnds ==
  /\ phase = "end" \/ (phase = "fail" /\ sent = Len(batch))
  /\ phase' = "none"
  /\ batch' = <<>>
  /\ sent' = 0
  /\ UNCHANGED <<callerVars, resultCh, items, timerVars, started, closed, flushInProgress, first, got>>

(* The deferred function; the items that came in meanwhile are not looked at. *)
FlushEnds ==
  /\ phase = "end" \/ (phase = "fail" /\ sent = Len(batch))
  /\ flushInProgress' = FALSE
  /\ phase' = "none"
  /\ batch' = <<>>
  /\ sent' = 0
  /\ UNCHANGED <<callerVars, resultCh, items, timerVars, started, closed, first, got>>

Goroutine == RunInstances \/ Distribute \/ ExecuteReturns \/ SendError \/ FlushEnds

--------------------------------------------------------------------------------
Init ==
  /\ caller = [r \in Request |-> "new"]
  /\ answer = [r \in Request |-> Failure]
  /\ resultCh = [r \in Request |-> {}]
  /\ items = <<>>
  /\ idleTimer = "nil"
  /\ maxTimer = "nil"
  /\ idleCalls = 0
  /\ maxCalls = 0
  /\ started = FALSE
  /\ closed = FALSE
  /\ flushInProgress = FALSE
  /\ phase = "none"
  /\ batch = <<>>
  /\ sent = 0
  /\ first = 0
  /\ got = 0

Next ==
  \/ \E r \in Request : Add(r) \/ AddRefused(r) \/ Receive(r) \/ Cancel(r)
  \/ IdleExpires \/ MaxExpires \/ FlushIdle \/ FlushMax \/ Close
  \/ Goroutine

Spec == Init /\ [][Next]_vars

(* Timers expire, goroutines run, and a caller takes what is in its channel; *)
(* nothing makes callers call or cancel, nor the owner close the window.    *)
Fairness ==
  /\ WF_vars(IdleExpires) /\ WF_vars(MaxExpires)
  /\ WF_vars(FlushIdle) /\ WF_vars(FlushMax)
  /\ WF_vars(Goroutine)
  /\ \A r \in Request : WF_vars(Receive(r))

FairSpec == Spec /\ Fairness

--------------------------------------------------------------------------------
(* Properties. *)

Answer == Nat      (* Failure, or the number of an instance *)

TypeOK ==
  /\ caller \in [Request -> {"new", "waiting", "served", "cancelled", "refused"}]
  /\ answer \in [Request -> Answer]
  /\ resultCh \in [Request -> SUBSET Answer]
  /\ items \in Seq(Request)
  /\ idleTimer \in {"nil", "armed", "expired"}
  /\ maxTimer \in {"nil", "armed", "expired"}
  /\ idleCalls \in Nat
  /\ maxCalls \in Nat
  /\ started \in BOOLEAN
  /\ closed \in BOOLEAN
  /\ flushInProgress \in BOOLEAN
  /\ phase \in {"none", "execute", "distribute", "fail", "end"}
  /\ batch \in Seq(Request)
  /\ sent \in Nat
  /\ first \in Nat
  /\ got \in Nat

(* The requests the goroutine has still to answer, and those of the window. *)
Unsent == {batch[k] : k \in (IF phase \in {"execute", "distribute"} THEN sent + 1 .. Len(batch) ELSE {})}
Queued == {items[k] : k \in 1..Len(items)}

(* No request is dropped: a caller that waits has its answer in its channel, *)
(* or its item is in the window or in the batch still to be answered.       *)
NoRequestLost ==
  \A r \in Request : caller[r] = "waiting" /\ resultCh[r] = {} => r \in Queued \cup Unsent

(* The sends of Execute, which wait for room, always find it: no item is in *)
(* a batch twice, and none is in the window and in the batch (instance.go:88). *)
SendNeverBlocks ==
  phase = "distribute" /\ sent < Len(batch) => resultCh[batch[sent + 1]] = {}

(* Two callers are never told the same instance is theirs: neither by what  *)
(* they were answered nor by what waits in their channels.                  *)
Told(r) == ({answer[r]} \cup resultCh[r]) \ {Failure}

NoInstanceTwice == \A r, s \in Request : r # s => Told(r) \cap Told(s) = {}

(* The instances that callers have been told of. *)
Handed == first + (IF sent < got THEN sent ELSE got)

(* Every instance ECS created for a batch is handed to a caller: none is    *)
(* dropped by the error path that follows a short answer (window.go:166).   *)
NoInstanceDropped ==
  \A i \in 1..Handed : \E r \in Request : i \in Told(r)

(* The callers see the service of BatchService: each is answered once, by   *)
(* what Execute sent it, although a failed batch is sent to twice.          *)
Service == INSTANCE BatchService
ServiceSpec == Service!Spec

(* A batch that was taken is answered in the end, and the flush ends.       *)
BatchAnswered ==
  /\ flushInProgress ~> ~flushInProgress
  /\ \A r \in Request : r \in Unsent ~> caller[r] # "waiting"

(* A window with an armed timer and no flush in progress is flushed.        *)
ArmedWindowFlushed ==
  \A r \in Request :
    (r \in Queued /\ ~flushInProgress /\ (idleTimer = "armed" \/ maxTimer = "armed"))
      ~> r \notin Queued

--------------------------------------------------------------------------------
(* The inductive invariant behind the safety properties. *)

(* Where a flush stands. *)
FlushState ==
  /\ flushInProgress <=> phase # "none"
  /\ sent <= Len(batch)
  /\ phase = "execute" => sent = 0
  /\ phase # "distribute" => got = 0
  /\ got <= Len(batch)

(* No item is in two places, and none belongs to a caller yet to come. *)
Distinct ==
  /\ \A j, k \in 1..Len(items) : items[j] = items[k] => j = k
  /\ \A j, k \in 1..Len(batch) : batch[j] = batch[k] => j = k
  /\ \A j \in 1..Len(items), k \in 1..Len(batch) : items[j] # batch[k]
  /\ \A k \in 1..Len(items) : caller[items[k]] # "new"
  /\ \A k \in 1..Len(batch) : caller[batch[k]] # "new"

(* Nothing has been sent for an item that is still to be answered. *)
Quiet ==
  /\ \A r \in Request : caller[r] = "new" => resultCh[r] = {}
  /\ \A r \in Queued \cup Unsent : resultCh[r] = {}

(* A channel holds one answer; only a served caller has one. *)
OneAnswer ==
  /\ \A r \in Request : \A a, b \in resultCh[r] : a = b
  /\ \A r \in Request : caller[r] # "served" => answer[r] = Failure

ToldBounded == \A r \in Request : \A i \in Told(r) : i <= Handed

IInv ==
  /\ FlushState
  /\ Distinct
  /\ Quiet
  /\ OneAnswer
  /\ ToldBounded
  /\ NoRequestLost
  /\ NoInstanceTwice
  /\ NoInstanceDropped

================================================================================
