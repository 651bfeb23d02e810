--------------------------- MODULE BatchWindow_proofs ---------------------------
(***************************************************************************)
(* Theorems about BatchWindow, for every set of requests.                   *)
(***************************************************************************)
EXTENDS BatchWindow, SequenceTheorems, TLAPS

(* The empty batch, and what Add does to the items. *)
LEMMA NoItems == <<>> \in Seq(Request) /\ Len(<<>>) = 0
BY EmptySeq

LEMMA AddedItem ==
  ASSUME NEW r \in Request, NEW s \in Seq(Request)
  PROVE  /\ Append(s, r) \in Seq(Request)
         /\ Len(Append(s, r)) = Len(s) + 1
         /\ \A k \in 1..Len(s) : Append(s, r)[k] = s[k]
         /\ Append(s, r)[Len(s) + 1] = r
BY AppendProperties

(* What Flush leaves behind, whether it had anything to flush or not. *)
LEMMA FlushTypes ==
  ASSUME TypeOK, Flush
  PROVE  /\ items' \in Seq(Request)
         /\ batch' \in Seq(Request)
         /\ idleTimer' \in {"nil", "armed", "expired"}
         /\ maxTimer' \in {"nil", "armed", "expired"}
         /\ started' \in BOOLEAN
         /\ flushInProgress' \in BOOLEAN
         /\ phase' \in {"none", "execute", "distribute", "fail", "end"}
         /\ sent' \in Nat
         /\ first' \in Nat
         /\ got' \in Nat
<1>1. CASE items = <<>> \/ flushInProgress
  BY <1>1 DEF Flush, TypeOK, flushVars
<1>2. CASE ~(items = <<>> \/ flushInProgress)
  <2>1. /\ items' = <<>>
        /\ batch' = items
        /\ idleTimer' = "nil" /\ maxTimer' = "nil"
        /\ started' = FALSE /\ flushInProgress' = TRUE
        /\ phase' = "execute" /\ sent' = 0 /\ first' = first /\ got' = got
    BY <1>2 DEF Flush
  <2>2. items' \in Seq(Request)
    BY <2>1, NoItems
  <2> QED
    BY <2>1, <2>2 DEF TypeOK
<1> QED
  BY <1>1, <1>2

(* Every step keeps the variables in their types. *)
THEOREM TypeCorrect == Spec => []TypeOK
<1>1. Init => TypeOK
  <2> SUFFICES ASSUME Init PROVE TypeOK
    OBVIOUS
  <2>1. items \in Seq(Request) /\ batch \in Seq(Request)
    BY NoItems DEF Init
  <2>2. resultCh \in [Request -> SUBSET Answer]
    BY DEF Init
  <2> QED
    BY <2>1, <2>2 DEF Init, TypeOK, Answer, Failure
<1>2. TypeOK /\ [Next]_vars => TypeOK'
  <2> SUFFICES ASSUME TypeOK, [Next]_vars PROVE TypeOK'
    OBVIOUS
  <2> USE DEF TypeOK, Answer, Failure, callerVars, windowVars, timerVars, flushVars
  <2>1. ASSUME NEW r \in Request, Add(r) PROVE TypeOK'
    BY <2>1, AddedItem DEF Add
  <2>2. ASSUME NEW r \in Request, AddRefused(r) \/ Cancel(r) PROVE TypeOK'
    BY <2>2 DEF AddRefused, Cancel
  <2>3. ASSUME NEW r \in Request, Receive(r) PROVE TypeOK'
    BY <2>3 DEF Receive
  <2>4. CASE IdleExpires \/ MaxExpires
    BY <2>4 DEF IdleExpires, MaxExpires
  <2>5. CASE FlushIdle
    BY <2>5, FlushTypes DEF FlushIdle
  <2>5a. CASE FlushMax
    BY <2>5a, FlushTypes DEF FlushMax
  <2>5b. CASE Close
    BY <2>5b, FlushTypes DEF Close
  <2>6. CASE RunInstances
    BY <2>6 DEF RunInstances
  <2>7. CASE Distribute
    BY <2>7 DEF Distribute
  <2>8. CASE ExecuteReturns
    BY <2>8 DEF ExecuteReturns
  <2>9. CASE SendError
    BY <2>9 DEF SendError
  <2>10. CASE FlushEnds
    BY <2>10, NoItems DEF FlushEnds
  <2>11. CASE UNCHANGED vars
    BY <2>11 DEF vars
  <2> QED
    BY <2>1, <2>2, <2>3, <2>4, <2>5, <2>5a, <2>5b, <2>6, <2>7, <2>8, <2>9, <2>10, <2>11 DEF Next, Goroutine
<1> QED
  BY <1>1, <1>2, PTL DEF Spec

--------------------------------------------------------------------------------
(* The inductive invariant. *)

(* Handed in the three situations a step may leave. *)
LEMMA HandedType ==
  ASSUME TypeOK, FlushState
  PROVE  /\ Handed \in Nat
         /\ phase # "distribute" => Handed = first
         /\ sent = Len(batch) => Handed = first + got
         /\ sent < got => Handed = first + sent
BY DEF TypeOK, FlushState, Handed

(* A step hands out one new instance or none, and takes none back. *)
LEMMA ToldStep ==
  ASSUME TypeOK, IInv, [Next]_vars
  PROVE  \/ Handed' = Handed /\ \A r \in Request : Told(r)' = Told(r)
         \/ /\ Handed' = Handed + 1
            /\ \E r \in Request :
                 /\ Told(r)' = Told(r) \cup {Handed + 1}
                 /\ \A s \in Request \ {r} : Told(s)' = Told(s)
<1> USE DEF IInv
<1>1. ASSUME NEW r \in Request, Add(r) \/ AddRefused(r) \/ Cancel(r) PROVE Handed' = Handed /\ \A s \in Request : Told(s)' = Told(s)
  BY <1>1 DEF Add, AddRefused, Cancel, Handed, Told, windowVars, flushVars
<1>2. ASSUME NEW r \in Request, Receive(r) PROVE Handed' = Handed /\ \A s \in Request : Told(s)' = Told(s)
  <2>1. Handed' = Handed
    BY <1>2 DEF Receive, Handed, flushVars
  <2>2. PICK a \in resultCh[r] : answer' = [answer EXCEPT ![r] = a]
    BY <1>2 DEF Receive
  <2>3. resultCh[r] = {a} /\ answer[r] = Failure
    BY <1>2, <2>2 DEF Receive, OneAnswer
  <2>4. ASSUME NEW s \in Request PROVE Told(s)' = Told(s)
    <3>1. CASE s = r
      <4>1. answer'[s] = a /\ resultCh'[s] = {}
        BY <1>2, <2>2, <3>1 DEF Receive, TypeOK
      <4> QED
        BY <2>3, <3>1, <4>1 DEF Told
    <3>2. CASE s # r
      BY <1>2, <2>2, <3>2 DEF Receive, TypeOK, Told
    <3> QED
      BY <3>1, <3>2
  <2> QED
    BY <2>1, <2>4
<1>3. CASE IdleExpires \/ MaxExpires
  BY <1>3 DEF IdleExpires, MaxExpires, Handed, Told, callerVars, flushVars
<1>4. CASE FlushIdle \/ FlushMax \/ Close
  <2>1. first' = first /\ got' = got /\ answer' = answer /\ resultCh' = resultCh
    BY <1>4 DEF FlushIdle, FlushMax, Close, Flush, callerVars, flushVars
  <2>2. sent' = sent \/ (sent' = 0 /\ got = 0)
    BY <1>4 DEF FlushIdle, FlushMax, Close, Flush, flushVars, FlushState
  <2>3. Handed' = Handed
    BY <2>1, <2>2 DEF Handed, TypeOK
  <2> QED
    BY <2>1, <2>3 DEF Told
<1>5. CASE RunInstances
  BY <1>5 DEF RunInstances, Handed, Told, callerVars, FlushState, TypeOK
<1>6. CASE Distribute
  <2> PICK r \in Request : r = batch[sent + 1]
    BY <1>6 DEF Distribute, TypeOK
  <2>1. resultCh[r] = {}
    BY <1>6 DEF Distribute
  <2>2. /\ resultCh' = [resultCh EXCEPT ![r] = {IF sent < got THEN first + sent + 1 ELSE Failure}]
        /\ answer' = answer /\ sent' = sent + 1 /\ first' = first /\ got' = got
    BY <1>6 DEF Distribute, callerVars
  <2>3. \A s \in Request \ {r} : Told(s)' = Told(s)
    BY <2>1, <2>2 DEF Told, TypeOK
  <2>4. CASE sent < got
    <3>1. Handed' = Handed + 1 /\ Handed = first + sent
      BY <2>2, <2>4 DEF Handed, TypeOK
    <3>2. resultCh'[r] = {Handed + 1}
      BY <2>1, <2>2, <2>4, <3>1 DEF TypeOK
    <3>3. Handed + 1 # Failure
      BY <3>1 DEF TypeOK, Failure
    <3>4. Told(r)' = Told(r) \cup {Handed + 1}
      BY <2>1, <2>2, <3>2, <3>3 DEF Told
    <3> QED
      BY <2>1, <2>3, <3>1, <3>4
  <2>5. CASE ~(sent < got)
    <3>1. Handed' = Handed
      BY <2>2, <2>5 DEF Handed, TypeOK
    <3>2. resultCh'[r] = {Failure}
      BY <2>1, <2>2, <2>5 DEF TypeOK
    <3>3. Told(r)' = Told(r)
      BY <2>1, <2>2, <3>2 DEF Told
    <3> QED
      BY <2>3, <3>1, <3>3
  <2> QED
    BY <2>4, <2>5
<1>7. CASE ExecuteReturns
  BY <1>7 DEF ExecuteReturns, Handed, Told, callerVars, FlushState, TypeOK
<1>8. CASE SendError
  <2>1. Handed' = Handed
    BY <1>8 DEF SendError, Handed, FlushState, TypeOK
  <2>2. \A s \in Request : resultCh'[s] = resultCh[s] \/ (resultCh[s] = {} /\ resultCh'[s] = {Failure})
    BY <1>8 DEF SendError, TypeOK
  <2> QED
    BY <1>8, <2>1, <2>2 DEF SendError, Told, callerVars
<1>9. CASE FlushEnds
  BY <1>9 DEF FlushEnds, Handed, Told, callerVars, FlushState, TypeOK
<1>10. CASE UNCHANGED vars
  BY <1>10 DEF vars, callerVars, flushVars, Handed, Told
<1> QED
  BY <1>1, <1>2, <1>3, <1>4, <1>5, <1>6, <1>7, <1>8, <1>9, <1>10 DEF Next, Goroutine

(* The three counts of a flush. *)
LEMMA FlushStateStep ==
  ASSUME TypeOK, FlushState, [Next]_vars
  PROVE  FlushState'
<1> USE DEF FlushState, TypeOK
<1>1. ASSUME NEW r \in Request, Add(r) \/ AddRefused(r) \/ Cancel(r) \/ Receive(r) PROVE FlushState'
  BY <1>1 DEF Add, AddRefused, Cancel, Receive, windowVars, flushVars
<1>2. CASE IdleExpires \/ MaxExpires
  BY <1>2 DEF IdleExpires, MaxExpires, flushVars
<1>3. ASSUME Flush PROVE FlushState'
  BY <1>3, NoItems DEF Flush, flushVars
<1>4. CASE Goroutine
  BY <1>4, NoItems DEF Goroutine, RunInstances, Distribute, ExecuteReturns, SendError, FlushEnds, windowVars, timerVars
<1>5. CASE UNCHANGED vars
  BY <1>5 DEF vars, windowVars, flushVars
<1> QED
  BY <1>1, <1>2, <1>3, <1>4, <1>5 DEF Next, FlushIdle, FlushMax, Close

(* A channel holds one answer, and answer is written by Receive alone. *)
LEMMA OneAnswerStep ==
  ASSUME TypeOK, OneAnswer, [Next]_vars
  PROVE  OneAnswer'
<1> USE DEF OneAnswer, TypeOK
<1>1. ASSUME NEW r \in Request, Add(r) \/ AddRefused(r) \/ Cancel(r) PROVE OneAnswer'
  BY <1>1 DEF Add, AddRefused, Cancel
<1>2. ASSUME NEW r \in Request, Receive(r) PROVE OneAnswer'
  BY <1>2 DEF Receive
<1>3. CASE Distribute
  BY <1>3 DEF Distribute, callerVars
<1>4. CASE SendError
  BY <1>4 DEF SendError, callerVars
<1>5. CASE UNCHANGED <<callerVars, resultCh>>
  BY <1>5 DEF callerVars
<1> QED
  BY <1>1, <1>2, <1>3, <1>4, <1>5
  DEF Next, IdleExpires, MaxExpires, FlushIdle, FlushMax, Close, Goroutine,
      RunInstances, ExecuteReturns, FlushEnds, vars

(* Items move from the window to the batch all at once. *)
LEMMA DistinctStep ==
  ASSUME TypeOK, Distinct, [Next]_vars
  PROVE  Distinct'
<1>1. ASSUME NEW r \in Request, Add(r) PROVE Distinct'
  <2>1. /\ caller[r] = "new" /\ caller' = [caller EXCEPT ![r] = "waiting"]
        /\ items' = Append(items, r) /\ batch' = batch
    BY <1>1 DEF Add, flushVars
  <2>2. /\ Len(items') = Len(items) + 1
        /\ \A k \in 1..Len(items) : items'[k] = items[k] /\ items[k] # r
        /\ items'[Len(items) + 1] = r
    BY <2>1, AddedItem DEF Distinct, TypeOK
  <2>3. \A k \in 1..Len(batch) : batch[k] # r
    BY <2>1 DEF Distinct
  <2>4. \A s \in Request : caller[s] # "new" => caller'[s] # "new"
    BY <2>1 DEF TypeOK
  <2>5. \A j, k \in 1..Len(items') : items'[j] = items'[k] => j = k
    BY <2>2 DEF Distinct, TypeOK
  <2>6. \A k \in 1..Len(items') : caller'[items'[k]] # "new"
    BY <2>1, <2>2, <2>4 DEF Distinct, TypeOK
  <2>7. \A k \in 1..Len(batch) : caller'[batch[k]] # "new"
    BY <2>4 DEF Distinct, TypeOK
  <2>8. \A j \in 1..Len(items'), k \in 1..Len(batch) : items'[j] # batch[k]
    BY <2>2, <2>3 DEF Distinct, TypeOK
  <2> QED
    BY <2>1, <2>5, <2>6, <2>7, <2>8 DEF Distinct
<1>2. ASSUME NEW r \in Request, AddRefused(r) \/ Cancel(r) \/ Receive(r) PROVE Distinct'
  <2>1. items' = items /\ batch' = batch /\ \A s \in Request : caller[s] # "new" => caller'[s] # "new"
    BY <1>2 DEF AddRefused, Cancel, Receive, windowVars, flushVars, TypeOK
  <2> QED
    BY <2>1 DEF Distinct, TypeOK
<1>3. ASSUME Flush, caller' = caller PROVE Distinct'
  <2>1. CASE items = <<>> \/ flushInProgress
    BY <1>3, <2>1 DEF Flush, flushVars, Distinct
  <2>2. CASE ~(items = <<>> \/ flushInProgress)
    <3>1. items' = <<>> /\ batch' = items
      BY <2>2, <1>3 DEF Flush
    <3>2. 1..Len(items') = {}
      BY <3>1, NoItems
    <3> QED
      BY <1>3, <3>1, <3>2 DEF Distinct
  <2> QED
    BY <2>1, <2>2
<1>4. CASE FlushEnds
  <2>1. items' = items /\ batch' = <<>> /\ caller' = caller
    BY <1>4 DEF FlushEnds, callerVars
  <2>2. 1..Len(batch') = {}
    BY <2>1, NoItems
  <2> QED
    BY <2>1, <2>2 DEF Distinct
<1>5. CASE UNCHANGED <<caller, items, batch>>
  BY <1>5 DEF Distinct
<1> QED
  BY <1>1, <1>2, <1>3, <1>4, <1>5
  DEF Next, IdleExpires, MaxExpires, FlushIdle, FlushMax, Close, Goroutine,
      RunInstances, Distribute, ExecuteReturns, SendError, vars, callerVars, windowVars, flushVars

(* The requests that have still to be sent an answer. *)
Outstanding == Queued \cup Unsent

(* Add lets one in, Distribute lets one out, and no other step does. *)
LEMMA OutstandingStep ==
  ASSUME TypeOK, FlushState, Distinct, [Next]_vars
  PROVE  /\ \A r \in Request : Add(r) => Outstanding' = Outstanding \cup {r}
         /\ Distribute => Outstanding' = Outstanding \ {batch[sent + 1]}
         /\ (\A r \in Request : ~Add(r)) /\ ~Distribute => Outstanding' = Outstanding
<1>1. ASSUME NEW r \in Request, Add(r) PROVE Outstanding' = Outstanding \cup {r}
  <2>1. items' = Append(items, r) /\ batch' = batch /\ phase' = phase /\ sent' = sent
    BY <1>1 DEF Add, flushVars
  <2>2. /\ Len(items') = Len(items) + 1
        /\ \A k \in 1..Len(items) : items'[k] = items[k]
        /\ items'[Len(items) + 1] = r
    BY <2>1, AddedItem DEF TypeOK
  <2>3. Len(items) \in Nat
    BY DEF TypeOK
  <2>4. 1..Len(items') = 1..Len(items) \cup {Len(items) + 1}
    BY <2>2, <2>3
  <2>5. Queued' = Queued \cup {r}
    BY <2>2, <2>3, <2>4 DEF Queued
  <2>6. Unsent' = Unsent
    BY <2>1 DEF Unsent
  <2> QED
    BY <2>5, <2>6 DEF Outstanding
<1>2. ASSUME Distribute PROVE Outstanding' = Outstanding \ {batch[sent + 1]}
  <2>1. /\ phase = "distribute" /\ phase' = "distribute" /\ sent < Len(batch)
        /\ sent' = sent + 1 /\ batch' = batch /\ items' = items
    BY <1>2 DEF Distribute, windowVars
  <2>2. sent \in Nat /\ Len(batch) \in Nat
    BY DEF TypeOK
  <2>3. Queued' = Queued /\ batch[sent + 1] \notin Queued
    BY <2>1, <2>2 DEF Queued, Distinct
  <2>4. Unsent = {batch[k] : k \in sent + 1 .. Len(batch)}
    BY <2>1 DEF Unsent
  <2>5. Unsent' = {batch[k] : k \in sent + 2 .. Len(batch)}
    BY <2>1, <2>2 DEF Unsent
  <2>6. \A k \in sent + 2 .. Len(batch) : batch[k] # batch[sent + 1]
    BY <2>1, <2>2 DEF Distinct
  <2>7. sent + 1 .. Len(batch) = {sent + 1} \cup (sent + 2 .. Len(batch))
    BY <2>1, <2>2
  <2>8. Unsent' = Unsent \ {batch[sent + 1]}
    BY <2>4, <2>5, <2>6, <2>7
  <2> QED
    BY <2>3, <2>8 DEF Outstanding
<1>3. ASSUME Flush PROVE Outstanding' = Outstanding
  <2>1. CASE items = <<>> \/ flushInProgress
    BY <1>3, <2>1 DEF Flush, flushVars, Outstanding, Queued, Unsent
  <2>2. CASE ~(items = <<>> \/ flushInProgress)
    <3>1. /\ phase = "none" /\ phase' = "execute" /\ sent' = 0
          /\ batch' = items /\ items' = <<>>
      BY <2>2, <1>3 DEF Flush, FlushState
    <3>2. Unsent = {} /\ Unsent' = Queued
      BY <3>1 DEF Unsent, Queued
    <3>3. 1..Len(items') = {}
      BY <3>1, NoItems
    <3>4. Queued' = {}
      BY <3>3 DEF Queued
    <3> QED
      BY <3>2, <3>4 DEF Outstanding
  <2> QED
    BY <2>1, <2>2
<1>4. ASSUME RunInstances PROVE Outstanding' = Outstanding
  BY <1>4 DEF RunInstances, windowVars, Outstanding, Queued, Unsent
<1>5. ASSUME ExecuteReturns PROVE Outstanding' = Outstanding
  <2>1. /\ phase = "distribute" /\ sent = Len(batch) /\ phase' \in {"fail", "end"}
        /\ items' = items
    BY <1>5 DEF ExecuteReturns, windowVars
  <2>2. sent + 1 .. Len(batch) = {}
    BY <2>1 DEF TypeOK
  <2>3. Unsent = {} /\ Unsent' = {}
    BY <2>1, <2>2 DEF Unsent
  <2> QED
    BY <2>1, <2>3 DEF Outstanding, Queued
<1>6. ASSUME SendError PROVE Outstanding' = Outstanding
  BY <1>6 DEF SendError, windowVars, Outstanding, Queued, Unsent
<1>7. ASSUME FlushEnds PROVE Outstanding' = Outstanding
  BY <1>7 DEF FlushEnds, Outstanding, Queued, Unsent
<1>8. ASSUME UNCHANGED <<items, phase, batch, sent>> PROVE Outstanding' = Outstanding
  BY <1>8 DEF Outstanding, Queued, Unsent
<1> QED
  BY <1>1, <1>2, <1>3, <1>4, <1>5, <1>6, <1>7, <1>8
  DEF Next, AddRefused, Receive, Cancel, IdleExpires, MaxExpires, FlushIdle, FlushMax, Close,
      Goroutine, vars, windowVars, flushVars

(* A channel is filled by Distribute, whose request is outstanding no more, *)
(* and by SendError, when nothing of its batch is outstanding.              *)
LEMMA QuietStep ==
  ASSUME TypeOK, FlushState, Distinct, Quiet, [Next]_vars
  PROVE  Quiet'
<1> SUFFICES /\ \A r \in Request : caller'[r] = "new" => resultCh'[r] = {}
             /\ \A r \in Outstanding' : resultCh'[r] = {}
  BY DEF Quiet, Outstanding
<1>0. /\ \A r \in Request : caller[r] = "new" => resultCh[r] = {}
      /\ \A r \in Outstanding : resultCh[r] = {}
      /\ Outstanding \subseteq Request
  BY DEF Quiet, Outstanding, Queued, Unsent, TypeOK
<1>1. ASSUME NEW r \in Request, Add(r), Outstanding' = Outstanding \cup {r}
      PROVE  /\ \A s \in Request : caller'[s] = "new" => resultCh'[s] = {}
             /\ \A s \in Outstanding' : resultCh'[s] = {}
  BY <1>0, <1>1 DEF Add, TypeOK
<1>2. CASE Distribute /\ Outstanding' = Outstanding \ {batch[sent + 1]}
  <2> PICK r \in Request : r = batch[sent + 1]
    BY <1>2 DEF Distribute, TypeOK
  <2>1. \A s \in Request \ {r} : resultCh'[s] = resultCh[s]
    BY <1>2 DEF Distribute, TypeOK
  <2>2. caller' = caller /\ caller[r] # "new"
    BY <1>2 DEF Distribute, callerVars, Distinct, TypeOK
  <2> QED
    BY <1>0, <1>2, <2>1, <2>2
<1>3. CASE SendError /\ Outstanding' = Outstanding
  <2> PICK r \in Request : r = batch[sent + 1]
    BY <1>3 DEF SendError, TypeOK
  <2>1. \A s \in Request \ {r} : resultCh'[s] = resultCh[s]
    BY <1>3 DEF SendError, TypeOK
  <2>2. caller' = caller /\ caller[r] # "new"
    BY <1>3 DEF SendError, callerVars, Distinct, TypeOK
  <2>3. r \notin Outstanding
    BY <1>3 DEF SendError, Outstanding, Queued, Unsent, Distinct, TypeOK
  <2> QED
    BY <1>0, <1>3, <2>1, <2>2, <2>3
<1>4. ASSUME NEW r \in Request, AddRefused(r) \/ Receive(r) \/ Cancel(r), Outstanding' = Outstanding
      PROVE  /\ \A s \in Request : caller'[s] = "new" => resultCh'[s] = {}
             /\ \A s \in Outstanding' : resultCh'[s] = {}
  BY <1>0, <1>4 DEF AddRefused, Receive, Cancel, TypeOK
<1>5. CASE UNCHANGED <<caller, resultCh>> /\ Outstanding' = Outstanding
  BY <1>0, <1>5
<1> QED
  BY <1>1, <1>2, <1>3, <1>4, <1>5, OutstandingStep
  DEF Next, IdleExpires, MaxExpires, FlushIdle, FlushMax, Close, Goroutine,
      RunInstances, ExecuteReturns, FlushEnds, vars, callerVars

(* A waiting caller stays outstanding until something is in its channel. *)
LEMMA NoRequestLostStep ==
  ASSUME TypeOK, FlushState, Distinct, NoRequestLost, [Next]_vars
  PROVE  NoRequestLost'
<1> SUFFICES ASSUME NEW r \in Request, caller'[r] = "waiting", resultCh'[r] = {}
             PROVE  r \in Outstanding'
  BY DEF NoRequestLost, Outstanding
<1>0. caller[r] = "waiting" /\ resultCh[r] = {} => r \in Outstanding
  BY DEF NoRequestLost, Outstanding
<1>1. ASSUME NEW s \in Request, Add(s), Outstanding' = Outstanding \cup {s} PROVE r \in Outstanding'
  BY <1>0, <1>1 DEF Add, TypeOK
<1>2. CASE Distribute /\ Outstanding' = Outstanding \ {batch[sent + 1]}
  <2>1. r # batch[sent + 1] /\ resultCh[r] = {} /\ caller' = caller
    BY <1>2 DEF Distribute, callerVars, TypeOK
  <2> QED
    BY <1>0, <1>2, <2>1
<1>3. CASE SendError /\ Outstanding' = Outstanding
  <2>1. resultCh[r] = {} /\ caller' = caller
    BY <1>3 DEF SendError, callerVars, TypeOK
  <2> QED
    BY <1>0, <1>3, <2>1
<1>4. ASSUME NEW s \in Request, AddRefused(s) \/ Receive(s) \/ Cancel(s), Outstanding' = Outstanding
      PROVE  r \in Outstanding'
  BY <1>0, <1>4 DEF AddRefused, Receive, Cancel, TypeOK
<1>5. CASE UNCHANGED <<caller, resultCh>> /\ Outstanding' = Outstanding
  BY <1>0, <1>5
<1> QED
  BY <1>1, <1>2, <1>3, <1>4, <1>5, OutstandingStep
  DEF Next, IdleExpires, MaxExpires, FlushIdle, FlushMax, Close, Goroutine,
      RunInstances, ExecuteReturns, FlushEnds, vars, callerVars

(* Instances are handed out in order, each of them once: the one a step     *)
(* hands out is a number that no caller has been told.                      *)
LEMMA HandOutStep ==
  ASSUME TypeOK, IInv, [Next]_vars
  PROVE  ToldBounded' /\ NoInstanceTwice' /\ NoInstanceDropped'
<1>0. Handed \in Nat /\ ToldBounded /\ NoInstanceTwice /\ NoInstanceDropped
  BY HandedType DEF IInv
<1>1. \A r \in Request : Told(r) \subseteq Nat
  BY DEF Told, TypeOK, Answer
<1>2. CASE Handed' = Handed /\ \A r \in Request : Told(r)' = Told(r)
  BY <1>0, <1>2 DEF ToldBounded, NoInstanceTwice, NoInstanceDropped
<1>3. CASE /\ Handed' = Handed + 1
           /\ \E r \in Request :
                /\ Told(r)' = Told(r) \cup {Handed + 1}
                /\ \A s \in Request \ {r} : Told(s)' = Told(s)
  <2> PICK r \in Request : /\ Told(r)' = Told(r) \cup {Handed + 1}
                          /\ \A s \in Request \ {r} : Told(s)' = Told(s)
    BY <1>3
  <2>1. \A s \in Request : Handed + 1 \notin Told(s)
    BY <1>0, <1>1 DEF ToldBounded
  <2>2. ToldBounded'
    <3> SUFFICES ASSUME NEW s \in Request, NEW i \in Told(s)' PROVE i <= Handed + 1
      BY <1>3 DEF ToldBounded
    <3>1. i \in Told(s) \/ i = Handed + 1
      OBVIOUS
    <3> QED
      BY <1>0, <1>1, <3>1 DEF ToldBounded
  <2>3. NoInstanceTwice'
    BY <1>0, <2>1 DEF NoInstanceTwice
  <2>4. NoInstanceDropped'
    <3> SUFFICES ASSUME NEW i \in 1 .. Handed + 1 PROVE \E s \in Request : i \in Told(s)'
      BY <1>3 DEF NoInstanceDropped
    <3>1. CASE i = Handed + 1
      BY <3>1
    <3>2. CASE i # Handed + 1
      <4>1. i \in 1 .. Handed
        BY <1>0, <3>2
      <4>2. PICK s \in Request : i \in Told(s)
        BY <1>0, <4>1 DEF NoInstanceDropped
      <4> QED
        BY <4>2
    <3> QED
      BY <3>1, <3>2
  <2> QED
    BY <2>2, <2>3, <2>4
<1> QED
  BY <1>2, <1>3, ToldStep

(* The invariant behind the safety of the window holds for any number of    *)
(* requests, batches and timer callbacks.                                   *)
THEOREM Invariance == Spec => []IInv
<1>1. Init => IInv
  <2> SUFFICES ASSUME Init PROVE IInv
    OBVIOUS
  <2>1. Len(items) = 0 /\ Len(batch) = 0 /\ 1..0 = {}
    BY NoItems DEF Init
  <2>2. Queued = {} /\ Unsent = {}
    BY <2>1 DEF Init, Queued, Unsent
  <2>3. \A r \in Request : Told(r) = {}
    BY DEF Init, Told
  <2>4. Handed = 0
    BY DEF Init, Handed
  <2>5. FlushState /\ Distinct /\ OneAnswer
    BY <2>1 DEF Init, FlushState, Distinct, OneAnswer
  <2>6. Quiet /\ NoRequestLost
    BY <2>2 DEF Init, Quiet, NoRequestLost
  <2>7. ToldBounded /\ NoInstanceTwice /\ NoInstanceDropped
    BY <2>1, <2>3, <2>4 DEF ToldBounded, NoInstanceTwice, NoInstanceDropped
  <2> QED
    BY <2>5, <2>6, <2>7 DEF IInv
<1>2. TypeOK /\ IInv /\ [Next]_vars => IInv'
  BY FlushStateStep, DistinctStep, QuietStep, OneAnswerStep, NoRequestLostStep, HandOutStep DEF IInv
<1> QED
  BY <1>1, <1>2, TypeCorrect, PTL DEF Spec

(* No request is dropped between Add and the answer (window.go:76-175).     *)
THEOREM NoRequestIsLost == Spec => []NoRequestLost
<1>1. IInv => NoRequestLost
  BY DEF IInv
<1> QED
  BY <1>1, Invariance, PTL

(* The sends of Execute that wait for room in a channel never wait          *)
(* (instance.go:67-128), so a flush always ends.                            *)
THEOREM SendsNeverBlock == Spec => []SendNeverBlocks
<1>1. TypeOK /\ IInv => SendNeverBlocks
  BY DEF TypeOK, IInv, Quiet, Unsent, SendNeverBlocks
<1> QED
  BY <1>1, TypeCorrect, Invariance, PTL

(* Two callers are never told of the same instance.                         *)
THEOREM NoInstanceIsSharedOut == Spec => []NoInstanceTwice
<1>1. IInv => NoInstanceTwice
  BY DEF IInv
<1> QED
  BY <1>1, Invariance, PTL

(* No instance of a batch is dropped by the error that follows it.          *)
THEOREM NoInstanceIsDropped == Spec => []NoInstanceDropped
<1>1. IInv => NoInstanceDropped
  BY DEF IInv
<1> QED
  BY <1>1, Invariance, PTL

(* The window with its goroutine and timers implements the service that     *)
(* BatchService describes: each step is one of the service or a stutter.    *)
THEOREM ImplementsService == Spec => ServiceSpec
<1>1. Init => Service!Init
  BY DEF Init, Service!Init, Failure, Service!Failure
<1>2. TypeOK /\ IInv /\ [Next]_vars => [Service!Next]_(Service!vars)
  <2> SUFFICES ASSUME TypeOK, IInv, [Next]_vars PROVE Service!Next \/ UNCHANGED <<caller, answer>>
    BY DEF Service!vars
  <2>1. ASSUME NEW r \in Request, Add(r) PROVE Service!Next
    BY <2>1 DEF Add, Service!Next, Service!Submit
  <2>2. ASSUME NEW r \in Request, AddRefused(r) PROVE Service!Next
    BY <2>2 DEF AddRefused, Service!Next, Service!Refuse
  <2>3. ASSUME NEW r \in Request, Cancel(r) PROVE Service!Next
    BY <2>3 DEF Cancel, Service!Next, Service!Cancel
  <2>4. ASSUME NEW r \in Request, Receive(r) PROVE Service!Next
    <3>1. PICK a \in resultCh[r] : answer' = [answer EXCEPT ![r] = a]
      BY <2>4 DEF Receive
    <3>2. a \in Nat /\ answer'[r] = a /\ answer[r] = Failure
      BY <2>4, <3>1 DEF Receive, TypeOK, Answer, IInv, OneAnswer
    <3>3. ASSUME a # Failure, NEW s \in Request PROVE answer[s] # a
      BY <3>2, <3>3 DEF IInv, NoInstanceTwice, Told
    <3> QED
      BY <2>4, <3>1, <3>2, <3>3 DEF Receive, Service!Next, Service!Serve, Failure, Service!Failure
  <2>5. CASE UNCHANGED callerVars
    BY <2>5 DEF callerVars
  <2> QED
    BY <2>1, <2>2, <2>3, <2>4, <2>5
    DEF Next, IdleExpires, MaxExpires, FlushIdle, FlushMax, Close, Goroutine,
        RunInstances, Distribute, ExecuteReturns, SendError, FlushEnds, vars
<1> QED
  BY <1>1, <1>2, TypeCorrect, Invariance, PTL DEF Spec, ServiceSpec, Service!Spec

================================================================================
