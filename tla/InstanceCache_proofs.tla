------------------------- MODULE InstanceCache_proofs -------------------------
(* What is proved of InstanceCache, for any readers, TTL and delay. *)
EXTENDS InstanceCache, TLAPS

(* The variables of the cache keep their types. *)
THEOREM TypeCorrect == Spec => []TypeOK
<1>1. Init => TypeOK
  <2> SUFFICES ASSUME Init PROVE TypeOK
    OBVIOUS
  <2>1. began \in Seq(Nat)
    BY DEF Init
  <2>2. /\ cache \in SUBSET [rev : Nat, expires : Nat]
        /\ flight \in SUBSET [waiters : SUBSET Reader, result : SUBSET Answers]
        /\ listed \in SUBSET Answers
    BY DEF Init
  <2>3. read \in [Reader -> Answers]
    BY DEF Init, Answers, Nothing, None
  <2>4. answer \in [Reader -> Nat] /\ floor \in [Reader -> Nat] /\ told \in Nat
    BY DEF Init, None
  <2> QED
    BY <2>1, <2>2, <2>3, <2>4 DEF Init, TypeOK
<1>2. TypeOK /\ [Next]_vars => TypeOK'
  <2> SUFFICES ASSUME TypeOK, [Next]_vars PROVE TypeOK'
    OBVIOUS
  <2> USE CacheAssumption
  <2>0. Current \in Nat /\ Reading \in Answers
    BY DEF TypeOK, Current, Reading, Answers
  <2>00. Nothing \in Answers /\ None \in Nat
    BY DEF Nothing, Answers, None
  <2>1. ASSUME NEW c \in Reader, Get(c) PROVE TypeOK'
    <3>1. CASE GetHit(c)
      BY <3>1 DEF GetHit, TypeOK, ecsVars
    <3>2. CASE GetMiss(c) \/ GetSkip(c)
      BY <3>2, <2>00 DEF GetMiss, GetSkip, TypeOK, ecsVars
    <3>3. CASE DropExpired(c)
      BY <3>3 DEF DropExpired, TypeOK, ecsVars
    <3>4. CASE Do(c)
      <4>1. flight' \in SUBSET [waiters : SUBSET Reader, result : SUBSET Answers]
        <5>1. [waiters |-> {c}, result |-> {}] \in [waiters : SUBSET Reader, result : SUBSET Answers]
          OBVIOUS
        <5>2. ASSUME NEW f \in flight
              PROVE  [f EXCEPT !.waiters = @ \cup {c}] \in [waiters : SUBSET Reader, result : SUBSET Answers]
          <6>1. f \in [waiters : SUBSET Reader, result : SUBSET Answers]
            BY DEF TypeOK
          <6> QED
            BY <6>1
        <5> QED
          BY <3>4, <5>1, <5>2 DEF Do
      <4> QED
        BY <3>4, <4>1 DEF Do, TypeOK, ecsVars
    <3>5. CASE GetReturns(c)
      <4>1. read[c].rev \in Nat
        BY DEF TypeOK, Answers
      <4>2. Entry(read[c].rev) \in SUBSET [rev : Nat, expires : Nat]
        BY <4>1 DEF Entry, TypeOK
      <4>3. cache' \in SUBSET [rev : Nat, expires : Nat]
        BY <3>5, <4>2 DEF GetReturns
      <4>4. read' \in [Reader -> Answers] /\ floor' \in [Reader -> Nat]
        BY <3>5, <2>00 DEF GetReturns, TypeOK
      <4> QED
        BY <3>5, <4>1, <4>3, <4>4 DEF GetReturns, TypeOK, ecsVars
    <3> QED
      BY <2>1, <3>1, <3>2, <3>3, <3>4, <3>5 DEF Get
  <2>2. CASE EcsAnswers
    <3>1. flight' \in SUBSET [waiters : SUBSET Reader, result : SUBSET Answers]
      <4> PICK f \in flight : flight' = (flight \ {f}) \cup {[f EXCEPT !.result = {Reading}]}
        BY <2>2 DEF EcsAnswers
      <4>1. f \in [waiters : SUBSET Reader, result : SUBSET Answers]
        BY DEF TypeOK
      <4>2. [f EXCEPT !.result = {Reading}] \in [waiters : SUBSET Reader, result : SUBSET Answers]
        BY <4>1, <2>0
      <4> QED
        BY <4>2 DEF TypeOK
    <3> QED
      BY <2>2, <3>1 DEF EcsAnswers, TypeOK, ecsVars, callerVars
  <2>3. CASE Lands
    <3> PICK f \in flight : \E r \in f.result :
          /\ flight' = flight \ {f}
          /\ pc' = [c \in Reader |-> IF c \in f.waiters THEN "got" ELSE pc[c]]
          /\ read' = [c \in Reader |-> IF c \in f.waiters THEN r ELSE read[c]]
          /\ told' = IF r.rev > told THEN r.rev ELSE told
      BY <2>3 DEF Lands
    <3> PICK r \in f.result :
          /\ flight' = flight \ {f}
          /\ pc' = [c \in Reader |-> IF c \in f.waiters THEN "got" ELSE pc[c]]
          /\ read' = [c \in Reader |-> IF c \in f.waiters THEN r ELSE read[c]]
          /\ told' = IF r.rev > told THEN r.rev ELSE told
      OBVIOUS
    <3>1. r \in Answers /\ r.rev \in Nat
      BY DEF TypeOK, Answers
    <3>2. read' \in [Reader -> Answers] /\ told' \in Nat
      BY <3>1 DEF TypeOK
    <3> QED
      BY <2>3, <3>2 DEF Lands, TypeOK, ecsVars
  <2>4. CASE Fails
    BY <2>4, <2>00 DEF Fails, TypeOK, ecsVars
  <2>5. CASE DeleteAccepted \/ EcsChanges
    <3>1. began' \in Seq(Nat)
      <4>1. began' = Append(began, now)
        BY <2>5 DEF DeleteAccepted, EcsChanges
      <4>2. began \in Seq(Nat) /\ now \in Nat
        BY DEF TypeOK
      <4> QED
        BY <4>1, <4>2
    <3> QED
      BY <2>5, <3>1 DEF DeleteAccepted, EcsChanges, TypeOK, callerVars
  <2>6. CASE DeleteDrops
    BY <2>6 DEF DeleteDrops, TypeOK, ecsVars, callerVars
  <2>7. CASE ListReads
    BY <2>7, <2>0 DEF ListReads, TypeOK, ecsVars, callerVars
  <2>8. CASE ListStores
    <3>1. cache' \in SUBSET [rev : Nat, expires : Nat]
      BY <2>8 DEF ListStores, Entry, TypeOK, Answers
    <3> QED
      BY <2>8, <3>1 DEF ListStores, TypeOK, ecsVars, callerVars
  <2>9. CASE Tick
    BY <2>9 DEF Tick, TypeOK, ecsVars, callerVars
  <2>10. CASE UNCHANGED vars
    BY <2>10 DEF vars, TypeOK, ecsVars, callerVars
  <2> QED
    BY <2>1, <2>2, <2>3, <2>4, <2>5, <2>6, <2>7, <2>8, <2>9, <2>10 DEF Next
<1> QED
  BY <1>1, <1>2, PTL DEF Spec

--------------------------------------------------------------------------------
(* The answers that are held are those of flights, of List and of readers.  *)
OneOfTheHeld(P) ==
  \/ \E f \in flight : P \in f.result
  \/ P \in listed
  \/ \E c \in Reader : pc[c] = "got" /\ P = read[c]

LEMMA HeldParts ==
  /\ \A P : P \in Held <=> OneOfTheHeld(P)
  /\ \A P : (P \in Held)' <=> OneOfTheHeld(P)'
<1>1. \A P : P \in InFlight <=> \E f \in flight : P \in f.result
  BY DEF InFlight
<1>2. \A P : P \in InHand <=> \E c \in Reader : pc[c] = "got" /\ P = read[c]
  BY DEF InHand
<1>3. \A P : P \in InFlight' <=> \E f \in flight' : P \in f.result
  BY DEF InFlight
<1>4. \A P : P \in InHand' <=> \E c \in Reader : pc'[c] = "got" /\ P = read'[c]
  BY DEF InHand
<1> QED
  BY <1>1, <1>2, <1>3, <1>4 DEF Held, OneOfTheHeld

(* What the inductive invariant says of one held answer and of one entry.   *)
SoundAnswer(r) ==
  /\ r.rev \in 1..Current
  /\ r.at <= now
  /\ now <= r.at + Delay
  /\ r.rev # Current => r.at <= began[r.rev + 1]

SoundEntry(e) ==
  /\ e.rev \in 1..Current
  /\ e.expires <= now + TTL
  /\ e.rev # Current => e.expires <= began[e.rev + 1] + TTL + Delay

(* An answer that is stored within Delay makes a sound entry.               *)
LEMMA StoredIsSound ==
  ASSUME TypeOK, NEW r \in Answers, SoundAnswer(r)
  PROVE  \A e \in Entry(r.rev) : SoundEntry(e)
<1> USE CacheAssumption
<1>1. r.rev \in Nat /\ r.at \in Nat /\ now \in Nat /\ Current \in Nat
  BY DEF TypeOK, Answers, Current
<1>2. r.rev # Current => began[r.rev + 1] \in Nat
  BY <1>1 DEF TypeOK, SoundAnswer, Current
<1> QED
  BY <1>1, <1>2 DEF Entry, SoundEntry, SoundAnswer

(* A new state of the instance leaves what is held and cached sound.        *)
LEMMA ChangeKeepsSound ==
  ASSUME TypeOK, began' = Append(began, now), UNCHANGED now, Current >= 1
  PROVE  /\ Current' = Current + 1
         /\ \A r \in Answers : SoundAnswer(r) => SoundAnswer(r)'
         /\ \A e \in [rev : Nat, expires : Nat] : SoundEntry(e) => SoundEntry(e)'
<1> USE CacheAssumption
<1>1. now \in Nat /\ Current \in Nat /\ began \in Seq(Nat)
  BY DEF TypeOK, Current
<1>2. Current' = Current + 1 /\ now' = now
  BY <1>1 DEF Current
<1>3. began'[Current + 1] = now
  BY <1>1 DEF Current
<1>4. \A k \in 1..Current : began'[k] = began[k] /\ began[k] \in Nat
  BY <1>1 DEF Current
<1>5. ASSUME NEW r \in Answers, SoundAnswer(r) PROVE SoundAnswer(r)'
  <2>0. r.rev \in Nat /\ r.at \in Nat
    BY DEF Answers
  <2>1. r.rev \in 1..Current' /\ r.at <= now' /\ now' <= r.at + Delay
    BY <1>1, <1>2, <1>5 DEF SoundAnswer
  <2>2. CASE r.rev = Current
    <3>1. r.at <= began'[r.rev + 1]
      BY <1>3, <1>5, <2>2 DEF SoundAnswer
    <3> QED
      BY <2>1, <3>1 DEF SoundAnswer
  <2>3. CASE r.rev # Current
    <3>1. r.rev + 1 \in 1..Current
      BY <1>1, <1>5, <2>0, <2>3 DEF SoundAnswer
    <3>2. r.at <= began'[r.rev + 1]
      BY <1>4, <1>5, <2>3, <3>1 DEF SoundAnswer
    <3> QED
      BY <2>1, <3>2 DEF SoundAnswer
  <2> QED
    BY <2>2, <2>3
<1>6. ASSUME NEW e \in [rev : Nat, expires : Nat], SoundEntry(e) PROVE SoundEntry(e)'
  <2>0. e.rev \in Nat /\ e.expires \in Nat
    OBVIOUS
  <2>1. e.rev \in 1..Current' /\ e.expires <= now' + TTL
    BY <1>1, <1>2, <1>6 DEF SoundEntry
  <2>2. CASE e.rev = Current
    <3>1. e.expires <= began'[e.rev + 1] + TTL + Delay
      <4>1. began'[e.rev + 1] = now
        BY <1>3, <2>2
      <4>2. e.expires <= now + TTL + Delay
        BY <1>1, <1>6, <2>0 DEF SoundEntry
      <4> QED
        BY <4>1, <4>2
    <3> QED
      BY <2>1, <3>1 DEF SoundEntry
  <2>3. CASE e.rev # Current
    <3>1. e.rev + 1 \in 1..Current
      BY <1>1, <1>6, <2>0, <2>3 DEF SoundEntry
    <3>2. e.expires <= began'[e.rev + 1] + TTL + Delay
      <4>1. e.expires <= began[e.rev + 1] + TTL + Delay
        BY <1>6, <2>3 DEF SoundEntry
      <4>2. began'[e.rev + 1] = began[e.rev + 1] /\ began[e.rev + 1] \in Nat
        BY <1>4, <3>1
      <4> QED
        BY <4>1, <4>2
    <3> QED
      BY <2>1, <3>2 DEF SoundEntry
  <2> QED
    BY <2>2, <2>3
<1> QED
  BY <1>2, <1>5, <1>6

--------------------------------------------------------------------------------
(* The inductive invariant holds in every state.                            *)
THEOREM Invariance == Spec => []IInv
<1>1. Init => IInv
  <2> SUFFICES ASSUME Init PROVE IInv
    OBVIOUS
  <2>1. Current = 1
    BY DEF Init, Current
  <2>2. Held = {} /\ cache = {} /\ flight = {}
    BY DEF Init, Held, InFlight, InHand
  <2>3. told = 0 /\ \A c \in Reader : floor[c] = 0 /\ pc[c] # "got"
    BY DEF Init, None
  <2> QED
    BY <2>1, <2>2, <2>3 DEF IInv, HeldIsSound, CacheIsSound, FlightIsNew, SkipNotBehind
<1>2. TypeOK /\ IInv /\ [Next]_vars => IInv'
  <2> SUFFICES ASSUME TypeOK, IInv, [Next]_vars PROVE IInv'
    OBVIOUS
  <2> USE CacheAssumption
  <2>a. /\ Current \in Nat /\ Current >= 1 /\ now \in Nat /\ told \in Nat
        /\ \A c \in Reader : read[c] \in Answers /\ read[c].rev \in Nat /\ floor[c] \in Nat
    BY DEF IInv, TypeOK, Current, Answers
  <2>b. \A r \in Held : r \in Answers /\ SoundAnswer(r)
    <3>1. \A r \in Held : r \in Answers
      <4>1. \A f \in flight : f.result \subseteq Answers
        BY DEF TypeOK
      <4>2. listed \subseteq Answers
        BY DEF TypeOK
      <4> QED
        BY <2>a, <4>1, <4>2, HeldParts DEF OneOfTheHeld
    <3> QED
      BY <3>1 DEF IInv, HeldIsSound, SoundAnswer
  <2>c. \A e \in cache : e \in [rev : Nat, expires : Nat] /\ SoundEntry(e)
    BY DEF IInv, CacheIsSound, SoundEntry, TypeOK
  <2>d. SoundAnswer(Reading) /\ Reading \in Answers
    BY <2>a DEF SoundAnswer, Reading, Answers
  <2>e. ASSUME \A r \in Held' : r \in Held \/ r = Reading, UNCHANGED <<now, began>> PROVE HeldIsSound'
    <3>1. \A r \in Held' : SoundAnswer(r)
      BY <2>b, <2>d, <2>e
    <3> QED
      BY <2>e, <3>1 DEF HeldIsSound, SoundAnswer, Current
  <2>f. ASSUME \A e \in cache' : e \in cache \/ \E r \in Held : e \in Entry(r.rev), UNCHANGED <<now, began>>
        PROVE  CacheIsSound'
    <3>1. \A e \in cache' : SoundEntry(e)
      BY <2>b, <2>c, <2>f, StoredIsSound
    <3> QED
      BY <2>f, <3>1 DEF CacheIsSound, SoundEntry, Current
  <2>1. ASSUME NEW c \in Reader, GetHit(c) PROVE IInv'
    BY <2>1 DEF GetHit, IInv, HeldIsSound, CacheIsSound, FlightIsNew, SkipNotBehind, Held, InFlight, InHand, Current, ecsVars
  <2>2. ASSUME NEW c \in Reader, GetMiss(c) \/ GetSkip(c) \/ DropExpired(c) \/ Do(c) PROVE IInv'
    <3>1. /\ UNCHANGED <<now, began, read, listed, told>>
          /\ cache' \subseteq cache
          /\ \A d \in Reader : pc'[d] = "got" => pc[d] = "got" /\ floor'[d] = floor[d]
          /\ \A d \in Reader : floor'[d] <= told
      <4>0. pc \in [Reader -> {"idle", "expired", "call", "wait", "got"}] /\ floor \in [Reader -> Nat]
        BY DEF TypeOK
      <4>1. \A d \in Reader : floor[d] <= told
        BY DEF IInv, FlightIsNew
      <4>2. CASE GetMiss(c)
        BY <4>0, <4>1, <4>2 DEF GetMiss, ecsVars
      <4>3. CASE GetSkip(c)
        BY <4>0, <4>1, <4>3, <2>a DEF GetSkip, ecsVars
      <4>4. CASE DropExpired(c)
        BY <4>0, <4>1, <4>4 DEF DropExpired, ecsVars
      <4>5. CASE Do(c)
        BY <4>0, <4>1, <4>5 DEF Do, ecsVars
      <4> QED
        BY <2>2, <4>2, <4>3, <4>4, <4>5
    <3>2. /\ \A f \in flight' : f.result = {} \/ \E g \in flight : f.result = g.result
          /\ \A f, g \in flight' : f = g
      <4>1. CASE flight' = flight
        BY <4>1 DEF IInv, FlightIsNew
      <4>2. CASE flight' = {[waiters |-> {c}, result |-> {}]}
        BY <4>2
      <4>3. CASE flight' = {[f EXCEPT !.waiters = @ \cup {c}] : f \in flight}
        <5>1. \A f \in flight : [f EXCEPT !.waiters = @ \cup {c}].result = f.result
          BY DEF TypeOK
        <5> QED
          BY <4>3, <5>1 DEF IInv, FlightIsNew
      <4> QED
        BY <2>2, <4>1, <4>2, <4>3 DEF GetMiss, GetSkip, DropExpired, Do
    <3>3. \A r \in Held' : r \in Held
      BY <3>1, <3>2, HeldParts DEF OneOfTheHeld
    <3>4. HeldIsSound' /\ CacheIsSound'
      BY <2>e, <2>f, <3>1, <3>3
    <3>5. FlightIsNew'
      BY <3>1, <3>2 DEF IInv, FlightIsNew, Current
    <3>6. SkipNotBehind'
      BY <3>1 DEF IInv, SkipNotBehind
    <3> QED
      BY <2>a, <3>1, <3>4, <3>5, <3>6 DEF IInv, Current
  <2>3. ASSUME NEW c \in Reader, GetReturns(c) PROVE IInv'
    <3>1. /\ UNCHANGED <<now, began, flight, listed, told>>
          /\ pc[c] = "got" /\ pc' = [pc EXCEPT ![c] = "idle"]
          /\ read' = [read EXCEPT ![c] = Nothing]
          /\ floor' = [floor EXCEPT ![c] = None]
          /\ cache' = {} \/ cache' = Entry(read[c].rev)
      BY <2>3 DEF GetReturns, ecsVars
    <3>2. \A d \in Reader : /\ pc'[d] = "got" => pc[d] = "got" /\ read'[d] = read[d] /\ floor'[d] = floor[d]
                           /\ floor'[d] <= told
      BY <3>1, <2>a DEF TypeOK, None, IInv, FlightIsNew
    <3>3. \A r \in Held' : r \in Held
      BY <3>1, <3>2, HeldParts DEF OneOfTheHeld
    <3>4. read[c] \in Held
      BY <3>1, HeldParts DEF OneOfTheHeld
    <3>5. HeldIsSound' /\ CacheIsSound'
      BY <2>e, <2>f, <3>1, <3>3, <3>4
    <3>6. FlightIsNew' /\ SkipNotBehind'
      BY <3>1, <3>2 DEF IInv, FlightIsNew, SkipNotBehind, Current
    <3> QED
      BY <2>a, <3>1, <3>5, <3>6 DEF IInv, Current
  <2>4. CASE EcsAnswers
    <3> PICK f \in flight : f.result = {} /\ flight' = (flight \ {f}) \cup {[f EXCEPT !.result = {Reading}]}
      BY <2>4 DEF EcsAnswers
    <3>0. UNCHANGED <<now, began, cache, listed, told, pc, read, floor>>
      BY <2>4 DEF EcsAnswers, ecsVars, callerVars
    <3> DEFINE g == [f EXCEPT !.result = {Reading}]
    <3>1. g.result = {Reading}
      BY DEF TypeOK
    <3>2. flight' = {g}
      BY DEF IInv, FlightIsNew
    <3> HIDE DEF g
    <3>3. \A r \in Held' : r \in Held \/ r = Reading
      BY <3>0, <3>1, <3>2, HeldParts DEF OneOfTheHeld
    <3>4. FlightIsNew'
      BY <3>0, <3>1, <3>2, <2>a DEF IInv, FlightIsNew, Reading, Current
    <3> QED
      BY <2>a, <2>e, <2>f, <3>0, <3>3, <3>4 DEF IInv, SkipNotBehind, Current
  <2>5. CASE Lands
    <3> PICK f \in flight : \E r \in f.result :
          /\ flight' = flight \ {f}
          /\ pc' = [c \in Reader |-> IF c \in f.waiters THEN "got" ELSE pc[c]]
          /\ read' = [c \in Reader |-> IF c \in f.waiters THEN r ELSE read[c]]
          /\ told' = IF r.rev > told THEN r.rev ELSE told
      BY <2>5 DEF Lands
    <3> PICK r \in f.result :
          /\ flight' = flight \ {f}
          /\ pc' = [c \in Reader |-> IF c \in f.waiters THEN "got" ELSE pc[c]]
          /\ read' = [c \in Reader |-> IF c \in f.waiters THEN r ELSE read[c]]
          /\ told' = IF r.rev > told THEN r.rev ELSE told
      OBVIOUS
    <3>0. UNCHANGED <<now, began, cache, listed, floor>>
      BY <2>5 DEF Lands, ecsVars
    <3>1. flight' = {}
      BY DEF IInv, FlightIsNew
    <3>2. r \in Held
      BY HeldParts DEF OneOfTheHeld
    <3>3. \A q \in Held' : q \in Held
      BY <3>0, <3>1, <3>2, HeldParts DEF OneOfTheHeld
    <3>4. r.rev \in 1..Current /\ told <= r.rev
      BY <3>2, <2>b DEF SoundAnswer, IInv, FlightIsNew
    <3>5. FlightIsNew'
      BY <3>0, <3>1, <3>4, <2>a DEF IInv, FlightIsNew, Current
    <3>6. SkipNotBehind'
      <4> SUFFICES ASSUME NEW c \in Reader, pc'[c] = "got" PROVE read'[c].rev >= floor'[c]
        BY DEF SkipNotBehind
      <4>1. CASE c \in f.waiters
        BY <4>1, <3>0, <3>4, <2>a DEF IInv, FlightIsNew
      <4>2. CASE c \notin f.waiters
        BY <4>2, <3>0 DEF IInv, SkipNotBehind
      <4> QED
        BY <4>1, <4>2
    <3> QED
      BY <2>a, <2>e, <2>f, <3>0, <3>3, <3>5, <3>6 DEF IInv, Current
  <2>6. CASE Fails
    <3> PICK f \in flight :
          /\ flight' = flight \ {f}
          /\ pc' = [c \in Reader |-> IF c \in f.waiters THEN "idle" ELSE pc[c]]
          /\ floor' = [c \in Reader |-> IF c \in f.waiters THEN None ELSE floor[c]]
      BY <2>6 DEF Fails
    <3>0. UNCHANGED <<now, began, cache, listed, told, read>>
      BY <2>6 DEF Fails, ecsVars
    <3>1. \A d \in Reader : /\ pc'[d] = "got" => pc[d] = "got" /\ floor'[d] = floor[d]
                           /\ floor'[d] <= told
      BY <2>a DEF None, IInv, FlightIsNew
    <3>2. flight' = {}
      BY DEF IInv, FlightIsNew
    <3>3. \A q \in Held' : q \in Held
      BY <3>0, <3>1, <3>2, HeldParts DEF OneOfTheHeld
    <3> QED
      BY <2>a, <2>e, <2>f, <3>0, <3>1, <3>2, <3>3 DEF IInv, FlightIsNew, SkipNotBehind, Current
  <2>7. CASE DeleteAccepted \/ EcsChanges
    <3>1. /\ began' = Append(began, now)
          /\ UNCHANGED <<now, cache, flight, pc, read, floor, listed, told>>
      BY <2>7 DEF DeleteAccepted, EcsChanges, callerVars
    <3>2. Held' = Held
      BY <3>1 DEF Held, InFlight, InHand
    <3>3. Current' = Current + 1
      BY <3>1, <2>a, ChangeKeepsSound
    <3>4. \A r \in Held' : SoundAnswer(r)'
      BY <3>1, <3>2, <2>a, <2>b, ChangeKeepsSound
    <3>5. \A e \in cache' : SoundEntry(e)'
      BY <3>1, <2>a, <2>c, ChangeKeepsSound
    <3>6. HeldIsSound' /\ CacheIsSound'
      BY <3>4, <3>5 DEF HeldIsSound, CacheIsSound, SoundAnswer, SoundEntry
    <3>7. FlightIsNew' /\ SkipNotBehind'
      BY <3>1, <3>3, <2>a DEF IInv, FlightIsNew, SkipNotBehind
    <3> QED
      BY <2>a, <3>3, <3>6, <3>7 DEF IInv
  <2>8. CASE DeleteDrops \/ ListReads \/ ListStores
    <3>1. UNCHANGED <<now, began, flight, pc, read, floor, told>>
      BY <2>8 DEF DeleteDrops, ListReads, ListStores, ecsVars, callerVars
    <3>2. \A r \in listed' : r \in listed \/ r = Reading
      BY <2>8 DEF DeleteDrops, ListReads, ListStores
    <3>3. \A r \in Held' : r \in Held \/ r = Reading
      BY <3>1, <3>2, HeldParts DEF OneOfTheHeld
    <3>4. \A e \in cache' : e \in cache \/ \E r \in Held : e \in Entry(r.rev)
      BY <2>8, HeldParts DEF OneOfTheHeld, DeleteDrops, ListReads, ListStores
    <3> QED
      BY <2>a, <2>e, <2>f, <3>1, <3>3, <3>4 DEF IInv, FlightIsNew, SkipNotBehind, Current
  <2>9. CASE Tick
    <3>1. /\ now' = now + 1
          /\ UNCHANGED <<began, cache, flight, pc, read, floor, listed, told>>
          /\ \A r \in Held : now < r.at + Delay
      BY <2>9 DEF Tick, ecsVars, callerVars
    <3>2. Held' = Held /\ Current' = Current
      BY <3>1 DEF Held, InFlight, InHand, Current
    <3>3. HeldIsSound'
      <4>1. ASSUME NEW r \in Held PROVE SoundAnswer(r)'
        <5>1. r.at \in Nat /\ r.rev \in Nat
          BY <2>b DEF Answers
        <5> QED
          BY <5>1, <2>a, <2>b, <3>1, <3>2 DEF SoundAnswer
      <4> QED
        BY <3>2, <4>1 DEF HeldIsSound, SoundAnswer
    <3>4. CacheIsSound'
      <4>1. ASSUME NEW e \in cache PROVE SoundEntry(e)'
        <5>1. e.expires \in Nat /\ e.rev \in Nat
          BY <2>c
        <5> QED
          BY <5>1, <2>a, <2>c, <3>1, <3>2 DEF SoundEntry
      <4> QED
        BY <3>1, <4>1 DEF CacheIsSound, SoundEntry
    <3> QED
      BY <2>a, <3>1, <3>2, <3>3, <3>4 DEF IInv, FlightIsNew, SkipNotBehind
  <2>10. CASE UNCHANGED vars
    BY <2>10 DEF vars, ecsVars, callerVars, IInv, HeldIsSound, CacheIsSound, FlightIsNew, SkipNotBehind, Held, InFlight, InHand, Current
  <2> QED
    BY <2>1, <2>2, <2>3, <2>4, <2>5, <2>6, <2>7, <2>8, <2>9, <2>10 DEF Next, Get
<1> QED
  BY <1>1, <1>2, TypeCorrect, PTL DEF Spec

--------------------------------------------------------------------------------
(* What is stored or expired is replaced or deleted, never a live entry.    *)
THEOREM LiveEntriesAreKept == Spec => LiveEntryKept
<1>1. TypeOK /\ IInv /\ [Next]_vars =>
        [(\E e \in cache : Live(e)) /\ cache' = {}
           => \/ deleter = "drop"
              \/ \E c \in Reader : pc[c] = "got" /\ Absent(read[c].rev)]_vars
  <2> SUFFICES ASSUME TypeOK, Next, \E e \in cache : Live(e), cache' = {}
               PROVE  \/ deleter = "drop"
                      \/ \E c \in Reader : pc[c] = "got" /\ Absent(read[c].rev)
    OBVIOUS
  <2>0. cache' # cache
    OBVIOUS
  <2>1. ASSUME NEW c \in Reader, Get(c) PROVE pc[c] = "got" /\ Absent(read[c].rev)
    <3>1. ~DropExpired(c)
      BY DEF DropExpired
    <3>2. GetReturns(c)
      BY <2>0, <2>1, <3>1 DEF Get, GetHit, GetMiss, GetSkip, Do
    <3> QED
      BY <3>2 DEF GetReturns, Entry
  <2>2. CASE DeleteDrops
    BY <2>2 DEF DeleteDrops
  <2>3. ~ListStores
    BY DEF ListStores, Entry
  <2> QED
    BY <2>0, <2>1, <2>2, <2>3
    DEF Next, EcsAnswers, Lands, Fails, DeleteAccepted, ListReads, EcsChanges, Tick
<1> QED
  BY <1>1, Invariance, TypeCorrect, PTL DEF Spec, LiveEntryKept

(* Get with its cache, its flights and List and Delete beside it implements *)
(* RecentReads with the TTL and the time of travel as its bound.            *)
THEOREM ImplementsRecentReads == Spec => ReadsAreRecent
<1>1. Init => Reads!Init
  BY DEF Init, Reads!Init, None, Reads!None
<1>2. TypeOK /\ IInv /\ [Next]_vars => [Reads!Next]_(Reads!vars)
  <2> SUFFICES ASSUME TypeOK, IInv, [Next]_vars PROVE [Reads!Next]_(Reads!vars)
    OBVIOUS
  <2> USE CacheAssumption
  <2>a. Current \in Nat /\ now \in Nat
    BY DEF TypeOK, Current
  <2>b. \A k \in 1..Current : began[k] \in Nat
    BY DEF TypeOK, Current
  <2>c. ASSUME NEW e \in cache, Live(e) PROVE Reads!Recent(e.rev)
    <3>1. e.rev \in 1..Current /\ (e.rev # Current => e.expires <= began[e.rev + 1] + TTL + Delay)
      BY DEF IInv, CacheIsSound
    <3>2. now <= e.expires /\ e.expires \in Nat
      BY <2>c DEF Live, TypeOK
    <3>3. e.rev # Current => now <= began[e.rev + 1] + (TTL + Delay)
      <4>1. e.rev # Current => began[e.rev + 1] \in Nat
        BY <2>a, <2>b, <3>1
      <4> QED
        BY <2>a, <3>1, <3>2, <4>1
    <3> QED
      BY <3>1, <3>3 DEF Reads!Recent, Current
  <2>d. ASSUME NEW c \in Reader, pc[c] = "got" PROVE Reads!Recent(read[c].rev)
    <3> DEFINE r == read[c]
    <3>1. r \in Held
      BY <2>d, HeldParts DEF OneOfTheHeld
    <3>2. /\ r.rev \in 1..Current /\ now <= r.at + Delay
          /\ r.rev # Current => r.at <= began[r.rev + 1]
      BY <3>1 DEF IInv, HeldIsSound
    <3>3. r.at \in Nat
      BY DEF TypeOK, Answers
    <3>4. r.rev # Current => now <= began[r.rev + 1] + (TTL + Delay)
      <4>1. r.rev # Current => began[r.rev + 1] \in Nat
        BY <2>a, <2>b, <3>2
      <4> HIDE DEF r
      <4> QED
        BY <2>a, <3>2, <3>3, <4>1
    <3> QED
      BY <3>2, <3>4 DEF Reads!Recent, Current
  <2>1. ASSUME NEW c \in Reader, GetHit(c) PROVE Reads!Answer(c)
    <3> PICK e \in cache : Live(e) /\ answer' = [answer EXCEPT ![c] = e.rev]
      BY <2>1 DEF GetHit
    <3>1. Reads!Recent(e.rev) /\ e.rev \in 1..Len(began)
      BY <2>c DEF Reads!Recent
    <3> QED
      BY <2>1, <3>1 DEF GetHit, ecsVars, Reads!Answer
  <2>2. ASSUME NEW c \in Reader, GetReturns(c) PROVE Reads!Answer(c)
    <3>1. pc[c] = "got" /\ answer' = [answer EXCEPT ![c] = read[c].rev]
      BY <2>2 DEF GetReturns
    <3>2. Reads!Recent(read[c].rev) /\ read[c].rev \in 1..Len(began)
      BY <2>d, <3>1 DEF Reads!Recent
    <3> QED
      BY <2>2, <3>1, <3>2 DEF GetReturns, ecsVars, Reads!Answer
  <2>3. ASSUME NEW c \in Reader, Get(c) PROVE [Reads!Next]_(Reads!vars)
    BY <2>1, <2>2, <2>3
    DEF Get, GetMiss, GetSkip, DropExpired, Do, ecsVars, Reads!Next, Reads!vars
  <2>4. CASE Fails
    <3> PICK f \in flight : answer' = [c \in Reader |-> IF c \in f.waiters THEN None ELSE answer[c]]
      BY <2>4 DEF Fails
    <3>1. f.waiters \in SUBSET Reader
      BY DEF TypeOK
    <3>2. Reads!Fail
      BY <2>4, <3>1 DEF Fails, ecsVars, Reads!Fail, None, Reads!None
    <3> QED
      BY <3>2 DEF Reads!Next
  <2>5. CASE DeleteAccepted \/ EcsChanges
    BY <2>5 DEF DeleteAccepted, EcsChanges, callerVars, Reads!Next, Reads!Change
  <2>6. CASE Tick
    BY <2>6 DEF Tick, ecsVars, callerVars, Reads!Next, Reads!Tick
  <2>7. CASE EcsAnswers \/ Lands \/ DeleteDrops \/ ListReads \/ ListStores \/ UNCHANGED vars
    BY <2>7 DEF EcsAnswers, Lands, DeleteDrops, ListReads, ListStores, vars, ecsVars, callerVars, Reads!vars
  <2> QED
    BY <2>3, <2>4, <2>5, <2>6, <2>7 DEF Next
<1> QED
  BY <1>1, <1>2, Invariance, TypeCorrect, PTL DEF Spec, ReadsAreRecent, Reads!Spec

(* A Get that skips the cache is not answered with less than was told.      *)
THEOREM SkipIsNotBehind == Spec => []SkipNotBehind
<1>1. IInv => SkipNotBehind
  BY DEF IInv
<1> QED
  BY <1>1, Invariance, PTL

================================================================================
