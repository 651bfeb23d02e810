------------------------ MODULE WindowedBatcher_proofs ------------------------
(* What is proved of WindowedBatcher, for any keys, callers and times. *)
EXTENDS WindowedBatcher, TLAPS

Calls(n) == [at : {"idle", "found", "added", "refused"}, window : 0..n, time : Nat]

(* The variables of the batcher keep their types. *)
THEOREM TypeCorrect == ASSUME BatcherAssumption PROVE Spec => []TypeOK
<1> USE BatcherAssumption DEF BatcherAssumption, None
<1>1. Init => TypeOK
  <2> SUFFICES ASSUME Init PROVE TypeOK
    OBVIOUS
  <2>1. window \in [Key -> 0..made] /\ lastAccess \in [Key -> SUBSET Nat] /\ made \in 0..MaxWindows
    BY DEF Init
  <2>2. keyOf \in [1..MaxWindows -> SUBSET Key] /\ shut \subseteq 1..made /\ now \in Nat
    BY DEF Init
  <2>3. [at |-> "idle", window |-> None, time |-> 0] \in Calls(made)
    BY DEF Init, Calls
  <2>4. call \in [Call -> Calls(made)]
    BY <2>3 DEF Init
  <2>5. stopped \in BOOLEAN
    BY DEF Init
  <2> QED
    BY <2>1, <2>2, <2>4, <2>5 DEF TypeOK, Calls
<1>2. TypeOK /\ [Next]_vars => TypeOK'
  <2> SUFFICES ASSUME TypeOK, [Next]_vars PROVE TypeOK'
    OBVIOUS
  <2>0. /\ now \in Nat /\ made \in Nat /\ made \in 0..MaxWindows
        /\ window \in [Key -> 0..made] /\ lastAccess \in [Key -> SUBSET Nat]
        /\ keyOf \in [1..MaxWindows -> SUBSET Key] /\ shut \subseteq 1..made
        /\ stopped \in BOOLEAN /\ call \in [Call -> Calls(made)]
    BY DEF TypeOK, Calls
  <2>1. ASSUME NEW c \in Call, NEW k \in Key, Lookup(c, k) PROVE TypeOK'
    <3>1. lastAccess' \in [Key -> SUBSET Nat]
      BY <2>0, <2>1 DEF Lookup
    <3>2. /\ made' \in 0..MaxWindows /\ made' \in Nat /\ made <= made'
          /\ window' \in [Key -> 0..made'] /\ keyOf' \in [1..MaxWindows -> SUBSET Key]
      <4>1. CASE window[k] = None
        <5>1. made' = made + 1 /\ made' \in 1..MaxWindows
          BY <2>0, <2>1, <4>1 DEF Lookup
        <5>2. window' = [window EXCEPT ![k] = made'] /\ keyOf' = [keyOf EXCEPT ![made'] = {k}]
          BY <2>1, <4>1 DEF Lookup
        <5> QED
          BY <2>0, <5>1, <5>2
      <4>2. CASE window[k] # None
        BY <2>0, <2>1, <4>2 DEF Lookup
      <4> QED
        BY <4>1, <4>2
    <3>3. call' \in [Call -> Calls(made')]
      <4>1. [at |-> "found", window |-> window'[k], time |-> now] \in Calls(made')
        BY <2>0, <3>2 DEF Calls
      <4>2. Calls(made) \subseteq Calls(made')
        BY <2>0, <3>2 DEF Calls
      <4> QED
        BY <2>0, <2>1, <4>1, <4>2 DEF Lookup
    <3>4. shut' \subseteq 1..made'
      BY <2>0, <2>1, <3>2 DEF Lookup
    <3> QED
      BY <2>0, <2>1, <3>1, <3>2, <3>3, <3>4 DEF Lookup, TypeOK, Calls
  <2>2. ASSUME NEW c \in Call, Add(c) PROVE TypeOK'
    <3>1. call' \in [Call -> Calls(made)]
      <4> DEFINE after == IF call[c].window \in shut THEN "refused" ELSE "added"
      <4>1. [call[c] EXCEPT !.at = after] \in Calls(made)
        BY <2>0 DEF Calls
      <4>2. call' = [call EXCEPT ![c] = [call[c] EXCEPT !.at = after]]
        BY <2>0, <2>2 DEF Add
      <4> QED
        BY <2>0, <4>1, <4>2
    <3> QED
      BY <2>0, <2>2, <3>1 DEF Add, TypeOK, Calls
  <2>3. ASSUME NEW c \in Call, Again(c) PROVE TypeOK'
    <3>1. [at |-> "idle", window |-> None, time |-> 0] \in Calls(made)
      BY <2>0 DEF Calls
    <3>2. call' \in [Call -> Calls(made)]
      BY <2>0, <2>3, <3>1 DEF Again
    <3> QED
      BY <2>0, <2>3, <3>2 DEF Again, TypeOK, Calls
  <2>4. CASE CleanupExpiredWindows
    <3>1. window' \in [Key -> 0..made] /\ lastAccess' \in [Key -> SUBSET Nat]
      BY <2>0, <2>4 DEF CleanupExpiredWindows
    <3>2. shut' \subseteq 1..made
      <4>1. \A k \in Key : window[k] # None => window[k] \in 1..made
        BY <2>0
      <4> QED
        BY <2>0, <2>4, <4>1 DEF CleanupExpiredWindows
    <3> QED
      BY <2>0, <2>4, <3>1, <3>2 DEF CleanupExpiredWindows, TypeOK, Calls
  <2>5. CASE Close
    <3>1. stopped' \in BOOLEAN
      BY <2>5 DEF Close
    <3>2. window' \in [Key -> 0..made] /\ lastAccess' \in [Key -> SUBSET Nat]
      BY <2>0, <2>5 DEF Close
    <3>3. shut' \subseteq 1..made
      <4>1. \A k \in Key : window[k] # None => window[k] \in 1..made
        BY <2>0
      <4> QED
        BY <2>0, <2>5, <4>1 DEF Close
    <3> QED
      BY <2>0, <2>5, <3>1, <3>2, <3>3 DEF Close, TypeOK, Calls
  <2>6. CASE Tick
    BY <2>0, <2>6 DEF Tick, TypeOK, Calls
  <2>7. CASE UNCHANGED vars
    BY <2>0, <2>7 DEF vars, TypeOK, Calls
  <2> QED
    BY <2>1, <2>2, <2>3, <2>4, <2>5, <2>6, <2>7 DEF Next
<1> QED
  BY <1>1, <1>2, PTL DEF Spec

--------------------------------------------------------------------------------
(* A window of the map is the one made last for its key, so no two keys have *)
(* the same one.                                                            *)
OneKey == \A k \in Key : window[k] # None => keyOf[window[k]] = {k}

(* Until Close, the window of a call that is to add is still that of a key,  *)
(* which was accessed no earlier than the call looked it up.                *)
Held(c) == \E k \in Key : /\ window[k] = call[c].window
                          /\ window[k] # None
                          /\ \A t \in lastAccess[k] : call[c].time <= t
FoundIsHeld ==
  \A c \in Call : call[c].at = "found" => /\ call[c].time <= now
                                          /\ now <= call[c].time + Delay
                                          /\ stopped \/ Held(c)

IInv == OneKey /\ MapIsOfOpen /\ FoundIsHeld /\ RefusedOnlyByClose

(* Two keys do not share a window. *)
LEMMA WindowsDiffer ==
  ASSUME OneKey, NEW k \in Key, NEW l \in Key, window[k] # None, window[k] = window[l]
  PROVE  k = l
  BY DEF OneKey

(* A lookup renews the window of its key, and a new one is not closed. *)
LEMMA LookupKeeps ==
  ASSUME BatcherAssumption, TypeOK, IInv, NEW c \in Call, NEW k \in Key, Lookup(c, k)
  PROVE  IInv'
<1> USE BatcherAssumption DEF BatcherAssumption, None
<1>0. /\ now \in Nat /\ made \in Nat /\ made \in 0..MaxWindows
      /\ window \in [Key -> 0..made] /\ lastAccess \in [Key -> SUBSET Nat]
      /\ keyOf \in [1..MaxWindows -> SUBSET Key] /\ shut \subseteq 1..made
      /\ call \in [Call -> Calls(made)]
  BY DEF TypeOK, Calls
<1>1. /\ lastAccess' = [lastAccess EXCEPT ![k] = {now}]
      /\ call' = [call EXCEPT ![c] = [at |-> "found", window |-> window'[k], time |-> now]]
      /\ now' = now /\ shut' = shut /\ stopped' = stopped
  BY DEF Lookup
<1>2. /\ window'[k] # None
      /\ \A l \in Key \ {k} : window'[l] = window[l]
      /\ window[k] # None => window' = window /\ made' = made /\ keyOf' = keyOf
      /\ window[k] = None => /\ made' = made + 1 /\ made' <= MaxWindows
                             /\ window' = [window EXCEPT ![k] = made']
                             /\ keyOf' = [keyOf EXCEPT ![made'] = {k}]
  BY <1>0 DEF Lookup
<1>3. OneKey'
  <2> SUFFICES ASSUME NEW l \in Key, window'[l] # None PROVE keyOf'[window'[l]] = {l}
    BY DEF OneKey
  <2>1. CASE window[k] # None
    BY <1>2, <2>1 DEF IInv, OneKey
  <2>2. CASE window[k] = None /\ l = k
    BY <1>0, <1>2, <2>2
  <2>3. CASE window[k] = None /\ l # k
    <3>1. window'[l] = window[l] /\ window[l] \in 1..made
      BY <1>0, <1>2, <2>3
    <3>2. keyOf'[window[l]] = keyOf[window[l]]
      BY <1>0, <1>2, <2>3, <3>1
    <3> QED
      BY <3>1, <3>2 DEF IInv, OneKey
  <2> QED
    BY <2>1, <2>2, <2>3
<1>4. MapIsOfOpen'
  <2>1. CASE window[k] # None
    BY <1>0, <1>1, <1>2, <2>1 DEF IInv, MapIsOfOpen
  <2>2. CASE window[k] = None
    <3>1. ASSUME NEW w \in 1..made', w \notin shut', NEW l \in keyOf'[w] PROVE window'[l] = w
      <4>1. CASE w = made'
        BY <1>0, <1>2, <2>2, <3>1, <4>1
      <4>2. CASE w # made'
        <5>1. w \in 1..made /\ keyOf'[w] = keyOf[w]
          BY <1>0, <1>2, <2>2, <4>2
        <5>2. l \in Key /\ window[l] = w
          BY <1>0, <1>1, <3>1, <5>1 DEF IInv, MapIsOfOpen
        <5>3. l # k
          BY <2>2, <5>1, <5>2
        <5> QED
          BY <1>2, <5>2, <5>3
      <4> QED
        BY <4>1, <4>2
    <3>2. ASSUME NEW l \in Key PROVE window'[l] \notin shut'
      <4>1. CASE l = k
        BY <1>0, <1>1, <1>2, <2>2, <4>1
      <4>2. CASE l # k
        BY <1>1, <1>2, <4>2 DEF IInv, MapIsOfOpen
      <4> QED
        BY <4>1, <4>2
    <3>3. ASSUME NEW l \in Key PROVE window'[l] # None <=> lastAccess'[l] # {}
      <4>1. CASE l = k
        BY <1>0, <1>1, <1>2, <4>1
      <4>2. CASE l # k
        BY <1>0, <1>1, <1>2, <4>2 DEF IInv, MapIsOfOpen
      <4> QED
        BY <4>1, <4>2
    <3> QED
      BY <3>1, <3>2, <3>3 DEF MapIsOfOpen
  <2> QED
    BY <2>1, <2>2
<1>5. FoundIsHeld'
  <2> SUFFICES ASSUME NEW d \in Call, call'[d].at = "found"
               PROVE  call'[d].time <= now' /\ now' <= call'[d].time + Delay /\ (stopped' \/ Held(d)')
    BY DEF FoundIsHeld
  <2>1. CASE d = c
    <3>1. call'[d].window = window'[k] /\ call'[d].time = now
      BY <1>0, <1>1, <2>1
    <3>2. \A t \in lastAccess'[k] : t = now
      BY <1>0, <1>1
    <3>3. Held(d)'
      BY <1>0, <1>2, <3>1, <3>2 DEF Held
    <3> QED
      BY <1>0, <1>1, <3>1, <3>3
  <2>2. CASE d # c
    <3>1. call'[d] = call[d]
      BY <1>0, <1>1, <2>2
    <3>2. call[d].time <= now /\ now <= call[d].time + Delay /\ (stopped \/ Held(d))
      BY <2>2, <3>1 DEF IInv, FoundIsHeld
    <3>3. ASSUME Held(d) PROVE Held(d)'
      <4> PICK l \in Key : /\ window[l] = call[d].window /\ window[l] # None
                           /\ \A t \in lastAccess[l] : call[d].time <= t
        BY <3>3 DEF Held
      <4>1. window'[l] = window[l]
        BY <1>2
      <4>2. CASE l = k
        <5>1. \A t \in lastAccess'[l] : call'[d].time <= t
          BY <1>0, <1>1, <3>1, <3>2, <4>2
        <5> QED
          BY <3>1, <4>1, <5>1 DEF Held
      <4>3. CASE l # k
        <5>1. lastAccess'[l] = lastAccess[l]
          BY <1>0, <1>1, <4>3
        <5> QED
          BY <3>1, <4>1, <5>1 DEF Held
      <4> QED
        BY <4>2, <4>3
    <3> QED
      BY <1>1, <3>1, <3>2, <3>3
  <2> QED
    BY <2>1, <2>2
<1>6. RefusedOnlyByClose'
  BY <1>0, <1>1 DEF IInv, RefusedOnlyByClose
<1> QED
  BY <1>3, <1>4, <1>5, <1>6 DEF IInv

(* A cleanup closes what it removes, and removes no window that is held.     *)
LEMMA CleanupKeeps ==
  ASSUME BatcherAssumption, TypeOK, IInv, CleanupExpiredWindows
  PROVE  IInv'
<1> USE BatcherAssumption DEF BatcherAssumption, None
<1>0. /\ now \in Nat /\ made \in Nat
      /\ window \in [Key -> 0..made] /\ lastAccess \in [Key -> SUBSET Nat]
      /\ shut \subseteq 1..made /\ call \in [Call -> Calls(made)]
  BY DEF TypeOK, Calls
<1>1. /\ now' = now /\ made' = made /\ keyOf' = keyOf /\ stopped' = stopped /\ call' = call
      /\ shut' = shut \cup {window[k] : k \in {l \in Key : Unused(l) /\ window[l] # None}}
      /\ \A k \in Key : /\ window'[k] = IF Unused(k) THEN None ELSE window[k]
                        /\ lastAccess'[k] = IF Unused(k) THEN {} ELSE lastAccess[k]
  BY DEF CleanupExpiredWindows
<1>2. OneKey'
  BY <1>1 DEF IInv, OneKey
<1>3. MapIsOfOpen'
  <2>1. ASSUME NEW w \in 1..made', w \notin shut', NEW k \in keyOf'[w] PROVE window'[k] = w
    <3>1. k \in Key /\ window[k] = w
      BY <1>1, <2>1 DEF IInv, MapIsOfOpen, TypeOK
    <3>2. ~Unused(k)
      BY <1>0, <1>1, <2>1, <3>1
    <3> QED
      BY <1>1, <3>1, <3>2
  <2>2. ASSUME NEW k \in Key PROVE window'[k] \notin shut'
    <3>1. CASE Unused(k)
      BY <1>0, <1>1, <3>1
    <3>2. CASE ~Unused(k)
      <4>1. window'[k] = window[k] /\ window[k] \notin shut
        BY <1>1, <3>2 DEF IInv, MapIsOfOpen
      <4>2. ASSUME NEW l \in Key, Unused(l), window[l] # None PROVE window[l] # window[k]
        BY <3>2, <4>2, WindowsDiffer DEF IInv
      <4> QED
        BY <1>1, <4>1, <4>2
    <3> QED
      BY <3>1, <3>2
  <2>3. \A k \in Key : window'[k] # None <=> lastAccess'[k] # {}
    BY <1>1 DEF IInv, MapIsOfOpen
  <2> QED
    BY <2>1, <2>2, <2>3 DEF MapIsOfOpen
<1>4. FoundIsHeld'
  <2> SUFFICES ASSUME NEW d \in Call, call[d].at = "found", Held(d) PROVE Held(d)'
    BY <1>1 DEF IInv, FoundIsHeld
  <2>1. call[d].time \in Nat /\ now <= call[d].time + Delay
    BY <1>0 DEF IInv, FoundIsHeld, Calls
  <2> PICK k \in Key : /\ window[k] = call[d].window /\ window[k] # None
                       /\ \A t \in lastAccess[k] : call[d].time <= t
    BY DEF Held
  <2>2. ~Unused(k)
    BY <1>0, <2>1 DEF Unused
  <2> QED
    BY <1>1, <2>2 DEF Held
<1>5. RefusedOnlyByClose'
  BY <1>1 DEF IInv, RefusedOnlyByClose
<1> QED
  BY <1>2, <1>3, <1>4, <1>5 DEF IInv

(* The inductive invariant: each window of the map is open and of one key,    *)
(* and a window that was looked up stays in the map until the Add, or Close. *)
THEOREM Invariance == ASSUME BatcherAssumption PROVE Spec => []IInv
<1> USE BatcherAssumption DEF BatcherAssumption
<1>1. Init => IInv
  BY DEF Init, IInv, OneKey, MapIsOfOpen, FoundIsHeld, RefusedOnlyByClose, None
<1>2. TypeOK /\ IInv /\ [Next]_vars => IInv'
  <2> SUFFICES ASSUME TypeOK, IInv, [Next]_vars PROVE IInv'
    OBVIOUS
  <2>0. /\ now \in Nat /\ made \in Nat /\ call \in [Call -> Calls(made)]
        /\ window \in [Key -> 0..made] /\ shut \subseteq 1..made
    BY DEF TypeOK, Calls
  <2>1. ASSUME NEW c \in Call, NEW k \in Key, Lookup(c, k) PROVE IInv'
    BY <2>1, LookupKeeps
  <2>2. ASSUME NEW c \in Call, Add(c) PROVE IInv'
    <3>1. /\ call[c].at = "found"
          /\ call' = [call EXCEPT ![c].at = IF call[c].window \in shut THEN "refused" ELSE "added"]
          /\ now' = now /\ window' = window /\ lastAccess' = lastAccess /\ made' = made
          /\ keyOf' = keyOf /\ shut' = shut /\ stopped' = stopped
      BY <2>2 DEF Add
    <3>2. OneKey' /\ MapIsOfOpen'
      BY <3>1 DEF IInv, OneKey, MapIsOfOpen
    <3>3. \A d \in Call \ {c} : call'[d] = call[d]
      BY <2>0, <3>1
    <3>4. call'[c].at # "found"
      BY <2>0, <3>1
    <3>5. FoundIsHeld'
      BY <3>1, <3>3, <3>4 DEF IInv, FoundIsHeld, Held
    <3>6. call'[c].at = "refused" => stopped
      <4>1. ~stopped => call[c].window \notin shut
        BY <3>1 DEF IInv, FoundIsHeld, Held, MapIsOfOpen
      <4>2. call[c].window \notin shut => call'[c].at = "added"
        BY <2>0, <3>1
      <4> QED
        BY <4>1, <4>2
    <3>7. RefusedOnlyByClose'
      BY <3>1, <3>3, <3>6 DEF IInv, RefusedOnlyByClose
    <3> QED
      BY <3>2, <3>5, <3>7 DEF IInv
  <2>3. ASSUME NEW c \in Call, Again(c) PROVE IInv'
    <3>1. /\ now' = now /\ window' = window /\ lastAccess' = lastAccess /\ made' = made
          /\ keyOf' = keyOf /\ shut' = shut /\ stopped' = stopped
          /\ call'[c].at = "idle" /\ \A d \in Call \ {c} : call'[d] = call[d]
      BY <2>0, <2>3 DEF Again
    <3>2. OneKey' /\ MapIsOfOpen'
      BY <3>1 DEF IInv, OneKey, MapIsOfOpen
    <3>3. FoundIsHeld' /\ RefusedOnlyByClose'
      BY <3>1 DEF IInv, FoundIsHeld, Held, RefusedOnlyByClose
    <3> QED
      BY <3>2, <3>3 DEF IInv
  <2>4. CASE CleanupExpiredWindows
    BY <2>4, CleanupKeeps
  <2>5. CASE Close
    <3>1. /\ stopped' /\ now' = now /\ made' = made /\ keyOf' = keyOf /\ call' = call
          /\ shut' = shut \cup {window[k] : k \in {l \in Key : window[l] # None}}
          /\ \A k \in Key : window'[k] = None /\ lastAccess'[k] = {}
      BY <2>5 DEF Close
    <3>2. \A w \in 1..made : w \notin shut' => keyOf[w] = {}
      <4> SUFFICES ASSUME NEW w \in 1..made, w \notin shut', NEW k \in keyOf[w] PROVE FALSE
        OBVIOUS
      <4>1. k \in Key /\ window[k] = w
        BY <3>1 DEF IInv, MapIsOfOpen, TypeOK
      <4> QED
        BY <3>1, <4>1 DEF None
    <3>3. None \notin shut'
      BY <2>0, <3>1 DEF None
    <3>4. OneKey' /\ MapIsOfOpen'
      BY <3>1, <3>2, <3>3 DEF OneKey, MapIsOfOpen
    <3>5. FoundIsHeld' /\ RefusedOnlyByClose'
      BY <3>1 DEF IInv, FoundIsHeld, RefusedOnlyByClose
    <3> QED
      BY <3>4, <3>5 DEF IInv
  <2>6. CASE Tick
    <3>1. OneKey' /\ MapIsOfOpen' /\ RefusedOnlyByClose'
      BY <2>6 DEF Tick, IInv, OneKey, MapIsOfOpen, RefusedOnlyByClose
    <3>2. FoundIsHeld'
      <4> SUFFICES ASSUME NEW c \in Call, call[c].at = "found"
                   PROVE  call[c].time <= now' /\ now' <= call[c].time + Delay /\ (stopped \/ Held(c)')
        BY <2>6 DEF Tick, FoundIsHeld
      <4>1. stopped \/ Held(c)'
        BY <2>6 DEF Tick, IInv, FoundIsHeld, Held
      <4>2. call[c].time \in Nat /\ call[c].time <= now
        BY <2>0 DEF IInv, FoundIsHeld, Calls
      <4>3. now' = now + 1 /\ now < call[c].time + Delay
        BY <2>6 DEF Tick
      <4> QED
        BY <2>0, <4>1, <4>2, <4>3
    <3> QED
      BY <3>1, <3>2 DEF IInv
  <2>7. CASE UNCHANGED vars
    BY <2>7 DEF vars, IInv, OneKey, MapIsOfOpen, FoundIsHeld, Held, RefusedOnlyByClose
  <2> QED
    BY <2>1, <2>2, <2>3, <2>4, <2>5, <2>6, <2>7 DEF Next
<1> QED
  BY <1>1, <1>2, TypeCorrect, PTL DEF Spec

(* Batch of batcher/window.go is refused by its window only after Close: no  *)
(* cleanup comes between the lookup and the Add, given that they are no      *)
(* further apart than the TTL of windows.                                   *)
THEOREM RefusedByClose == ASSUME BatcherAssumption PROVE Spec => []RefusedOnlyByClose
<1>1. IInv => RefusedOnlyByClose
  BY DEF IInv
<1> QED
  BY <1>1, Invariance, PTL

(* The map of WindowedBatcher has the open windows, each with the time of    *)
(* its last access.                                                         *)
THEOREM MapHasOpen == ASSUME BatcherAssumption PROVE Spec => []MapIsOfOpen
<1>1. IInv => MapIsOfOpen
  BY DEF IInv
<1> QED
  BY <1>1, Invariance, PTL

================================================================================
