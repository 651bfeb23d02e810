---------------------------- MODULE WindowedBatcher ----------------------------
(***************************************************************************)
(* The map of batch windows (pkg/batcher/window.go, WindowedBatcher) with   *)
(* its cleanup and Close.  Batch looks the window of its key up under the   *)
(* lock of the map, lets the lock go and adds to the window.  What a window *)
(* does with its items is module BatchWindow; here it takes an item unless  *)
(* it is closed, and is numbered in the order windows are made.             *)
(***************************************************************************)
EXTENDS Naturals

CONSTANTS
  Key, Call,
  WindowTTL,     (* windowTTL, 10 minutes                                     *)
  Delay,         (* the time from the lookup of a window to Add               *)
  MaxTime,       (* bounds of the model: the clock, and the windows made      *)
  MaxWindows

(* What the constants are. *)
BatcherAssumption ==
  /\ WindowTTL \in Nat
  /\ Delay \in Nat
  /\ Delay <= WindowTTL
  /\ MaxTime \in Nat
  /\ MaxWindows \in Nat

None == 0

VARIABLES
  now,
  window,        (* the window of each key, or None                           *)
  lastAccess,    (* by key: none or one time                                  *)
  made,          (* windows made so far                                       *)
  keyOf,         (* the key each of them was made for                         *)
  shut,          (* the windows that are closed                               *)
  stopped,       (* Close has been called: the cleanup goroutine ends         *)
  call           (* each call of Batch: where it is and what it holds         *)

vars == <<now, window, lastAccess, made, keyOf, shut, stopped, call>>

(* Mutation: the time of the last access is set when a window is made. *)
LookupOnce(c, k) ==
  /\ call[c].at = "idle"
  /\ IF window[k] = None
       THEN /\ made < MaxWindows
            /\ made' = made + 1
            /\ window' = [window EXCEPT ![k] = made']
            /\ keyOf' = [keyOf EXCEPT ![made'] = {k}]
            /\ lastAccess' = [lastAccess EXCEPT ![k] = {now}]
       ELSE UNCHANGED <<made, window, keyOf, lastAccess>>
  /\ call' = [call EXCEPT ![c] = [at |-> "found", window |-> window'[k], time |-> now]]
  /\ UNCHANGED <<now, shut, stopped>>

(* Batch, under the lock of the map. *)
Lookup(c, k) ==
  /\ call[c].at = "idle"
  /\ lastAccess' = [lastAccess EXCEPT ![k] = {now}]
  /\ IF window[k] = None
       THEN /\ made < MaxWindows
            /\ made' = made + 1
            /\ window' = [window EXCEPT ![k] = made']
            /\ keyOf' = [keyOf EXCEPT ![made'] = {k}]
       ELSE UNCHANGED <<made, window, keyOf>>
  /\ call' = [call EXCEPT ![c] = [at |-> "found", window |-> window'[k], time |-> now]]
  /\ UNCHANGED <<now, shut, stopped>>

(* Batch, after the lock: the Add of the window it found. *)
Add(c) ==
  /\ call[c].at = "found"
  /\ call' = [call EXCEPT ![c].at = IF call[c].window \in shut THEN "refused" ELSE "added"]
  /\ UNCHANGED <<now, window, lastAccess, made, keyOf, shut, stopped>>

Again(c) ==
  /\ call[c].at \in {"added", "refused"}
  /\ call' = [call EXCEPT ![c] = [at |-> "idle", window |-> None, time |-> 0]]
  /\ UNCHANGED <<now, window, lastAccess, made, keyOf, shut, stopped>>

Unused(k) == \E t \in lastAccess[k] : t + WindowTTL < now

(* Mutation: the windows that are not used are removed but not closed. *)
CleanupForgets ==
  /\ window' = [k \in Key |-> IF Unused(k) THEN None ELSE window[k]]
  /\ lastAccess' = [k \in Key |-> IF Unused(k) THEN {} ELSE lastAccess[k]]
  /\ UNCHANGED <<now, made, keyOf, shut, stopped, call>>

(* cleanupExpiredWindows, from cleanupLoop: at any time, and once more after *)
(* Close if the ticker is due by then.                                      *)
CleanupExpiredWindows ==
  /\ shut' = shut \cup {window[k] : k \in {l \in Key : Unused(l) /\ window[l] # None}}
  /\ window' = [k \in Key |-> IF Unused(k) THEN None ELSE window[k]]
  /\ lastAccess' = [k \in Key |-> IF Unused(k) THEN {} ELSE lastAccess[k]]
  /\ UNCHANGED <<now, made, keyOf, stopped, call>>

(* Close; a second one would close stopCleanup again, and panic. *)
Close ==
  /\ ~stopped
  /\ stopped' = TRUE
  /\ shut' = shut \cup {window[k] : k \in {l \in Key : window[l] # None}}
  /\ window' = [k \in Key |-> None]
  /\ lastAccess' = [k \in Key |-> {}]
  /\ UNCHANGED <<now, made, keyOf, call>>

Tick ==
  /\ now < MaxTime
  /\ \A c \in Call : call[c].at = "found" => now < call[c].time + Delay
  /\ now' = now + 1
  /\ UNCHANGED <<window, lastAccess, made, keyOf, shut, stopped, call>>

Init ==
  /\ now = 0
  /\ window = [k \in Key |-> None]
  /\ lastAccess = [k \in Key |-> {}]
  /\ made = 0
  /\ keyOf = [w \in 1..MaxWindows |-> {}]
  /\ shut = {}
  /\ stopped = FALSE
  /\ call = [c \in Call |-> [at |-> "idle", window |-> None, time |-> 0]]

Next ==
  \/ \E c \in Call : Add(c) \/ Again(c) \/ \E k \in Key : Lookup(c, k)
  \/ CleanupExpiredWindows \/ Close \/ Tick

Spec == Init /\ [][Next]_vars

--------------------------------------------------------------------------------
TypeOK ==
  /\ now \in Nat
  /\ window \in [Key -> 0..made]
  /\ lastAccess \in [Key -> SUBSET Nat]
  /\ made \in 0..MaxWindows
  /\ keyOf \in [1..MaxWindows -> SUBSET Key]
  /\ shut \subseteq 1..made
  /\ stopped \in BOOLEAN
  /\ call \in [Call -> [at : {"idle", "found", "added", "refused"}, window : 0..made, time : Nat]]

(* A call is refused only when Close has been called: a window in use is    *)
(* not cleaned up between its lookup and Add, since the lookup renewed it.  *)
RefusedOnlyByClose == \A c \in Call : call[c].at = "refused" => stopped

(* The open windows are those of the map, each with the time of its last    *)
(* access: two never take requests of one key side by side, a closed one is *)
(* never found again to refuse them, and none escapes the cleanup.          *)
MapIsOfOpen ==
  /\ \A w \in 1..made : w \notin shut => \A k \in keyOf[w] : window[k] = w
  /\ \A k \in Key : /\ window[k] \notin shut
                    /\ window[k] # None <=> lastAccess[k] # {}

================================================================================
