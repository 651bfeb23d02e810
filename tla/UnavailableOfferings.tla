-------------------------- MODULE UnavailableOfferings --------------------------
(***************************************************************************)
(* The marks of offerings that were out of stock                            *)
(* (pkg/cache/unavailable_offerings.go).  Keys are separate, so one key     *)
(* stands for all.  IsAvailable holds the read lock only, and leaves the    *)
(* deletion of an expired mark to a goroutine of its own.                   *)
(***************************************************************************)
EXTENDS Naturals

CONSTANTS
  TTL,           (* the ttl of the cache, 5 minutes by default                *)
  MaxTime,       (* bounds of the model: the clock, and the goroutines that   *)
  MaxCleaners    (* have not run yet                                          *)

(* What the constants are. *)
MarksAssumption == TTL \in Nat /\ MaxTime \in Nat /\ MaxCleaners \in Nat

VARIABLES
  now,
  mark,        (* the entry of the key: none or one expiry time               *)
  cleaners,    (* goroutines that are to run cleanup                          *)
  (* history *)
  marked,      (* the expiry the last MarkUnavailable gave since a Flush      *)
  raced        (* a cleanup was pending when that mark was made               *)

vars == <<now, mark, cleaners, marked, raced>>

Expired(e) == now > e

MarkUnavailable ==
  /\ mark' = {now + TTL}
  /\ marked' = mark'
  /\ raced' = (cleaners > 0)
  /\ UNCHANGED <<now, cleaners>>

(* Mutation: IsAvailable cleans up any mark it meets. *)
IsAvailableEager ==
  /\ mark # {}
  /\ cleaners < MaxCleaners
  /\ cleaners' = cleaners + 1
  /\ UNCHANGED <<now, mark, marked, raced>>

(* IsAvailable changes nothing unless it finds the mark expired.            *)
IsAvailable ==
  /\ \E e \in mark : Expired(e)
  /\ cleaners < MaxCleaners
  /\ cleaners' = cleaners + 1
  /\ UNCHANGED <<now, mark, marked, raced>>

(* Mutation: the goroutine is counted off twice. *)
CleanupTwice ==
  /\ cleaners > 0
  /\ cleaners' = cleaners - 2
  /\ mark' = {}
  /\ UNCHANGED <<now, marked, raced>>

(* The goroutine deletes the key, whatever is there by then.                *)
Cleanup ==
  /\ cleaners > 0
  /\ cleaners' = cleaners - 1
  /\ mark' = {}
  /\ UNCHANGED <<now, marked, raced>>

CleanupExpired ==
  /\ mark' = {e \in mark : ~Expired(e)}
  /\ UNCHANGED <<now, cleaners, marked, raced>>

Flush ==
  /\ mark' = {}
  /\ marked' = {}
  /\ UNCHANGED <<now, cleaners, raced>>

Tick ==
  /\ now < MaxTime
  /\ now' = now + 1
  /\ UNCHANGED <<mark, cleaners, marked, raced>>

Init ==
  /\ now = 0
  /\ mark = {}
  /\ cleaners = 0
  /\ marked = {}
  /\ raced = FALSE

Next == MarkUnavailable \/ IsAvailable \/ Cleanup \/ CleanupExpired \/ Flush \/ Tick

Spec == Init /\ [][Next]_vars

--------------------------------------------------------------------------------
TypeOK ==
  /\ now \in Nat
  /\ mark \in SUBSET Nat
  /\ cleaners \in Nat
  /\ marked \in SUBSET Nat
  /\ raced \in BOOLEAN

(* What IsAvailable answers. *)
Available == \A e \in mark : Expired(e)

HoldsBack == ~Available => \E e \in marked : ~Expired(e)
MarkHolds == ~raced => \A e \in marked : Expired(e) \/ e \in mark

(* A mark lasts for its TTL: no interleaving of marks and cleanups keeps an *)
(* offering away for longer, and none brings it back sooner, unless a       *)
(* cleanup that was pending when the mark was renewed takes it for the      *)
(* expired one.                                                             *)
MarkLasts == HoldsBack /\ MarkHolds

--------------------------------------------------------------------------------
(* The inductive invariant behind them: goroutines that started after the   *)
(* last mark found it expired.                                              *)
IInv ==
  /\ mark \subseteq marked
  /\ \A e, f \in marked : e = f
  /\ cleaners > 0 /\ ~raced => \A e \in marked : Expired(e)
  /\ MarkHolds

================================================================================
