----------------------------- MODULE InstanceCache -----------------------------
(***************************************************************************)
(* The cache of the instance provider (pkg/providers/instance/instance.go)  *)
(* as the callers of Get, List and Delete use it, with the singleflight     *)
(* group that joins their describes (pkg/batcher/batcher.go).               *)
(*                                                                         *)
(* Entries, describes and their keys are separate for each instance ID, so  *)
(* one instance stands for all.  Its states in ECS are numbered in the      *)
(* order it takes them; the last may be its absence.  An answer of ECS is   *)
(* a number and the moment it was read.  The only thing assumed of the      *)
(* scheduler is that an answer is used within Delay of that moment.         *)
(***************************************************************************)
EXTENDS Naturals, Sequences

CONSTANTS
  Reader,      (* concurrent calls of Get                                     *)
  Skipper,     (* those that skip the cache: the tagging controller, which    *)
               (* runs one reconcile of a claim at a time                     *)
  TTL,         (* cacheTTL, 30 seconds in NewProvider                         *)
  Delay,       (* how long an answer may travel before it is used             *)
  MaxTime,     (* bounds of the model: the clock, and the states of ECS       *)
  MaxStates

ASSUME CacheAssumption ==
  /\ Skipper \subseteq Reader
  /\ TTL \in Nat
  /\ Delay \in Nat \ {0}
  /\ MaxTime \in Nat
  /\ MaxStates \in Nat \ {0}

None == 0

VARIABLES
  now,
  (* ECS *)
  began,       (* began[r]: when the instance took its r-th state             *)
  gone,        (* the last state is its absence                               *)
  (* the provider *)
  cache,       (* the entries of this instance: none or one                   *)
  flight,      (* the call of the singleflight group for its key, if any      *)
  (* the callers *)
  pc,          (* "idle", "expired", "call", "wait", "got"                    *)
  read,        (* what the describe of each reader answered                   *)
  answer,      (* what Get last returned to each: a state, or None            *)
  deleter,     (* "idle", or "drop": DeleteInstances was accepted             *)
  listed,      (* what List has read of this instance and not stored: 0 or 1  *)
  (* history, read by the properties only *)
  told,        (* the latest state a describe of Get has delivered            *)
  floor        (* told when the reader's call began, if it skips the cache    *)

ecsVars    == <<began, gone>>
callerVars == <<pc, read, answer, floor>>
vars == <<now, ecsVars, cache, flight, callerVars, deleter, listed, told>>

Current == Len(began)
Absent(rev) == gone /\ rev = Current
Reading == [rev |-> Current, at |-> now]
Nothing == [rev |-> None, at |-> 0]      (* of a reader that holds no answer *)

(* setCachedInstance *)
Entry(rev) == {[rev |-> rev, expires |-> now + TTL]}

Live(e) == now <= e.expires

--------------------------------------------------------------------------------
(* Get: the cache. *)

(* Mutation: an entry is served without a look at its expiry. *)
GetHitExpired(c) ==
  /\ pc[c] = "idle"
  /\ \E e \in cache : answer' = [answer EXCEPT ![c] = e.rev]
  /\ UNCHANGED <<now, ecsVars, cache, flight, pc, read, floor, deleter, listed, told>>

(* getCachedInstance finds an entry that has not expired. *)
GetHit(c) ==
  /\ pc[c] = "idle"
  /\ \E e \in cache : Live(e) /\ answer' = [answer EXCEPT ![c] = e.rev]
  /\ UNCHANGED <<now, ecsVars, cache, flight, pc, read, floor, deleter, listed, told>>

GetMiss(c) ==
  /\ pc[c] = "idle"
  /\ pc' = [pc EXCEPT ![c] = IF cache = {} THEN "call" ELSE "expired"]
  /\ \A e \in cache : ~Live(e)
  /\ UNCHANGED <<now, ecsVars, cache, flight, read, answer, floor, deleter, listed, told>>

(* skipCache: the tagging controller. *)
GetSkip(c) ==
  /\ c \in Skipper
  /\ pc[c] = "idle"
  /\ pc' = [pc EXCEPT ![c] = "call"]
  /\ floor' = [floor EXCEPT ![c] = told]
  /\ UNCHANGED <<now, ecsVars, cache, flight, read, answer, deleter, listed, told>>

(* Mutation: the entry that was expired is deleted without a second look. *)
DropUnchecked(c) ==
  /\ pc[c] = "expired"
  /\ pc' = [pc EXCEPT ![c] = "call"]
  /\ cache' = {}
  /\ UNCHANGED <<now, ecsVars, flight, read, answer, floor, deleter, listed, told>>

(* The second look at the entry, now under the write lock. *)
DropExpired(c) ==
  /\ pc[c] = "expired"
  /\ pc' = [pc EXCEPT ![c] = "call"]
  /\ cache' = {e \in cache : Live(e)}
  /\ UNCHANGED <<now, ecsVars, flight, read, answer, floor, deleter, listed, told>>

--------------------------------------------------------------------------------
(* Get: the describe, joined through singleflight under the key of the ID.  *)
(* A flight holds the callers that wait for it and, once ECS has answered,   *)
(* what it read; it is in the group until its result is handed out.          *)

(* Mutation: the key is forgotten, so that a call need not join the flight. *)
DoForgets(c) ==
  /\ pc[c] = "call"
  /\ pc' = [pc EXCEPT ![c] = "wait"]
  /\ \/ flight' = flight \cup {[waiters |-> {c}, result |-> {}]}
     \/ \E f \in flight : flight' = (flight \ {f}) \cup {[f EXCEPT !.waiters = @ \cup {c}]}
  /\ UNCHANGED <<now, ecsVars, cache, read, answer, floor, deleter, listed, told>>

Do(c) ==
  /\ pc[c] = "call"
  /\ pc' = [pc EXCEPT ![c] = "wait"]
  /\ flight' = IF flight = {} THEN {[waiters |-> {c}, result |-> {}]}
                              ELSE {[f EXCEPT !.waiters = @ \cup {c}] : f \in flight}
  /\ UNCHANGED <<now, ecsVars, cache, read, answer, floor, deleter, listed, told>>

(* DescribeInstances is answered: describeInstances returns. *)
EcsAnswers ==
  /\ \E f \in flight :
       /\ f.result = {}
       /\ flight' = (flight \ {f}) \cup {[f EXCEPT !.result = {Reading}]}
  /\ UNCHANGED <<now, ecsVars, cache, callerVars, deleter, listed, told>>

(* The call of the group returns to everyone who waits for it. *)
Lands ==
  /\ \E f \in flight : \E r \in f.result :
       /\ flight' = flight \ {f}
       /\ pc' = [c \in Reader |-> IF c \in f.waiters THEN "got" ELSE pc[c]]
       /\ read' = [c \in Reader |-> IF c \in f.waiters THEN r ELSE read[c]]
       /\ told' = IF r.rev > told THEN r.rev ELSE told
  /\ UNCHANGED <<now, ecsVars, cache, answer, floor, deleter, listed>>

(* Mutation: the callers that joined are not told of the error. *)
FailsUntold ==
  /\ \E f \in flight : f.result = {} /\ flight' = flight \ {f}
  /\ UNCHANGED <<now, ecsVars, cache, callerVars, deleter, listed, told>>

(* An error of ECS, or the end of the context of the caller that started    *)
(* the flight, is the error of all of them; the entry is left as it is.     *)
Fails ==
  /\ \E f \in flight :
       /\ flight' = flight \ {f}
       /\ f.result = {}
       /\ pc' = [c \in Reader |-> IF c \in f.waiters THEN "idle" ELSE pc[c]]
       /\ answer' = [c \in Reader |-> IF c \in f.waiters THEN None ELSE answer[c]]
       /\ floor' = [c \in Reader |-> IF c \in f.waiters THEN None ELSE floor[c]]
  /\ UNCHANGED <<now, ecsVars, cache, read, deleter, listed, told>>

(* Each caller stores what it was handed, or drops the entry of an instance *)
(* that was not found, and returns.                                         *)
GetReturns(c) ==
  /\ pc[c] = "got"
  /\ pc' = [pc EXCEPT ![c] = "idle"]
  /\ answer' = [answer EXCEPT ![c] = read[c].rev]
  /\ cache' = IF Absent(read[c].rev) THEN {} ELSE Entry(read[c].rev)
  /\ read' = [read EXCEPT ![c] = Nothing]
  /\ floor' = [floor EXCEPT ![c] = None]
  /\ UNCHANGED <<now, ecsVars, flight, deleter, listed, told>>

--------------------------------------------------------------------------------
(* Delete and List. *)

(* DeleteInstances is accepted: the instance takes a state of its own. *)
DeleteAccepted ==
  /\ deleter = "idle"
  /\ ~gone
  /\ Current < MaxStates
  /\ began' = Append(began, now)
  /\ deleter' = "drop"
  /\ UNCHANGED <<now, gone, cache, flight, callerVars, listed, told>>

(* Mutation: the deletion goes on to a step that does not exist. *)
DeleteConfirms ==
  /\ deleter = "drop"
  /\ deleter' = "confirm"
  /\ cache' = {}
  /\ UNCHANGED <<now, ecsVars, flight, callerVars, listed, told>>

(* deleteCachedInstance; the describe that confirms the end is not cached. *)
DeleteDrops ==
  /\ deleter = "drop"
  /\ deleter' = "idle"
  /\ cache' = {}
  /\ UNCHANGED <<now, ecsVars, flight, callerVars, listed, told>>

(* A page of List shows the instance ... *)
ListReads ==
  /\ listed = {}
  /\ ~gone
  /\ listed' = {Reading}
  /\ UNCHANGED <<now, ecsVars, cache, flight, callerVars, deleter, told>>

(* ... and List stores it. *)
ListStores ==
  /\ \E r \in listed : cache' = Entry(r.rev)
  /\ listed' = {}
  /\ UNCHANGED <<now, ecsVars, flight, callerVars, deleter, told>>

--------------------------------------------------------------------------------
(* ECS and the clock. *)

(* The instance starts, is tagged, stops, or is released. *)
EcsChanges ==
  /\ ~gone
  /\ Current < MaxStates
  /\ began' = Append(began, now)
  /\ gone' \in BOOLEAN
  /\ UNCHANGED <<now, cache, flight, callerVars, deleter, listed, told>>

(* The answers of ECS that somebody still holds. *)
InFlight == UNION {f.result : f \in flight}
InHand == {read[c] : c \in {d \in Reader : pc[d] = "got"}}
Held == InFlight \cup listed \cup InHand

Tick ==
  /\ now < MaxTime
  /\ \A r \in Held : now < r.at + Delay
  /\ now' = now + 1
  /\ UNCHANGED <<ecsVars, cache, flight, callerVars, deleter, listed, told>>

--------------------------------------------------------------------------------
Init ==
  /\ now = 0
  /\ began = <<0>>
  /\ gone = FALSE
  /\ cache = {}
  /\ flight = {}
  /\ pc = [c \in Reader |-> "idle"]
  /\ read = [c \in Reader |-> Nothing]
  /\ answer = [c \in Reader |-> None]
  /\ deleter = "idle"
  /\ listed = {}
  /\ told = None
  /\ floor = [c \in Reader |-> None]

Get(c) == GetHit(c) \/ GetMiss(c) \/ GetSkip(c) \/ DropExpired(c) \/ Do(c) \/ GetReturns(c)

Next ==
  \/ \E c \in Reader : Get(c)
  \/ EcsAnswers \/ Lands \/ Fails
  \/ DeleteAccepted \/ DeleteDrops \/ ListReads \/ ListStores
  \/ EcsChanges \/ Tick

Spec == Init /\ [][Next]_vars

(* A caller that has begun goes on, and a describe is answered or fails.    *)
(* Nobody has to call Get again, and ECS need not change.                   *)
Fairness ==
  /\ \A c \in Reader : WF_vars(DropExpired(c) \/ Do(c) \/ GetReturns(c))
  /\ WF_vars(EcsAnswers \/ Lands \/ Fails)

FairSpec == Spec /\ Fairness

--------------------------------------------------------------------------------
(* Properties. *)

Answers == [rev : Nat, at : Nat]

TypeOK ==
  /\ now \in Nat
  /\ began \in Seq(Nat)
  /\ gone \in BOOLEAN
  /\ cache \in SUBSET [rev : Nat, expires : Nat]
  /\ flight \in SUBSET [waiters : SUBSET Reader, result : SUBSET Answers]
  /\ pc \in [Reader -> {"idle", "expired", "call", "wait", "got"}]
  /\ read \in [Reader -> Answers]
  /\ answer \in [Reader -> Nat]
  /\ deleter \in {"idle", "drop"}
  /\ listed \in SUBSET Answers
  /\ told \in Nat
  /\ floor \in [Reader -> Nat]

(* Whatever is joined, cached late or put back after a Delete, Get returns  *)
(* a state ECS had no longer ago than the TTL and the time of travel.       *)
Reads == INSTANCE RecentReads WITH Bound <- TTL + Delay, now <- now, began <- began, answer <- answer
ReadsAreRecent == Reads!Spec

(* A Get that skips the cache (the tagging controller, "for accuracy") is   *)
(* not answered by a describe that had already been delivered when it       *)
(* began: it never returns to a state before the ones seen so far.          *)
SkipNotBehind == \A c \in Reader : pc[c] = "got" => read[c].rev >= floor[c]

(* Cleaning up an expired entry never throws away one that was stored       *)
(* meanwhile: a live entry ends with a Delete or an answer "not found".     *)
LiveEntryKept ==
  [][(\E e \in cache : Live(e)) /\ cache' = {}
       => \/ deleter = "drop"
          \/ \E c \in Reader : pc[c] = "got" /\ Absent(read[c].rev)]_vars

(* Every Get returns, also one that joined the describe of another.         *)
GetAnswered == \A c \in Reader : pc[c] # "idle" ~> pc[c] = "idle"

--------------------------------------------------------------------------------
(* The inductive invariant behind them. *)

(* An answer of ECS that is held is of a state ECS had when it was read,    *)
(* and has not travelled for longer than Delay.                             *)
HeldIsSound ==
  \A r \in Held :
    /\ r.rev \in 1..Current
    /\ r.at <= now
    /\ now <= r.at + Delay
    /\ r.rev # Current => r.at <= began[r.rev + 1]

(* An entry expires a TTL after it was stored, so not long after its state. *)
CacheIsSound ==
  \A e \in cache :
    /\ e.rev \in 1..Current
    /\ e.expires <= now + TTL
    /\ e.rev # Current => e.expires <= began[e.rev + 1] + TTL + Delay

(* There is one flight at a time, and it has not landed yet: what it reads  *)
(* is no older than what has been told.                                     *)
FlightIsNew ==
  /\ \A f, g \in flight : f = g
  /\ told <= Current
  /\ \A f \in flight : \A r \in f.result : told <= r.rev
  /\ \A c \in Reader : floor[c] <= told

IInv == Current >= 1 /\ HeldIsSound /\ CacheIsSound /\ FlightIsNew /\ SkipNotBehind

================================================================================
