-------------------------------- MODULE Resolver --------------------------------
(***************************************************************************)
(* The resolvers of the selector terms of a node class, each with a cache:  *)
(* vSwitches (vswitch.go, CachesEmpty FALSE), security groups and images    *)
(* (securitygroup.go and imagefamily.go, CachesEmpty TRUE).                 *)
(*                                                                         *)
(* A selector is a sequence of terms, and a term is a query of the cloud.   *)
(* The key of a cache entry is the text of the terms.  For terms by tags it *)
(* is the same whenever it is made; a term by ID or name holds a pointer,   *)
(* so its text is the address its copy of the node class happens to have.   *)
(***************************************************************************)
EXTENDS Naturals, Sequences

CONSTANTS
  Caller,        (* concurrent reconciles                                     *)
  Selector, Query, Resource,
  Terms,         (* Terms[s]: the queries of selector s, in order             *)
  Finds,         (* Finds[q]: the resources query q finds if they exist       *)
  Pinned,        (* the selectors with a term by ID or name                   *)
  Address,       (* where the copies of those terms may lie                   *)
  CachesEmpty,
  TTL,           (* cacheTTL, 2 hours                                         *)
  Delay,         (* the longest a Resolve takes                               *)
  MaxTime        (* bound of the model: the clock                             *)

(* What the constants are. *)
ResolverAssumption ==
  /\ Terms \in [Selector -> Seq(Query)]
  /\ Finds \in [Query -> SUBSET Resource]
  /\ Pinned \subseteq Selector
  /\ \E own \in [Caller -> Address] : \A c, d \in Caller : own[c] = own[d] => c = d
  /\ CachesEmpty \in BOOLEAN
  /\ TTL \in Nat /\ Delay \in Nat /\ MaxTime \in Nat

VARIABLES
  now,
  exists,      (* the resources that exist                                    *)
  cache,       (* by key: none or one entry                                   *)
  call,        (* each caller: where it is, what it asked for and found       *)
  (* history *)
  there,       (* by resource: the last time it existed ...                   *)
  away         (* ... and the last time it did not                            *)

vars == <<now, exists, cache, call, there, away>>

Key == Selector \cup Address
Asked(s) == UNION {Finds[Terms[s][i]] : i \in DOMAIN Terms[s]}
Idle == [at |-> "idle", found |-> {}, since |-> 0]
Busy(c) == call[c].at \in {"lookup", "expired", "query"}
Expired(e) == now > e.expires

(* setCachedValue *)
Entry(ids) == {[ids |-> ids, expires |-> now + TTL]}

Answered(c, ids) == call' = [call EXCEPT ![c].at = "answer", ![c].found = ids, ![c].since = now]

(* The terms come with a copy of the node class made for this reconcile: no *)
(* other one that is under way has its address.                             *)
FreshKey(s) ==
  IF s \in Pinned THEN Address \ {call[d].key : d \in {d \in Caller : Busy(d)}} ELSE {s}

Resolve(c, s, k) ==
  /\ call[c].at = "idle"
  /\ k \in FreshKey(s)
  /\ call' = [call EXCEPT ![c] =
       [at |-> IF Terms[s] = <<>> THEN "answer" ELSE "lookup", sel |-> s, key |-> k, term |-> 1,
        found |-> {}, since |-> now]]
  /\ UNCHANGED <<now, exists, cache, there, away>>

(* getCachedValue *)
Hit(c) ==
  /\ call[c].at = "lookup"
  /\ \E e \in cache[call[c].key] : ~Expired(e) /\ Answered(c, e.ids)
  /\ UNCHANGED <<now, exists, cache, there, away>>

Miss(c) ==
  /\ call[c].at = "lookup"
  /\ \A e \in cache[call[c].key] : Expired(e)
  /\ call' = [call EXCEPT ![c].at = IF cache[call[c].key] = {} THEN "query" ELSE "expired"]
  /\ UNCHANGED <<now, exists, cache, there, away>>

(* ... which looks again at an expired entry before it deletes it. *)
DropExpired(c) ==
  /\ call[c].at = "expired"
  /\ cache' = [cache EXCEPT ![call[c].key] = {e \in @ : ~Expired(e)}]
  /\ call' = [call EXCEPT ![c].at = "query"]
  /\ UNCHANGED <<now, exists, there, away>>

(* getByQuery *)
Answer(q) == Finds[q] \cap exists

(* The query of one term; what it finds is kept sorted, without duplicates. *)
QueryTerm(c) ==
  /\ call[c].at = "query"
  /\ call[c].term <= Len(Terms[call[c].sel])
  /\ call' = [call EXCEPT ![c].term = @ + 1,
                          ![c].found = @ \cup Answer(Terms[call[c].sel][call[c].term])]
  /\ UNCHANGED <<now, exists, cache, there, away>>

(* A query fails, and Resolve with it; so does a term that names an invalid *)
(* owner of images.                                                         *)
QueryFails(c) ==
  /\ call[c].at = "query"
  /\ call[c].term <= Len(Terms[call[c].sel])
  /\ call' = [call EXCEPT ![c] = Idle]
  /\ UNCHANGED <<now, exists, cache, there, away>>

(* Mutation: an empty result is cached, whatever the resolver. *)
StoreAll(c) ==
  /\ call[c].at = "query"
  /\ call[c].term > Len(Terms[call[c].sel])
  /\ cache' = [cache EXCEPT ![call[c].key] = Entry(call[c].found)]
  /\ Answered(c, call[c].found)
  /\ UNCHANGED <<now, exists, there, away>>

Store(c) ==
  /\ call[c].at = "query"
  /\ call[c].term > Len(Terms[call[c].sel])
  /\ cache' = IF CachesEmpty \/ call[c].found # {}
                THEN [cache EXCEPT ![call[c].key] = Entry(call[c].found)]
                ELSE cache
  /\ Answered(c, call[c].found)
  /\ UNCHANGED <<now, exists, there, away>>

(* The reconcile is over; its copy of the terms is garbage. *)
Returns(c) ==
  /\ call[c].at = "answer"
  /\ call' = [call EXCEPT ![c] = Idle]
  /\ UNCHANGED <<now, exists, cache, there, away>>

(* A resource is created or deleted. *)
Change(r) ==
  /\ exists' = IF r \in exists THEN exists \ {r} ELSE exists \cup {r}
  /\ there' = [there EXCEPT ![r] = now]
  /\ away' = [away EXCEPT ![r] = now]
  /\ UNCHANGED <<now, cache, call>>

Tick ==
  /\ now < MaxTime
  /\ \A c \in Caller : call[c].at # "answer" /\ (Busy(c) => now < call[c].since + Delay)
  /\ now' = now + 1
  /\ there' = [r \in Resource |-> IF r \in exists THEN now' ELSE there[r]]
  /\ away' = [r \in Resource |-> IF r \in exists THEN away[r] ELSE now']
  /\ UNCHANGED <<exists, cache, call>>

Init ==
  /\ now = 0
  /\ exists \in SUBSET Resource
  /\ cache = [k \in Key |-> {}]
  /\ call = [c \in Caller |-> Idle]
  /\ there = [r \in Resource |-> 0]
  /\ away = [r \in Resource |-> 0]

Step(c) == Hit(c) \/ Miss(c) \/ DropExpired(c) \/ QueryTerm(c) \/ QueryFails(c) \/ Store(c) \/ Returns(c)

Next ==
  \/ \E c \in Caller : Step(c) \/ \E s \in Selector, k \in Key : Resolve(c, s, k)
  \/ \E r \in Resource : Change(r)
  \/ Tick

Spec == Init /\ [][Next]_vars

--------------------------------------------------------------------------------
Entries == [ids : SUBSET Resource, expires : Nat]
Calls == [at : {"lookup", "expired", "query", "answer"}, sel : Selector, key : Key, term : Nat \ {0},
          found : SUBSET Resource, since : Nat]

TypeOK ==
  /\ now \in Nat
  /\ exists \subseteq Resource
  /\ cache \in [Key -> SUBSET Entries]
  /\ call \in [Caller -> Calls \cup {Idle}]
  /\ there \in [Resource -> Nat]
  /\ away \in [Resource -> Nat]

(* What an answer holds belongs to the selector that was resolved, not to   *)
(* another that was resolved before it.                                     *)
AnswerIsOfSelector == \A c \in Caller : call[c].at = "answer" => call[c].found \subseteq Asked(call[c].sel)

(* How old an answer may be: "none" is not taken from the cache of vSwitches *)
(* ("caching empty results would block future reconciliations").             *)
MaxAge(c) == IF call[c].found = {} /\ ~CachesEmpty THEN Delay ELSE TTL + Delay

(* An answer is of the TTL and one Resolve ago at most, "none" of this      *)
(* Resolve where it is not cached: what it holds still existed then, and    *)
(* what it lacks did not.                                                   *)
AnswerIsRecent ==
  \A c \in Caller : call[c].at = "answer" =>
    \A r \in Asked(call[c].sel) :
      now <= (IF r \in call[c].found THEN there[r] ELSE away[r]) + MaxAge(c)

================================================================================
