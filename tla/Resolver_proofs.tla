----------------------------- MODULE Resolver_proofs -----------------------------
(* What is proved of Resolver, for any resources, callers, TTL and delay,    *)
(* where keys that are addresses stand for one selector.                    *)
EXTENDS Resolver, TLAPS

(* The key of an entry tells the selector: no two selectors by ID or name,   *)
(* whose keys are addresses.  Without it AnswerIsOfSelector is violated.     *)
KeysTell ==
  /\ Selector \cap Address = {}
  /\ \A s, t \in Pinned : s = t

AllCalls == Calls \cup {Idle}

(* The variables of the resolvers keep their types. *)
THEOREM TypeCorrect == ASSUME ResolverAssumption PROVE Spec => []TypeOK
<1> USE ResolverAssumption DEF ResolverAssumption
<1>1. Init => TypeOK
  <2> SUFFICES ASSUME Init PROVE TypeOK
    OBVIOUS
  <2>1. now \in Nat /\ exists \subseteq Resource /\ there \in [Resource -> Nat] /\ away \in [Resource -> Nat]
    BY DEF Init
  <2>2. cache \in [Key -> SUBSET Entries]
    BY DEF Init
  <2>3. call \in [Caller -> Calls \cup {Idle}]
    BY DEF Init
  <2> QED
    BY <2>1, <2>2, <2>3 DEF TypeOK
<1>2. TypeOK /\ [Next]_vars => TypeOK'
  <2> SUFFICES ASSUME TypeOK, [Next]_vars PROVE TypeOK'
    OBVIOUS
  <2>0. /\ now \in Nat /\ exists \subseteq Resource /\ cache \in [Key -> SUBSET Entries]
        /\ call \in [Caller -> AllCalls]
        /\ there \in [Resource -> Nat] /\ away \in [Resource -> Nat]
    BY DEF TypeOK, AllCalls
  <2>01. Idle \in AllCalls
    BY DEF AllCalls
  <2>02. ASSUME NEW c \in Caller, call[c].at # "idle" PROVE call[c] \in Calls
    BY <2>0, <2>02 DEF AllCalls, Idle
  <2>03. ASSUME NEW x \in Calls, NEW f \in SUBSET Resource
         PROVE  [[[x EXCEPT !.at = "answer"] EXCEPT !.found = f] EXCEPT !.since = now] \in AllCalls
    BY <2>0 DEF Calls, AllCalls
  <2>1. ASSUME NEW c \in Caller, NEW s \in Selector, NEW k \in Key, Resolve(c, s, k) PROVE TypeOK'
    <3>1. [at |-> IF Terms[s] = <<>> THEN "answer" ELSE "lookup", sel |-> s, key |-> k, term |-> 1,
           found |-> {}, since |-> now] \in AllCalls
      BY <2>0 DEF Calls, AllCalls
    <3> QED
      BY <2>0, <2>1, <3>1 DEF Resolve, TypeOK, AllCalls
  <2>2. ASSUME NEW c \in Caller, Hit(c) PROVE TypeOK'
    <3>1. call[c] \in Calls
      BY <2>2, <2>02 DEF Hit
    <3> PICK e \in cache[call[c].key] : Answered(c, e.ids)
      BY <2>2 DEF Hit
    <3>2. e.ids \in SUBSET Resource
      <4>1. call[c].key \in Key
        BY <3>1 DEF Calls
      <4> QED
        BY <2>0, <4>1 DEF Entries
    <3>3. call' \in [Caller -> AllCalls]
      BY <2>0, <2>03, <3>1, <3>2 DEF Answered
    <3> QED
      BY <2>0, <2>2, <3>3 DEF Hit, TypeOK, AllCalls
  <2>3. ASSUME NEW c \in Caller, Miss(c) PROVE TypeOK'
    <3>1. call[c] \in Calls
      BY <2>3, <2>02 DEF Miss
    <3> DEFINE next == IF cache[call[c].key] = {} THEN "query" ELSE "expired"
    <3>2. [call[c] EXCEPT !.at = next] \in AllCalls
      BY <3>1 DEF Calls, AllCalls
    <3>3. call' = [call EXCEPT ![c] = [call[c] EXCEPT !.at = next]]
      BY <2>0, <2>3 DEF Miss
    <3>4. call' \in [Caller -> AllCalls]
      BY <2>0, <3>2, <3>3
    <3> QED
      BY <2>0, <2>3, <3>4 DEF Miss, TypeOK, AllCalls
  <2>4. ASSUME NEW c \in Caller, DropExpired(c) PROVE TypeOK'
    <3>1. call[c] \in Calls
      BY <2>4, <2>02 DEF DropExpired
    <3>2. [call[c] EXCEPT !.at = "query"] \in AllCalls
      BY <3>1 DEF Calls, AllCalls
    <3>3. call' \in [Caller -> AllCalls]
      BY <2>0, <2>4, <3>2 DEF DropExpired
    <3>4. cache' \in [Key -> SUBSET Entries]
      BY <2>0, <2>4 DEF DropExpired
    <3> QED
      BY <2>0, <2>4, <3>3, <3>4 DEF DropExpired, TypeOK, AllCalls
  <2>5. ASSUME NEW c \in Caller, QueryTerm(c) PROVE TypeOK'
    <3>1. call[c] \in Calls
      BY <2>5, <2>02 DEF QueryTerm
    <3> DEFINE more == Answer(Terms[call[c].sel][call[c].term])
    <3>2. more \subseteq Resource
      BY <2>0 DEF Answer
    <3> DEFINE asked == [call[c] EXCEPT !.term = call[c].term + 1, !.found = call[c].found \cup more]
    <3>3. asked \in AllCalls
      <4>1. call[c].term \in Nat /\ call[c].found \in SUBSET Resource
        BY <3>1 DEF Calls
      <4>2. call[c].term + 1 \in Nat \ {0} /\ call[c].found \cup more \in SUBSET Resource
        BY <3>2, <4>1
      <4> QED
        BY <3>1, <4>2 DEF Calls, AllCalls
    <3>4. call' = [call EXCEPT ![c] = asked]
      BY <2>0, <2>5, <3>1 DEF QueryTerm, Calls
    <3>5. call' \in [Caller -> AllCalls]
      BY <2>0, <3>3, <3>4
    <3> QED
      BY <2>0, <2>5, <3>5 DEF QueryTerm, TypeOK, AllCalls
  <2>6. ASSUME NEW c \in Caller, QueryFails(c) \/ Returns(c) PROVE TypeOK'
    BY <2>0, <2>01, <2>6 DEF QueryFails, Returns, TypeOK, AllCalls
  <2>7. ASSUME NEW c \in Caller, Store(c) PROVE TypeOK'
    <3>1. call[c] \in Calls
      BY <2>7, <2>02 DEF Store
    <3>2. call[c].found \in SUBSET Resource /\ call[c].key \in Key
      BY <3>1 DEF Calls
    <3>3. call' \in [Caller -> AllCalls]
      BY <2>0, <2>03, <2>7, <3>1, <3>2 DEF Store, Answered
    <3>4. Entry(call[c].found) \in SUBSET Entries
      BY <2>0, <3>2 DEF Entry, Entries
    <3>5. cache' \in [Key -> SUBSET Entries]
      BY <2>0, <2>7, <3>4 DEF Store
    <3> QED
      BY <2>0, <2>7, <3>3, <3>5 DEF Store, TypeOK, AllCalls
  <2>8. ASSUME NEW r \in Resource, Change(r) PROVE TypeOK'
    BY <2>0, <2>8 DEF Change, TypeOK, AllCalls
  <2>9. CASE Tick
    <3>1. now' \in Nat
      BY <2>0, <2>9 DEF Tick
    <3>2. there' \in [Resource -> Nat] /\ away' \in [Resource -> Nat]
      BY <2>0, <2>9, <3>1 DEF Tick
    <3> QED
      BY <2>0, <2>9, <3>1, <3>2 DEF Tick, TypeOK, AllCalls
  <2>10. CASE UNCHANGED vars
    BY <2>10 DEF vars, TypeOK
  <2> QED
    BY <2>1, <2>2, <2>3, <2>4, <2>5, <2>6, <2>7, <2>8, <2>9, <2>10 DEF Next, Step
<1> QED
  BY <1>1, <1>2, PTL DEF Spec

--------------------------------------------------------------------------------
(* The last time that what ids say of a resource was so. *)
LastSo(ids, r) == IF r \in ids THEN there[r] ELSE away[r]

Serves(k, s) == IF s \in Pinned THEN k \in Address ELSE k = s

(* History: a resource exists now or is away now. *)
TimesTrue ==
  \A r \in Resource : /\ there[r] <= now /\ away[r] <= now
                      /\ IF r \in exists THEN there[r] = now ELSE away[r] = now

(* An entry expires no later than a TTL and one Resolve after what it says   *)
(* was so, of all that its selector asks for.                               *)
EntryTrue(k, e) ==
  /\ e.ids = {} => CachesEmpty
  /\ \A s \in Selector : Serves(k, s) =>
       \A r \in Asked(s) : e.expires <= LastSo(e.ids, r) + TTL + Delay
CacheTrue == \A k \in Key : \A e \in cache[k] : EntryTrue(k, e)

(* What a Resolve has found, and has not found with the terms it has asked,  *)
(* was so since it began.                                                   *)
FoundTrue(x) ==
  /\ Serves(x.key, x.sel)
  /\ x.since <= now /\ now <= x.since + Delay
  /\ \A r \in x.found : x.since <= there[r]
  /\ \A i \in DOMAIN Terms[x.sel] : i < x.term =>
       \A r \in Finds[Terms[x.sel][i]] : x.since <= LastSo(x.found, r)
CallsTrue == \A c \in Caller : Busy(c) => FoundTrue(call[c])

(* The age of an answer, apart from the caller. *)
AnswerTrue(x) ==
  \A r \in Asked(x.sel) :
    now <= LastSo(x.found, r) + (IF x.found = {} /\ ~CachesEmpty THEN Delay ELSE TTL + Delay)
AnswersTrue == \A c \in Caller : call[c].at = "answer" => AnswerTrue(call[c])

IInv == TimesTrue /\ CacheTrue /\ CallsTrue /\ AnswersTrue

LEMMA Types ==
  ASSUME ResolverAssumption, TypeOK
  PROVE  /\ now \in Nat /\ exists \subseteq Resource /\ cache \in [Key -> SUBSET Entries]
         /\ call \in [Caller -> AllCalls]
         /\ there \in [Resource -> Nat] /\ away \in [Resource -> Nat]
         /\ TTL \in Nat /\ Delay \in Nat
         /\ \A c \in Caller : call[c].at # "idle" => call[c] \in Calls
<1>1. \A c \in Caller : call[c] \in Calls \/ call[c] = Idle
  BY DEF TypeOK
<1> QED
  BY <1>1 DEF TypeOK, AllCalls, ResolverAssumption, Idle

(* What selectors ask for are resources, with a time each. *)
LEMMA AskedIsKnown ==
  ASSUME ResolverAssumption, TypeOK, NEW s \in Selector, NEW ids
  PROVE  /\ Asked(s) \subseteq Resource
         /\ \A r \in Asked(s) : LastSo(ids, r) \in Nat /\ there[r] \in Nat /\ away[r] \in Nat
<1>1. \A i \in DOMAIN Terms[s] : Terms[s][i] \in Query
  BY DEF ResolverAssumption
<1>2. \A q \in Query : Finds[q] \subseteq Resource
  BY DEF ResolverAssumption
<1>3. Asked(s) \subseteq Resource
  BY <1>1, <1>2 DEF Asked
<1> QED
  BY <1>3, Types DEF LastSo

(* No step takes a time back. *)
LEMMA TimesGrow ==
  ASSUME ResolverAssumption, TypeOK, TimesTrue, [Next]_vars
  PROVE  /\ now <= now'
         /\ \A r \in Resource : there[r] <= there'[r] /\ away[r] <= away'[r]
<1> USE Types DEF TimesTrue
<1>1. ASSUME NEW r \in Resource, Change(r)
      PROVE  now <= now' /\ \A x \in Resource : there[x] <= there'[x] /\ away[x] <= away'[x]
  BY <1>1 DEF Change
<1>2. CASE Tick
  BY <1>2 DEF Tick
<1>3. CASE UNCHANGED <<now, there, away>>
  BY <1>3
<1> QED
  BY <1>1, <1>2, <1>3
  DEF Next, Step, Resolve, Hit, Miss, DropExpired, QueryTerm, QueryFails, Store, Returns, vars

(* So what was said of a resource is not older than before. *)
LEMMA LastGrows ==
  ASSUME ResolverAssumption, TypeOK, TimesTrue, TypeOK', [Next]_vars, NEW ids, NEW r \in Resource
  PROVE  /\ LastSo(ids, r) \in Nat /\ LastSo(ids, r)' \in Nat
         /\ LastSo(ids, r) <= LastSo(ids, r)'
<1>1. there[r] \in Nat /\ away[r] \in Nat
  BY Types
<1>2. there'[r] \in Nat /\ away'[r] \in Nat
  BY DEF TypeOK
<1> QED
  BY <1>1, <1>2, TimesGrow DEF LastSo

LEMMA TimesStayTrue ==
  ASSUME ResolverAssumption, TypeOK, TimesTrue, [Next]_vars
  PROVE  TimesTrue'
<1> USE Types DEF TimesTrue
<1>1. ASSUME NEW r \in Resource, Change(r) PROVE TimesTrue'
  BY <1>1 DEF Change
<1>2. CASE Tick
  BY <1>2 DEF Tick
<1>3. CASE UNCHANGED <<now, exists, there, away>>
  BY <1>3
<1> QED
  BY <1>1, <1>2, <1>3
  DEF Next, Step, Resolve, Hit, Miss, DropExpired, QueryTerm, QueryFails, Store, Returns, vars

(* An entry that is kept stays true. *)
LEMMA EntryStaysTrue ==
  ASSUME ResolverAssumption, TypeOK, TimesTrue, TypeOK', [Next]_vars,
         NEW k \in Key, NEW e \in cache[k], EntryTrue(k, e)
  PROVE  EntryTrue(k, e)'
<1>1. e.expires \in Nat
  BY Types DEF Entries
<1> SUFFICES ASSUME NEW s \in Selector, Serves(k, s), NEW r \in Asked(s)
             PROVE  e.expires <= LastSo(e.ids, r)' + TTL + Delay
  BY DEF EntryTrue, Serves, Asked
<1>2. r \in Resource
  BY AskedIsKnown
<1>3. e.expires <= LastSo(e.ids, r) + TTL + Delay
  BY DEF EntryTrue
<1>4. /\ LastSo(e.ids, r) \in Nat /\ LastSo(e.ids, r)' \in Nat
      /\ LastSo(e.ids, r) <= LastSo(e.ids, r)'
  BY <1>2, LastGrows
<1> QED
  BY <1>1, <1>3, <1>4, Types

(* So does an answer that is not given yet. *)
LEMMA AnswerStaysTrue ==
  ASSUME ResolverAssumption, TypeOK, TimesTrue, TypeOK', [Next]_vars, now' = now,
         NEW x \in Calls, AnswerTrue(x)
  PROVE  AnswerTrue(x)'
<1> DEFINE age == IF x.found = {} /\ ~CachesEmpty THEN Delay ELSE TTL + Delay
<1>1. age \in Nat /\ now \in Nat
  BY Types
<1> SUFFICES ASSUME NEW r \in Asked(x.sel) PROVE now <= LastSo(x.found, r)' + age
  BY DEF AnswerTrue, Asked
<1>2. r \in Resource
  BY AskedIsKnown DEF Calls
<1>3. now <= LastSo(x.found, r) + age
  BY DEF AnswerTrue
<1>4. /\ LastSo(x.found, r) \in Nat /\ LastSo(x.found, r)' \in Nat
      /\ LastSo(x.found, r) <= LastSo(x.found, r)'
  BY <1>2, LastGrows
<1> HIDE DEF age
<1> QED
  BY <1>1, <1>3, <1>4

(* And what a Resolve under way has found, while it is in its time. *)
LEMMA FoundStaysTrue ==
  ASSUME ResolverAssumption, TypeOK, TimesTrue, TypeOK', [Next]_vars,
         NEW x \in Calls, FoundTrue(x), now' <= x.since + Delay
  PROVE  FoundTrue(x)'
<1>1. x.since \in Nat /\ x.found \subseteq Resource /\ x.sel \in Selector
  BY DEF Calls
<1>2. x.since <= now'
  <2>1. now' \in Nat
    BY DEF TypeOK
  <2> QED
    BY <1>1, <2>1, Types, TimesGrow DEF FoundTrue
<1>3. ASSUME NEW r \in x.found PROVE x.since <= there'[r]
  <2>1. there'[r] \in Nat
    BY <1>1 DEF TypeOK
  <2>2. x.since <= there[r] /\ there[r] <= there'[r] /\ there[r] \in Nat
    BY <1>1, TimesGrow, Types DEF FoundTrue
  <2> QED
    BY <1>1, <2>1, <2>2
<1>4. ASSUME NEW i \in DOMAIN Terms[x.sel], i < x.term, NEW r \in Finds[Terms[x.sel][i]]
      PROVE  x.since <= LastSo(x.found, r)'
  <2>1. r \in Resource
    BY <1>1, AskedIsKnown DEF Asked
  <2>2. x.since <= LastSo(x.found, r)
    BY <1>4 DEF FoundTrue
  <2> QED
    BY <1>1, <2>1, <2>2, LastGrows
<1> QED
  BY <1>2, <1>3, <1>4 DEF FoundTrue, Serves

LEMMA CacheStaysTrue ==
  ASSUME ResolverAssumption, TypeOK, IInv, TypeOK', [Next]_vars, \A k \in Key : cache'[k] \subseteq cache[k]
  PROVE  CacheTrue'
<1> SUFFICES ASSUME NEW k \in Key, NEW e \in cache[k] PROVE EntryTrue(k, e)'
  BY DEF CacheTrue
<1>1. EntryTrue(k, e)
  BY DEF IInv, CacheTrue
<1> QED
  BY <1>1, EntryStaysTrue DEF IInv

(* A caller whose call does not change, in a step that takes no time. *)
LEMMA OthersStayTrue ==
  ASSUME ResolverAssumption, TypeOK, IInv, TypeOK', [Next]_vars, now' = now,
         NEW d \in Caller, call'[d] = call[d]
  PROVE  /\ Busy(d)' => FoundTrue(call[d])'
         /\ call'[d].at = "answer" => AnswerTrue(call[d])'
<1>1. ASSUME Busy(d)' PROVE FoundTrue(call[d])'
  <2>1. Busy(d) /\ call[d] \in Calls
    BY <1>1, Types DEF Busy
  <2> PICK x \in Calls : x = call[d]
    BY <2>1
  <2>2. FoundTrue(x) /\ now' <= x.since + Delay
    BY <2>1 DEF IInv, CallsTrue, FoundTrue
  <2>3. FoundTrue(x)'
    BY <2>2, FoundStaysTrue DEF IInv
  <2> QED
    BY <2>3
<1>2. ASSUME call'[d].at = "answer" PROVE AnswerTrue(call[d])'
  <2>1. call[d].at = "answer" /\ call[d] \in Calls
    BY <1>2, Types
  <2> PICK x \in Calls : x = call[d]
    BY <2>1
  <2>2. AnswerTrue(x)
    BY <2>1 DEF IInv, AnswersTrue
  <2>3. AnswerTrue(x)'
    BY <2>2, AnswerStaysTrue DEF IInv
  <2> QED
    BY <2>3
<1> QED
  BY <1>1, <1>2

(* A step of one caller keeps the invariant if it does for its call and for  *)
(* the cache.                                                               *)
LEMMA OneCaller ==
  ASSUME ResolverAssumption, TypeOK, IInv, TypeOK', [Next]_vars, now' = now,
         NEW c \in Caller, NEW y, call' = [call EXCEPT ![c] = y],
         y.at \in {"lookup", "expired", "query"} => FoundTrue(y)',
         y.at = "answer" => AnswerTrue(y)',
         CacheTrue'
  PROVE  IInv'
<1>1. /\ call'[c] = y
      /\ \A d \in Caller \ {c} : call'[d] = call[d]
  BY Types
<1>2. CallsTrue'
  <2> SUFFICES ASSUME NEW d \in Caller, Busy(d)' PROVE FoundTrue(call[d])'
    BY DEF CallsTrue
  <2>1. CASE d = c
    <3>1. FoundTrue(y)'
      BY <1>1, <2>1 DEF Busy
    <3> QED
      BY <1>1, <2>1, <3>1
  <2>2. CASE d # c
    BY <1>1, <2>2, OthersStayTrue
  <2> QED
    BY <2>1, <2>2
<1>3. AnswersTrue'
  <2> SUFFICES ASSUME NEW d \in Caller, call'[d].at = "answer" PROVE AnswerTrue(call[d])'
    BY DEF AnswersTrue
  <2>1. CASE d = c
    <3>1. AnswerTrue(y)'
      BY <1>1, <2>1
    <3> QED
      BY <1>1, <2>1, <3>1
  <2>2. CASE d # c
    BY <1>1, <2>2, OthersStayTrue
  <2> QED
    BY <2>1, <2>2
<1>4. TimesTrue'
  BY TimesStayTrue DEF IInv
<1> QED
  BY <1>2, <1>3, <1>4 DEF IInv

--------------------------------------------------------------------------------
LEMMA ResolveKeeps ==
  ASSUME ResolverAssumption, TypeOK, IInv, TypeOK', [Next]_vars,
         NEW c \in Caller, NEW s \in Selector, NEW k \in Key, Resolve(c, s, k)
  PROVE  IInv'
<1> DEFINE at == IF Terms[s] = <<>> THEN "answer" ELSE "lookup"
<1> PICK y : y = [at |-> at, sel |-> s, key |-> k, term |-> 1, found |-> {}, since |-> now]
  OBVIOUS
<1>1. /\ call' = [call EXCEPT ![c] = y]
      /\ now' = now /\ cache' = cache /\ there' = there /\ away' = away
  BY DEF Resolve
<1>2. Serves(k, s)
  BY DEF Resolve, FreshKey, Serves
<1>3. DOMAIN Terms[s] = 1..Len(Terms[s])
  BY DEF ResolverAssumption
<1>4. FoundTrue(y)'
  <2>1. y.since = now' /\ now' <= y.since + Delay
    BY <1>1, Types
  <2>2. \A i \in DOMAIN Terms[y.sel] : ~(i < y.term)
    BY <1>3
  <2> QED
    BY <1>2, <2>1, <2>2, Types, <1>1 DEF FoundTrue, Serves
<1>5. ASSUME y.at = "answer" PROVE AnswerTrue(y)'
  <2>1. Terms[s] = <<>>
    BY <1>5
  <2>2. Asked(s) = {}
    BY <2>1 DEF Asked
  <2> QED
    BY <2>2 DEF AnswerTrue, Asked
<1>6. CacheTrue'
  BY <1>1, CacheStaysTrue
<1> QED
  BY <1>1, <1>4, <1>5, <1>6, OneCaller

LEMMA HitKeeps ==
  ASSUME ResolverAssumption, TypeOK, IInv, TypeOK', [Next]_vars, NEW c \in Caller, Hit(c)
  PROVE  IInv'
<1>1. call[c].at = "lookup" /\ call[c] \in Calls
  BY Types DEF Hit
<1> PICK x \in Calls : x = call[c]
  BY <1>1
<1> PICK e \in cache[x.key] : ~Expired(e) /\ Answered(c, e.ids)
  BY DEF Hit
<1> PICK y : y = [x EXCEPT !.at = "answer", !.found = e.ids, !.since = now]
  OBVIOUS
<1>2. /\ call' = [call EXCEPT ![c] = y]
      /\ now' = now /\ cache' = cache /\ there' = there /\ away' = away
  BY <1>1, Types DEF Hit, Answered, Calls
<1>3. y.at = "answer" /\ y.found = e.ids /\ y.sel = x.sel
  BY DEF Calls
<1>4. x.key \in Key /\ x.sel \in Selector
  BY DEF Calls
<1>5. EntryTrue(x.key, e) /\ Serves(x.key, x.sel)
  <2>1. Busy(c)
    BY <1>1 DEF Busy
  <2> QED
    BY <1>4, <2>1 DEF IInv, CacheTrue, CallsTrue, FoundTrue
<1>6. AnswerTrue(y)'
  <2> SUFFICES ASSUME NEW r \in Asked(x.sel)
               PROVE  now <= LastSo(e.ids, r) + (IF e.ids = {} /\ ~CachesEmpty THEN Delay ELSE TTL + Delay)
    BY <1>2, <1>3 DEF AnswerTrue, LastSo, Asked
  <2>1. e.expires <= LastSo(e.ids, r) + TTL + Delay /\ ~(e.ids = {} /\ ~CachesEmpty)
    BY <1>4, <1>5 DEF EntryTrue
  <2>2. LastSo(e.ids, r) \in Nat
    BY <1>4, AskedIsKnown
  <2>3. e.expires \in Nat /\ now <= e.expires
    <3>1. e.expires \in Nat
      BY <1>4, Types DEF Entries
    <3> QED
      BY <3>1, Types DEF Expired
  <2> QED
    BY <2>1, <2>2, <2>3, Types
<1>7. CacheTrue'
  BY <1>2, CacheStaysTrue
<1> QED
  BY <1>2, <1>3, <1>6, <1>7, OneCaller

(* Miss and DropExpired take a call on, and may drop an entry. *)
LEMMA GoesOnKeeps ==
  ASSUME ResolverAssumption, TypeOK, IInv, TypeOK', [Next]_vars, NEW c \in Caller,
         Miss(c) \/ DropExpired(c)
  PROVE  IInv'
<1>1. call[c].at \in {"lookup", "expired"} /\ call[c] \in Calls
  BY Types DEF Miss, DropExpired
<1> PICK x \in Calls : x = call[c]
  BY <1>1
<1>2. PICK at \in {"expired", "query"} : call' = [call EXCEPT ![c] = [x EXCEPT !.at = at]]
  BY Types DEF Miss, DropExpired
<1> PICK y : y = [x EXCEPT !.at = at]
  OBVIOUS
<1>3. /\ call' = [call EXCEPT ![c] = y]
      /\ now' = now /\ there' = there /\ away' = away
  BY <1>2 DEF Miss, DropExpired
<1>4. /\ y.at = at /\ y.key = x.key /\ y.sel = x.sel /\ y.since = x.since
      /\ y.found = x.found /\ y.term = x.term
  BY DEF Calls
<1>5. FoundTrue(x)
  BY <1>1 DEF IInv, CallsTrue, Busy
<1>6. FoundTrue(y)'
  <2>1. FoundTrue(x)'
    <3>1. now' <= x.since + Delay
      BY <1>3, <1>5 DEF FoundTrue
    <3> QED
      BY <1>5, <3>1, FoundStaysTrue DEF IInv
  <2> QED
    BY <1>4, <2>1 DEF FoundTrue
<1>7. \A k \in Key : cache'[k] \subseteq cache[k]
  BY Types DEF Miss, DropExpired
<1>8. CacheTrue'
  BY <1>7, CacheStaysTrue
<1> QED
  BY <1>3, <1>4, <1>6, <1>8, OneCaller

LEMMA QueryTermKeeps ==
  ASSUME ResolverAssumption, TypeOK, IInv, TypeOK', [Next]_vars, NEW c \in Caller, QueryTerm(c)
  PROVE  IInv'
<1>1. call[c].at = "query" /\ call[c] \in Calls
  BY Types DEF QueryTerm
<1> PICK x \in Calls : x = call[c]
  BY <1>1
<1> DEFINE q == Terms[x.sel][x.term]
<1> PICK y : y = [x EXCEPT !.term = x.term + 1, !.found = x.found \cup Answer(q)]
  OBVIOUS
<1>2. /\ call' = [call EXCEPT ![c] = y]
      /\ now' = now /\ cache' = cache /\ there' = there /\ away' = away
  BY Types DEF QueryTerm, Calls
<1>3. /\ y.at = "query" /\ y.key = x.key /\ y.sel = x.sel /\ y.since = x.since
      /\ y.found = x.found \cup Answer(q) /\ y.term = x.term + 1
  BY <1>1 DEF Calls
<1>4. FoundTrue(x)
  BY <1>1 DEF IInv, CallsTrue, Busy
<1>5. x.term \in Nat /\ x.since \in Nat /\ x.sel \in Selector /\ x.found \subseteq Resource
  BY DEF Calls
<1>6. \A r \in Answer(q) : r \in Resource /\ there[r] = now
  <2>1. \A r \in Answer(q) : r \in exists /\ r \in Resource
    BY Types DEF Answer
  <2> QED
    BY <2>1 DEF IInv, TimesTrue
<1>7. \A r \in y.found : y.since <= there[r]
  BY <1>3, <1>4, <1>6 DEF FoundTrue
<1>8. ASSUME NEW i \in DOMAIN Terms[x.sel], i < y.term, NEW r \in Finds[Terms[x.sel][i]]
      PROVE  x.since <= LastSo(y.found, r)
  <2>1. CASE r \in y.found
    BY <1>3, <1>7, <2>1 DEF LastSo
  <2>2. CASE r \notin y.found
    <3>1. r \notin x.found /\ LastSo(y.found, r) = LastSo(x.found, r)
      BY <1>3, <2>2 DEF LastSo
    <3>2. CASE i < x.term
      BY <1>4, <1>8, <3>1, <3>2 DEF FoundTrue
    <3>3. CASE i = x.term
      <4>1. r \notin exists
        BY <1>3, <1>8, <2>2, <3>3 DEF Answer
      <4>2. r \in Resource
        BY <1>5, AskedIsKnown DEF Asked
      <4>3. away[r] = now
        BY <4>1, <4>2 DEF IInv, TimesTrue
      <4> QED
        BY <1>4, <2>2, <4>3 DEF LastSo, FoundTrue
    <3>4. i \in Nat
      BY <1>5 DEF ResolverAssumption
    <3> QED
      BY <1>3, <1>5, <1>8, <3>2, <3>3, <3>4
  <2> QED
    BY <2>1, <2>2
<1>9. FoundTrue(y)'
  BY <1>2, <1>3, <1>4, <1>7, <1>8 DEF FoundTrue, LastSo, Serves
<1>10. CacheTrue'
  BY <1>2, CacheStaysTrue
<1> QED
  BY <1>2, <1>3, <1>9, <1>10, OneCaller

LEMMA StoreKeeps ==
  ASSUME ResolverAssumption, KeysTell, TypeOK, IInv, TypeOK', [Next]_vars, NEW c \in Caller, Store(c)
  PROVE  IInv'
<1>1. call[c].at = "query" /\ call[c] \in Calls
  BY Types DEF Store
<1> PICK x \in Calls : x = call[c]
  BY <1>1
<1> PICK y : y = [x EXCEPT !.at = "answer", !.found = x.found, !.since = now]
  OBVIOUS
<1>2. /\ call' = [call EXCEPT ![c] = y]
      /\ now' = now /\ there' = there /\ away' = away
      /\ cache' = IF CachesEmpty \/ x.found # {}
                   THEN [cache EXCEPT ![x.key] = Entry(x.found)] ELSE cache
  BY <1>1, Types DEF Store, Answered, Calls
<1>3. y.at = "answer" /\ y.found = x.found /\ y.sel = x.sel
  BY DEF Calls
<1>4. FoundTrue(x)
  BY <1>1 DEF IInv, CallsTrue, Busy
<1>5. x.term \in Nat /\ x.since \in Nat /\ x.sel \in Selector /\ x.key \in Key /\ x.found \subseteq Resource
  BY DEF Calls
<1>6. ASSUME NEW r \in Asked(x.sel) PROVE LastSo(x.found, r) \in Nat /\ now <= LastSo(x.found, r) + Delay
  <2> PICK i \in DOMAIN Terms[x.sel] : r \in Finds[Terms[x.sel][i]]
    BY DEF Asked
  <2>1. i < x.term
    <3>1. i \in Nat /\ i <= Len(Terms[x.sel]) /\ Len(Terms[x.sel]) \in Nat
      BY <1>5 DEF ResolverAssumption
    <3>2. x.term > Len(Terms[x.sel])
      BY DEF Store
    <3> QED
      BY <1>5, <3>1, <3>2
  <2>2. x.since <= LastSo(x.found, r)
    BY <1>4, <2>1 DEF FoundTrue
  <2>3. LastSo(x.found, r) \in Nat
    BY <1>5, AskedIsKnown
  <2>4. now <= x.since + Delay
    BY <1>4 DEF FoundTrue
  <2> QED
    BY <1>5, <2>2, <2>3, <2>4, Types
<1>7. AnswerTrue(y)'
  <2> SUFFICES ASSUME NEW r \in Asked(x.sel)
               PROVE  now <= LastSo(x.found, r) + (IF x.found = {} /\ ~CachesEmpty THEN Delay ELSE TTL + Delay)
    BY <1>2, <1>3 DEF AnswerTrue, LastSo, Asked
  <2> QED
    BY <1>6, Types
<1>8. CacheTrue'
  <2> SUFFICES ASSUME NEW k \in Key, NEW e \in cache'[k] PROVE EntryTrue(k, e)'
    BY DEF CacheTrue
  <2>1. CASE e \in cache[k]
    <3>1. EntryTrue(k, e)
      BY <2>1 DEF IInv, CacheTrue
    <3> QED
      BY <2>1, <3>1, EntryStaysTrue DEF IInv
  <2>2. CASE e \notin cache[k]
    <3>1. k = x.key /\ (CachesEmpty \/ x.found # {}) /\ e = [ids |-> x.found, expires |-> now + TTL]
      BY <1>2, <1>5, <2>2, Types DEF Entry
    <3>2. ASSUME NEW s \in Selector, Serves(k, s) PROVE s = x.sel
      BY <1>4, <1>5, <3>1, <3>2 DEF FoundTrue, Serves, KeysTell
    <3>3. ASSUME NEW s \in Selector, Serves(k, s), NEW r \in Asked(s)
          PROVE  e.expires <= LastSo(e.ids, r) + TTL + Delay
      <4>1. r \in Asked(x.sel) /\ e.ids = x.found /\ e.expires = now + TTL
        BY <3>1, <3>2, <3>3
      <4> QED
        BY <1>6, <4>1, Types
    <3> QED
      BY <1>2, <3>1, <3>3 DEF EntryTrue, LastSo, Serves, Asked
  <2> QED
    BY <2>1, <2>2
<1> QED
  BY <1>2, <1>3, <1>7, <1>8, OneCaller

(* A call that ends, in QueryFails or Returns. *)
LEMMA EndKeeps ==
  ASSUME ResolverAssumption, TypeOK, IInv, TypeOK', [Next]_vars, NEW c \in Caller,
         QueryFails(c) \/ Returns(c)
  PROVE  IInv'
<1> PICK y : y = Idle
  OBVIOUS
<1>1. call' = [call EXCEPT ![c] = y] /\ now' = now /\ cache' = cache
  BY DEF QueryFails, Returns
<1>2. y.at = "idle"
  BY DEF Idle
<1>3. CacheTrue'
  BY <1>1, CacheStaysTrue
<1> QED
  BY <1>1, <1>2, <1>3, OneCaller

LEMMA TickKeeps ==
  ASSUME ResolverAssumption, TypeOK, IInv, TypeOK', [Next]_vars, Tick
  PROVE  IInv'
<1>1. /\ call' = call /\ cache' = cache /\ now' = now + 1
      /\ \A c \in Caller : call[c].at # "answer" /\ (Busy(c) => now < call[c].since + Delay)
  BY DEF Tick
<1>2. CacheTrue'
  BY <1>1, CacheStaysTrue
<1>3. CallsTrue'
  <2> SUFFICES ASSUME NEW c \in Caller, Busy(c) PROVE FoundTrue(call[c])'
    BY <1>1 DEF CallsTrue, Busy
  <2>1. call[c] \in Calls
    BY Types DEF Busy
  <2> PICK x \in Calls : x = call[c]
    BY <2>1
  <2>2. FoundTrue(x)
    BY DEF IInv, CallsTrue
  <2>3. now' <= x.since + Delay
    <3>1. x.since \in Nat
      BY DEF Calls
    <3> QED
      BY <1>1, <3>1, Types
  <2>4. FoundTrue(x)'
    BY <2>2, <2>3, FoundStaysTrue DEF IInv
  <2> QED
    BY <1>1, <2>4
<1>4. AnswersTrue'
  BY <1>1 DEF AnswersTrue
<1>5. TimesTrue'
  BY TimesStayTrue DEF IInv
<1> QED
  BY <1>2, <1>3, <1>4, <1>5 DEF IInv

LEMMA ChangeKeeps ==
  ASSUME ResolverAssumption, TypeOK, IInv, TypeOK', [Next]_vars, UNCHANGED <<now, cache, call>>
  PROVE  IInv'
<1>1. CacheTrue'
  BY CacheStaysTrue
<1>2. CallsTrue' /\ AnswersTrue'
  BY OthersStayTrue DEF CallsTrue, AnswersTrue
<1>3. TimesTrue'
  BY TimesStayTrue DEF IInv
<1> QED
  BY <1>1, <1>2, <1>3 DEF IInv

(* The inductive invariant: entries, calls under way and answers say what was *)
(* so, each within its bound.                                               *)
THEOREM Invariance == ASSUME ResolverAssumption, KeysTell PROVE Spec => []IInv
<1>1. Init => IInv
  <2> SUFFICES ASSUME Init PROVE IInv
    OBVIOUS
  <2>1. TimesTrue
    BY DEF Init, TimesTrue
  <2>2. CacheTrue
    BY DEF Init, CacheTrue
  <2>3. CallsTrue /\ AnswersTrue
    BY DEF Init, CallsTrue, AnswersTrue, Busy, Idle
  <2> QED
    BY <2>1, <2>2, <2>3 DEF IInv
<1>2. TypeOK /\ TypeOK' /\ IInv /\ [Next]_vars => IInv'
  <2> SUFFICES ASSUME TypeOK, TypeOK', IInv, [Next]_vars PROVE IInv'
    OBVIOUS
  <2> USE ResolverAssumption, KeysTell
  <2>1. ASSUME NEW c \in Caller, NEW s \in Selector, NEW k \in Key, Resolve(c, s, k) PROVE IInv'
    BY <2>1, ResolveKeeps
  <2>2. ASSUME NEW c \in Caller, Hit(c) PROVE IInv'
    BY <2>2, HitKeeps
  <2>3. ASSUME NEW c \in Caller, Miss(c) \/ DropExpired(c) PROVE IInv'
    BY <2>3, GoesOnKeeps
  <2>4. ASSUME NEW c \in Caller, QueryTerm(c) PROVE IInv'
    BY <2>4, QueryTermKeeps
  <2>5. ASSUME NEW c \in Caller, QueryFails(c) \/ Returns(c) PROVE IInv'
    BY <2>5, EndKeeps
  <2>6. ASSUME NEW c \in Caller, Store(c) PROVE IInv'
    BY <2>6, StoreKeeps
  <2>7. ASSUME NEW r \in Resource, Change(r) PROVE IInv'
    BY <2>7, ChangeKeeps DEF Change
  <2>8. CASE Tick
    BY <2>8, TickKeeps
  <2>9. CASE UNCHANGED vars
    BY <2>9, ChangeKeeps DEF vars
  <2> QED
    BY <2>1, <2>2, <2>3, <2>4, <2>5, <2>6, <2>7, <2>8, <2>9 DEF Next, Step
<1> QED
  BY <1>1, <1>2, TypeCorrect, PTL DEF Spec

(* An answer of Resolve (vswitch.go, securitygroup.go, imagefamily.go) is of  *)
(* the TTL and one Resolve ago at most; "none" of vSwitches is of this one.   *)
THEOREM AnswersAreRecent == ASSUME ResolverAssumption, KeysTell PROVE Spec => []AnswerIsRecent
<1>1. IInv => AnswerIsRecent
  BY DEF IInv, AnswersTrue, AnswerTrue, AnswerIsRecent, MaxAge, LastSo
<1> QED
  BY <1>1, Invariance, PTL

================================================================================
