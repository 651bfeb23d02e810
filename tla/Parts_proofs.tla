----------------------------- MODULE Parts_proofs -----------------------------
(***************************************************************************)
(* What is proved of the parts, for every value of their constants: of      *)
(* UnavailableOfferings, Offerings, Admission and Capacity here, where each *)
(* has lemmas on its first states and on its steps; of WindowedBatcher, the *)
(* two Resolvers and Launch, what the modules of their proofs say.  At the  *)
(* end, the properties of Parts.                                            *)
(***************************************************************************)
EXTENDS Parts, Integers, TLAPS

--------------------------------------------------------------------------------
(* UnavailableOfferings. *)

(* The variables of UnavailableOfferings have their types at the start. *)
LEMMA MarksTypeInit == Marks!Init => Marks!TypeOK
<1>1. Marks!Init => now \in Nat /\ mark \in SUBSET Nat /\ cleaners \in Nat /\ marked \in SUBSET Nat
  BY DEF Marks!Init
<1>2. Marks!Init => raced \in BOOLEAN
  BY Zenon DEF Marks!Init
<1> QED
  BY <1>1, <1>2 DEF Marks!TypeOK

(* A step of UnavailableOfferings keeps the types. *)
LEMMA MarksTypeNext == Marks!MarksAssumption /\ Marks!TypeOK /\ [Marks!Next]_(Marks!vars)
  => Marks!TypeOK'
<1> SUFFICES ASSUME Marks!MarksAssumption, Marks!TypeOK, [Marks!Next]_(Marks!vars)
      PROVE Marks!TypeOK'
  OBVIOUS
<1> USE DEF Marks!TypeOK
<1>1. CASE Marks!MarkUnavailable
  <2>1. now + MarkTTL \in Nat
    BY DEF Marks!MarksAssumption
  <2>2. raced' \in BOOLEAN
    BY <1>1 DEF Marks!MarkUnavailable
  <2> QED
    BY <1>1, <2>1, <2>2 DEF Marks!MarkUnavailable
<1>2. CASE Marks!IsAvailable
  BY <1>2 DEF Marks!IsAvailable
<1>3. CASE Marks!Cleanup
  BY <1>3 DEF Marks!Cleanup
<1>4. CASE Marks!CleanupExpired
  BY <1>4 DEF Marks!CleanupExpired
<1>5. CASE Marks!Flush
  BY <1>5 DEF Marks!Flush
<1>6. CASE Marks!Tick
  BY <1>6 DEF Marks!Tick
<1>7. CASE UNCHANGED Marks!vars
  BY <1>7 DEF Marks!vars
<1> QED
  BY <1>1, <1>2, <1>3, <1>4, <1>5, <1>6, <1>7 DEF Marks!Next

(* At the start there is no mark that has to hold. *)
LEMMA MarksInvInit == Marks!Init => Marks!IInv
BY DEF Marks!Init, Marks!IInv, Marks!MarkHolds

(* A step keeps a mark that is within its TTL, where no Flush or late        *)
(* deletion raced it.                                                        *)
LEMMA MarksInvNext == Marks!MarksAssumption /\ Marks!TypeOK /\ Marks!IInv
/\ [Marks!Next]_(Marks!vars) => Marks!IInv'
<1> SUFFICES ASSUME Marks!MarksAssumption, Marks!TypeOK, Marks!IInv, [Marks!Next]_(Marks!vars)
      PROVE Marks!IInv'
  OBVIOUS
<1> USE DEF Marks!MarksAssumption, Marks!TypeOK, Marks!IInv, Marks!MarkHolds, Marks!Expired
<1>1. CASE Marks!MarkUnavailable
  BY <1>1 DEF Marks!MarkUnavailable
<1>2. CASE Marks!IsAvailable
  BY <1>2 DEF Marks!IsAvailable
<1>3. CASE Marks!Cleanup
  BY <1>3 DEF Marks!Cleanup
<1>4. CASE Marks!CleanupExpired
  BY <1>4 DEF Marks!CleanupExpired
<1>5. CASE Marks!Flush
  BY <1>5 DEF Marks!Flush
<1>6. CASE Marks!Tick
  BY <1>6 DEF Marks!Tick
<1>7. CASE UNCHANGED Marks!vars
  BY <1>7 DEF Marks!vars
<1> QED
  BY <1>1, <1>2, <1>3, <1>4, <1>5, <1>6, <1>7 DEF Marks!Next

(* The invariant is what MarkLasts says of IsAvailable. *)
LEMMA MarksInvImplies == Marks!IInv => Marks!MarkLasts
BY DEF Marks!IInv, Marks!MarkLasts, Marks!HoldsBack, Marks!MarkHolds, Marks!Available

--------------------------------------------------------------------------------
(* Offerings. *)

(* A pair of a zone and a capacity type has one of the two capacity types. *)
LEMMA PairKinds == ASSUME NEW p \in Offers!Pair PROVE p[2] \in {Offers!OnDemand, Offers!Spot}
BY DEF Offers!Pair

(* Constants that are knowledge. *)
LEMMA FoundIsKnowledge ==
  ASSUME NEW status \in [Offers!Pair -> Offers!Status], NEW guessed \in BOOLEAN,
         NEW empty \in SUBSET {Offers!OnDemand, Offers!Spot}
  PROVE  Offers!Found(status, guessed, empty) \in Offers!Knowledge
BY DEF Offers!Found, Offers!Knowledge

(* Knowing nothing, and taking everything for stocked, are knowledge. *)
LEMMA BlankIsKnowledge ==
  Offers!Found(Offers!Unlisted, FALSE, {}) \in Offers!Knowledge
  /\ Offers!Optimistic \in Offers!Knowledge
<1>1. Offers!Unlisted \in [Offers!Pair -> Offers!Status]
      /\ [p \in Offers!Pair |-> "stocked"] \in [Offers!Pair -> Offers!Status]
  BY DEF Offers!Unlisted, Offers!Status
<1> QED
  BY <1>1, FoundIsKnowledge DEF Offers!Optimistic

(* What a query of one capacity type adds to knowledge is knowledge. *)
LEMMA PolledIsKnowledge ==
  ASSUME NEW f \in Offers!Knowledge, NEW t \in {Offers!OnDemand, Offers!Spot},
         stock \in [Offers!Pair -> Offers!Status]
  PROVE  Offers!Polled(f, t) \subseteq Offers!Knowledge
<1>1. f.status \in [Offers!Pair -> Offers!Status]
      /\ f.empty \in SUBSET {Offers!OnDemand, Offers!Spot}
  BY DEF Offers!Knowledge
<1>2. [p \in Offers!Pair |-> IF p[2] = t THEN stock[p]
        ELSE f.status[p]] \in [Offers!Pair -> Offers!Status]
  BY <1>1
<1>3. f.empty \cup {t} \in SUBSET {Offers!OnDemand, Offers!Spot}
  BY <1>1
<1> QED
  BY <1>1, <1>2, <1>3, FoundIsKnowledge DEF Offers!Polled

(* A caller that is not idle has a call; where it may be, and stay. *)
LEMMA BusyHasCall ==
  ASSUME Offers!TypeOK, NEW c \in Caller, ~Offers!At(c, "idle")
  PROVE  listing[c] \in Offers!Calls
BY DEF Offers!TypeOK, Offers!At, Offers!Idle

(* A call that goes on stays a call. *)
LEMMA GoKeepsCalls ==
  ASSUME Offers!TypeOK, NEW c \in Caller, ~Offers!At(c, "idle"),
         NEW at \in {"list", "inventory", Offers!OnDemand, Offers!Spot, "types", "answer"},
         NEW f \in Offers!Knowledge,
         Offers!Go(c, at, f)
  PROVE  listing' \in [Caller -> Offers!Calls \cup {Offers!Idle}]
<1>1. listing[c] \in Offers!Calls
  BY BusyHasCall
<1>2. [[listing[c] EXCEPT !.at = at] EXCEPT !.found = f] \in Offers!Calls
  BY <1>1 DEF Offers!Calls
<1> QED
  BY <1>2 DEF Offers!Go, Offers!TypeOK

(* What a call stores is an entry of the cache. *)
LEMMA EntryIsEntry ==
  ASSUME Offers!TypeOK, Offers!OfferingsAssumption, NEW f \in Offers!Knowledge
  PROVE  Offers!Entry(f) \in SUBSET Offers!Entries
<1>1. now + OfferingsTTL \in Nat
  BY DEF Offers!TypeOK, Offers!OfferingsAssumption
<1> QED
  BY <1>1 DEF Offers!Entry, Offers!Entries

(* The variables of Offerings have their types at the start. *)
LEMMA OffersTypeInit == Offers!OfferingsAssumption /\ Offers!Init => Offers!TypeOK
<1> SUFFICES ASSUME Offers!OfferingsAssumption, Offers!Init PROVE Offers!TypeOK
  OBVIOUS
<1>1. last \in [Offers!Pair -> [Offers!Status -> Nat]]
  BY DEF Offers!Init
<1> QED
  BY <1>1 DEF Offers!Init, Offers!TypeOK

(* A step of Offerings keeps the types. *)
LEMMA OffersTypeNext == Offers!OfferingsAssumption /\ Offers!TypeOK /\ [Offers!Next]_(Offers!vars)
  => Offers!TypeOK'
<1> SUFFICES ASSUME Offers!OfferingsAssumption, Offers!TypeOK, [Offers!Next]_(Offers!vars)
      PROVE Offers!TypeOK'
  OBVIOUS
<1>0. /\ now \in Nat /\ stock \in [Offers!Pair -> Offers!Status]
      /\ inventory \in SUBSET Offers!Entries /\ typeList \in SUBSET Offers!Entries
      /\ listing \in [Caller -> Offers!Calls \cup {Offers!Idle}]
         /\ last \in [Offers!Pair -> [Offers!Status -> Nat]]
  BY DEF Offers!TypeOK
<1>0a. ASSUME NEW c \in Caller, ~Offers!At(c, "idle")
         PROVE listing[c] \in Offers!Calls /\ listing[c].found \in Offers!Knowledge
  BY <1>0a, BusyHasCall DEF Offers!Calls
<1>1. ASSUME NEW c \in Caller, Offers!GetInstanceTypes(c) PROVE Offers!TypeOK'
  <2>1. [at |-> "list", since |-> now,
          found |-> Offers!Found(Offers!Unlisted, FALSE, {})] \in Offers!Calls
    BY <1>0, BlankIsKnowledge DEF Offers!Calls
  <2> QED
    BY <1>0, <1>1, <2>1 DEF Offers!GetInstanceTypes, Offers!TypeOK
<1>2. ASSUME NEW c \in Caller, Offers!Fails(c) \/ Offers!Returns(c) PROVE Offers!TypeOK'
  BY <1>0, <1>2 DEF Offers!Fails, Offers!Returns, Offers!TypeOK
<1>3. ASSUME NEW c \in Caller, Offers!ListHit(c) PROVE Offers!TypeOK'
  <2> PICK e \in typeList : Offers!Go(c, "answer", e.found)
    BY <1>3 DEF Offers!ListHit
  <2>1. e.found \in Offers!Knowledge /\ ~Offers!At(c, "idle")
    BY <1>0, <1>3 DEF Offers!Entries, Offers!ListHit, Offers!At
  <2>2. listing' \in [Caller -> Offers!Calls \cup {Offers!Idle}]
    BY <2>1, GoKeepsCalls
  <2> QED
    BY <1>0, <1>3, <2>2 DEF Offers!ListHit, Offers!TypeOK
<1>4. ASSUME NEW c \in Caller, Offers!ListMiss(c) \/ Offers!InventoryMiss(c) PROVE Offers!TypeOK'
  <2>1. ~Offers!At(c, "idle")
    BY <1>4 DEF Offers!ListMiss, Offers!InventoryMiss, Offers!At
  <2>2. listing[c].found \in Offers!Knowledge
    BY <1>0a, <2>1
  <2>3. Offers!Go(c, "inventory", listing[c].found)
        \/ Offers!Go(c, Offers!OnDemand, listing[c].found)
    BY <1>4 DEF Offers!ListMiss, Offers!InventoryMiss
  <2>4. listing' \in [Caller -> Offers!Calls \cup {Offers!Idle}]
    BY <2>1, <2>2, <2>3, GoKeepsCalls
  <2> QED
    BY <1>0, <1>4, <2>4 DEF Offers!ListMiss, Offers!InventoryMiss, Offers!TypeOK
<1>5. ASSUME NEW c \in Caller, Offers!InventoryHit(c) PROVE Offers!TypeOK'
  <2> PICK e \in inventory : Offers!Go(c, "types", e.found)
    BY <1>5 DEF Offers!InventoryHit
  <2>1. e.found \in Offers!Knowledge /\ ~Offers!At(c, "idle")
    BY <1>0, <1>5 DEF Offers!Entries, Offers!InventoryHit, Offers!At
  <2>2. listing' \in [Caller -> Offers!Calls \cup {Offers!Idle}]
    BY <2>1, GoKeepsCalls
  <2> QED
    BY <1>0, <1>5, <2>2 DEF Offers!InventoryHit, Offers!TypeOK
<1>6. ASSUME NEW c \in Caller, Offers!PollOnDemand(c) PROVE Offers!TypeOK'
  <2>1. ~Offers!At(c, "idle")
    BY <1>6 DEF Offers!PollOnDemand, Offers!At, Offers!OnDemand
  <2> PICK f \in Offers!Polled(listing[c].found, Offers!OnDemand) : Offers!Go(c, Offers!Spot, f)
    BY <1>6 DEF Offers!PollOnDemand
  <2>2. f \in Offers!Knowledge
    BY <1>0, <1>0a, <2>1, PolledIsKnowledge
  <2>3. listing' \in [Caller -> Offers!Calls \cup {Offers!Idle}]
    BY <2>1, <2>2, GoKeepsCalls
  <2> QED
    BY <1>0, <1>6, <2>3 DEF Offers!PollOnDemand, Offers!TypeOK
<1>7. ASSUME NEW c \in Caller, Offers!PollSpot(c) PROVE Offers!TypeOK'
  <2>1. ~Offers!At(c, "idle")
    BY <1>7 DEF Offers!PollSpot, Offers!At, Offers!Spot
  <2> PICK f \in Offers!Polled(listing[c].found, Offers!Spot) : Offers!Go(c, "types", f)
      /\ inventory' = Offers!Entry(f)
    BY <1>7 DEF Offers!PollSpot
  <2>2. f \in Offers!Knowledge
    BY <1>0, <1>0a, <2>1, PolledIsKnowledge
  <2>3. listing' \in [Caller -> Offers!Calls \cup {Offers!Idle}]
        /\ inventory' \in SUBSET Offers!Entries
    BY <2>1, <2>2, GoKeepsCalls, EntryIsEntry
  <2> QED
    BY <1>0, <1>7, <2>3 DEF Offers!PollSpot, Offers!TypeOK
<1>8. ASSUME NEW c \in Caller, Offers!PollFails(c) PROVE Offers!TypeOK'
  <2>1. ~Offers!At(c, "idle") /\ Offers!Go(c, "types", Offers!Optimistic)
    BY <1>8 DEF Offers!PollFails, Offers!At, Offers!OnDemand, Offers!Spot
  <2>2. listing' \in [Caller -> Offers!Calls \cup {Offers!Idle}]
    BY <2>1, BlankIsKnowledge, GoKeepsCalls
  <2> QED
    BY <1>0, <1>8, <2>2 DEF Offers!PollFails, Offers!TypeOK
<1>9. ASSUME NEW c \in Caller, Offers!Assemble(c) PROVE Offers!TypeOK'
  <2>1. ~Offers!At(c, "idle") /\ Offers!Go(c, "answer", listing[c].found)
    BY <1>9 DEF Offers!Assemble, Offers!At
  <2>2. listing' \in [Caller -> Offers!Calls \cup {Offers!Idle}]
        /\ typeList' \in SUBSET Offers!Entries
    BY <1>0a, <1>9, <2>1, GoKeepsCalls, EntryIsEntry DEF Offers!Assemble
  <2> QED
    BY <1>0, <1>9, <2>2 DEF Offers!Assemble, Offers!TypeOK
<1>10. ASSUME NEW p \in Offers!Pair, NEW s \in Offers!Status, Offers!Sell(p, s) PROVE Offers!TypeOK'
  <2>1. stock' \in [Offers!Pair -> Offers!Status]
        /\ last' \in [Offers!Pair -> [Offers!Status -> Nat]]
    BY <1>0, <1>10 DEF Offers!Sell
  <2> QED
    BY <1>0, <1>10, <2>1 DEF Offers!Sell, Offers!TypeOK
<1>11. CASE Offers!Tick
  <2>1. now' \in Nat
    BY <1>0, <1>11 DEF Offers!Tick
  <2>2. last' \in [Offers!Pair -> [Offers!Status -> Nat]]
    BY <1>0, <1>11, <2>1 DEF Offers!Tick
  <2> QED
    BY <1>0, <1>11, <2>1, <2>2 DEF Offers!Tick, Offers!TypeOK
<1>12. CASE UNCHANGED Offers!vars
  BY <1>0, <1>12 DEF Offers!vars, Offers!TypeOK
<1> QED
  BY <1>1, <1>2, <1>3, <1>4, <1>5, <1>6, <1>7, <1>8, <1>9, <1>10, <1>11, <1>12 DEF Offers!Next,
       Offers!List

(* What is known gets older only. *)
LEMMA Older ==
  ASSUME NEW f \in Offers!Knowledge, NEW t \in Nat, NEW u \in Nat, NEW a \in Nat, NEW b \in Nat,
         last \in [Offers!Pair -> [Offers!Status -> Nat]], Offers!KnownAt(f, t, a), u + a <= t + b
  PROVE  Offers!KnownAt(f, u, b)
<1> SUFFICES ASSUME NEW p \in Offers!Pair, t <= last[p][f.status[p]] + a
             PROVE  u <= last[p][f.status[p]] + b
  BY DEF Offers!KnownAt, Offers!SoAt
<1>1. last[p][f.status[p]] \in Nat
  BY DEF Offers!Knowledge
<1> QED
  BY <1>1

(* What was known within a bound still is when the history has gone on. *)
LEMMA KnownLater ==
  ASSUME NEW f \in Offers!Knowledge, NEW t \in Nat, NEW a \in Nat, Offers!KnownAt(f, t, a),
         last \in [Offers!Pair -> [Offers!Status -> Nat]],
         last' \in [Offers!Pair -> [Offers!Status -> Nat]],
         \A p \in Offers!Pair, s \in Offers!Status : last[p][s] <= last'[p][s]
  PROVE  Offers!KnownAt(f, t, a)'
<1> SUFFICES ASSUME NEW p \in Offers!Pair
      PROVE Offers!Unknown(f, p) \/ t <= last'[p][f.status[p]] + a
  BY DEF Offers!KnownAt, Offers!SoAt, Offers!Unknown
<1>1. f.status[p] \in Offers!Status
  BY DEF Offers!Knowledge
<1>2. /\ last[p][f.status[p]] \in Nat /\ last'[p][f.status[p]] \in Nat
      /\ last[p][f.status[p]] <= last'[p][f.status[p]]
  BY <1>1
<1>3. Offers!Unknown(f, p) \/ t <= last[p][f.status[p]] + a
  BY DEF Offers!KnownAt, Offers!SoAt
<1> QED
  BY <1>2, <1>3

(* The history goes on. *)
LEMMA LastGrows ==
  ASSUME Offers!TypeOK, Offers!LastTrue, Offers!Tick
         \/ \E p \in Offers!Pair, s \in Offers!Status : Offers!Sell(p, s)
  PROVE  Offers!LastTrue' /\ \A p \in Offers!Pair, s \in Offers!Status : last[p][s] <= last'[p][s]
<1>0. /\ now \in Nat /\ stock \in [Offers!Pair -> Offers!Status]
         /\ last \in [Offers!Pair -> [Offers!Status -> Nat]]
      /\ \A p \in Offers!Pair : last[p][stock[p]] = now
         /\ \A s \in Offers!Status : last[p][s] <= now
  BY DEF Offers!TypeOK, Offers!LastTrue
<1>1. CASE Offers!Tick
  <2>1. now' = now + 1 /\ stock' = stock
        /\ last' = [p \in Offers!Pair |-> [last[p] EXCEPT ![stock[p]] = now + 1]]
    BY <1>1 DEF Offers!Tick
  <2>2. ASSUME NEW p \in Offers!Pair, NEW s \in Offers!Status
        PROVE  last'[p][stock'[p]] = now' /\ last'[p][s] <= now' /\ last[p][s] <= last'[p][s]
    <3>1. last'[p] = [last[p] EXCEPT ![stock[p]] = now + 1] /\ last[p] \in [Offers!Status -> Nat]
          /\ stock[p] \in Offers!Status
      BY <1>0, <2>1
    <3> QED
      BY <1>0, <2>1, <3>1
  <2> QED
    BY <2>2 DEF Offers!LastTrue, Offers!Status
<1>2. ASSUME NEW q \in Offers!Pair, NEW z \in Offers!Status, Offers!Sell(q, z)
      PROVE  Offers!LastTrue' /\ \A p \in Offers!Pair, s \in Offers!Status :
             last[p][s] <= last'[p][s]
  <2>1. now' = now /\ stock' = [stock EXCEPT ![q] = z] /\ last' = [last EXCEPT ![q][z] = now]
    BY <1>2 DEF Offers!Sell
  <2>2. ASSUME NEW p \in Offers!Pair, NEW s \in Offers!Status
        PROVE  last'[p][stock'[p]] = now' /\ last'[p][s] <= now' /\ last[p][s] <= last'[p][s]
    BY <1>0, <2>1
  <2> QED
    BY <2>2 DEF Offers!LastTrue, Offers!Status
<1> QED
  BY <1>1, <1>2

(* The clock and the stock stay: what is known of them is what was. *)
LEMMA CallerStep ==
  ASSUME Offers!IInv, NEW c \in Caller, UNCHANGED <<now, stock, last>>,
         \A d \in Caller \ {c} : listing'[d] = listing[d],
         UNCHANGED inventory \/ Offers!InventoryKnown', UNCHANGED typeList \/ Offers!TypeListKnown',
         listing'[c] = Offers!Idle \/ Offers!CallKnows(listing'[c])
  PROVE  Offers!IInv'
<1>1. Offers!LastTrue'
  BY DEF Offers!IInv, Offers!LastTrue
<1>2. Offers!InventoryKnown'
  BY DEF Offers!IInv, Offers!InventoryKnown, Offers!KnownAt, Offers!SoAt
<1>3. Offers!TypeListKnown'
  BY DEF Offers!IInv, Offers!TypeListKnown, Offers!KnownAt, Offers!SoAt
<1>4. ASSUME NEW d \in Caller, ~Offers!At(d, "idle")' PROVE Offers!CallKnows(listing[d])'
  <2>1. Offers!CallKnows(listing'[d])
    <3>1. CASE d = c
      BY <1>4, <3>1 DEF Offers!At, Offers!Idle
    <3>2. CASE d # c
      BY <1>4, <3>2 DEF Offers!IInv, Offers!At
    <3> QED
      BY <3>1, <3>2
  <2> QED
    BY <2>1 DEF Offers!CallKnows, Offers!KnownAt, Offers!SoAt
<1> QED
  BY <1>1, <1>2, <1>3, <1>4 DEF Offers!IInv

(* Where a call that goes on is, and that the others stay. *)
LEMMA GoTo ==
  ASSUME Offers!TypeOK, NEW c \in Caller, ~Offers!At(c, "idle"), NEW at, NEW f, Offers!Go(c, at, f)
  PROVE  /\ listing'[c].at = at /\ listing'[c].found = f /\ listing'[c].since = listing[c].since
         /\ \A d \in Caller \ {c} : listing'[d] = listing[d]
<1>1. listing[c] \in Offers!Calls
  BY BusyHasCall
<1>2. listing'[c] = [[listing[c] EXCEPT !.at = at] EXCEPT !.found = f]
      /\ \A d \in Caller \ {c} : listing'[d] = listing[d]
  BY DEF Offers!Go, Offers!TypeOK
<1> QED
  BY <1>1, <1>2 DEF Offers!Calls

(* What the query of one capacity type adds to what a call knew. *)
LEMMA OnDemandKnown ==
  ASSUME Offers!OfferingsAssumption, Offers!TypeOK, Offers!LastTrue, NEW t \in Nat, t <= now,
         NEW f \in Offers!Polled(Offers!Found(Offers!Unlisted, FALSE, {}), Offers!OnDemand)
  PROVE  /\ ~f.guessed
         /\ \A p \in Offers!Pair : IF p[2] = Offers!OnDemand THEN Offers!SoAt(f, p, t, 0)
              ELSE f.status[p] = "unlisted"
<1> SUFFICES ASSUME NEW p \in Offers!Pair
             PROVE  /\ ~f.guessed
                    /\ IF p[2] = Offers!OnDemand THEN Offers!SoAt(f, p, t, 0)
                         ELSE f.status[p] = "unlisted"
  <2>1. ~f.guessed
    BY DEF Offers!Polled, Offers!Found
  <2> QED
    BY <2>1
<1>0. last[p][stock[p]] = now /\ now \in Nat
  BY DEF Offers!LastTrue, Offers!TypeOK
<1>1. CASE f = Offers!Found([q \in Offers!Pair |-> IF q[2] = Offers!OnDemand THEN stock[q]
        ELSE "unlisted"], FALSE, {})
  BY <1>0, <1>1 DEF Offers!Found, Offers!SoAt
<1>2. CASE f = Offers!Found(Offers!Unlisted, FALSE, {Offers!OnDemand})
  BY <1>2 DEF Offers!Found, Offers!Unlisted, Offers!SoAt, Offers!Unknown
<1>3. \/ f = Offers!Found([q \in Offers!Pair |-> IF q[2] = Offers!OnDemand THEN stock[q]
           ELSE "unlisted"], FALSE, {})
      \/ f = Offers!Found(Offers!Unlisted, FALSE, {Offers!OnDemand})
  BY DEF Offers!Polled, Offers!Found, Offers!Unlisted
<1> QED
  BY <1>1, <1>2, <1>3

(* What the query of spot stock adds, where on-demand stock is known. *)
LEMMA SpotKnown ==
  ASSUME Offers!OfferingsAssumption, Offers!TypeOK, Offers!LastTrue, NEW t \in Nat, t <= now,
         NEW g \in Offers!Knowledge, ~g.guessed,
         \A p \in Offers!Pair : IF p[2] = Offers!OnDemand THEN Offers!SoAt(g, p, t, 0)
           ELSE g.status[p] = "unlisted",
         NEW f \in Offers!Polled(g, Offers!Spot)
  PROVE  ~f.guessed /\ Offers!KnownAt(f, t, 0)
<1> SUFFICES ASSUME NEW p \in Offers!Pair PROVE ~f.guessed /\ Offers!SoAt(f, p, t, 0)
  <2>1. ~f.guessed
    BY DEF Offers!Polled, Offers!Found
  <2> QED
    BY <2>1 DEF Offers!KnownAt
<1>0. last[p][stock[p]] = now /\ now \in Nat /\ p[2] \in {Offers!OnDemand, Offers!Spot}
      /\ Offers!OnDemand # Offers!Spot
  BY PairKinds DEF Offers!LastTrue, Offers!TypeOK, Offers!OnDemand, Offers!Spot
<1>1. CASE f = Offers!Found([q \in Offers!Pair |-> IF q[2] = Offers!Spot THEN stock[q]
        ELSE g.status[q]], FALSE, g.empty)
  BY <1>0, <1>1 DEF Offers!Found, Offers!SoAt, Offers!Unknown
<1>2. CASE f = Offers!Found(g.status, FALSE, g.empty \cup {Offers!Spot})
  BY <1>0, <1>2 DEF Offers!Found, Offers!SoAt, Offers!Unknown
<1> QED
  BY <1>1, <1>2 DEF Offers!Polled

(* At the start nothing is known, which is no older than its bound. *)
LEMMA OffersInvInit == Offers!Init => Offers!IInv
<1> SUFFICES ASSUME Offers!Init PROVE Offers!IInv
  OBVIOUS
<1>1. Offers!LastTrue
  BY DEF Offers!Init, Offers!LastTrue
<1> QED
  BY <1>1 DEF Offers!Init, Offers!IInv, Offers!InventoryKnown, Offers!TypeListKnown, Offers!At,
       Offers!Idle

(* A step of Offerings keeps the bounds on what entries and calls know. *)
LEMMA OffersInvNext == Offers!OfferingsAssumption /\ Offers!TypeOK /\ Offers!IInv
/\ [Offers!Next]_(Offers!vars) => Offers!IInv'
<1> SUFFICES ASSUME Offers!OfferingsAssumption, Offers!TypeOK, Offers!IInv,
    [Offers!Next]_(Offers!vars) PROVE Offers!IInv'
  OBVIOUS
<1>0. /\ now \in Nat /\ stock \in [Offers!Pair -> Offers!Status]
      /\ inventory \in SUBSET Offers!Entries /\ typeList \in SUBSET Offers!Entries
      /\ last \in [Offers!Pair -> [Offers!Status -> Nat]]
         /\ listing \in [Caller -> Offers!Calls \cup {Offers!Idle}]
      /\ OfferingsTTL \in Nat /\ ListDelay \in Nat /\ OfferingsTTL + ListDelay \in Nat
         /\ Offers!Bound \in Nat
  BY DEF Offers!TypeOK, Offers!OfferingsAssumption, Offers!Bound
<1>00. Offers!LastTrue
  BY DEF Offers!IInv
<1>0a. ASSUME NEW c \in Caller, ~Offers!At(c, "idle")
       PROVE  /\ listing[c] \in Offers!Calls /\ listing[c].found \in Offers!Knowledge
                 /\ listing[c].since \in Nat
              /\ Offers!CallKnows(listing[c])
  BY <1>0a, BusyHasCall DEF Offers!Calls, Offers!IInv
<1>1. ASSUME NEW c \in Caller, Offers!GetInstanceTypes(c) PROVE Offers!IInv'
  <2> DEFINE x == [at |-> "list", since |-> now, found |-> Offers!Found(Offers!Unlisted, FALSE, {})]
  <2>1. Offers!CallKnows(x)
    BY <1>0 DEF Offers!CallKnows, Offers!Found, Offers!GuessesStock, Offers!OnDemand, Offers!Spot
  <2>2. listing'[c] = x /\ \A d \in Caller \ {c} : listing'[d] = listing[d]
    BY <1>0, <1>1 DEF Offers!GetInstanceTypes
  <2> QED
    BY <1>1, <2>1, <2>2, CallerStep DEF Offers!GetInstanceTypes
<1>2. ASSUME NEW c \in Caller, Offers!Fails(c) \/ Offers!Returns(c) PROVE Offers!IInv'
  <2>1. listing'[c] = Offers!Idle /\ \A d \in Caller \ {c} : listing'[d] = listing[d]
    BY <1>0, <1>2 DEF Offers!Fails, Offers!Returns
  <2> QED
    BY <1>2, <2>1, CallerStep DEF Offers!Fails, Offers!Returns
<1>3. ASSUME NEW c \in Caller, Offers!ListHit(c) PROVE Offers!IInv'
  <2> PICK e \in typeList : Offers!Live(e) /\ Offers!Go(c, "answer", e.found)
    BY <1>3 DEF Offers!ListHit
  <2>0. ~Offers!At(c, "idle") /\ e.found \in Offers!Knowledge /\ e.expires \in Nat
    BY <1>0, <1>3 DEF Offers!ListHit, Offers!At, Offers!Entries
  <2>1. /\ listing'[c].at = "answer" /\ listing'[c].found = e.found
           /\ listing'[c].since = listing[c].since
        /\ \A d \in Caller \ {c} : listing'[d] = listing[d]
    BY <2>0, GoTo
  <2>2. Offers!KnownAt(e.found, e.expires, Offers!Bound) /\ Offers!GuessesStock(e.found)
    BY DEF Offers!IInv, Offers!TypeListKnown
  <2>3. now + Offers!Bound <= e.expires + Offers!Bound
    BY <1>0, <2>0 DEF Offers!Live
  <2>4. Offers!KnownAt(e.found, now, Offers!Bound)
    BY <1>0, <2>0, <2>2, <2>3, Older
  <2>5. Offers!CallKnows(listing'[c])
    BY <1>0a, <2>0, <2>1, <2>2, <2>4 DEF Offers!CallKnows, Offers!OnDemand, Offers!Spot
  <2> QED
    BY <1>3, <2>1, <2>5, CallerStep DEF Offers!ListHit
<1>4. ASSUME NEW c \in Caller, Offers!ListMiss(c) \/ Offers!InventoryMiss(c) PROVE Offers!IInv'
  <2>0. ~Offers!At(c, "idle") /\ listing[c].at \in {"list", "inventory"}
    BY <1>4 DEF Offers!ListMiss, Offers!InventoryMiss, Offers!At
  <2> PICK at \in {"inventory", Offers!OnDemand} : Offers!Go(c, at, listing[c].found)
    BY <1>4 DEF Offers!ListMiss, Offers!InventoryMiss
  <2>1. /\ listing'[c].at = at /\ listing'[c].found = listing[c].found
           /\ listing'[c].since = listing[c].since
        /\ \A d \in Caller \ {c} : listing'[d] = listing[d]
    BY <2>0, GoTo
  <2>2. Offers!CallKnows(listing'[c])
    BY <1>0a, <2>0, <2>1 DEF Offers!CallKnows, Offers!OnDemand, Offers!Spot
  <2> QED
    BY <1>4, <2>1, <2>2, CallerStep DEF Offers!ListMiss, Offers!InventoryMiss
<1>5. ASSUME NEW c \in Caller, Offers!InventoryHit(c) PROVE Offers!IInv'
  <2> PICK e \in inventory : Offers!Live(e) /\ Offers!Go(c, "types", e.found)
    BY <1>5 DEF Offers!InventoryHit
  <2>0. ~Offers!At(c, "idle") /\ e.found \in Offers!Knowledge /\ e.expires \in Nat
    BY <1>0, <1>5 DEF Offers!InventoryHit, Offers!At, Offers!Entries
  <2>1. /\ listing'[c].at = "types" /\ listing'[c].found = e.found
           /\ listing'[c].since = listing[c].since
        /\ \A d \in Caller \ {c} : listing'[d] = listing[d]
    BY <2>0, GoTo
  <2>2. Offers!KnownAt(e.found, e.expires, OfferingsTTL + ListDelay) /\ Offers!GuessesStock(e.found)
    BY DEF Offers!IInv, Offers!InventoryKnown
  <2>3. listing[c].since \in Nat /\ listing[c].since <= now /\ now <= listing[c].since + ListDelay
    BY <1>0a, <2>0 DEF Offers!CallKnows
  <2>4. listing[c].since + (OfferingsTTL + ListDelay) <= e.expires + (OfferingsTTL + ListDelay)
    BY <1>0, <2>0, <2>3 DEF Offers!Live
  <2>5. Offers!KnownAt(e.found, listing[c].since, OfferingsTTL + ListDelay)
    BY <1>0, <2>0, <2>2, <2>3, <2>4, Older
  <2>6. Offers!CallKnows(listing'[c])
    BY <2>1, <2>2, <2>3, <2>5 DEF Offers!CallKnows, Offers!OnDemand, Offers!Spot
  <2> QED
    BY <1>5, <2>1, <2>6, CallerStep DEF Offers!InventoryHit
<1>6. ASSUME NEW c \in Caller, Offers!PollOnDemand(c) PROVE Offers!IInv'
  <2> PICK f \in Offers!Polled(listing[c].found, Offers!OnDemand) : Offers!Go(c, Offers!Spot, f)
    BY <1>6 DEF Offers!PollOnDemand
  <2>0. ~Offers!At(c, "idle") /\ listing[c].at = Offers!OnDemand
    BY <1>6 DEF Offers!PollOnDemand, Offers!At, Offers!OnDemand
  <2>1. /\ listing'[c].at = Offers!Spot /\ listing'[c].found = f
           /\ listing'[c].since = listing[c].since
        /\ \A d \in Caller \ {c} : listing'[d] = listing[d]
    BY <2>0, GoTo
  <2>2. /\ listing[c].since \in Nat /\ listing[c].since <= now
           /\ now <= listing[c].since + ListDelay
        /\ listing[c].found = Offers!Found(Offers!Unlisted, FALSE, {})
    BY <1>0a, <2>0 DEF Offers!CallKnows
  <2>3. /\ ~f.guessed
        /\ \A p \in Offers!Pair : IF p[2] = Offers!OnDemand
             THEN Offers!SoAt(f, p, listing[c].since, 0) ELSE f.status[p] = "unlisted"
    BY <1>00, <2>2, OnDemandKnown
  <2>4. Offers!CallKnows(listing'[c])
    BY <2>1, <2>2, <2>3 DEF Offers!CallKnows, Offers!GuessesStock, Offers!OnDemand, Offers!Spot
  <2> QED
    BY <1>6, <2>1, <2>4, CallerStep DEF Offers!PollOnDemand
<1>7. ASSUME NEW c \in Caller, Offers!PollSpot(c) PROVE Offers!IInv'
  <2> PICK f \in Offers!Polled(listing[c].found, Offers!Spot) : Offers!Go(c, "types", f)
      /\ inventory' = Offers!Entry(f)
    BY <1>7 DEF Offers!PollSpot
  <2>0. ~Offers!At(c, "idle") /\ listing[c].at = Offers!Spot
    BY <1>7 DEF Offers!PollSpot, Offers!At, Offers!Spot
  <2>1. /\ listing'[c].at = "types" /\ listing'[c].found = f /\ listing'[c].since = listing[c].since
        /\ \A d \in Caller \ {c} : listing'[d] = listing[d]
    BY <2>0, GoTo
  <2>2. /\ listing[c].since \in Nat /\ listing[c].since <= now
           /\ now <= listing[c].since + ListDelay
        /\ ~listing[c].found.guessed /\ listing[c].found \in Offers!Knowledge
        /\ \A p \in Offers!Pair : IF p[2] = Offers!OnDemand
             THEN Offers!SoAt(listing[c].found, p, listing[c].since, 0)
                                             ELSE listing[c].found.status[p] = "unlisted"
    BY <1>0a, <2>0 DEF Offers!CallKnows
  <2>3. ~f.guessed /\ Offers!KnownAt(f, listing[c].since, 0)
    BY <1>00, <2>2, SpotKnown
  <2>4. f \in Offers!Knowledge
    BY <1>0, <2>2, PolledIsKnowledge
  <2>5. Offers!KnownAt(f, listing[c].since, OfferingsTTL + ListDelay)
    BY <1>0, <2>2, <2>3, <2>4, Older
  <2>6. Offers!CallKnows(listing'[c])
    BY <2>1, <2>2, <2>3, <2>5 DEF Offers!CallKnows, Offers!GuessesStock, Offers!OnDemand,
         Offers!Spot
  <2>7. Offers!KnownAt(f, now + OfferingsTTL, OfferingsTTL + ListDelay)
    BY <1>0, <2>2, <2>3, <2>4, Older
  <2>8. Offers!InventoryKnown'
    <3>1. inventory' = {[found |-> f, expires |-> now + OfferingsTTL]} /\ last' = last
      BY <1>7 DEF Offers!PollSpot, Offers!Entry
    <3> QED
      BY <2>3, <2>7, <3>1 DEF Offers!InventoryKnown, Offers!KnownAt, Offers!SoAt,
           Offers!GuessesStock
  <2> QED
    BY <1>7, <2>1, <2>6, <2>8, CallerStep DEF Offers!PollSpot
<1>8. ASSUME NEW c \in Caller, Offers!PollFails(c) PROVE Offers!IInv'
  <2>0. ~Offers!At(c, "idle") /\ Offers!Go(c, "types", Offers!Optimistic)
    BY <1>8 DEF Offers!PollFails, Offers!At, Offers!OnDemand, Offers!Spot
  <2>1. /\ listing'[c].at = "types" /\ listing'[c].found = Offers!Optimistic
           /\ listing'[c].since = listing[c].since
        /\ \A d \in Caller \ {c} : listing'[d] = listing[d]
    BY <2>0, GoTo
  <2>2. listing[c].since <= now /\ now <= listing[c].since + ListDelay
    BY <1>0a, <2>0 DEF Offers!CallKnows
  <2>3. Offers!CallKnows(listing'[c])
    BY <2>1, <2>2 DEF Offers!CallKnows, Offers!Optimistic, Offers!Found, Offers!GuessesStock,
         Offers!KnownAt, Offers!SoAt, Offers!Unknown, Offers!OnDemand, Offers!Spot
  <2> QED
    BY <1>8, <2>1, <2>3, CallerStep DEF Offers!PollFails
<1>9. ASSUME NEW c \in Caller, Offers!Assemble(c) PROVE Offers!IInv'
  <2> DEFINE f == listing[c].found
  <2>0. ~Offers!At(c, "idle") /\ listing[c].at = "types" /\ Offers!Go(c, "answer", f)
        /\ typeList' = Offers!Entry(f)
    BY <1>9 DEF Offers!Assemble, Offers!At
  <2>1. /\ listing'[c].at = "answer" /\ listing'[c].found = f
           /\ listing'[c].since = listing[c].since
        /\ \A d \in Caller \ {c} : listing'[d] = listing[d]
    BY <2>0, GoTo
  <2>2. /\ listing[c].since \in Nat /\ listing[c].since <= now
           /\ now <= listing[c].since + ListDelay
        /\ f \in Offers!Knowledge /\ Offers!GuessesStock(f)
           /\ Offers!KnownAt(f, listing[c].since, OfferingsTTL + ListDelay)
    BY <1>0a, <2>0 DEF Offers!CallKnows
  <2> HIDE DEF f
  <2>3. now + (OfferingsTTL + ListDelay) <= listing[c].since + Offers!Bound
        /\ (now + OfferingsTTL) + (OfferingsTTL + ListDelay) <= listing[c].since + Offers!Bound
    BY <1>0, <2>2 DEF Offers!Bound
  <2>4. Offers!KnownAt(f, now, Offers!Bound) /\ Offers!KnownAt(f, now + OfferingsTTL, Offers!Bound)
    BY <1>0, <2>2, <2>3, Older
  <2>5. Offers!CallKnows(listing'[c])
    BY <2>1, <2>2, <2>4 DEF Offers!CallKnows, Offers!OnDemand, Offers!Spot
  <2>6. Offers!TypeListKnown'
    <3>1. typeList' = {[found |-> f, expires |-> now + OfferingsTTL]} /\ last' = last
      BY <1>9, <2>0 DEF Offers!Assemble, Offers!Entry
    <3> QED
      BY <2>2, <2>4, <3>1 DEF Offers!TypeListKnown, Offers!KnownAt, Offers!SoAt, Offers!GuessesStock
  <2> QED
    BY <1>9, <2>1, <2>5, <2>6, CallerStep DEF Offers!Assemble
<1>10. ASSUME Offers!Tick \/ \E p \in Offers!Pair, s \in Offers!Status : Offers!Sell(p, s)
         PROVE Offers!IInv'
  <2>1. Offers!LastTrue' /\ \A p \in Offers!Pair, s \in Offers!Status : last[p][s] <= last'[p][s]
    BY <1>00, <1>10, LastGrows
  <2>2. last' \in [Offers!Pair -> [Offers!Status -> Nat]]
        /\ UNCHANGED <<inventory, typeList, listing>>
    BY <1>10, OffersTypeNext DEF Offers!TypeOK, Offers!Tick, Offers!Sell
  <2>3. ASSUME NEW f \in Offers!Knowledge, NEW t \in Nat, NEW a \in Nat, Offers!KnownAt(f, t, a)
                 PROVE Offers!KnownAt(f, t, a)'
    BY <1>0, <2>1, <2>2, <2>3, KnownLater
  <2>4. Offers!InventoryKnown' /\ Offers!TypeListKnown'
    BY <1>0, <2>2, <2>3 DEF Offers!IInv, Offers!InventoryKnown, Offers!TypeListKnown, Offers!Entries
  <2>5. ASSUME NEW c \in Caller, ~Offers!At(c, "idle")' PROVE Offers!CallKnows(listing[c])'
    <3> DEFINE x == listing[c]
    <3>1. ~Offers!At(c, "idle") /\ x' = x
      BY <2>2, <2>5 DEF Offers!At
    <3>2. x \in Offers!Calls /\ x.found \in Offers!Knowledge /\ x.since \in Nat
          /\ Offers!CallKnows(x)
      BY <1>0a, <3>1
    <3>3. x.since <= now' /\ now' <= x.since + ListDelay /\ (x.at = "answer" => now' = now)
      BY <1>0, <1>10, <3>1, <3>2 DEF Offers!Tick, Offers!Sell, Offers!CallKnows, Offers!At
    <3>4. ASSUME x.at = Offers!Spot, NEW p \in Offers!Pair, p[2] = Offers!OnDemand
                   PROVE Offers!SoAt(x.found, p, x.since, 0)'
      <4>1. Offers!SoAt(x.found, p, x.since, 0) /\ x.found.status[p] \in Offers!Status
        BY <3>2, <3>4 DEF Offers!CallKnows, Offers!Knowledge
      <4>2. /\ last[p][x.found.status[p]] <= last'[p][x.found.status[p]]
            /\ last[p][x.found.status[p]] \in Nat /\ last'[p][x.found.status[p]] \in Nat
        BY <1>0, <2>1, <2>2, <4>1
      <4> QED
        BY <3>1, <3>2, <4>1, <4>2 DEF Offers!SoAt, Offers!Unknown
    <3>5. x.at = "types" => Offers!KnownAt(x.found, x.since, OfferingsTTL + ListDelay)'
      <4> SUFFICES ASSUME x.at = "types"
                            PROVE Offers!KnownAt(x.found, x.since, OfferingsTTL + ListDelay)'
        BY <3>1
      <4>1. Offers!KnownAt(x.found, x.since, OfferingsTTL + ListDelay)
        BY <3>2 DEF Offers!CallKnows
      <4> QED
        BY <1>0, <3>1, <3>2, <4>1, <2>3 DEF Offers!KnownAt, Offers!SoAt, Offers!Unknown
    <3>6. x.at = "answer" => Offers!KnownAt(x.found, now, Offers!Bound)'
      <4> SUFFICES ASSUME x.at = "answer" PROVE Offers!KnownAt(x.found, now, Offers!Bound)'
        OBVIOUS
      <4>1. Offers!KnownAt(x.found, now, Offers!Bound)
        BY <3>2 DEF Offers!CallKnows
      <4>3. now' = now
        BY <3>3
      <4> QED
        BY <1>0, <3>1, <3>2, <4>1, <4>3, <2>3 DEF Offers!KnownAt, Offers!SoAt, Offers!Unknown
    <3> QED
      BY <3>1, <3>2, <3>3, <3>4, <3>5, <3>6 DEF Offers!CallKnows, Offers!GuessesStock
  <2> QED
    BY <2>1, <2>4, <2>5 DEF Offers!IInv
<1>12. CASE UNCHANGED Offers!vars
  BY <1>12 DEF Offers!vars, Offers!IInv, Offers!LastTrue, Offers!InventoryKnown,
       Offers!TypeListKnown, Offers!KnownAt, Offers!SoAt, Offers!CallKnows, Offers!At
<1> QED
  BY <1>1, <1>2, <1>3, <1>4, <1>5, <1>6, <1>7, <1>8, <1>9, <1>10, <1>12 DEF Offers!Next, Offers!List

(* What is offered says when it was so.                                     *)
LEMMA OfferIsSound ==
  ASSUME NEW f \in Offers!Knowledge, Offers!GuessesStock(f), Offers!KnownAt(f, now, Offers!Bound),
         NEW pool \in Pools, NEW o \in Offers!Offered(f, pool)
  PROVE  IF o.available THEN f.guessed \/ Offers!RecentlyHad(o.pair, "stocked")
                        ELSE Offers!RecentlyHad(o.pair, "out")
<1>1. PICK p \in Offers!Pair : o = [pair |-> p, available |-> f.status[p] = "stocked"]
                              /\ f.status[p] # "unlisted"
  BY DEF Offers!Offered
<1>2. f.status[p] \in Offers!Status
  BY DEF Offers!Knowledge
<1>3. Offers!Unknown(f, p) \/ Offers!RecentlyHad(p, f.status[p])
  BY DEF Offers!KnownAt, Offers!SoAt, Offers!RecentlyHad
<1>4. o.pair = p /\ (o.available <=> f.status[p] = "stocked")
  BY <1>1
<1>5. CASE f.status[p] = "stocked"
  BY <1>3, <1>4, <1>5 DEF Offers!Unknown
<1>6. CASE f.status[p] = "out"
  BY <1>3, <1>4, <1>6 DEF Offers!Unknown, Offers!GuessesStock
<1> QED
  BY <1>1, <1>2, <1>5, <1>6 DEF Offers!Status

(* When both polls were answered, a pair without an offering was not listed, *)
(* or the type is not returned, since the pool does not admit the zone or   *)
(* the pair had no stock; NodePools ask for zones by In or Exists.           *)
LEMMA OffersAreComplete ==
  ASSUME Offers!PlainPools, NEW f \in Offers!Knowledge, Offers!GuessesStock(f),
         Offers!KnownAt(f, now, Offers!Bound), f.empty = {},
         NEW pool \in Pools, NEW p \in Offers!Pair, p[1] \in Configured,
         \A o \in Offers!Offered(f, pool) : o.pair # p
  PROVE  \/ Offers!RecentlyHad(p, "unlisted")
         \/ /\ ~Offers!IsReturned(f, pool)
            /\ ~Offers!Admits(pool, p[1]) \/ Offers!RecentlyHad(p, "out")
<1>1. f.status[p] \in Offers!Status
  BY DEF Offers!Knowledge
<1>2. f.guessed \/ Offers!RecentlyHad(p, f.status[p])
  BY DEF Offers!KnownAt, Offers!SoAt, Offers!Unknown, Offers!RecentlyHad
<1>3. f.status[p] # "unlisted" => ~Offers!IsReturned(f, pool)
  <2> SUFFICES ASSUME f.status[p] # "unlisted", Offers!IsReturned(f, pool) PROVE FALSE
    OBVIOUS
  <2> DEFINE o == [pair |-> p, available |-> f.status[p] = "stocked"]
  <2>1. o \in Offers!Offered(f, pool)
    BY DEF Offers!Offered
  <2> QED
    BY <2>1
<1>4. CASE f.status[p] = "stocked"
  <2>1. p[1] \in Offers!AvailableZones(f)
    BY <1>4 DEF Offers!AvailableZones
  <2>2. PICK req \in pool : ~Offers!MatchesZone([available |-> Offers!AvailableZones(f)], req)
    BY <1>3, <1>4 DEF Offers!IsReturned
  <2>3. req.operator \in {"In", "Exists"}
    BY DEF Offers!PlainPools
  <2>4. req.operator = "In" /\ p[1] \notin req.values
    BY <2>1, <2>2, <2>3 DEF Offers!MatchesZone
  <2>5. ~Offers!Admits(pool, p[1])
    BY <2>4 DEF Offers!Admits
  <2> QED
    BY <1>3, <1>4, <2>5
<1>5. CASE f.status[p] = "out"
  BY <1>2, <1>3, <1>5 DEF Offers!GuessesStock
<1>6. CASE f.status[p] = "unlisted"
  BY <1>2, <1>6 DEF Offers!GuessesStock
<1> QED
  BY <1>1, <1>4, <1>5, <1>6 DEF Offers!Status

(* Knowledge within its bounds makes the offerings recent, where NodePools   *)
(* ask for zones by In or Exists.                                            *)
LEMMA OffersInvImplies == Offers!TypeOK /\ Offers!PlainPools /\ Offers!IInv
  => Offers!OfferingsAreRecent
<1> SUFFICES ASSUME Offers!TypeOK, Offers!PlainPools, Offers!IInv, NEW c \in Caller,
                    NEW pool \in Pools, Offers!At(c, "answer")
             PROVE  LET f == listing[c].found
                        offered == Offers!Offered(f, pool)
                    IN /\ \A o \in offered :
                            IF o.available THEN f.guessed \/ Offers!RecentlyHad(o.pair, "stocked")
                                           ELSE Offers!RecentlyHad(o.pair, "out")
                       /\ f.empty = {} =>
                            \A p \in Offers!Pair :
                              p[1] \in Configured /\ (\A o \in offered : o.pair # p) =>
                                \/ Offers!RecentlyHad(p, "unlisted")
                                \/ /\ ~Offers!IsReturned(f, pool)
                                   /\ ~Offers!Admits(pool, p[1]) \/ Offers!RecentlyHad(p, "out")
  BY DEF Offers!OfferingsAreRecent
<1> DEFINE f == listing[c].found
<1>1. ~Offers!At(c, "idle")
  BY DEF Offers!At
<1>2. f \in Offers!Knowledge
  BY <1>1, BusyHasCall DEF Offers!Calls
<1>3. Offers!GuessesStock(f) /\ Offers!KnownAt(f, now, Offers!Bound)
  BY <1>1 DEF Offers!IInv, Offers!CallKnows, Offers!At
<1> HIDE DEF f
<1>4. \A o \in Offers!Offered(f, pool) :
        IF o.available THEN f.guessed \/ Offers!RecentlyHad(o.pair, "stocked")
                       ELSE Offers!RecentlyHad(o.pair, "out")
  BY <1>2, <1>3, OfferIsSound
<1>5. ASSUME f.empty = {}, NEW p \in Offers!Pair, p[1] \in Configured,
             \A o \in Offers!Offered(f, pool) : o.pair # p
      PROVE  \/ Offers!RecentlyHad(p, "unlisted")
             \/ /\ ~Offers!IsReturned(f, pool)
                /\ ~Offers!Admits(pool, p[1]) \/ Offers!RecentlyHad(p, "out")
  BY <1>2, <1>3, <1>5, OffersAreComplete
<1> QED
  BY <1>4, <1>5 DEF f

--------------------------------------------------------------------------------
(* Admission. *)

(* A disk by its fields. *)
Fields(c, s, l, e, k, x) == [category |-> c, size |-> s, level |-> l, encrypted |-> e, kms |-> k,
  delete |-> x]

(* A default is there afterwards, and leaves alone what is. *)
LEMMA OrElseIs ==
  ASSUME NEW f, NEW v
  PROVE  Admits!OrElse(f, v) # {} /\ (f # {} => Admits!OrElse(f, v) = f)
BY DEF Admits!OrElse

(* A default adds at most one value. *)
LEMMA OrElseIn ==
  ASSUME NEW f, NEW v
  PROVE  /\ \A S : f \subseteq S /\ v \in S => Admits!OrElse(f, v) \subseteq S
         /\ Admits!AtMostOne(f) => Admits!AtMostOne(Admits!OrElse(f, v))
BY DEF Admits!OrElse, Admits!AtMostOne

(* A disk is what its fields say. *)
LEMMA FieldsAre ==
  ASSUME NEW c, NEW s, NEW l, NEW e, NEW k, NEW x,
         NEW d \in [category : {c}, size : {s}, level : {l}, encrypted : {e}, kms : {k},
           delete : {x}]
  PROVE  d = Fields(c, s, l, e, k, x)
BY DEF Fields

(* The operators on disks, field by field. *)
LEMMA DiskFields ==
  ASSUME NEW d, Admits!IsDisk(d)
  PROVE  /\ d = Fields(d.category, d.size, d.level, d.encrypted, d.kms, d.delete)
         /\ \A n : Admits!WithSize(d, n)
              = Fields(Admits!OrElse(d.category, Admits!Essd), Admits!OrElse(d.size, n), d.level,
                d.encrypted, d.kms, d.delete)
         /\ \A l : [d EXCEPT !.level = l]
              = Fields(d.category, d.size, l, d.encrypted, d.kms, d.delete)
         /\ Admits!DefaultDataDisk(d)
              = Fields(d.category, d.size, d.level, d.encrypted, d.kms,
                Admits!OrElse(d.delete, TRUE))
         /\ Admits!NormalDisk(d) = Fields(d.category, d.size, Admits!LevelOf(d),
              d.encrypted \ {FALSE}, d.kms, d.delete \ {TRUE})
<1>1. d = Fields(d.category, d.size, d.level, d.encrypted, d.kms, d.delete)
  BY DEF Admits!IsDisk, Fields
<1>2. ASSUME NEW n
      PROVE  Admits!WithSize(d, n) = Fields(Admits!OrElse(d.category, Admits!Essd),
               Admits!OrElse(d.size, n), d.level, d.encrypted, d.kms, d.delete)
  <2>1. Admits!WithSize(d, n) \in [category : {Admits!OrElse(d.category, Admits!Essd)},
          size : {Admits!OrElse(d.size, n)}, level : {d.level},
                            encrypted : {d.encrypted}, kms : {d.kms}, delete : {d.delete}]
    BY DEF Admits!WithSize, Admits!IsDisk
  <2> QED
    BY <2>1, FieldsAre
<1>3. ASSUME NEW l
      PROVE  [d EXCEPT !.level = l] = Fields(d.category, d.size, l, d.encrypted, d.kms, d.delete)
  <2>1. [d EXCEPT !.level = l] \in [category : {d.category}, size : {d.size}, level : {l},
                                    encrypted : {d.encrypted}, kms : {d.kms}, delete : {d.delete}]
    BY DEF Admits!IsDisk
  <2> QED
    BY <2>1, FieldsAre
<1>4. Admits!DefaultDataDisk(d) = Fields(d.category, d.size, d.level, d.encrypted, d.kms,
        Admits!OrElse(d.delete, TRUE))
  <2>1. Admits!DefaultDataDisk(d) \in [category : {d.category}, size : {d.size}, level : {d.level},
                                encrypted : {d.encrypted}, kms : {d.kms},
                                delete : {Admits!OrElse(d.delete, TRUE)}]
    BY DEF Admits!DefaultDataDisk, Admits!IsDisk
  <2> QED
    BY <2>1, FieldsAre
<1>5. Admits!NormalDisk(d) = Fields(d.category, d.size, Admits!LevelOf(d), d.encrypted \ {FALSE},
        d.kms, d.delete \ {TRUE})
  <2>1. Admits!NormalDisk(d) \in [category : {d.category}, size : {d.size},
          level : {Admits!LevelOf(d)},
                           encrypted : {d.encrypted \ {FALSE}}, kms : {d.kms},
                           delete : {d.delete \ {TRUE}}]
    BY DEF Admits!NormalDisk, Admits!IsDisk
  <2> QED
    BY <2>1, FieldsAre
<1> QED
  BY <1>1, <1>2, <1>3, <1>4, <1>5

(* A disk that gets its category and size is a disk that has both; it does   *)
(* not get them twice.                                                       *)
LEMMA DiskSized ==
  ASSUME NEW d, Admits!IsDisk(d), NEW n \in Nat
  PROVE  /\ Admits!IsDisk(Admits!WithSize(d, n))
         /\ Admits!WithSize(d, n).category # {} /\ Admits!WithSize(d, n).size # {}
         /\ d.category # {} /\ d.size # {} => Admits!WithSize(d, n) = d
<1>1. /\ Admits!OrElse(d.size, n) \in SUBSET Nat
      /\ Admits!AtMostOne(Admits!OrElse(d.category, Admits!Essd))
         /\ Admits!AtMostOne(Admits!OrElse(d.size, n))
  BY OrElseIn DEF Admits!IsDisk
<1>2. Admits!WithSize(d, n) = Fields(Admits!OrElse(d.category, Admits!Essd),
        Admits!OrElse(d.size, n), d.level, d.encrypted, d.kms, d.delete)
  BY DiskFields
<1>3. Admits!IsDisk(Admits!WithSize(d, n))
  BY <1>1, <1>2 DEF Admits!IsDisk, Fields
<1>4. ASSUME d.category # {}, d.size # {} PROVE Admits!WithSize(d, n) = d
  BY <1>2, <1>4, OrElseIs, DiskFields
<1>5. Admits!WithSize(d, n).category # {} /\ Admits!WithSize(d, n).size # {}
  BY <1>2, OrElseIs DEF Fields
<1> QED
  BY <1>3, <1>4, <1>5

(* Defaults of the schema for a data disk are there once and for all, and do *)
(* not change its launch.                                                    *)
LEMMA DataDiskDefaulted ==
  ASSUME NEW d, Admits!IsDisk(d)
  PROVE  /\ Admits!IsDisk(Admits!DefaultDataDisk(d))
         /\ Admits!DefaultDataDisk(Admits!DefaultDataDisk(d)) = Admits!DefaultDataDisk(d)
         /\ Admits!NormalDisk(Admits!DefaultDataDisk(d)) = Admits!NormalDisk(d)
         /\ Admits!DiskNormalizes(Admits!DefaultDataDisk(d)) <=> Admits!DiskNormalizes(d)
<1> DEFINE e == Admits!DefaultDataDisk(d)
<1>1. e = Fields(d.category, d.size, d.level, d.encrypted, d.kms, Admits!OrElse(d.delete, TRUE))
  BY DiskFields
<1>2. Admits!OrElse(d.delete, TRUE) \in SUBSET BOOLEAN
  BY OrElseIn DEF Admits!IsDisk
<1> HIDE DEF e
<1>3. Admits!IsDisk(e)
  BY <1>1, <1>2 DEF Admits!IsDisk, Fields
<1>0. /\ e.category = d.category /\ e.size = d.size /\ e.level = d.level
         /\ e.encrypted = d.encrypted
      /\ e.kms = d.kms /\ e.delete = Admits!OrElse(d.delete, TRUE)
  BY <1>1 DEF Fields
<1>4. Admits!DefaultDataDisk(e) = e
  <2>1. Admits!DefaultDataDisk(e) = Fields(e.category, e.size, e.level, e.encrypted, e.kms,
          Admits!OrElse(e.delete, TRUE))
    BY <1>3, DiskFields
  <2>2. Admits!OrElse(e.delete, TRUE) = e.delete
    BY <1>0, OrElseIs
  <2> QED
    BY <1>3, <2>1, <2>2, DiskFields
<1>5. e.delete \ {TRUE} = d.delete \ {TRUE}
  BY <1>0 DEF Admits!OrElse
<1>6. Admits!LevelOf(e) = Admits!LevelOf(d)
  BY <1>0 DEF Admits!LevelOf
<1>7. Admits!NormalDisk(e) = Admits!NormalDisk(d)
  <2>1. Admits!NormalDisk(e) = Fields(e.category, e.size, Admits!LevelOf(e), e.encrypted \ {FALSE},
          e.kms, e.delete \ {TRUE})
    BY <1>3, DiskFields
  <2> QED
    BY <1>0, <1>5, <1>6, <2>1, DiskFields
<1>8. Admits!DiskNormalizes(e) <=> Admits!DiskNormalizes(d)
  BY <1>0 DEF Admits!DiskNormalizes
<1> QED
  BY <1>3, <1>4, <1>7, <1>8 DEF e

(* The metadata options that have been defaulted, by the schema and again by *)
(* the webhook.                                                             *)
WebhookMetadata(m) == [m EXCEPT !.tokens = Admits!OrElse(@, "optional"), !.hops
  = Admits!OrElse(@, 1)]

(* Defaults of the schema for metadata options are there once and for all. *)
LEMMA MetadataDefaulted ==
  ASSUME NEW m, Admits!IsMetadata(m)
  PROVE  /\ Admits!IsMetadata(Admits!DefaultMetadata(m))
         /\ Admits!DefaultMetadata(Admits!DefaultMetadata(m)) = Admits!DefaultMetadata(m)
         /\ WebhookMetadata(Admits!DefaultMetadata(m)) = Admits!DefaultMetadata(m)
<1> DEFINE t == Admits!OrElse(m.tokens, "optional")
           h == Admits!OrElse(m.hops, 1)
           e == Admits!OrElse(m.endpoint, "enabled")
<1>1. h \in SUBSET Nat
  BY OrElseIn DEF Admits!IsMetadata
<1>2. t # {} /\ h # {} /\ e # {}
  BY OrElseIs
<1>3. Admits!DefaultMetadata(m) = [tokens |-> t, hops |-> h, endpoint |-> e]
  BY DEF Admits!DefaultMetadata
<1> HIDE DEF t, h, e
<1>4. Admits!OrElse(t, "optional") = t /\ Admits!OrElse(h, 1) = h /\ Admits!OrElse(e, "enabled") = e
  BY <1>2, OrElseIs
<1>5. Admits!IsMetadata([tokens |-> t, hops |-> h, endpoint |-> e])
  BY <1>1 DEF Admits!IsMetadata
<1>6. Admits!DefaultMetadata([tokens |-> t, hops |-> h, endpoint |-> e])
        = [tokens |-> t, hops |-> h, endpoint |-> e]
  BY <1>4 DEF Admits!DefaultMetadata
<1>7. WebhookMetadata([tokens |-> t, hops |-> h, endpoint |-> e])
        = [tokens |-> t, hops |-> h, endpoint |-> e]
  <2>1. WebhookMetadata([tokens |-> t, hops |-> h, endpoint |-> e]) \in [tokens : {t}, hops : {h},
          endpoint : {e}]
    BY <1>4 DEF WebhookMetadata
  <2>2. ASSUME NEW r \in [tokens : {t}, hops : {h}, endpoint : {e}]
        PROVE  r = [tokens |-> t, hops |-> h, endpoint |-> e]
    OBVIOUS
  <2> QED
    BY <2>1, <2>2
<1> QED
  BY <1>3, <1>5, <1>6, <1>7

(* Specs with equal fields are equal. *)
LEMMA SameSpec ==
  ASSUME NEW r, NEW s, r = [f \in DOMAIN r |-> r[f]], s = [f \in DOMAIN s |-> s[f]],
         DOMAIN r = DOMAIN s, \A f \in DOMAIN s : r[f] = s[f]
  PROVE  r = s
BY Zenon

(* The defaults of the schema, field by field. *)
LEMMA SchemaFields ==
  ASSUME NEW s, Admits!IsSpec(s)
  PROVE  LET r == Admits!SchemaDefault(s)
         IN /\ r = [f \in DOMAIN r |-> r[f]] /\ DOMAIN r = DOMAIN s
            /\ r.systemDisk = {Admits!WithSize(d, 40) : d \in s.systemDisk}
            /\ r.dataDisks = [i \in DOMAIN s.dataDisks |-> Admits!DefaultDataDisk(s.dataDisks[i])]
            /\ r.metadata = {Admits!DefaultMetadata(m) : m \in s.metadata}
            /\ \A f \in DOMAIN s \ {"systemDisk", "dataDisks", "metadata"} : r[f] = s[f]
<1> DEFINE x == {Admits!WithSize(d, 40) : d \in s.systemDisk}
           y == [i \in DOMAIN s.dataDisks |-> Admits!DefaultDataDisk(s.dataDisks[i])]
           z == {Admits!DefaultMetadata(m) : m \in s.metadata}
<1>1. Admits!SchemaDefault(s) = [s EXCEPT !.systemDisk = x, !.dataDisks = y, !.metadata = z]
  BY DEF Admits!SchemaDefault, Admits!SchemaDefaults
<1> HIDE DEF x, y, z
<1>2. LET r == [s EXCEPT !.systemDisk = x, !.dataDisks = y, !.metadata = z]
      IN /\ r = [f \in DOMAIN r |-> r[f]] /\ DOMAIN r = DOMAIN s
         /\ r.systemDisk = x /\ r.dataDisks = y /\ r.metadata = z
         /\ \A f \in DOMAIN s \ {"systemDisk", "dataDisks", "metadata"} : r[f] = s[f]
  BY DEF Admits!IsSpec
<1> QED
  BY <1>1, <1>2 DEF x, y, z

(* The defaults of the webhook, field by field. *)
LEMMA WebhookFields ==
  ASSUME NEW s, Admits!IsSpec(s), NEW disk
  PROVE  LET r == Admits!WebhookDefaults(s, disk)
         IN /\ r = [f \in DOMAIN r |-> r[f]] /\ DOMAIN r = DOMAIN s
            /\ r.systemDisk = {disk}
            /\ r.metadata = {WebhookMetadata(m) : m \in s.metadata}
            /\ r.preference = Admits!OrElse(s.preference, "open")
            /\ \A f \in DOMAIN s \ {"systemDisk", "metadata", "preference"} : r[f] = s[f]
BY DEF Admits!WebhookDefaults, WebhookMetadata, Admits!IsSpec

(* The system disk that a launch makes of a spec. *)
LEMMA SystemDiskIs ==
  ASSUME NEW s, Admits!IsSpec(s)
  PROVE  /\ s.systemDisk = {} => Admits!SystemDisk(s) = Admits!WithSize(Admits!BareDisk, 40)
         /\ \A d \in s.systemDisk : Admits!SystemDisk(s) = Admits!WithSize(d, 40)
         /\ Admits!IsDisk(Admits!SystemDisk(s)) /\ Admits!SystemDisk(s).category # {}
            /\ Admits!SystemDisk(s).size # {}
<1>1. Admits!IsDisk(Admits!BareDisk)
  BY DEF Admits!BareDisk, Admits!IsDisk, Admits!AtMostOne
<1>2. s.systemDisk = {} => Admits!SystemDisk(s) = Admits!WithSize(Admits!BareDisk, 40)
  BY DEF Admits!SystemDisk
<1>3. ASSUME NEW d \in s.systemDisk PROVE Admits!SystemDisk(s) = Admits!WithSize(d, 40)
  <2>1. (CHOOSE e \in s.systemDisk : TRUE) = d
    BY DEF Admits!IsSpec, Admits!AtMostOne
  <2> QED
    BY <2>1 DEF Admits!SystemDisk
<1>4. PICK d : Admits!IsDisk(d) /\ Admits!SystemDisk(s) = Admits!WithSize(d, 40)
  BY <1>1, <1>2, <1>3 DEF Admits!IsSpec
<1>5. Admits!IsDisk(Admits!SystemDisk(s)) /\ Admits!SystemDisk(s).category # {}
      /\ Admits!SystemDisk(s).size # {}
  BY <1>4, DiskSized
<1> QED
  BY <1>2, <1>3, <1>5

(* The defaults of the schema are of its own kind, change no disk of a       *)
(* launch, and are there once and for all.                                  *)
LEMMA SchemaDefaulted ==
  ASSUME NEW s, Admits!IsSpec(s)
  PROVE  /\ Admits!IsSpec(Admits!SchemaDefault(s))
         /\ Admits!SchemaDefault(Admits!SchemaDefault(s)) = Admits!SchemaDefault(s)
         /\ Admits!NormalizeDisks(Admits!SchemaDefault(s)) = Admits!NormalizeDisks(s)
<1> DEFINE r == Admits!SchemaDefault(s)
           rr == Admits!SchemaDefault(r)
<1>0. /\ r = [f \in DOMAIN r |-> r[f]] /\ DOMAIN r = DOMAIN s
      /\ r.systemDisk = {Admits!WithSize(d, 40) : d \in s.systemDisk}
      /\ r.dataDisks = [i \in DOMAIN s.dataDisks |-> Admits!DefaultDataDisk(s.dataDisks[i])]
      /\ r.metadata = {Admits!DefaultMetadata(m) : m \in s.metadata}
      /\ \A f \in DOMAIN s \ {"systemDisk", "dataDisks", "metadata"} : r[f] = s[f]
  BY SchemaFields
<1>00. /\ {"systemDisk", "dataDisks", "storePolicy", "metadata", "preference",
            "template"} \subseteq DOMAIN s
       /\ Admits!AtMostOne(s.systemDisk) /\ \A d \in s.systemDisk : Admits!IsDisk(d)
       /\ \A i \in DOMAIN s.dataDisks : Admits!IsDisk(s.dataDisks[i])
       /\ \A m \in s.metadata : Admits!IsMetadata(m)
  BY DEF Admits!IsSpec
<1> HIDE DEF r
<1>1. Admits!IsSpec(r)
  <2>1. Admits!AtMostOne(r.systemDisk)
    BY <1>0, <1>00 DEF Admits!AtMostOne
  <2>2. \A d \in r.systemDisk : Admits!IsDisk(d)
    BY <1>0, <1>00, DiskSized
  <2>3. DOMAIN r.dataDisks = DOMAIN s.dataDisks
        /\ \A i \in DOMAIN r.dataDisks : Admits!IsDisk(r.dataDisks[i])
    BY <1>0, <1>00, DataDiskDefaulted
  <2>4. \A m \in r.metadata : Admits!IsMetadata(m)
    BY <1>0, <1>00, MetadataDefaulted
  <2>5. r.dataDisks = [i \in DOMAIN r.dataDisks |-> r.dataDisks[i]]
    BY <1>0
  <2> QED
    BY <1>0, <1>00, <2>1, <2>2, <2>3, <2>4, <2>5 DEF Admits!IsSpec
<1>2. rr = r
  <2>0. /\ rr = [f \in DOMAIN rr |-> rr[f]] /\ DOMAIN rr = DOMAIN r
        /\ rr.systemDisk = {Admits!WithSize(d, 40) : d \in r.systemDisk}
        /\ rr.dataDisks = [i \in DOMAIN r.dataDisks |-> Admits!DefaultDataDisk(r.dataDisks[i])]
        /\ rr.metadata = {Admits!DefaultMetadata(m) : m \in r.metadata}
        /\ \A f \in DOMAIN r \ {"systemDisk", "dataDisks", "metadata"} : rr[f] = r[f]
    BY <1>1, SchemaFields
  <2> HIDE DEF rr
  <2>1. \A d \in r.systemDisk : Admits!WithSize(d, 40) = d
    BY <1>0, <1>00, DiskSized
  <2>2. \A m \in r.metadata : Admits!DefaultMetadata(m) = m
    BY <1>0, <1>00, MetadataDefaulted
  <2>3. rr.systemDisk = r.systemDisk /\ rr.metadata = r.metadata
    BY <2>0, <2>1, <2>2
  <2>4. rr.dataDisks = r.dataDisks
    <3>1. \A i \in DOMAIN r.dataDisks : Admits!DefaultDataDisk(r.dataDisks[i]) = r.dataDisks[i]
      BY <1>0, <1>00, DataDiskDefaulted
    <3>2. r.dataDisks = [i \in DOMAIN r.dataDisks |-> r.dataDisks[i]]
      BY <1>0
    <3> QED
      BY <2>0, <3>1, <3>2
  <2>5. \A f \in DOMAIN r : rr[f] = r[f]
    BY <2>0, <2>3, <2>4
  <2> QED
    BY <1>0, <2>0, <2>5, SameSpec
<1>3. Admits!NormalizeDisks(r) = Admits!NormalizeDisks(s)
  <2>1. Admits!SystemDisk(r) = Admits!SystemDisk(s)
    <3>1. CASE s.systemDisk = {}
      BY <1>0, <1>1, <3>1, SystemDiskIs
    <3>2. ASSUME NEW d \in s.systemDisk PROVE Admits!SystemDisk(r) = Admits!SystemDisk(s)
      <4>1. Admits!SystemDisk(r) = Admits!WithSize(Admits!WithSize(d, 40), 40)
            /\ Admits!SystemDisk(s) = Admits!WithSize(d, 40)
        BY <1>0, <1>1, SystemDiskIs
      <4> QED
        BY <1>00, <4>1, DiskSized
    <3> QED
      BY <3>1, <3>2
  <2>2. [i \in DOMAIN r.dataDisks |-> Admits!NormalDisk(r.dataDisks[i])]
          = [i \in DOMAIN s.dataDisks |-> Admits!NormalDisk(s.dataDisks[i])]
    BY <1>0, <1>00, DataDiskDefaulted
  <2>3. r.storePolicy = s.storePolicy
    BY <1>0, <1>00
  <2> QED
    BY <2>1, <2>2, <2>3 DEF Admits!NormalizeDisks
<1> QED
  BY <1>1, <1>2, <1>3 DEF r

(* A disk with its performance level. *)
WithLevel(d) == [d EXCEPT !.level = Admits!LevelOf(d)]

(* Performance levels are there once and for all, and do not change the      *)
(* launch of a disk.                                                         *)
LEMMA DiskLevelled ==
  ASSUME NEW d, Admits!IsDisk(d)
  PROVE  /\ Admits!IsDisk(WithLevel(d))
         /\ WithLevel(d).category = d.category /\ WithLevel(d).size = d.size
         /\ WithLevel(WithLevel(d)) = WithLevel(d)
         /\ Admits!NormalDisk(WithLevel(d)) = Admits!NormalDisk(d)
         /\ Admits!DiskNormalizes(d) => Admits!DiskNormalizes(WithLevel(d))
<1> DEFINE e == WithLevel(d)
<1>1. e = Fields(d.category, d.size, Admits!LevelOf(d), d.encrypted, d.kms, d.delete)
  BY DiskFields DEF WithLevel
<1> HIDE DEF e
<1>2. Admits!IsDisk(e)
  BY <1>1 DEF Admits!IsDisk, Fields
<1>3. /\ e.category = d.category /\ e.size = d.size /\ e.level = Admits!LevelOf(d)
         /\ e.encrypted = d.encrypted
      /\ e.kms = d.kms /\ e.delete = d.delete
  BY <1>1 DEF Fields
<1>4. Admits!LevelOf(e) = Admits!LevelOf(d)
  BY <1>3, OrElseIs DEF Admits!LevelOf
<1>5. WithLevel(e) = Fields(e.category, e.size, Admits!LevelOf(e), e.encrypted, e.kms, e.delete)
  BY <1>2, DiskFields DEF WithLevel
<1>6. WithLevel(e) = e
  BY <1>1, <1>3, <1>4, <1>5
<1>7. Admits!NormalDisk(e) = Admits!NormalDisk(d)
  <2>1. Admits!NormalDisk(e) = Fields(e.category, e.size, Admits!LevelOf(e), e.encrypted \ {FALSE},
          e.kms, e.delete \ {TRUE})
    BY <1>2, DiskFields
  <2> QED
    BY <1>3, <1>4, <2>1, DiskFields
<1>8. ASSUME Admits!DiskNormalizes(d) PROVE Admits!DiskNormalizes(e)
  <2>1. Admits!LevelOf(d) # {} => d.category = {Admits!Essd}
        /\ Admits!LevelOf(d) \subseteq Admits!Levels
    BY <1>8 DEF Admits!DiskNormalizes, Admits!LevelOf, Admits!OrElse, Admits!Levels
  <2> QED
    BY <1>3, <1>8, <2>1 DEF Admits!DiskNormalizes
<1> QED
  BY <1>2, <1>3, <1>6, <1>7, <1>8 DEF e

(* So are those of the webhook, on top of those of the schema. *)
LEMMA WebhookDefaulted ==
  ASSUME NEW s, Admits!IsSpec(s), Admits!SchemaDefault(s) = s
  PROVE  /\ Admits!IsSpec(Admits!Default(s))
         /\ Admits!SchemaDefault(Admits!Default(s)) = Admits!Default(s)
         /\ Admits!Default(Admits!Default(s)) = Admits!Default(s)
         /\ Admits!NormalizeDisks(Admits!Default(s)) = Admits!NormalizeDisks(s)
         /\ Admits!Normalizes(s) => Admits!Normalizes(Admits!Default(s))
<1> DEFINE disk == WithLevel(Admits!SystemDisk(s))
           r == Admits!Default(s)
<1>0. /\ r = [f \in DOMAIN r |-> r[f]] /\ DOMAIN r = DOMAIN s
      /\ r.systemDisk = {disk}
      /\ r.metadata = {WebhookMetadata(m) : m \in s.metadata}
      /\ r.preference = Admits!OrElse(s.preference, "open")
      /\ \A f \in DOMAIN s \ {"systemDisk", "metadata", "preference"} : r[f] = s[f]
  <2>1. r = Admits!WebhookDefaults(s, disk)
    BY DEF Admits!Default, WithLevel
  <2> QED
    BY <2>1, WebhookFields
<1>00. /\ s = [f \in DOMAIN s |-> s[f]]
       /\ {"systemDisk", "dataDisks", "storePolicy", "metadata", "preference",
            "template"} \subseteq DOMAIN s
       /\ Admits!AtMostOne(s.systemDisk) /\ \A d \in s.systemDisk : Admits!IsDisk(d)
       /\ s.dataDisks = [i \in DOMAIN s.dataDisks |-> s.dataDisks[i]]
       /\ \A i \in DOMAIN s.dataDisks : Admits!IsDisk(s.dataDisks[i])
       /\ \A m \in s.metadata : Admits!IsMetadata(m)
  BY DEF Admits!IsSpec
<1>0a. /\ s.dataDisks = [i \in DOMAIN s.dataDisks |-> Admits!DefaultDataDisk(s.dataDisks[i])]
       /\ s.metadata = {Admits!DefaultMetadata(m) : m \in s.metadata}
  BY SchemaFields
<1>1. Admits!IsDisk(disk) /\ disk.category # {} /\ disk.size # {} /\ WithLevel(disk) = disk
  BY SystemDiskIs, DiskLevelled
<1>2. \A m \in s.metadata : WebhookMetadata(m) = m /\ Admits!DefaultMetadata(m) = m
  BY <1>00, <1>0a, MetadataDefaulted
<1>3. r.metadata = s.metadata /\ r.dataDisks = s.dataDisks /\ r.storePolicy = s.storePolicy
  BY <1>0, <1>00, <1>2
<1> HIDE DEF r
<1>4. Admits!IsSpec(r)
  BY <1>0, <1>00, <1>1, <1>3 DEF Admits!IsSpec, Admits!AtMostOne
<1>5. Admits!SystemDisk(r) = disk
  BY <1>0, <1>1, <1>4, SystemDiskIs, DiskSized
<1> HIDE DEF disk
<1>6. Admits!SchemaDefault(r) = r
  <2> DEFINE q == Admits!SchemaDefault(r)
  <2>0. /\ q = [f \in DOMAIN q |-> q[f]] /\ DOMAIN q = DOMAIN r
        /\ q.systemDisk = {Admits!WithSize(d, 40) : d \in r.systemDisk}
        /\ q.dataDisks = [i \in DOMAIN r.dataDisks |-> Admits!DefaultDataDisk(r.dataDisks[i])]
        /\ q.metadata = {Admits!DefaultMetadata(m) : m \in r.metadata}
        /\ \A f \in DOMAIN r \ {"systemDisk", "dataDisks", "metadata"} : q[f] = r[f]
    BY <1>4, SchemaFields
  <2> HIDE DEF q
  <2>1. Admits!WithSize(disk, 40) = disk
    BY <1>1, DiskSized
  <2>2. q.systemDisk = r.systemDisk
    BY <1>0, <2>0, <2>1
  <2>3. q.dataDisks = r.dataDisks
    BY <1>0a, <1>3, <2>0
  <2>4. q.metadata = r.metadata
    BY <1>2, <1>3, <2>0
  <2>5. \A f \in DOMAIN r : q[f] = r[f]
    BY <2>0, <2>2, <2>3, <2>4
  <2>6. q = r
    BY <1>0, <2>0, <2>5, SameSpec
  <2> QED
    BY <2>6 DEF q
<1>7. Admits!Default(r) = r
  <2> DEFINE q == Admits!Default(r)
  <2>0. /\ q = [f \in DOMAIN q |-> q[f]] /\ DOMAIN q = DOMAIN r
        /\ q.systemDisk = {WithLevel(Admits!SystemDisk(r))}
        /\ q.metadata = {WebhookMetadata(m) : m \in r.metadata}
        /\ q.preference = Admits!OrElse(r.preference, "open")
        /\ \A f \in DOMAIN r \ {"systemDisk", "metadata", "preference"} : q[f] = r[f]
    <3>1. q = Admits!WebhookDefaults(r, WithLevel(Admits!SystemDisk(r)))
      BY DEF Admits!Default, WithLevel
    <3> QED
      BY <1>4, <3>1, WebhookFields
  <2> HIDE DEF q
  <2>1. q.systemDisk = r.systemDisk
    BY <1>0, <1>1, <1>5, <2>0
  <2>2. q.metadata = r.metadata
    BY <1>2, <1>3, <2>0
  <2>3. q.preference = r.preference
    BY <1>0, <2>0, OrElseIs
  <2>4. \A f \in DOMAIN r : q[f] = r[f]
    BY <2>0, <2>1, <2>2, <2>3
  <2>5. q = r
    BY <1>0, <2>0, <2>4, SameSpec
  <2> QED
    BY <2>5 DEF q
<1>8. Admits!NormalizeDisks(r) = Admits!NormalizeDisks(s)
  <2>1. Admits!NormalDisk(Admits!SystemDisk(r)) = Admits!NormalDisk(Admits!SystemDisk(s))
    BY <1>5, SystemDiskIs, DiskLevelled DEF disk
  <2> QED
    BY <1>3, <2>1 DEF Admits!NormalizeDisks
<1>9. ASSUME Admits!Normalizes(s) PROVE Admits!Normalizes(r)
  <2>1. Admits!DiskNormalizes(Admits!SystemDisk(r))
    BY <1>5, <1>9, SystemDiskIs, DiskLevelled DEF disk, Admits!Normalizes
  <2> QED
    BY <1>3, <1>9, <2>1 DEF Admits!Normalizes
<1> QED
  BY <1>4, <1>6, <1>7, <1>8, <1>9 DEF r

(* What is stored normalizes, but for what no rule of the schema looks at.  *)
LEMMA RulesNormalize ==
  ASSUME NEW s, Admits!IsSpec(s), Admits!SchemaDefault(s) = s, Admits!SchemaValid(s),
         s.storePolicy \subseteq {"RAID0"},
         \A d \in s.systemDisk \cup {s.dataDisks[i] : i \in DOMAIN s.dataDisks} : d.kms # {}
           => TRUE \in d.encrypted
  PROVE  Admits!Normalizes(s)
<1>0. Admits!RuleSizes = Admits!DiskSizes
  BY DEF Admits!RuleSizes, Admits!DiskSizes
<1>1. ASSUME NEW d, d.category # {}, d.size # {}, d.kms # {} => TRUE \in d.encrypted,
             \A c \in d.category : c \in DOMAIN Admits!RuleSizes
             /\ d.size \subseteq Admits!RuleSizes[c],
             d.level # {} => d.category = {Admits!Essd} /\ d.level \subseteq Admits!Levels
      PROVE  Admits!DiskNormalizes(d)
  BY <1>0, <1>1 DEF Admits!DiskNormalizes, Admits!SizeFits
<1>2. Admits!DiskNormalizes(Admits!SystemDisk(s))
  <2>1. CASE s.systemDisk = {}
    <3> DEFINE d == Admits!WithSize(Admits!BareDisk, 40)
    <3>1. Admits!IsDisk(Admits!BareDisk)
      BY DEF Admits!BareDisk, Admits!IsDisk, Admits!AtMostOne
    <3>2. d = Fields(Admits!OrElse({}, Admits!Essd), Admits!OrElse({}, 40), {}, {}, {}, {})
      <4>1. d = Fields(Admits!OrElse(Admits!BareDisk.category, Admits!Essd),
              Admits!OrElse(Admits!BareDisk.size, 40), Admits!BareDisk.level,
                       Admits!BareDisk.encrypted, Admits!BareDisk.kms, Admits!BareDisk.delete)
        BY <3>1, DiskFields
      <4> HIDE DEF d
      <4> QED
        BY <4>1 DEF Admits!BareDisk
    <3>3. Admits!OrElse({}, Admits!Essd) = {Admits!Essd} /\ Admits!OrElse({}, 40) = {40}
      BY DEF Admits!OrElse
    <3>4. Admits!SizeFits(Admits!Essd, 40)
      BY DEF Admits!SizeFits, Admits!DiskSizes, Admits!Categories, Admits!Essd
    <3>5. Admits!SystemDisk(s) = d
      BY <2>1, SystemDiskIs
    <3> HIDE DEF d
    <3>6. d.category = {Admits!Essd} /\ d.size = {40} /\ d.level = {} /\ d.kms = {}
      BY <3>2, <3>3 DEF Fields
    <3> QED
      BY <3>4, <3>5, <3>6 DEF Admits!DiskNormalizes
  <2>2. ASSUME NEW d \in s.systemDisk PROVE Admits!DiskNormalizes(Admits!SystemDisk(s))
    <3>1. Admits!SystemDisk(s) = Admits!WithSize(d, 40) /\ Admits!IsDisk(d)
      BY SystemDiskIs DEF Admits!IsSpec
    <3>2. s.systemDisk = {Admits!WithSize(e, 40) : e \in s.systemDisk}
      BY SchemaFields
    <3>3. Admits!SystemDisk(s) \in s.systemDisk /\ Admits!SystemDisk(s).category # {}
          /\ Admits!SystemDisk(s).size # {}
      BY <3>1, <3>2, SystemDiskIs
    <3>4. Admits!SystemDiskRules(Admits!SystemDisk(s))
      BY <3>3 DEF Admits!SchemaValid
    <3> QED
      BY <1>1, <3>3, <3>4 DEF Admits!SystemDiskRules
  <2> QED
    BY <2>1, <2>2
<1>3. ASSUME NEW i \in DOMAIN s.dataDisks PROVE Admits!DiskNormalizes(s.dataDisks[i])
  <2>1. Admits!DataDiskRules(s.dataDisks[i])
    BY DEF Admits!SchemaValid
  <2> QED
    BY <1>1, <2>1 DEF Admits!DataDiskRules
<1> QED
  BY <1>2, <1>3 DEF Admits!Normalizes

(* A submission that goes on keeps what was sent. *)
LEMMA GoesTo ==
  ASSUME Admits!TypeOK, submission.at # "idle", NEW at, NEW req, Admits!Goes(at, req)
  PROVE  submission' = [at |-> at, sent |-> submission.sent, request |-> req]
<1>1. submission = [at |-> submission.at, sent |-> submission.sent, request |-> submission.request]
  BY DEF Admits!TypeOK
<1>2. submission' \in [at : {at}, sent : {submission.sent}, request : {req}]
  BY <1>1 DEF Admits!Goes
<1>3. ASSUME NEW r \in [at : {at}, sent : {submission.sent}, request : {req}]
      PROVE  r = [at |-> at, sent |-> submission.sent, request |-> req]
  OBVIOUS
<1> QED
  BY <1>2, <1>3

(* The variables of Admission have their types at the start. *)
LEMMA AdmitsTypeInit == Admits!Init => Admits!TypeOK
BY DEF Admits!Init, Admits!TypeOK, Admits!Idle

(* A step of Admission keeps the types. *)
LEMMA AdmitsTypeNext == Admits!AdmissionAssumption /\ Admits!TypeOK /\ Admits!IInv
/\ [Admits!Next]_(Admits!vars) => Admits!TypeOK'
<1> SUFFICES ASSUME Admits!AdmissionAssumption, Admits!TypeOK, Admits!IInv,
    [Admits!Next]_(Admits!vars) PROVE Admits!TypeOK'
  OBVIOUS
<1>0. /\ webhooks \in BOOLEAN /\ \A s \in stored : Admits!IsSpec(s)
      /\ submission.at # "idle" => Admits!IsSpec(submission.sent)
         /\ Admits!IsSpec(submission.request)
  BY DEF Admits!TypeOK
<1>1. ASSUME NEW at \in {"mutated", "valid", "admitted", "rejected"}, NEW r, Admits!IsSpec(r),
             Admits!Goes(at, r),
             submission.at # "idle", webhooks' = webhooks, stored' = stored
             \/ stored' = {submission.request}
      PROVE  Admits!TypeOK'
  <2>1. submission' = [at |-> at, sent |-> submission.sent, request |-> r]
    BY <1>1, GoesTo
  <2>2. \A s \in stored' : Admits!IsSpec(s)
    BY <1>0, <1>1
  <2>3. Admits!IsSpec(submission'.sent) /\ Admits!IsSpec(submission'.request) /\ submission'.at = at
    BY <1>0, <1>1, <2>1
  <2>4. submission' = [at |-> submission'.at, sent |-> submission'.sent,
          request |-> submission'.request]
    BY <2>1
  <2> QED
    BY <1>0, <1>1, <2>2, <2>3, <2>4 DEF Admits!TypeOK
<1>2. ASSUME NEW s \in Specs \cup stored, Admits!Submit(s) PROVE Admits!TypeOK'
  <2>1. Admits!IsSpec(s) /\ Admits!IsSpec(Admits!SchemaDefault(s))
    BY <1>0, SchemaDefaulted DEF Admits!AdmissionAssumption
  <2>2. submission' = [at |-> "defaulted", sent |-> s, request |-> Admits!SchemaDefault(s)]
        /\ stored' = stored /\ webhooks' = webhooks
    BY <1>2 DEF Admits!Submit
  <2>3. submission' = [at |-> submission'.at, sent |-> submission'.sent,
          request |-> submission'.request]
    BY <2>2
  <2>4. submission'.at = "defaulted" /\ Admits!IsSpec(submission'.sent)
        /\ Admits!IsSpec(submission'.request)
    BY <2>1, <2>2
  <2> QED
    BY <1>0, <2>2, <2>3, <2>4 DEF Admits!TypeOK
<1>3. CASE Admits!MutatingWebhook
  <2>0. submission.at = "defaulted" /\ stored' = stored /\ webhooks' = webhooks
    BY <1>3 DEF Admits!MutatingWebhook
  <2>1. Admits!IsSpec(submission.request) /\ Admits!IsSpec(Admits!Default(submission.request))
    BY <1>0, <2>0, SchemaDefaulted, WebhookDefaulted DEF Admits!IInv
  <2>2. PICK at \in {"mutated", "rejected"},
        r \in {submission.request, Admits!Default(submission.request)} : Admits!Goes(at, r)
    BY <1>3 DEF Admits!MutatingWebhook
  <2> QED
    BY <1>1, <2>0, <2>1, <2>2
<1>4. CASE Admits!SchemaCheck
  <2>0. submission.at = "mutated" /\ stored' = stored /\ webhooks' = webhooks
    BY <1>4 DEF Admits!SchemaCheck
  <2>1. PICK at \in {"valid", "rejected"} : Admits!Goes(at, submission.request)
    BY <1>4 DEF Admits!SchemaCheck
  <2> QED
    BY <1>0, <1>1, <2>0, <2>1
<1>5. CASE Admits!ValidatingWebhook
  <2>0. submission.at = "valid" /\ (stored' = stored \/ stored' = {submission.request})
        /\ webhooks' = webhooks
    BY <1>5 DEF Admits!ValidatingWebhook
  <2>1. PICK at \in {"admitted", "rejected"} : Admits!Goes(at, submission.request)
    BY <1>5 DEF Admits!ValidatingWebhook
  <2> QED
    BY <1>0, <1>1, <2>0, <2>1
<1>6. CASE Admits!Respond
  BY <1>0, <1>6 DEF Admits!Respond, Admits!TypeOK, Admits!Idle
<1>7. CASE UNCHANGED Admits!vars
  BY <1>7 DEF Admits!vars, Admits!TypeOK
<1> QED
  BY <1>2, <1>3, <1>4, <1>5, <1>6, <1>7 DEF Admits!Next

(* At the start nothing is stored. *)
LEMMA AdmitsInvInit == Admits!Init => Admits!IInv
BY DEF Admits!Init, Admits!IInv, Admits!Idle

(* A step keeps what a submission has been through: what is stored is stable *)
(* under it.                                                                 *)
LEMMA AdmitsInvNext == Admits!TypeOK /\ Admits!IInv /\ [Admits!Next]_(Admits!vars) => Admits!IInv'
<1> SUFFICES ASSUME Admits!TypeOK, Admits!IInv, [Admits!Next]_(Admits!vars) PROVE Admits!IInv'
  OBVIOUS
<1> DEFINE sent == submission.sent
           got == submission.request
<1>0. /\ \A s \in stored : Admits!Stable(s)
      /\ submission.at = "defaulted" => got = Admits!SchemaDefault(sent)
      /\ submission.at \in {"mutated", "valid", "admitted"} =>
           got = Admits!Final(sent) /\ (webhooks => Admits!Normalizes(Admits!SchemaDefault(sent)))
      /\ submission.at \in {"valid", "admitted"} => Admits!SchemaValid(got)
      /\ submission.at = "rejected" => ~Admits!Stable(sent)
  BY DEF Admits!IInv
<1>1. submission.at # "idle" => Admits!IsSpec(sent)
  BY DEF Admits!TypeOK
<1>2. webhooks' = webhooks
  BY DEF Admits!Next, Admits!Submit, Admits!MutatingWebhook, Admits!SchemaCheck,
       Admits!ValidatingWebhook, Admits!Respond, Admits!vars
<1>3. \A s : (Admits!Stable(s)' <=> Admits!Stable(s)) /\ Admits!Final(s)' = Admits!Final(s)
  BY <1>2 DEF Admits!Stable, Admits!Final
<1>4. ASSUME Admits!Stable(sent) PROVE Admits!Final(sent) = sent
  BY <1>4 DEF Admits!Stable, Admits!Final
<1>5. ASSUME NEW s, Admits!Submit(s) PROVE Admits!IInv'
  BY <1>0, <1>3, <1>5 DEF Admits!Submit, Admits!IInv
<1>6. ASSUME NEW at \in {"mutated", "valid", "admitted", "rejected"}, NEW r, Admits!Goes(at, r),
             submission.at # "idle",
             at # "rejected" => r = Admits!Final(sent)
             /\ (webhooks => Admits!Normalizes(Admits!SchemaDefault(sent))),
             at \in {"valid", "admitted"} => Admits!SchemaValid(r),
             at = "rejected" => ~Admits!Stable(sent),
             stored' = stored \/ \A s \in stored' : Admits!Stable(s)
      PROVE  Admits!IInv'
  <2>1. submission' = [at |-> at, sent |-> sent, request |-> r]
    BY <1>6, GoesTo
  <2> HIDE DEF sent
  <2> QED
    BY <1>0, <1>2, <1>3, <1>6, <2>1 DEF Admits!IInv
<1>7. CASE Admits!MutatingWebhook
  <2>0. submission.at = "defaulted" /\ stored' = stored /\ got = Admits!SchemaDefault(sent)
    BY <1>0, <1>7 DEF Admits!MutatingWebhook
  <2>1. CASE ~webhooks
    BY <1>6, <1>7, <2>0, <2>1 DEF Admits!MutatingWebhook, Admits!Final
  <2>2. CASE webhooks /\ Admits!Normalizes(got)
    BY <1>6, <1>7, <2>0, <2>2 DEF Admits!MutatingWebhook, Admits!Final
  <2>3. CASE webhooks /\ ~Admits!Normalizes(got)
    <3>1. ~Admits!Stable(sent)
      BY <2>0, <2>3 DEF Admits!Stable
    <3> QED
      BY <1>6, <1>7, <2>0, <2>3, <3>1 DEF Admits!MutatingWebhook
  <2> QED
    BY <2>1, <2>2, <2>3
<1>8. CASE Admits!SchemaCheck
  <2>0. /\ submission.at = "mutated" /\ stored' = stored
        /\ got = Admits!Final(sent) /\ (webhooks => Admits!Normalizes(Admits!SchemaDefault(sent)))
    BY <1>0, <1>8 DEF Admits!SchemaCheck
  <2>1. CASE Admits!SchemaValid(got)
    BY <1>6, <1>8, <2>0, <2>1 DEF Admits!SchemaCheck
  <2>2. CASE ~Admits!SchemaValid(got)
    <3>1. ~Admits!Stable(sent)
      BY <1>4, <2>0, <2>2 DEF Admits!Stable
    <3> QED
      BY <1>6, <1>8, <2>0, <2>2, <3>1 DEF Admits!SchemaCheck
  <2> QED
    BY <2>1, <2>2
<1>9. CASE Admits!ValidatingWebhook
  <2>0. /\ submission.at = "valid" /\ Admits!SchemaValid(got)
        /\ got = Admits!Final(sent) /\ (webhooks => Admits!Normalizes(Admits!SchemaDefault(sent)))
    BY <1>0, <1>9 DEF Admits!ValidatingWebhook
  <2>1. CASE webhooks => Admits!Validate(got)
    <3>1. Admits!SchemaDefault(got) = got
      BY <1>1, <2>0, SchemaDefaulted, WebhookDefaulted DEF Admits!Final
    <3>2. webhooks => Admits!Normalizes(got) /\ Admits!Default(got) = got
      BY <1>1, <2>0, SchemaDefaulted, WebhookDefaulted DEF Admits!Final
    <3>3. Admits!Stable(got)
      BY <2>0, <2>1, <3>1, <3>2 DEF Admits!Stable
    <3>4. Admits!Goes("admitted", got) /\ stored' = {got}
      BY <1>9, <2>1 DEF Admits!ValidatingWebhook
    <3> QED
      BY <1>6, <2>0, <3>3, <3>4
  <2>2. CASE ~(webhooks => Admits!Validate(got))
    <3>1. ~Admits!Stable(sent)
      BY <1>4, <2>0, <2>2 DEF Admits!Stable
    <3>2. Admits!Goes("rejected", got) /\ stored' = stored
      BY <1>9, <2>2 DEF Admits!ValidatingWebhook
    <3> QED
      BY <1>6, <2>0, <3>1, <3>2
  <2> QED
    BY <2>1, <2>2
<1>10. CASE Admits!Respond
  BY <1>0, <1>3, <1>10 DEF Admits!Respond, Admits!IInv, Admits!Idle
<1>11. CASE UNCHANGED Admits!vars
  BY <1>0, <1>3, <1>11 DEF Admits!vars, Admits!IInv
<1> QED
  BY <1>5, <1>7, <1>8, <1>9, <1>10, <1>11 DEF Admits!Next

(* The invariant, for what is stored, is the three properties of Admission. *)
LEMMA AdmitsInvImplies == Admits!TypeOK /\ Admits!IInv
  => Admits!Reappliable /\ Admits!DisksAsSent /\ Admits!StoredCanLaunch
<1> SUFFICES ASSUME Admits!TypeOK, Admits!IInv
      PROVE Admits!Reappliable /\ Admits!DisksAsSent /\ Admits!StoredCanLaunch
  OBVIOUS
<1>1. Admits!Reappliable
  <2> SUFFICES ASSUME NEW s \in stored, submission.at # "idle", submission.sent = s
               PROVE  submission.at # "rejected" /\ submission.request = s
    BY DEF Admits!Reappliable
  <2>1. Admits!Stable(s)
    BY DEF Admits!IInv
  <2>2. Admits!SchemaDefault(s) = s /\ Admits!Final(s) = s
    BY <2>1 DEF Admits!Stable, Admits!Final
  <2>3. submission.at \in {"defaulted", "mutated", "valid", "admitted", "rejected"}
    BY DEF Admits!TypeOK
  <2> QED
    BY <2>1, <2>2, <2>3 DEF Admits!IInv
<1>2. Admits!DisksAsSent
  <2> SUFFICES ASSUME submission.at = "admitted"
               PROVE  Admits!NormalizeDisks(submission.request)
                        = Admits!NormalizeDisks(submission.sent)
    BY DEF Admits!DisksAsSent
  <2>1. Admits!IsSpec(submission.sent) /\ submission.request = Admits!Final(submission.sent)
    BY DEF Admits!TypeOK, Admits!IInv
  <2> QED
    BY <2>1, SchemaDefaulted, WebhookDefaulted DEF Admits!Final
<1>3. Admits!StoredCanLaunch
  <2> SUFFICES ASSUME NEW s \in stored, ~webhooks, s.storePolicy \subseteq {"RAID0"},
                      ~\E d \in s.systemDisk \cup {s.dataDisks[i] : i \in DOMAIN s.dataDisks} :
                         d.kms # {} /\ TRUE \notin d.encrypted
               PROVE  Admits!Normalizes(s)
    BY DEF Admits!StoredCanLaunch, Admits!IInv, Admits!Stable
  <2>1. Admits!IsSpec(s) /\ Admits!SchemaDefault(s) = s /\ Admits!SchemaValid(s)
    BY DEF Admits!TypeOK, Admits!IInv, Admits!Stable
  <2> QED
    BY <2>1, RulesNormalize
<1> QED
  BY <1>1, <1>2, <1>3

--------------------------------------------------------------------------------
(* Capacity. *)

(* The cores and the memory of a type that is listed, and its overhead, are *)
(* numbers.                                                                *)
LEMMA TypeIsNumbers ==
  ASSUME Holds!CapacityAssumption, NEW t \in Types, Holds!Known(t)
  PROVE  /\ Holds!Convert(t).cpu \in Nat
         /\ Holds!Convert(t).memory \in Nat
         /\ Holds!Overhead(Holds!Convert(t)).memory \in Int
         /\ Holds!Overhead(Holds!Convert(t)).memory >= 0
<1>1. t.cores \subseteq Nat /\ t.memory \subseteq Nat
  BY DEF Holds!CapacityAssumption
<1>2. Holds!OrZero(t.cores) \in Nat /\ Holds!OrZero(t.memory) \in Nat
  BY <1>1 DEF Holds!Known, Holds!OrZero
<1>3. Holds!Convert(t).cpu = 1000 * Holds!OrZero(t.cores)
      /\ Holds!Convert(t).memory = Holds!OrZero(t.memory)
  BY DEF Holds!Convert
<1>4. Holds!Overhead(Holds!Convert(t)).memory
        = Holds!Larger(Holds!DivUp(Holds!Convert(t).memory * PerMille, 1000), FixedMemory)
  BY DEF Holds!Overhead
<1>5. PerMille \in Nat /\ FixedMemory \in Nat
  BY DEF Holds!CapacityAssumption
<1>6. Holds!DivUp(Holds!Convert(t).memory * PerMille, 1000) \in Int
  <2>1. Holds!Convert(t).memory * PerMille \in Nat
    BY <1>2, <1>3, <1>5
  <2> QED
    BY <2>1 DEF Holds!DivUp
<1> QED
  BY <1>2, <1>3, <1>4, <1>5, <1>6 DEF Holds!Larger

(* A tenth of a CPU in thirds of whole units is nothing. *)
LEMMA NoCpuInThirds == 1000 * (Holds!DivUp(100, 1000) \div 3) = 0
<1>1. Holds!DivUp(100, 1000) = 1
  BY DEF Holds!DivUp
<1> QED
  BY <1>1

(* Three thirds that are rounded down are two less at most. *)
LEMMA ThreeThirds ==
  ASSUME NEW n \in Int, n >= 0
  PROVE  3 * (n \div 3) \in n - 2 .. n
OBVIOUS

(* What an operator that runs says of a type. *)
LEMMA CapacityDescribed ==
  ASSUME Holds!IInv, operator.at = "running", NEW t,
         NEW holds,
         \A k \in {"pods", "exclusive", "gpus", "gpuMemory"} : holds[k]
           = Holds!CapacityOf(Holds!Convert(t))[k],
         NEW x, x = [type |-> t, holds |-> holds, network |-> operator.network,
           guessed |-> operator.guessed]
  PROVE  Holds!Described(x)
<1>1. Holds!CapacityOf(Holds!Convert(t)).pods
        = Holds!PodsOf(Holds!Convert(t), operator.network, operator.guessed)
  BY DEF Holds!CapacityOf, Holds!Pods, Holds!PodsOf, Holds!IInv
<1>2. Holds!CapacityOf(Holds!Convert(t)).exclusive
        = Holds!ExclusiveOf(Holds!Convert(t), operator.network)
  BY DEF Holds!CapacityOf, Holds!ExclusivePods, Holds!ExclusiveOf
<1>3. Holds!CapacityOf(Holds!Convert(t)).gpus = Holds!Convert(t).gpus
      /\ Holds!CapacityOf(Holds!Convert(t)).gpuMemory = Holds!Convert(t).gpuMemory
  BY DEF Holds!CapacityOf
<1> QED
  BY <1>1, <1>2, <1>3 DEF Holds!Described

(* What GetInstanceTypes says is what the type and the network of the        *)
(* operator make.                                                            *)
LEMMA PlannedIsOfType ==
  ASSUME Holds!CapacityAssumption, Holds!IInv, NEW t \in Types, Holds!GetInstanceTypes(t)
  PROVE  \A p \in plan' : Holds!PlanIsOfType(p)
<1> DEFINE it == Holds!Convert(t)
           holds == Holds!Planned(it)
           third == Holds!Thirds(Holds!Overhead(it))
<1>1. /\ operator.at = "running" /\ Holds!Known(t)
      /\ plan' = {[type |-> t, holds |-> holds, network |-> operator.network,
           guessed |-> operator.guessed]}
  BY DEF Holds!GetInstanceTypes, Holds!About
<1>2. third.cpu = 0 /\ third.memory = Holds!Overhead(it).memory \div 3
  <2>1. third.cpu = 1000 * (Holds!DivUp(100, 1000) \div 3)
        /\ third.memory = Holds!Overhead(it).memory \div 3
    BY DEF Holds!Thirds, Holds!Overhead
  <2> QED
    BY <2>1, NoCpuInThirds
<1>3. it.cpu \in Nat
  BY <1>1, TypeIsNumbers
<1>4. /\ holds.cpu = Holds!CapacityOf(it).cpu - 3 * third.cpu
      /\ holds.memory = Holds!CapacityOf(it).memory - 3 * third.memory
      /\ \A k \in {"pods", "exclusive", "gpus", "gpuMemory"} : holds[k] = Holds!CapacityOf(it)[k]
  BY DEF Holds!Planned, Holds!Less, Holds!CapacityOf
<1>5. Holds!CapacityOf(it).cpu = it.cpu /\ Holds!CapacityOf(it).memory = it.memory
  BY DEF Holds!CapacityOf
<1>6. holds.cpu = it.cpu /\ holds.memory = it.memory - 3 * (Holds!Overhead(it).memory \div 3)
  BY <1>2, <1>3, <1>4, <1>5
<1> HIDE DEF it, holds, third
<1>7. SUFFICES ASSUME NEW p \in plan' PROVE Holds!PlanIsOfType(p)
  OBVIOUS
<1>8. p = [type |-> t, holds |-> holds, network |-> operator.network, guessed |-> operator.guessed]
  BY <1>1
<1>9. Holds!Described(p)
  BY <1>1, <1>4, <1>8, CapacityDescribed DEF it
<1> QED
  BY <1>1, <1>6, <1>8, <1>9 DEF Holds!PlanIsOfType, it

(* So is what Get says of a NodeClaim. *)
LEMMA ClaimedIsOfType ==
  ASSUME Holds!IInv, NEW t \in Types, Holds!Get(t)
  PROVE  \A c \in claim' : Holds!ClaimIsOfType(c)
<1> DEFINE it == Holds!Convert(t)
           holds == Holds!Allocatable(it)
<1>1. /\ operator.at = "running" /\ Holds!Known(t)
      /\ claim' = {[type |-> t, holds |-> holds, network |-> operator.network,
           guessed |-> operator.guessed]}
  BY DEF Holds!Get, Holds!About
<1>2. /\ holds.cpu = Holds!CapacityOf(it).cpu - Holds!Overhead(it).cpu
      /\ holds.memory = Holds!CapacityOf(it).memory - Holds!Overhead(it).memory
      /\ \A k \in {"pods", "exclusive", "gpus", "gpuMemory"} : holds[k] = Holds!CapacityOf(it)[k]
  BY DEF Holds!Allocatable, Holds!Less, Holds!CapacityOf
<1>3. Holds!CapacityOf(it).cpu = it.cpu /\ Holds!CapacityOf(it).memory = it.memory
      /\ Holds!Overhead(it).cpu = 100
  BY DEF Holds!CapacityOf, Holds!Overhead
<1>4. holds.cpu = it.cpu - 100 /\ holds.memory = it.memory - Holds!Overhead(it).memory
  BY <1>2, <1>3
<1> HIDE DEF it, holds
<1>5. SUFFICES ASSUME NEW c \in claim' PROVE Holds!ClaimIsOfType(c)
  OBVIOUS
<1>6. c = [type |-> t, holds |-> holds, network |-> operator.network, guessed |-> operator.guessed]
  BY <1>1
<1>7. Holds!Described(c)
  BY <1>1, <1>2, <1>6, CapacityDescribed DEF it
<1> QED
  BY <1>1, <1>4, <1>6, <1>7 DEF Holds!ClaimIsOfType, it

(* At the start nothing is planned. *)
LEMMA HoldsInvInit == Holds!Init => Holds!IInv
BY DEF Holds!Init, Holds!IInv

(* A step keeps what is planned and claimed what the types make of it. *)
LEMMA HoldsInvNext == Holds!CapacityAssumption /\ Holds!IInv /\ [Holds!Next]_(Holds!vars)
  => Holds!IInv'
<1> SUFFICES ASSUME Holds!CapacityAssumption, Holds!IInv, [Holds!Next]_(Holds!vars)
      PROVE Holds!IInv'
  OBVIOUS
<1>1. CASE Holds!AddonMissing \/ Holds!AddonFound \/ Holds!Crash \/ Holds!Start
  <2>1. operator'.at # "running" /\ plan' = plan /\ claim' = claim
    BY <1>1 DEF Holds!AddonMissing, Holds!AddonFound, Holds!Crash, Holds!Start, Holds!Asking
  <2> QED
    BY <2>1 DEF Holds!IInv, Holds!PlanIsOfType, Holds!ClaimIsOfType, Holds!Described
<1>2. CASE Holds!DetailFound \/ Holds!DetailFails
  <2>1. plan' = plan /\ claim' = claim
    BY <1>2 DEF Holds!DetailFound, Holds!DetailFails
  <2>2. operator'.maxPods = Holds!MaxPodsOf(operator'.network, operator'.guessed)
    <3>1. CASE Holds!DetailFound
      BY <3>1 DEF Holds!DetailFound, Holds!Initialize, Holds!MaxPodsOf
    <3>2. CASE Holds!DetailFails
      BY <3>2 DEF Holds!DetailFails, Holds!Initialize, Holds!MaxPodsOf
    <3> QED
      BY <1>2, <3>1, <3>2
  <2> QED
    BY <2>1, <2>2 DEF Holds!IInv, Holds!PlanIsOfType, Holds!ClaimIsOfType, Holds!Described
<1>3. ASSUME NEW t \in Types, Holds!GetInstanceTypes(t) PROVE Holds!IInv'
  BY <1>3, PlannedIsOfType DEF Holds!GetInstanceTypes, Holds!IInv
<1>4. ASSUME NEW t \in Types, Holds!Get(t) PROVE Holds!IInv'
  BY <1>4, ClaimedIsOfType DEF Holds!Get, Holds!IInv
<1>5. CASE Holds!GetUnknown
  BY <1>5 DEF Holds!GetUnknown, Holds!IInv
<1>6. CASE UNCHANGED Holds!vars
  BY <1>6 DEF Holds!vars, Holds!IInv
<1> QED
  BY <1>1, <1>2, <1>3, <1>4, <1>5, <1>6 DEF Holds!Next

(* A claim of an instance type holds what was planned with it, but for what  *)
(* ClaimAsPlanned excepts.                                                   *)
LEMMA HoldsInvImplies == Holds!CapacityAssumption /\ Holds!IInv => Holds!ClaimAsPlanned
<1> SUFFICES ASSUME Holds!CapacityAssumption, Holds!IInv, NEW p \in plan, NEW c \in claim, p.type
                      = c.type, p.network = c.network
             PROVE  /\ c.holds.cpu = p.holds.cpu - 100
                    /\ c.holds.memory \in p.holds.memory - 2 .. p.holds.memory
                    /\ \A k \in {"exclusive", "gpus", "gpuMemory"} : c.holds[k] = p.holds[k]
                    /\ c.holds.pods = p.holds.pods \/ c.guessed # p.guessed
  BY DEF Holds!ClaimAsPlanned
<1> DEFINE it == Holds!Convert(p.type)
           over == Holds!Overhead(it).memory
           three == 3 * (over \div 3)
<1>1. Holds!PlanIsOfType(p) /\ Holds!ClaimIsOfType(c)
  BY DEF Holds!IInv
<1>2. it.memory \in Nat /\ it.cpu \in Nat /\ over \in Int /\ over >= 0
  BY <1>1, TypeIsNumbers DEF Holds!PlanIsOfType
<1>3. three \in over - 2 .. over
  BY <1>2, ThreeThirds
<1>4. p.holds.cpu = it.cpu /\ c.holds.cpu = it.cpu - 100
  BY <1>1 DEF Holds!PlanIsOfType, Holds!ClaimIsOfType
<1>5. p.holds.memory = it.memory - three /\ c.holds.memory = it.memory - over
  BY <1>1 DEF Holds!PlanIsOfType, Holds!ClaimIsOfType
<1>6. c.holds.memory \in p.holds.memory - 2 .. p.holds.memory
  <2> HIDE DEF it, over, three
  <2> QED
    BY <1>2, <1>3, <1>5
<1>7. \A k \in {"exclusive", "gpus", "gpuMemory"} : c.holds[k] = p.holds[k]
  BY <1>1 DEF Holds!PlanIsOfType, Holds!ClaimIsOfType, Holds!Described
<1>8. c.holds.pods = p.holds.pods \/ c.guessed # p.guessed
  BY <1>1 DEF Holds!PlanIsOfType, Holds!ClaimIsOfType, Holds!Described
<1> QED
  BY <1>4, <1>6, <1>7, <1>8

(* The number of pods is a power of two, or none. *)
LEMMA MaxPodsIsPower ==
  ASSUME Holds!CapacityAssumption, NEW guessed
  PROVE  LET mask == IF guessed \/ Mask = {} THEN Holds!DefaultMask ELSE Holds!OrZero(Mask)
         IN Holds!CalculateMaxPods(mask) \in {0} \cup {2 ^ n : n \in 1..24}
<1> DEFINE mask == IF guessed \/ Mask = {} THEN Holds!DefaultMask ELSE Holds!OrZero(Mask)
<1>1. mask \in 8..32
  BY DEF Holds!CapacityAssumption, Holds!DefaultMask, Holds!OrZero
<1> HIDE DEF mask
<1>2. CASE 0 < mask /\ mask < 32
  <2>1. 32 - mask \in 1..24 /\ Holds!CalculateMaxPods(mask) = 2 ^ (32 - mask)
    BY <1>1, <1>2 DEF Holds!CalculateMaxPods
  <2> QED
    BY <2>1 DEF mask
<1>3. CASE ~(0 < mask /\ mask < 32)
  BY <1>3 DEF Holds!CalculateMaxPods, mask
<1> QED
  BY <1>2, <1>3

(* The variables of Capacity have their types at the start. *)
LEMMA HoldsTypeInit == Holds!CapacityAssumption /\ Holds!Init => Holds!TypeOK
BY DEF Holds!Init, Holds!TypeOK, Holds!CapacityAssumption

(* A step of Capacity keeps the types. *)
LEMMA HoldsTypeNext == Holds!CapacityAssumption /\ Holds!TypeOK /\ Holds!IInv
/\ [Holds!Next]_(Holds!vars) => Holds!TypeOK'
<1> SUFFICES ASSUME Holds!CapacityAssumption, Holds!TypeOK, Holds!IInv, [Holds!Next]_(Holds!vars)
      PROVE Holds!TypeOK'
  OBVIOUS
<1>1. \A x \in plan' \cup claim' : x.type \in Types /\ x.holds.cpu \in Int /\ x.holds.memory \in Int
  <2>1. Holds!IInv'
    BY HoldsInvNext
  <2>2. ASSUME NEW x \in plan' PROVE x.type \in Types /\ x.holds.cpu \in Int
               /\ x.holds.memory \in Int
    <3>1. /\ x.type \in Types /\ Holds!Known(x.type)
          /\ x.holds.cpu = Holds!Convert(x.type).cpu
          /\ x.holds.memory = Holds!Convert(x.type).memory - 3 * (Holds!Overhead(Holds!Convert(x.type)).memory \div 3)
      BY <2>1 DEF Holds!IInv, Holds!PlanIsOfType
    <3> QED
      BY <3>1, TypeIsNumbers
  <2>3. ASSUME NEW x \in claim' PROVE x.type \in Types /\ x.holds.cpu \in Int
               /\ x.holds.memory \in Int
    <3>1. /\ x.type \in Types /\ Holds!Known(x.type)
          /\ x.holds.cpu = Holds!Convert(x.type).cpu - 100
          /\ x.holds.memory = Holds!Convert(x.type).memory - Holds!Overhead(Holds!Convert(x.type)).memory
      BY <2>1 DEF Holds!IInv, Holds!ClaimIsOfType
    <3> QED
      BY <3>1, TypeIsNumbers
  <2> QED
    BY <2>2, <2>3
<1>2. starts' \in 0..MaxStarts
  <2>1. starts \in 0..MaxStarts /\ MaxStarts \in Nat
    BY DEF Holds!TypeOK, Holds!CapacityAssumption
  <2>2. CASE Holds!Start
    BY <2>1, <2>2 DEF Holds!Start
  <2>3. Holds!Start \/ starts' = starts
    BY DEF Holds!Next, Holds!AddonMissing, Holds!AddonFound, Holds!DetailFound, Holds!DetailFails,
         Holds!Crash, Holds!GetInstanceTypes, Holds!Get, Holds!GetUnknown, Holds!vars
  <2> QED
    BY <2>1, <2>2, <2>3
<1>3. /\ operator'.at \in {"down", "asking", "detail", "running"}
      /\ operator'.at \in {"detail", "running"} => operator'.network \in Installed
      /\ operator'.at = "running" => operator'.maxPods \in {0} \cup {2 ^ n : n \in 1..24}
  <2>1. CASE Holds!AddonMissing \/ Holds!Crash \/ Holds!Start
    BY <2>1 DEF Holds!AddonMissing, Holds!Crash, Holds!Start, Holds!Asking
  <2>2. CASE Holds!AddonFound
    BY <2>2 DEF Holds!AddonFound
  <2>3. ASSUME NEW guessed \in BOOLEAN, operator.at = "detail",
               Holds!Initialize(IF guessed \/ Mask = {} THEN Holds!DefaultMask
                 ELSE Holds!OrZero(Mask), guessed)
        PROVE  /\ operator'.at = "running" /\ operator'.network \in Installed
               /\ operator'.maxPods \in {0} \cup {2 ^ n : n \in 1..24}
    <3> DEFINE pods == Holds!CalculateMaxPods(IF guessed \/ Mask = {} THEN Holds!DefaultMask
          ELSE Holds!OrZero(Mask))
    <3>1. pods \in {0} \cup {2 ^ n : n \in 1..24}
      BY MaxPodsIsPower
    <3>2. operator' = [at |-> "running", network |-> operator.network, guessed |-> guessed,
                       maxPods |-> IF operator.network \in Holds!Flannel THEN pods ELSE 0]
      BY <2>3 DEF Holds!Initialize
    <3>3. operator.network \in Installed
      BY <2>3 DEF Holds!TypeOK
    <3> HIDE DEF pods
    <3> QED
      BY <3>1, <3>2, <3>3
  <2>4. CASE Holds!DetailFound
    BY <2>3, <2>4 DEF Holds!DetailFound
  <2>5. CASE Holds!DetailFails
    BY <2>3, <2>5 DEF Holds!DetailFails
  <2>6. CASE UNCHANGED operator
    BY <2>6 DEF Holds!TypeOK
  <2> QED
    BY <2>1, <2>2, <2>4, <2>5, <2>6 DEF Holds!Next, Holds!GetInstanceTypes, Holds!Get,
         Holds!GetUnknown, Holds!vars
<1> QED
  BY <1>1, <1>2, <1>3 DEF Holds!TypeOK

--------------------------------------------------------------------------------
(* A behaviour is one of one part. *)

(* The part stays what it is. *)
LEMMA PartStays == [Next]_vars => part' = part
BY DEF Next, vars

(* A behaviour of a part starts where the part starts. *)
LEMMA PartInit ==
  ASSUME Init
  PROVE  /\ part = "marks" => Marks!Init
         /\ part = "windows" => Batcher!Init
         /\ part = "vSwitches" => VSwitches!Init
         /\ part = "securityGroups" => SecurityGroups!Init
         /\ part = "offerings" => Offers!Init
         /\ part = "admission" => Admits!Init
         /\ part = "capacity" => Holds!Init
         /\ part = "launch" => Launching!Init
         /\ ~(part = "launch") => NoLaunch
BY DEF Init, IsMarks, IsWindows, Resolves, IsOfferings, IsAdmission, IsCapacity, IsLaunch

(* A step of a behaviour of a part is a step of the part. *)
LEMMA PartNext ==
  ASSUME [Next]_vars
  PROVE  /\ part = "marks" => [Marks!Next]_(Marks!vars)
         /\ part = "windows" => [Batcher!Next]_(Batcher!vars)
         /\ part = "vSwitches" => [VSwitches!Next]_(VSwitches!vars)
         /\ part = "securityGroups" => [SecurityGroups!Next]_(SecurityGroups!vars)
         /\ part = "offerings" => [Offers!Next]_(Offers!vars)
         /\ part = "admission" => [Admits!Next]_(Admits!vars)
         /\ part = "capacity" => [Holds!Next]_(Holds!vars)
         /\ part = "launch" => [Launching!Next]_(Launching!vars)
         /\ ~(part = "launch") => UNCHANGED launchVars
<1>1. CASE UNCHANGED vars
  BY <1>1 DEF vars, markVars, windowVars, resolveVars, offerVars, admitVars, holdVars, launchVars,
       Marks!vars, Batcher!vars, VSwitches!vars, SecurityGroups!vars, Offers!vars, Admits!vars, Holds!vars,
       Launching!vars, Launching!inputs
<1>2. CASE Next
  BY <1>2 DEF Next
<1> QED
  BY <1>1, <1>2

--------------------------------------------------------------------------------
(* WindowedBatcher, the Resolvers and Launch: the modules of their proofs,  *)
(* with the values that Parts gives to their constants.                     *)

BatcherProofs == INSTANCE WindowedBatcher_proofs WITH
  Key <- BatchKey, Call <- Caller, call <- request, Delay <- AddDelay, MaxTime <- MaxWindowTime

VSwitchesProofs == INSTANCE Resolver_proofs WITH
  CachesEmpty <- FALSE, TTL <- ResolverTTL, Delay <- ResolveDelay, MaxTime <- MaxResolveTime

SecurityGroupsProofs == INSTANCE Resolver_proofs WITH
  CachesEmpty <- TRUE, TTL <- ResolverTTL, Delay <- ResolveDelay, MaxTime <- MaxResolveTime

LaunchProofs == INSTANCE Launch_proofs WITH claim <- required, offered <- catalog, at <- stage

(* The batcher is the one that is proved about. *)
LEMMA SameBatcher ==
  /\ Batcher!BatcherAssumption => BatcherProofs!BatcherAssumption
  /\ Batcher!Init => BatcherProofs!Init
  /\ [Batcher!Next]_(Batcher!vars) => [BatcherProofs!Next]_(BatcherProofs!vars)
  /\ BatcherProofs!TypeOK => Batcher!TypeOK
  /\ BatcherProofs!RefusedOnlyByClose => Batcher!RefusedOnlyByClose
  /\ BatcherProofs!MapIsOfOpen => Batcher!MapIsOfOpen
<1>1. Batcher!BatcherAssumption => BatcherProofs!BatcherAssumption
    BY Zenon DEF Batcher!BatcherAssumption, BatcherProofs!BatcherAssumption
<1>2. Batcher!Init => BatcherProofs!Init
    BY Zenon DEF Batcher!Init, BatcherProofs!Init, Batcher!None, BatcherProofs!None
<1>3. [Batcher!Next]_(Batcher!vars) => [BatcherProofs!Next]_(BatcherProofs!vars)
    BY Zenon DEF Batcher!Next, BatcherProofs!Next, Batcher!vars, BatcherProofs!vars,
       Batcher!Lookup, BatcherProofs!Lookup, Batcher!Add, BatcherProofs!Add, Batcher!Again,
       BatcherProofs!Again, Batcher!CleanupExpiredWindows, BatcherProofs!CleanupExpiredWindows,
       Batcher!Close, BatcherProofs!Close, Batcher!Tick, BatcherProofs!Tick, Batcher!Unused,
       BatcherProofs!Unused, Batcher!None, BatcherProofs!None
<1>4. BatcherProofs!TypeOK => Batcher!TypeOK
    BY Zenon DEF Batcher!TypeOK, BatcherProofs!TypeOK, Batcher!None, BatcherProofs!None
<1>5. BatcherProofs!RefusedOnlyByClose => Batcher!RefusedOnlyByClose
    BY Zenon DEF Batcher!RefusedOnlyByClose, BatcherProofs!RefusedOnlyByClose
<1>6. BatcherProofs!MapIsOfOpen => Batcher!MapIsOfOpen
    BY Zenon DEF Batcher!MapIsOfOpen, BatcherProofs!MapIsOfOpen, Batcher!None, BatcherProofs!None
<1> QED
  BY <1>1, <1>2, <1>3, <1>4, <1>5, <1>6

(* So is the resolver of vSwitches. *)
LEMMA SameVSwitches ==
  /\ VSwitches!ResolverAssumption => VSwitchesProofs!ResolverAssumption
  /\ VSwitches!Init => VSwitchesProofs!Init
  /\ [VSwitches!Next]_(VSwitches!vars) => [VSwitchesProofs!Next]_(VSwitchesProofs!vars)
  /\ VSwitchesProofs!TypeOK => VSwitches!TypeOK
  /\ VSwitchesProofs!AnswerIsRecent => VSwitches!AnswerIsRecent
<1>1. VSwitches!ResolverAssumption => VSwitchesProofs!ResolverAssumption
    BY Zenon DEF VSwitches!ResolverAssumption, VSwitchesProofs!ResolverAssumption
<1>2. VSwitches!Init => VSwitchesProofs!Init
    BY Zenon DEF VSwitches!Init, VSwitchesProofs!Init, VSwitches!Key, VSwitchesProofs!Key,
       VSwitches!Idle, VSwitchesProofs!Idle
<1>3. [VSwitches!Next]_(VSwitches!vars) => [VSwitchesProofs!Next]_(VSwitchesProofs!vars)
    BY Zenon DEF VSwitches!Next, VSwitchesProofs!Next, VSwitches!vars, VSwitchesProofs!vars,
       VSwitches!Step, VSwitchesProofs!Step, VSwitches!Resolve, VSwitchesProofs!Resolve,
       VSwitches!Hit, VSwitchesProofs!Hit, VSwitches!Miss, VSwitchesProofs!Miss,
       VSwitches!DropExpired, VSwitchesProofs!DropExpired, VSwitches!QueryTerm,
       VSwitchesProofs!QueryTerm, VSwitches!QueryFails, VSwitchesProofs!QueryFails,
       VSwitches!Store, VSwitchesProofs!Store, VSwitches!Returns, VSwitchesProofs!Returns,
       VSwitches!Change, VSwitchesProofs!Change, VSwitches!Tick, VSwitchesProofs!Tick,
       VSwitches!FreshKey, VSwitchesProofs!FreshKey, VSwitches!Expired, VSwitchesProofs!Expired,
       VSwitches!Answered, VSwitchesProofs!Answered, VSwitches!Entry, VSwitchesProofs!Entry,
       VSwitches!Busy, VSwitchesProofs!Busy, VSwitches!Answer, VSwitchesProofs!Answer,
       VSwitches!Key, VSwitchesProofs!Key, VSwitches!Idle, VSwitchesProofs!Idle
<1>4. VSwitchesProofs!TypeOK => VSwitches!TypeOK
    BY Zenon DEF VSwitches!TypeOK, VSwitchesProofs!TypeOK, VSwitches!Key, VSwitchesProofs!Key,
       VSwitches!Idle, VSwitchesProofs!Idle, VSwitches!Calls, VSwitchesProofs!Calls,
       VSwitches!Entries, VSwitchesProofs!Entries
<1>5. VSwitchesProofs!AnswerIsRecent => VSwitches!AnswerIsRecent
    BY Zenon DEF VSwitches!AnswerIsRecent, VSwitchesProofs!AnswerIsRecent, VSwitches!MaxAge,
       VSwitchesProofs!MaxAge, VSwitches!Asked, VSwitchesProofs!Asked
<1> QED
  BY <1>1, <1>2, <1>3, <1>4, <1>5

(* So is the resolver of security groups. *)
LEMMA SameSecurityGroups ==
  /\ SecurityGroups!ResolverAssumption => SecurityGroupsProofs!ResolverAssumption
  /\ SecurityGroups!Init => SecurityGroupsProofs!Init
  /\ [SecurityGroups!Next]_(SecurityGroups!vars) => [SecurityGroupsProofs!Next]_(SecurityGroupsProofs!vars)
  /\ SecurityGroupsProofs!TypeOK => SecurityGroups!TypeOK
  /\ SecurityGroupsProofs!AnswerIsRecent => SecurityGroups!AnswerIsRecent
<1>1. SecurityGroups!ResolverAssumption => SecurityGroupsProofs!ResolverAssumption
    BY Zenon DEF SecurityGroups!ResolverAssumption, SecurityGroupsProofs!ResolverAssumption
<1>2. SecurityGroups!Init => SecurityGroupsProofs!Init
    BY Zenon DEF SecurityGroups!Init, SecurityGroupsProofs!Init, SecurityGroups!Key,
       SecurityGroupsProofs!Key, SecurityGroups!Idle, SecurityGroupsProofs!Idle
<1>3. [SecurityGroups!Next]_(SecurityGroups!vars) => [SecurityGroupsProofs!Next]_(SecurityGroupsProofs!vars)
    BY Zenon DEF SecurityGroups!Next, SecurityGroupsProofs!Next, SecurityGroups!vars,
       SecurityGroupsProofs!vars, SecurityGroups!Step, SecurityGroupsProofs!Step,
       SecurityGroups!Resolve, SecurityGroupsProofs!Resolve, SecurityGroups!Hit,
       SecurityGroupsProofs!Hit, SecurityGroups!Miss, SecurityGroupsProofs!Miss,
       SecurityGroups!DropExpired, SecurityGroupsProofs!DropExpired, SecurityGroups!QueryTerm,
       SecurityGroupsProofs!QueryTerm, SecurityGroups!QueryFails, SecurityGroupsProofs!QueryFails,
       SecurityGroups!Store, SecurityGroupsProofs!Store, SecurityGroups!Returns,
       SecurityGroupsProofs!Returns, SecurityGroups!Change, SecurityGroupsProofs!Change,
       SecurityGroups!Tick, SecurityGroupsProofs!Tick, SecurityGroups!FreshKey,
       SecurityGroupsProofs!FreshKey, SecurityGroups!Expired, SecurityGroupsProofs!Expired,
       SecurityGroups!Answered, SecurityGroupsProofs!Answered, SecurityGroups!Entry,
       SecurityGroupsProofs!Entry, SecurityGroups!Busy, SecurityGroupsProofs!Busy,
       SecurityGroups!Answer, SecurityGroupsProofs!Answer, SecurityGroups!Key,
       SecurityGroupsProofs!Key, SecurityGroups!Idle, SecurityGroupsProofs!Idle
<1>4. SecurityGroupsProofs!TypeOK => SecurityGroups!TypeOK
    BY Zenon DEF SecurityGroups!TypeOK, SecurityGroupsProofs!TypeOK, SecurityGroups!Key,
       SecurityGroupsProofs!Key, SecurityGroups!Idle, SecurityGroupsProofs!Idle,
       SecurityGroups!Calls, SecurityGroupsProofs!Calls, SecurityGroups!Entries,
       SecurityGroupsProofs!Entries
<1>5. SecurityGroupsProofs!AnswerIsRecent => SecurityGroups!AnswerIsRecent
    BY Zenon DEF SecurityGroups!AnswerIsRecent, SecurityGroupsProofs!AnswerIsRecent,
       SecurityGroups!MaxAge, SecurityGroupsProofs!MaxAge, SecurityGroups!Asked,
       SecurityGroupsProofs!Asked
<1> QED
  BY <1>1, <1>2, <1>3, <1>4, <1>5

(* So is Create: what would do is the same to both, ... *)
LEMMA SameSuitable ==
  /\ Launching!Suitable = LaunchProofs!Suitable
  /\ Launching!Suitable' = LaunchProofs!Suitable'
<1> USE DEF Launching!Suitable, LaunchProofs!Suitable, Launching!TypeWillDo, LaunchProofs!TypeWillDo,
       Launching!Meets, LaunchProofs!Meets, Launching!SuitableOf, LaunchProofs!SuitableOf,
       Launching!VSwitchWillDo, LaunchProofs!VSwitchWillDo, Launching!FitsImage, LaunchProofs!FitsImage,
       Launching!WantsSpot, LaunchProofs!WantsSpot, Launching!Attempt, LaunchProofs!Attempt,
       Launching!SpotStrategy, LaunchProofs!SpotStrategy, Launching!SpotStrategies,
       LaunchProofs!SpotStrategies, Launching!CapacityTypeOf, LaunchProofs!CapacityTypeOf,
       Launching!CapacityType, LaunchProofs!CapacityType, Launching!ImageFor, LaunchProofs!ImageFor,
       Launching!ZoneKey, LaunchProofs!ZoneKey, Launching!CapacityTypeKey, LaunchProofs!CapacityTypeKey,
       Launching!OnDemand, LaunchProofs!OnDemand, Launching!Spot, LaunchProofs!Spot
<1>1. Launching!Suitable = LaunchProofs!Suitable
  BY Zenon
<1>2. Launching!Suitable' = LaunchProofs!Suitable'
  BY Zenon
<1> QED
  BY <1>1, <1>2

(* ... and so are its steps and what is said of them. *)
LEMMA SameLaunch ==
  /\ Launching!LaunchAssumption => LaunchProofs!LaunchAssumption
  /\ Launching!Init => LaunchProofs!Init
  /\ [Launching!Next]_(Launching!vars) => [LaunchProofs!Next]_(LaunchProofs!vars)
  /\ LaunchProofs!TypeOK => Launching!TypeOK
  /\ LaunchProofs!LabelsMeetClaim => Launching!LabelsMeetClaim
  /\ LaunchProofs!Outside!Init => Launching!Outside!Init
  /\ [LaunchProofs!Outside!Next]_(LaunchProofs!Outside!vars)
       => [Launching!Outside!Next]_(Launching!Outside!vars)
<1> USE DEF Launching!ZoneKey, LaunchProofs!ZoneKey, Launching!CapacityTypeKey, LaunchProofs!CapacityTypeKey,
       Launching!OnDemand, LaunchProofs!OnDemand, Launching!Spot, LaunchProofs!Spot
<1>1. Launching!LaunchAssumption => LaunchProofs!LaunchAssumption
  BY Zenon DEF Launching!LaunchAssumption, LaunchProofs!LaunchAssumption
<1>2. Launching!Init => LaunchProofs!Init
  BY Zenon DEF Launching!Init, LaunchProofs!Init
<1>3. [Launching!Next]_(Launching!vars) => [LaunchProofs!Next]_(LaunchProofs!vars)
  BY Zenon DEF Launching!Next, LaunchProofs!Next, Launching!vars, LaunchProofs!vars, Launching!inputs,
       LaunchProofs!inputs, Launching!Prepare, LaunchProofs!Prepare, Launching!PrepareFails,
       LaunchProofs!PrepareFails, Launching!NextType, LaunchProofs!NextType, Launching!TypeExhausted,
       LaunchProofs!TypeExhausted, Launching!AllTypesExhausted, LaunchProofs!AllTypesExhausted,
       Launching!Launches, LaunchProofs!Launches, Launching!OutOfCapacity, LaunchProofs!OutOfCapacity,
       Launching!Fails, LaunchProofs!Fails, Launching!Gets, LaunchProofs!Gets, Launching!GetFails,
       LaunchProofs!GetFails, Launching!End, LaunchProofs!End, Launching!Preferred, LaunchProofs!Preferred,
       Launching!Tried, LaunchProofs!Tried, Launching!First, LaunchProofs!First, Launching!LabelsOf,
       LaunchProofs!LabelsOf, Launching!Attempt, LaunchProofs!Attempt, Launching!SpotStrategy,
       LaunchProofs!SpotStrategy, Launching!SpotStrategies, LaunchProofs!SpotStrategies,
       Launching!CapacityTypeOf, LaunchProofs!CapacityTypeOf, Launching!CapacityType,
       LaunchProofs!CapacityType, Launching!ImageFor, LaunchProofs!ImageFor, Launching!AllowedVSwitches,
       LaunchProofs!AllowedVSwitches, Launching!RequiredZones, LaunchProofs!RequiredZones,
       Launching!Filter, LaunchProofs!Filter, Launching!Matches, LaunchProofs!Matches,
       Launching!MatchesZone, LaunchProofs!MatchesZone, Launching!MatchesString,
       LaunchProofs!MatchesString, Launching!Operators, LaunchProofs!Operators
<1>4. LaunchProofs!TypeOK => Launching!TypeOK
  BY Zenon DEF Launching!TypeOK, LaunchProofs!TypeOK
<1>5. LaunchProofs!LabelsMeetClaim => Launching!LabelsMeetClaim
  BY Zenon DEF Launching!LabelsMeetClaim, LaunchProofs!LabelsMeetClaim, Launching!Meets, LaunchProofs!Meets
<1>6. LaunchProofs!Outside!Init => Launching!Outside!Init
  BY Zenon DEF Launching!Outside!Init, LaunchProofs!Outside!Init
<1>7. [LaunchProofs!Outside!Next]_(LaunchProofs!Outside!vars)
        => [Launching!Outside!Next]_(Launching!Outside!vars)
  BY SameSuitable, Zenon
     DEF Launching!Outside!Next, LaunchProofs!Outside!Next, Launching!Outside!vars,
       LaunchProofs!Outside!vars, Launching!Outside!Refuse, LaunchProofs!Outside!Refuse,
       Launching!Outside!Launch, LaunchProofs!Outside!Launch, Launching!Outside!Created,
       LaunchProofs!Outside!Created, Launching!Outside!Exhausted, LaunchProofs!Outside!Exhausted,
       Launching!Outside!Fail, LaunchProofs!Outside!Fail
<1> QED
  BY <1>1, <1>2, <1>3, <1>4, <1>5, <1>6, <1>7

--------------------------------------------------------------------------------
(* The properties of Parts. *)

(* The inductive invariants of the parts whose proofs are here. *)
IInv == /\ part = "marks" => Marks!TypeOK /\ Marks!IInv
        /\ part = "offerings" => Offers!TypeOK /\ Offers!IInv
        /\ part = "admission" => Admits!TypeOK /\ Admits!IInv
        /\ part = "capacity" => Holds!TypeOK /\ Holds!IInv

(* The marks, the offerings, the node classes and the nodes keep to the      *)
(* inductive invariants of their modules: how old what is known is, what is *)
(* stored has been through, and where a capacity comes from.                *)
THEOREM Invariance == ASSUME PartsAssumption PROVE Spec => []IInv
<1>1. Init => IInv
  BY PartInit, MarksTypeInit, MarksInvInit, OffersTypeInit, OffersInvInit, AdmitsTypeInit, AdmitsInvInit,
     HoldsTypeInit, HoldsInvInit DEF IInv, PartsAssumption
<1>2. IInv /\ [Next]_vars => IInv'
  <2> SUFFICES ASSUME IInv, [Next]_vars PROVE IInv'
    OBVIOUS
  <2>1. part = "marks" => (Marks!TypeOK /\ Marks!IInv)'
    BY PartNext, MarksTypeNext, MarksInvNext DEF IInv, PartsAssumption
  <2>2. part = "offerings" => (Offers!TypeOK /\ Offers!IInv)'
    BY PartNext, OffersTypeNext, OffersInvNext DEF IInv, PartsAssumption
  <2>3. part = "admission" => (Admits!TypeOK /\ Admits!IInv)'
    BY PartNext, AdmitsTypeNext, AdmitsInvNext DEF IInv, PartsAssumption
  <2>4. part = "capacity" => (Holds!TypeOK /\ Holds!IInv)'
    BY PartNext, HoldsTypeNext, HoldsInvNext DEF IInv, PartsAssumption
  <2> QED
    BY <2>1, <2>2, <2>3, <2>4, PartStays DEF IInv
<1> QED
  BY <1>1, <1>2, PTL DEF Spec

(* A behaviour is one of the batcher, or its part is another for ever. *)
LEMMA OfBatcher ==
  Spec => ([](part = "windows") /\ BatcherProofs!Spec) \/ []~(part = "windows")
<1>1. Init /\ part = "windows" => BatcherProofs!Init
  BY PartInit, SameBatcher
<1>2. [Next]_vars /\ part = "windows" => [BatcherProofs!Next]_(BatcherProofs!vars)
  BY PartNext, SameBatcher
<1>3. /\ [Next]_vars /\ part = "windows" => (part = "windows")'
      /\ [Next]_vars /\ ~(part = "windows") => ~(part = "windows")'
  BY PartStays
<1> QED
  BY <1>1, <1>2, <1>3, PTL DEF Spec, BatcherProofs!Spec

(* So it is with the resolver of vSwitches ... *)
LEMMA OfVSwitches ==
  Spec => ([](part = "vSwitches") /\ VSwitchesProofs!Spec) \/ []~(part = "vSwitches")
<1>1. Init /\ part = "vSwitches" => VSwitchesProofs!Init
  BY PartInit, SameVSwitches
<1>2. [Next]_vars /\ part = "vSwitches" => [VSwitchesProofs!Next]_(VSwitchesProofs!vars)
  BY PartNext, SameVSwitches
<1>3. /\ [Next]_vars /\ part = "vSwitches" => (part = "vSwitches")'
      /\ [Next]_vars /\ ~(part = "vSwitches") => ~(part = "vSwitches")'
  BY PartStays
<1> QED
  BY <1>1, <1>2, <1>3, PTL DEF Spec, VSwitchesProofs!Spec

(* ... and with that of security groups. *)
LEMMA OfSecurityGroups ==
  Spec => ([](part = "securityGroups") /\ SecurityGroupsProofs!Spec) \/ []~(part = "securityGroups")
<1>1. Init /\ part = "securityGroups" => SecurityGroupsProofs!Init
  BY PartInit, SameSecurityGroups
<1>2. [Next]_vars /\ part = "securityGroups" => [SecurityGroupsProofs!Next]_(SecurityGroupsProofs!vars)
  BY PartNext, SameSecurityGroups
<1>3. /\ [Next]_vars /\ part = "securityGroups" => (part = "securityGroups")'
      /\ [Next]_vars /\ ~(part = "securityGroups") => ~(part = "securityGroups")'
  BY PartStays
<1> QED
  BY <1>1, <1>2, <1>3, PTL DEF Spec, SecurityGroupsProofs!Spec

(* ... and with Create, and no other part launches anything. *)
LEMMA OfLaunch ==
  Spec => ([](part = "launch") /\ LaunchProofs!Spec) \/ [](~(part = "launch") /\ NoLaunch)
<1>1. Init /\ part = "launch" => LaunchProofs!Init
  BY PartInit, SameLaunch
<1>2. [Next]_vars /\ part = "launch" => [LaunchProofs!Next]_(LaunchProofs!vars)
  BY PartNext, SameLaunch
<1>3. Init /\ ~(part = "launch") => ~(part = "launch") /\ NoLaunch
  BY PartInit
<1>4. [Next]_vars /\ part = "launch" => (part = "launch")'
  BY PartStays
<1>5. [Next]_vars /\ (~(part = "launch") /\ NoLaunch) => (~(part = "launch") /\ NoLaunch)'
  BY PartStays, PartNext DEF NoLaunch, launchVars
<1> QED
  BY <1>1, <1>2, <1>3, <1>4, <1>5, PTL DEF Spec, LaunchProofs!Spec

(* The variables of every part keep their types. *)
THEOREM TypeCorrect == ASSUME PartsAssumption PROVE Spec => []TypeOK
<1>0. /\ BatcherProofs!BatcherAssumption
      /\ VSwitchesProofs!ResolverAssumption /\ SecurityGroupsProofs!ResolverAssumption
  BY SameBatcher, SameVSwitches, SameSecurityGroups DEF PartsAssumption
<1>1. Spec => [](part = "windows" => BatcherProofs!TypeOK)
  BY <1>0, BatcherProofs!TypeCorrect, OfBatcher, PTL
<1>2. Spec => [](part = "vSwitches" => VSwitchesProofs!TypeOK)
  BY <1>0, VSwitchesProofs!TypeCorrect, OfVSwitches, PTL
<1>3. Spec => [](part = "securityGroups" => SecurityGroupsProofs!TypeOK)
  BY <1>0, SecurityGroupsProofs!TypeCorrect, OfSecurityGroups, PTL
<1>4. Spec => [](part = "launch" => LaunchProofs!TypeOK)
  BY LaunchProofs!TypeCorrect, OfLaunch, PTL
<1>5. /\ IInv
      /\ part = "windows" => BatcherProofs!TypeOK
      /\ part = "vSwitches" => VSwitchesProofs!TypeOK
      /\ part = "securityGroups" => SecurityGroupsProofs!TypeOK
      /\ part = "launch" => LaunchProofs!TypeOK
      => TypeOK
  BY SameBatcher, SameVSwitches, SameSecurityGroups, SameLaunch DEF IInv, TypeOK
<1> QED
  BY <1>1, <1>2, <1>3, <1>4, <1>5, Invariance, PTL

(* An offering that was marked unavailable is held back for a TTL and no    *)
(* longer, unless a cleanup that was pending when the mark was renewed      *)
(* takes it for the expired one.                                            *)
THEOREM MarksLast == ASSUME PartsAssumption PROVE Spec => []MarkLasts
<1>1. IInv => MarkLasts
  BY MarksInvImplies DEF IInv, MarkLasts
<1> QED
  BY <1>1, Invariance, PTL

(* A window of WindowedBatcher refuses a request after Close only: it is    *)
(* not cleaned up between the lookup and the Add.                           *)
THEOREM RefusedByClose == ASSUME PartsAssumption PROVE Spec => []RefusedOnlyByClose
<1>0. BatcherProofs!BatcherAssumption
  BY SameBatcher DEF PartsAssumption
<1>1. Spec => [](part = "windows" => BatcherProofs!RefusedOnlyByClose)
  BY <1>0, BatcherProofs!RefusedByClose, OfBatcher, PTL
<1>2. (part = "windows" => BatcherProofs!RefusedOnlyByClose) => RefusedOnlyByClose
  BY SameBatcher DEF RefusedOnlyByClose
<1> QED
  BY <1>1, <1>2, PTL

(* The map of WindowedBatcher has the open windows, each with the time of   *)
(* its last access: no two take the requests of one key side by side, and   *)
(* none escapes the cleanup.                                                *)
THEOREM MapHasOpen == ASSUME PartsAssumption PROVE Spec => []MapIsOfOpen
<1>0. BatcherProofs!BatcherAssumption
  BY SameBatcher DEF PartsAssumption
<1>1. Spec => [](part = "windows" => BatcherProofs!MapIsOfOpen)
  BY <1>0, BatcherProofs!MapHasOpen, OfBatcher, PTL
<1>2. (part = "windows" => BatcherProofs!MapIsOfOpen) => MapIsOfOpen
  BY SameBatcher DEF MapIsOfOpen
<1> QED
  BY <1>1, <1>2, PTL

(* What a resolver answers is of the TTL and one Resolve ago at most, an    *)
(* answer "none" about vSwitches of this Resolve, where the key of a cache  *)
(* entry tells the selector.                                                *)
THEOREM AnswersAreRecent ==
  ASSUME PartsAssumption, VSwitchesProofs!KeysTell
  PROVE  Spec => []AnswerIsRecent
<1>0. /\ VSwitchesProofs!ResolverAssumption /\ SecurityGroupsProofs!ResolverAssumption
      /\ VSwitchesProofs!KeysTell /\ SecurityGroupsProofs!KeysTell
  BY SameVSwitches, SameSecurityGroups
     DEF PartsAssumption, VSwitchesProofs!KeysTell, SecurityGroupsProofs!KeysTell
<1>1. Spec => [](part = "vSwitches" => VSwitchesProofs!AnswerIsRecent)
  BY <1>0, VSwitchesProofs!AnswersAreRecent, OfVSwitches, PTL
<1>2. Spec => [](part = "securityGroups" => SecurityGroupsProofs!AnswerIsRecent)
  BY <1>0, SecurityGroupsProofs!AnswersAreRecent, OfSecurityGroups, PTL
<1>3. /\ part = "vSwitches" => VSwitchesProofs!AnswerIsRecent
      /\ part = "securityGroups" => SecurityGroupsProofs!AnswerIsRecent
      => AnswerIsRecent
  BY SameVSwitches, SameSecurityGroups DEF AnswerIsRecent
<1> QED
  BY <1>1, <1>2, <1>3, PTL

(* What GetInstanceTypes offers is the stock of two TTLs and some calls ago *)
(* at most, where NodePools name the zones they want (In) or take any       *)
(* (Exists): for NotIn a type is dropped that has stock in a zone it names, *)
(* whatever the other zones have.                                           *)
THEOREM OfferedIsRecent ==
  ASSUME PartsAssumption, Offers!PlainPools
  PROVE  Spec => []OfferingsAreRecent
<1>1. IInv => OfferingsAreRecent
  BY OffersInvImplies DEF IInv, OfferingsAreRecent
<1> QED
  BY <1>1, Invariance, PTL

(* An ECSNodeClass that is stored is admitted as it is when it is submitted *)
(* again, and comes out the same: defaults are there once and for all.      *)
THEOREM SubmittedAgain == ASSUME PartsAssumption PROVE Spec => []Reappliable
<1>1. IInv => Reappliable
  BY AdmitsInvImplies DEF IInv, Reappliable
<1> QED
  BY <1>1, Invariance, PTL

(* The defaults of the schema and of the webhook do not change the disks    *)
(* that Create makes of a node class.                                       *)
THEOREM DisksStay == ASSUME PartsAssumption PROVE Spec => []DisksAsSent
<1>1. IInv => DisksAsSent
  BY AdmitsInvImplies DEF IInv, DisksAsSent
<1> QED
  BY <1>1, Invariance, PTL

(* Create can normalize the disks of an ECSNodeClass that is stored, with   *)
(* the exceptions that StoredCanLaunch names.                               *)
THEOREM StoredLaunches == ASSUME PartsAssumption PROVE Spec => []StoredCanLaunch
<1>1. IInv => StoredCanLaunch
  BY AdmitsInvImplies DEF IInv, StoredCanLaunch
<1> QED
  BY <1>1, Invariance, PTL

(* A NodeClaim can hold what was planned with its instance type, with the   *)
(* exceptions that ClaimAsPlanned names.                                    *)
THEOREM ClaimsAsPlanned == ASSUME PartsAssumption PROVE Spec => []ClaimAsPlanned
<1>1. IInv => ClaimAsPlanned
  BY HoldsInvImplies DEF IInv, ClaimAsPlanned, PartsAssumption
<1> QED
  BY <1>1, Invariance, PTL

(* The labels of the NodeClaim that Create returns meet the claim, where    *)
(* claims ask for zones and capacity types by In or Exists.                 *)
THEOREM LabelsFit ==
  ASSUME PartsAssumption, LaunchProofs!PlainClaims(Claims)
  PROVE  Spec => []LabelsMeetClaim
<1>0. LaunchProofs!LaunchAssumption
  BY SameLaunch DEF PartsAssumption
<1>1. Spec => [](part = "launch" => LaunchProofs!LabelsMeetClaim)
  BY <1>0, LaunchProofs!LabelsFit, OfLaunch, PTL
<1>2. (part = "launch" => LaunchProofs!LabelsMeetClaim) => LabelsMeetClaim
  BY SameLaunch DEF LabelsMeetClaim
<1> QED
  BY <1>1, <1>2, PTL

(* Create launches one instance at most, one that would do and that ECS has *)
(* not refused, and ends as exhausted only if all that would do were        *)
(* refused: for such claims, all lists of types and all node classes.       *)
THEOREM LaunchIsOnce ==
  ASSUME PartsAssumption, LaunchProofs!PlainClaims(Claims)
  PROVE  Spec => LaunchesOnce
<1>0. LaunchProofs!LaunchAssumption
  BY SameLaunch DEF PartsAssumption
<1>1. LaunchProofs!Spec => LaunchProofs!Outside!Spec
  BY <1>0, LaunchProofs!ImplementsOneLaunch
<1>2. LaunchProofs!Outside!Init => Launching!Outside!Init
  BY SameLaunch
<1>3. [LaunchProofs!Outside!Next]_(LaunchProofs!Outside!vars)
        => [Launching!Outside!Next]_(Launching!Outside!vars)
  BY SameLaunch
<1>4. NoLaunch => Launching!Outside!Init
  BY DEF NoLaunch, Launching!Outside!Init
<1>5. NoLaunch /\ NoLaunch' => [Launching!Outside!Next]_(Launching!Outside!vars)
  BY DEF NoLaunch, Launching!Outside!vars
<1> QED
  BY <1>1, <1>2, <1>3, <1>4, <1>5, OfLaunch, PTL
     DEF LaunchesOnce, Launching!LaunchesOnce, Launching!Outside!Spec, LaunchProofs!Outside!Spec

================================================================================
