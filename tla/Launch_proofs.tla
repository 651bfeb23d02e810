------------------------------ MODULE Launch_proofs ------------------------------
(* What is proved of Launch, for any lists of types, node classes and claims. *)
EXTENDS Launch, WellFoundedInduction, TLAPS

LEMMA TypeNext == TypeOK /\ [Next]_vars => TypeOK'
<1> SUFFICES ASSUME TypeOK, [Next]_vars PROVE TypeOK'
  OBVIOUS
<1>1. CASE Prepare
  BY <1>1 DEF Prepare, TypeOK, inputs, Filter
<1>2. CASE NextType
  BY <1>2 DEF NextType, TypeOK, inputs, AllowedVSwitches
<1>3. CASE TypeExhausted
  BY <1>3 DEF TypeExhausted, TypeOK, inputs
<1>4. CASE PrepareFails \/ AllTypesExhausted \/ Gets \/ GetFails
  BY <1>4 DEF PrepareFails, AllTypesExhausted, Gets, GetFails, End, TypeOK, inputs
<1>5. ASSUME NEW v \in left, Launches(v) \/ OutOfCapacity(v) \/ Fails(v) PROVE TypeOK'
  BY <1>5 DEF Launches, OutOfCapacity, Fails, End, TypeOK, inputs
<1>6. CASE UNCHANGED vars
  BY <1>6 DEF vars, inputs, TypeOK
<1> QED
  BY <1>1, <1>2, <1>3, <1>4, <1>5, <1>6 DEF Next

(* The variables have their types, and a type is left while one is tried.    *)
THEOREM TypeCorrect == Spec => []TypeOK
<1>1. Init => TypeOK
  BY DEF Init, TypeOK
<1> QED
  BY <1>1, TypeNext, PTL DEF Spec

--------------------------------------------------------------------------------
(* The choices of the call. *)

LEMMA SameMembers == ASSUME NEW S, NEW T, \A l : l \in S <=> l \in T PROVE S = T
OBVIOUS

(* A set of positions has a first. *)
LEMMA Least ==
  ASSUME NEW S \in SUBSET Nat, S # {}
  PROVE  \E x \in S : \A y \in S : x <= y
<1>1. PICK x \in S : \A y \in S : <<y, x>> \notin OpToRel(<, Nat)
  BY NatLessThanWellFounded, WFMin
<1>2. \A y \in S : ~ (y < x)
  BY <1>1 DEF OpToRel
<1> QED
  BY <1>2

LEMMA FirstIsLeast ==
  ASSUME NEW S \in SUBSET Nat, S # {}
  PROVE  First(S) \in S
BY Least DEF First

LEMMA Interval == ASSUME NEW n \in Nat PROVE 1..n \subseteq Nat
OBVIOUS

LEMMA Below == ASSUME NEW n \in Nat, NEW i \in 1..n, NEW j \in 1..i-1 PROVE j \in 1..n /\ ~ (i <= j)
OBVIOUS

(* Filter keeps positions of the list. *)
LEMMA TriedMatches ==
  ASSUME LaunchAssumption, InputsOK, Progress, types # {}, at \in {"type", "vSwitch", "details"}
  PROVE  First(types) \in types /\ types \subseteq Matching /\ Matching \subseteq DOMAIN offered
<1>1. types \subseteq Matching
  BY DEF Progress
<1>2. Matching \subseteq DOMAIN offered
  BY DEF Matching, Filter
<1>3. DOMAIN offered \subseteq Nat
  <2>1. DOMAIN offered = 1..Len(offered) /\ Len(offered) \in Nat
    BY DEF LaunchAssumption, InputsOK
  <2> QED
    BY <2>1, Interval
<1>4. First(types) \in types
  BY <1>1, <1>2, <1>3, FirstIsLeast
<1> QED
  BY <1>1, <1>2, <1>4

(* The capacity type of a launch is the one that the claim wants. *)
LEMMA StrategyFitsClaim ==
  CapacityTypeOf(SpotStrategy) = IF WantsSpot THEN Spot ELSE OnDemand
<1>1. CapacityType(claim) = IF WantsSpot THEN Spot ELSE OnDemand
  BY DEF CapacityType, WantsSpot
<1>2. CASE WantsSpot
  BY <1>1, <1>2 DEF CapacityTypeOf, SpotStrategy, SpotStrategies, Spot, OnDemand
<1>3. CASE ~WantsSpot
  BY <1>1, <1>3 DEF CapacityTypeOf, SpotStrategy, Spot, OnDemand
<1> QED
  BY <1>2, <1>3

(* An image of the type's architecture is chosen if there is one. *)
LEMMA ImageFits ==
  ASSUME LaunchAssumption, InputsOK, NEW it
  PROVE  FitsImage(it, ImageFor(nodeClass.images, it.arch))
<1> DEFINE images == nodeClass.images
           Fit == {i \in DOMAIN images : images[i].arch = it.arch}
<1>0. DOMAIN images = 1..Len(images) /\ Len(images) \in Nat
  BY DEF LaunchAssumption, InputsOK
<1> SUFFICES ASSUME \E i \in DOMAIN images : images[i].arch = it.arch
             PROVE  ImageFor(images, it.arch).arch = it.arch
  BY DEF FitsImage
<1> HIDE DEF images
<1>1. Fit \subseteq Nat /\ Fit # {}
  <2>1. Fit \subseteq Nat
    BY <1>0, Interval
  <2> QED
    BY <2>1
<1>2. PICK i \in Fit : \A j \in Fit : i <= j
  BY <1>1, Least
<1>3. images[i].arch = it.arch /\ \A j \in 1..i-1 : images[j].arch # it.arch
  <2> DEFINE n == Len(images)
  <2>1. n \in Nat /\ DOMAIN images = 1..n
    BY <1>0
  <2> HIDE DEF n
  <2> SUFFICES ASSUME NEW j \in 1..i-1 PROVE images[j].arch # it.arch
    BY <1>2
  <2>2. i \in 1..n
    BY <1>2, <2>1
  <2>3. j \in 1..n /\ ~ (i <= j)
    BY <2>1, <2>2, Below
  <2> QED
    BY <1>2, <2>1, <2>3
<1> QED
  BY <1>2, <1>3 DEF ImageFor

(* The vSwitches that are allowed are those in a zone of the claim. *)
LEMMA AllowedWillDo ==
  ASSUME LaunchAssumption, PlainClaims(Claims), InputsOK, NEW v \in nodeClass.vSwitches
  PROVE  v \in Allowed <=> VSwitchWillDo(v)
<1>0. v.zone # "" /\ \A r, s \in claim : r.key = s.key => r = s
  BY DEF LaunchAssumption, InputsOK
<1>1. \A req \in claim : req.key = ZoneKey => req.operator = "Exists" \/ (req.operator = "In" /\ req.values # {})
  BY DEF PlainClaims, InputsOK
<1>2. ASSUME v \in Allowed, NEW req \in claim, req.key = ZoneKey PROVE Meets(v.zone, req)
  <2>1. CASE req.operator = "Exists"
    BY <1>0, <2>1 DEF Meets
  <2>2. CASE req.operator = "In" /\ req.values # {}
    <3>1. req.values \subseteq RequiredZones(claim)
      BY ZenonT(60), <1>2, <2>2 DEF RequiredZones
    <3>2. v.zone \in RequiredZones(claim)
      BY <1>2, <2>2, <3>1 DEF Allowed, AllowedVSwitches
    <3>3. v.zone \in req.values
      BY <1>0, <1>2, <3>2 DEF RequiredZones
    <3> QED
      BY <2>2, <3>3 DEF Meets
  <2> QED
    BY <1>1, <1>2, <2>1, <2>2
<1>3. ASSUME VSwitchWillDo(v) PROVE v \in Allowed
  <2>1. ASSUME NEW z \in RequiredZones(claim) PROVE v.zone \in RequiredZones(claim)
    <3> PICK req \in claim : req.key = ZoneKey /\ req.operator = "In"
      BY <2>1 DEF RequiredZones
    <3>1. v.zone \in req.values
      BY <1>3 DEF VSwitchWillDo, Meets
    <3> QED
      BY <3>1 DEF RequiredZones
  <2> QED
    BY <2>1 DEF Allowed, AllowedVSwitches
<1> QED
  BY <1>2, <1>3 DEF VSwitchWillDo

(* Filter keeps the types that have the labels and the stock the claim asks  *)
(* for; what it asks of the capacity type is true of all of them or of none.  *)
LEMMA MatchingWillDo ==
  ASSUME LaunchAssumption, PlainClaims(Claims), InputsOK, Matching # {}, NEW i \in DOMAIN offered
  PROVE  i \in Matching <=> TypeWillDo(offered[i])
<1> DEFINE it == offered[i]
<1>0. /\ ZoneKey \notin DOMAIN it.label /\ CapacityTypeKey \notin DOMAIN it.label
      /\ "" \notin it.available
  BY DEF LaunchAssumption, InputsOK
<1>1. ASSUME NEW req \in claim PROVE
        /\ req.operator \in Operators
        /\ req.key = ZoneKey => req.operator = "Exists" \/ (req.operator = "In" /\ req.values # {})
  BY <1>1 DEF PlainClaims, InputsOK
<1>2. i \in Matching <=> \A req \in claim : Matches(it, req)
  BY <1>1 DEF Matching, Filter
<1>3. ASSUME NEW req \in claim PROVE
        Matches(it, req) <=> /\ req.key \in DOMAIN it.label => Meets(it.label[req.key], req)
                             /\ req.key = ZoneKey => \E z \in it.available : Meets(z, req)
  <2>1. CASE req.key = ZoneKey
    <3>1. Matches(it, req) <=> MatchesZone(it, req)
      BY <1>0, <2>1 DEF Matches, ZoneKey, CapacityTypeKey
    <3>2. MatchesZone(it, req) <=> \E z \in it.available : Meets(z, req)
      <4>1. CASE req.operator = "Exists"
        <5>1. \A z : Meets(z, req) <=> z # ""
          BY <4>1 DEF Meets
        <5>2. MatchesZone(it, req) <=> it.available # {}
          BY <4>1 DEF MatchesZone
        <5>3. (it.available # {}) <=> \E z \in it.available : z # ""
          <6>1. ASSUME it.available # {} PROVE \E z \in it.available : z # ""
            <7> PICK z \in it.available : TRUE
              BY <6>1
            <7> QED
              BY <1>0
          <6> QED
            BY <6>1
        <5> QED
          BY <5>1, <5>2, <5>3, Zenon
      <4>2. CASE req.operator = "In"
        BY <4>2 DEF MatchesZone, Meets
      <4> QED
        BY <1>1, <2>1, <4>1, <4>2
    <3> QED
      BY <1>0, <2>1, <3>1, <3>2
  <2>2. CASE req.key = CapacityTypeKey
    <3>1. PICK j \in Matching : TRUE
      OBVIOUS
    <3>2. j \in DOMAIN offered /\ Matches(offered[j], req)
      BY <1>1, <3>1 DEF Matching, Filter
    <3>3. CapacityTypeKey \notin DOMAIN offered[j].label
      BY <3>2 DEF LaunchAssumption, InputsOK
    <3>4. \E c \in {OnDemand, Spot} : MatchesString(c, req)
      BY <2>2, <3>2, <3>3 DEF Matches, ZoneKey, CapacityTypeKey
    <3>5. Matches(it, req)
      BY <2>2, <3>4 DEF Matches
    <3>6. req.key # ZoneKey
      BY <2>2 DEF ZoneKey, CapacityTypeKey
    <3> QED
      BY <1>0, <2>2, <3>5, <3>6
  <2>3. CASE req.key \in DOMAIN it.label
    <3>1. Matches(it, req) <=> MatchesString(it.label[req.key], req)
      BY <1>0, <2>3 DEF Matches
    <3>2. req.operator \in {"In", "NotIn", "Exists", "DoesNotExist"}
      BY <1>1 DEF Operators
    <3>3. MatchesString(it.label[req.key], req) <=> Meets(it.label[req.key], req)
      BY <3>2 DEF MatchesString, Meets
    <3> QED
      BY <1>0, <2>3, <3>1, <3>3
  <2>4. CASE req.key \notin DOMAIN it.label \cup {ZoneKey, CapacityTypeKey}
    BY <2>4 DEF Matches
  <2> QED
    BY <2>1, <2>2, <2>3, <2>4
<1> QED
  BY <1>2, <1>3 DEF TypeWillDo

(* So the launches that would do are the attempts that the call can make.    *)
LEMMA SuitableIsAttempts ==
  ASSUME LaunchAssumption, PlainClaims(Claims), InputsOK, Matching # {}
  PROVE  \A l : l \in Suitable <=> \E i \in Matching : \E v \in Allowed : l = Attempt(offered[i], v)
<1>1. ASSUME NEW it, NEW v PROVE /\ FitsImage(it, Attempt(it, v).image)
                                 /\ CapacityTypeOf(Attempt(it, v).strategy) = IF WantsSpot THEN Spot ELSE OnDemand
  <2>1. Attempt(it, v).image = ImageFor(nodeClass.images, it.arch) /\ Attempt(it, v).strategy = SpotStrategy
    BY DEF Attempt
  <2> QED
    BY <2>1, ImageFits, StrategyFitsClaim
<1>2. ASSUME NEW l PROVE
        l \in Suitable <=> \E i \in DOMAIN offered : \E v \in nodeClass.vSwitches :
                            TypeWillDo(offered[i]) /\ VSwitchWillDo(v) /\ l = Attempt(offered[i], v)
  <2>1. l \in Suitable <=> \E i \in DOMAIN offered : TypeWillDo(offered[i]) /\
             \E v \in nodeClass.vSwitches : /\ VSwitchWillDo(v) /\ l = Attempt(offered[i], v)
                                          /\ FitsImage(offered[i], l.image)
                                          /\ CapacityTypeOf(l.strategy) = IF WantsSpot THEN Spot ELSE OnDemand
    <3>1. \A it : l \in SuitableOf(it) <=> \E v \in nodeClass.vSwitches :
             /\ VSwitchWillDo(v) /\ l = Attempt(it, v) /\ FitsImage(it, l.image)
             /\ CapacityTypeOf(l.strategy) = IF WantsSpot THEN Spot ELSE OnDemand
      BY DEF SuitableOf
    <3>2. l \in Suitable <=> \E i \in DOMAIN offered : TypeWillDo(offered[i]) /\ l \in SuitableOf(offered[i])
      <4> DEFINE Sets == {SuitableOf(offered[i]) : i \in {j \in DOMAIN offered : TypeWillDo(offered[j])}}
      <4>1. l \in Suitable <=> \E S \in Sets : l \in S
        BY Zenon DEF Suitable
      <4>2. ASSUME NEW i \in DOMAIN offered, TypeWillDo(offered[i]), l \in SuitableOf(offered[i]) PROVE l \in Suitable
        <5>1. SuitableOf(offered[i]) \in Sets
          BY <4>2
        <5> QED
          BY <4>1, <4>2, <5>1, Zenon
      <4>3. ASSUME l \in Suitable
            PROVE  \E i \in DOMAIN offered : TypeWillDo(offered[i]) /\ l \in SuitableOf(offered[i])
        <5>1. PICK S \in Sets : l \in S
          BY <4>1, <4>3
        <5>2. PICK i \in DOMAIN offered : TypeWillDo(offered[i]) /\ S = SuitableOf(offered[i])
          BY <5>1
        <5> QED
          BY <5>1, <5>2
      <4> QED
        BY <4>2, <4>3
    <3> QED
      BY <3>1, <3>2
  <2> QED
    BY <1>1, <2>1, Zenon
<1>3. Matching \subseteq DOMAIN offered /\ Allowed \subseteq nodeClass.vSwitches
  BY DEF Matching, Filter, Allowed, AllowedVSwitches
<1>4. ASSUME NEW l PROVE
        l \in Suitable <=> \E i \in Matching : \E v \in Allowed : l = Attempt(offered[i], v)
  BY <1>2, <1>3, MatchingWillDo, AllowedWillDo, Zenon
<1> QED
  BY <1>4

(* Membership in PastAttempts, type and vSwitch apart. *)
LEMMA PastAttempt ==
  ASSUME NEW l
  PROVE  l \in PastAttempts <=> \E i \in Matching : \E v \in Allowed : Past(i, v) /\ l = Attempt(offered[i], v)
BY DEF PastAttempts

(* An attempt tells its type and its vSwitch. *)
LEMMA AttemptTells ==
  ASSUME LaunchAssumption, InputsOK, NEW i \in DOMAIN offered, NEW j \in DOMAIN offered,
         NEW v \in nodeClass.vSwitches, NEW w \in nodeClass.vSwitches,
         Attempt(offered[i], v) = Attempt(offered[j], w)
  PROVE  i = j /\ v = w
<1>1. offered[i].name = offered[j].name /\ v.id = w.id
  BY DEF Attempt
<1> QED
  BY <1>1 DEF LaunchAssumption, InputsOK

--------------------------------------------------------------------------------
(* The inductive invariant. *)

(* The inputs of the call stay what they are. *)
LEMMA InputsStay ==
  ASSUME [Next]_vars
  PROVE  claim' = claim /\ offered' = offered /\ nodeClass' = nodeClass
BY DEF Next, vars, inputs, Prepare, PrepareFails, NextType, TypeExhausted, AllTypesExhausted,
       Launches, OutOfCapacity, Fails, Gets, GetFails

(* What depends on the inputs alone stays too. *)
LEMMA ChoicesStay ==
  ASSUME [Next]_vars
  PROVE  /\ InputsOK' <=> InputsOK
         /\ Matching' = Matching /\ Allowed' = Allowed /\ Suitable' = Suitable
         /\ \A it, v : Attempt(it, v)' = Attempt(it, v)
<1> USE InputsStay
<1>1. (InputsOK' <=> InputsOK) /\ Matching' = Matching /\ Allowed' = Allowed
  BY DEF InputsOK, Matching, Allowed
<1>2. \A it, v : Attempt(it, v)' = Attempt(it, v)
  BY DEF Attempt, SpotStrategy
<1>3. Suitable' = Suitable
  BY DEF Suitable, SuitableOf, TypeWillDo, VSwitchWillDo, FitsImage, WantsSpot, Attempt, SpotStrategy
<1> QED
  BY <1>1, <1>2, <1>3

(* Where the call is, what it has done by then, and what was refused on the  *)
(* way: every attempt before the one that comes next, and no other.          *)
THEOREM Invariance == ASSUME LaunchAssumption PROVE Spec => []IInv
<1> USE LaunchAssumption
<1> DEFINE Members == \A l : l \in PastAttempts <=> \E i \in Matching : \E v \in Allowed :
                                   Past(i, v) /\ l = Attempt(offered[i], v)
<1>0. Members'
  <2>1. Members
    BY PastAttempt
  <2> QED
    BY <2>1, PTL
<1>1. Init => IInv
  BY DEF Init, IInv, TypeOK, InputsOK, Progress, RefusedIsPast
<1>2. IInv /\ [Next]_vars => IInv'
  <2> SUFFICES ASSUME IInv, [Next]_vars PROVE IInv'
    OBVIOUS
  <2>0. TypeOK /\ InputsOK /\ Progress /\ RefusedIsPast
    BY DEF IInv
  <2>01. TypeOK' /\ InputsOK'
    BY <2>0, TypeNext, ChoicesStay
  <2>02. \A i, v : Attempt(offered[i], v)' = Attempt(offered[i], v)
    BY InputsStay, ChoicesStay
  <2>05. UNCHANGED <<claim, offered, nodeClass, Matching, Allowed>>
    BY InputsStay, ChoicesStay
  <2> DEFINE PastNext(i, v) == i \notin types' \/ (at' = "vSwitch" /\ i = First(types') /\ v \notin left')
  <2>03. ASSUME NEW l PROVE
           l \in PastAttempts' <=> \E i \in Matching : \E v \in Allowed : PastNext(i, v) /\ l = Attempt(offered[i], v)
    <3> DEFINE AttemptNext(i, v) ==
          [type |-> offered'[i].name, vSwitch |-> v.id, zone |-> v.zone, strategy |-> SpotStrategy',
           image |-> ImageFor(nodeClass'.images, offered'[i].arch)]
    <3>1. \A i, v : AttemptNext(i, v) = Attempt(offered[i], v)
      BY <2>05 DEF Attempt, SpotStrategy
    <3>2. l \in PastAttempts' <=> \E i \in Matching' : \E v \in Allowed' : PastNext(i, v) /\ l = AttemptNext(i, v)
      BY <1>0 DEF Past, Attempt
    <3> HIDE DEF AttemptNext, PastNext
    <3> QED
      BY <2>05, <3>1, <3>2
  <2>04. ASSUME at \in {"type", "vSwitch", "details"}, types # {}
         PROVE  First(types) \in types /\ types \subseteq Matching /\ Matching \subseteq DOMAIN offered
    BY <2>0, <2>04, TriedMatches
  <2>1. CASE Prepare
    <3>1. Progress'
      BY <2>0, <2>05, <2>1 DEF Prepare, Progress, Matching
    <3>2. refused' = {} /\ types' = Matching /\ at' = "type"
      BY <2>0, <2>1 DEF Prepare, Progress, Matching
    <3>3. \A i \in Matching, v \in Allowed : ~PastNext(i, v)
      BY <3>2 DEF Past
    <3>4. RefusedIsPast'
      BY <2>03, <3>2, <3>3 DEF RefusedIsPast
    <3> QED
      BY <2>01, <3>1, <3>4 DEF IInv
  <2>2. CASE NextType
    <3>1. Progress'
      BY <2>0, <2>05, <2>2 DEF NextType, Progress, Allowed, inputs
    <3>2. refused = PastAttempts /\ refused' = refused /\ at = "type" /\ at' = "vSwitch" /\ types' = types /\ left' = Allowed
      BY <2>0, <2>2 DEF NextType, RefusedIsPast, Allowed
    <3>3. \A i \in Matching, v \in Allowed : PastNext(i, v) <=> Past(i, v)
      BY <3>2 DEF Past
    <3>4. \A l : l \in refused' <=> l \in PastAttempts'
      BY <2>03, <3>2, <3>3, PastAttempt
    <3> QED
      BY <2>01, <3>1, <3>4, SameMembers DEF IInv, RefusedIsPast
  <2>3. CASE TypeExhausted
    <3>1. Progress'
      BY <2>0, <2>05, <2>3 DEF TypeExhausted, Progress, inputs
    <3>2. /\ refused = PastAttempts /\ refused' = refused /\ at = "vSwitch" /\ at' = "type"
          /\ types' = types \ {First(types)} /\ left = {}
      BY <2>0, <2>3 DEF TypeExhausted, RefusedIsPast
    <3>3. \A i \in Matching, v \in Allowed : PastNext(i, v) <=> Past(i, v)
      BY <3>2 DEF Past
    <3>4. \A l : l \in refused' <=> l \in PastAttempts'
      BY <2>03, <3>2, <3>3, PastAttempt
    <3> QED
      BY <2>01, <3>1, <3>4, SameMembers DEF IInv, RefusedIsPast
  <2>4. CASE PrepareFails \/ AllTypesExhausted \/ Gets \/ GetFails
    <3>1. Progress' /\ at' = "end"
      BY <2>0, <2>05, <2>4 DEF PrepareFails, AllTypesExhausted, Gets, GetFails, End, Progress, inputs
    <3> QED
      BY <2>01, <3>1 DEF IInv, RefusedIsPast
  <2>5. ASSUME NEW v \in left, Launches(v) PROVE IInv'
    <3>1. v \in Allowed
      BY <2>0, <2>5 DEF Launches, Progress
    <3>2. Tried' = Tried /\ Attempt(Tried, v)' = Attempt(Tried, v)
      BY <2>05, <2>5, ChoicesStay DEF Launches, Tried
    <3>3. launched' = {Attempt(Tried, v)} /\ at' = "details"
      BY <2>0, <2>5 DEF Launches, Progress
    <3>4. Progress'
      BY <2>0, <2>05, <2>5, <3>1, <3>2, <3>3 DEF Launches, Progress, inputs
    <3> QED
      BY <2>01, <3>3, <3>4 DEF IInv, RefusedIsPast
  <2>6. ASSUME NEW v \in left, OutOfCapacity(v) PROVE IInv'
    <3>1. Progress'
      BY <2>0, <2>05, <2>6 DEF OutOfCapacity, Progress, inputs
    <3>2. /\ refused = PastAttempts /\ refused' = refused \cup {Attempt(offered[First(types)], v)}
          /\ at = "vSwitch" /\ at' = "vSwitch" /\ types' = types /\ left' = left \ {v}
      BY <2>0, <2>6 DEF OutOfCapacity, RefusedIsPast, Tried
    <3>3. \A i \in Matching, w \in Allowed : PastNext(i, w) <=> Past(i, w) \/ (i = First(types) /\ w = v)
      BY <3>2 DEF Past
    <3>4. v \in Allowed
      BY <2>0, <3>2 DEF Progress
    <3>5. First(types) \in Matching
      BY <2>0, <2>04, <3>2 DEF TypeOK
    <3>6. \A l : l \in refused' <=> l \in PastAttempts'
      <4> SUFFICES ASSUME NEW l PROVE l \in refused' <=> l \in PastAttempts'
        OBVIOUS
      <4> DEFINE A(i, w) == Attempt(offered[i], w)
      <4> HIDE DEF PastNext, A
      <4>1. l \in PastAttempts <=> \E i \in Matching : \E w \in Allowed : Past(i, w) /\ l = A(i, w)
        BY PastAttempt DEF A
      <4>2. l \in PastAttempts' <=> \E i \in Matching : \E w \in Allowed : PastNext(i, w) /\ l = A(i, w)
        BY <2>03 DEF A
      <4>3. l \in refused' <=> l \in PastAttempts \/ l = A(First(types), v)
        BY <3>2 DEF A
      <4> QED
        BY <4>1, <4>2, <4>3, <3>3, <3>4, <3>5
    <3>7. RefusedIsPast'
      BY <3>6, SameMembers DEF RefusedIsPast
    <3> QED
      BY <2>01, <3>1, <3>7 DEF IInv
  <2>7. ASSUME NEW v \in left, Fails(v) PROVE IInv'
    <3>1. Progress' /\ at' = "end"
      BY <2>0, <2>05, <2>7 DEF Fails, End, Progress, inputs
    <3> QED
      BY <2>01, <3>1 DEF IInv, RefusedIsPast
  <2>8. CASE UNCHANGED vars
    <3>1. Progress'
      BY <2>0, <2>05, <2>8 DEF vars, Progress, Tried, Attempt, SpotStrategy
    <3>2. \A l : l \in PastAttempts' <=> l \in PastAttempts
      BY <2>03, <2>8, PastAttempt DEF vars, Past
    <3> QED
      BY <2>01, <2>0, <2>8, <3>1, <3>2, SameMembers DEF IInv, RefusedIsPast, vars
  <2> QED
    BY <2>1, <2>2, <2>3, <2>4, <2>5, <2>6, <2>7, <2>8 DEF Next
<1> QED
  BY <1>1, <1>2, PTL DEF Spec

--------------------------------------------------------------------------------
(* The labels of the NodeClaim. *)

(* The launch and the type agree with every requirement on a label. *)
LEMMA LabelsMeet ==
  ASSUME LaunchAssumption, PlainClaims(Claims), InputsOK,
         NEW i \in Matching, NEW v \in Allowed, NEW req \in claim,
         NEW ls, ls = LabelsOf(Attempt(offered[i], v), offered[i])
  PROVE  /\ req.key \in {ZoneKey, CapacityTypeKey} => req.key \in DOMAIN ls
         /\ req.key \in DOMAIN ls => Meets(ls[req.key], req)
<1> DEFINE it == offered[i]
           l == Attempt(it, v)
<1>1. i \in DOMAIN offered /\ v \in nodeClass.vSwitches
  BY DEF Matching, Filter, Allowed, AllowedVSwitches
<1>2. ZoneKey \notin DOMAIN it.label /\ CapacityTypeKey \notin DOMAIN it.label
  BY <1>1 DEF LaunchAssumption, InputsOK
<1>3. l.zone = v.zone /\ l.strategy = SpotStrategy
  BY DEF Attempt
<1>4. /\ DOMAIN ls = DOMAIN it.label \cup {ZoneKey, CapacityTypeKey}
      /\ ls[ZoneKey] = v.zone
      /\ ls[CapacityTypeKey] = IF WantsSpot THEN Spot ELSE OnDemand
      /\ \A key \in DOMAIN it.label : ls[key] = it.label[key]
  <2>1. /\ DOMAIN LabelsOf(l, it) = DOMAIN it.label \cup {ZoneKey, CapacityTypeKey}
        /\ LabelsOf(l, it)[ZoneKey] = l.zone
        /\ LabelsOf(l, it)[CapacityTypeKey] = CapacityTypeOf(l.strategy)
        /\ \A key \in DOMAIN it.label : LabelsOf(l, it)[key] = it.label[key]
    BY <1>2 DEF LabelsOf, ZoneKey, CapacityTypeKey
  <2>2. ls = LabelsOf(l, it)
    OBVIOUS
  <2> HIDE DEF l, it
  <2> QED
    BY <1>3, <2>1, <2>2, StrategyFitsClaim
<1>5. Matching # {} /\ TypeWillDo(it) /\ VSwitchWillDo(v)
  BY <1>1, MatchingWillDo, AllowedWillDo
<1>6. CASE req.key = ZoneKey
  BY <1>4, <1>5, <1>6 DEF VSwitchWillDo
<1>7. CASE req.key = CapacityTypeKey
  <2>1. /\ req.operator \in Operators /\ req.operator \in {"In", "Exists"}
        /\ \A r \in claim : r.key = req.key => r = req
    BY <1>7 DEF PlainClaims, LaunchAssumption, InputsOK
  <2>2. Matches(it, req)
    BY <2>1 DEF Matching, Filter
  <2>3. \E c \in {OnDemand, Spot} : MatchesString(c, req)
    BY <1>2, <1>7, <2>2 DEF Matches, ZoneKey, CapacityTypeKey
  <2>4. CASE req.operator = "Exists"
    BY <1>4, <1>7, <2>4 DEF Meets, Spot, OnDemand
  <2>5. CASE req.operator = "In"
    <3>1. OnDemand \in req.values \/ Spot \in req.values
      BY <2>3, <2>5 DEF MatchesString
    <3>2. WantsSpot <=> Spot \in req.values
      BY <1>7, <2>1, <2>5 DEF WantsSpot
    <3>3. ls[req.key] \in req.values
      BY <1>4, <1>7, <3>1, <3>2
    <3> QED
      BY <1>4, <1>7, <2>5, <3>3 DEF Meets
  <2> QED
    BY <2>1, <2>4, <2>5
<1>8. CASE req.key \notin {ZoneKey, CapacityTypeKey}
  BY <1>4, <1>5, <1>8 DEF TypeWillDo
<1> QED
  BY <1>6, <1>7, <1>8

(* The NodeClaim that Create returns has the labels of its instance, and     *)
(* they meet the requirements of the claim, where it asks for zones and      *)
(* capacity types by In or Exists.                                           *)
THEOREM LabelsFit ==
  ASSUME LaunchAssumption, PlainClaims(Claims)
  PROVE  Spec => []LabelsMeetClaim
<1> USE LaunchAssumption, PlainClaims(Claims)
<1>1. Init => LabelsMeetClaim
  BY DEF Init, LabelsMeetClaim
<1>2. IInv /\ LabelsMeetClaim /\ [Next]_vars => LabelsMeetClaim'
  <2> SUFFICES ASSUME IInv, LabelsMeetClaim, [Next]_vars PROVE LabelsMeetClaim'
    OBVIOUS
  <2>0. TypeOK /\ InputsOK /\ Progress /\ UNCHANGED claim
    BY InputsStay DEF IInv
  <2>1. CASE Gets
    <3>1. at = "details" /\ labels' = LabelsOf(CHOOSE l \in launched : TRUE, Tried)
      BY <2>1 DEF Gets
    <3>2. PICK v \in Allowed : launched = {Attempt(Tried, v)}
      BY <2>0, <3>1 DEF Progress
    <3>3. labels' = LabelsOf(Attempt(Tried, v), Tried)
      BY <3>1, <3>2
    <3>4. First(types) \in Matching
      BY <2>0, <3>1, TriedMatches DEF TypeOK
    <3>5. ASSUME NEW req \in claim
          PROVE  /\ req.key \in {ZoneKey, CapacityTypeKey} => req.key \in DOMAIN labels'
                 /\ req.key \in DOMAIN labels' => Meets(labels'[req.key], req)
      <4> DEFINE i == First(types)
                 ls == labels'
      <4>1. ls = LabelsOf(Attempt(offered[i], v), offered[i])
        BY <3>3 DEF Tried
      <4> HIDE DEF i, ls
      <4>2. i \in Matching
        BY <3>4 DEF i
      <4>3. /\ req.key \in {ZoneKey, CapacityTypeKey} => req.key \in DOMAIN ls
            /\ req.key \in DOMAIN ls => Meets(ls[req.key], req)
        <5>1. \A x : x = LabelsOf(Attempt(offered[i], v), offered[i]) => 
            /\ req.key \in {ZoneKey, CapacityTypeKey} => req.key \in DOMAIN x
            /\ req.key \in DOMAIN x => Meets(x[req.key], req)
          BY <2>0, <4>2, LabelsMeet
        <5> QED
          BY <5>1, <4>1
      <4> QED
        BY <4>3 DEF ls
    <3> QED
      BY <2>0, <3>5 DEF LabelsMeetClaim
  <2>2. CASE outcome' # "created"
    BY <2>2 DEF LabelsMeetClaim
  <2>3. CASE UNCHANGED <<labels, outcome>>
    BY <2>0, <2>3 DEF LabelsMeetClaim
  <2>4. Gets \/ outcome' # "created" \/ UNCHANGED <<labels, outcome>>
    BY DEF Next, vars, Prepare, PrepareFails, NextType, TypeExhausted, AllTypesExhausted,
           Launches, OutOfCapacity, Fails, GetFails, End
  <2> QED
    BY <2>1, <2>2, <2>3, <2>4
<1> QED
  BY <1>1, <1>2, Invariance, PTL DEF Spec

--------------------------------------------------------------------------------
(* The refinement. *)

(* An attempt that is made next would do, and was not refused.               *)
LEMMA NextAttempt ==
  ASSUME LaunchAssumption, PlainClaims(Claims), IInv, at = "vSwitch", NEW v \in left
  PROVE  Attempt(Tried, v) \in Suitable \ refused
<1>0. TypeOK /\ InputsOK /\ Progress /\ RefusedIsPast
  BY DEF IInv
<1>1. First(types) \in types /\ types \subseteq Matching /\ Matching \subseteq DOMAIN offered
  BY <1>0, TriedMatches DEF TypeOK
<1>2. v \in Allowed /\ Allowed \subseteq nodeClass.vSwitches
  BY <1>0 DEF Progress, Allowed, AllowedVSwitches
<1>3. Attempt(Tried, v) \in Suitable
  BY <1>0, <1>1, <1>2, SuitableIsAttempts DEF Tried
<1>4. ASSUME Attempt(Tried, v) \in refused PROVE FALSE
  <2>1. Attempt(offered[First(types)], v) \in PastAttempts
    BY <1>0, <1>4 DEF RefusedIsPast, Tried
  <2>2. PICK i \in Matching, w \in Allowed : Past(i, w) /\ Attempt(offered[First(types)], v) = Attempt(offered[i], w)
    BY <2>1, PastAttempt
  <2>3. i = First(types) /\ w = v
    BY <1>0, <1>1, <1>2, <2>2, AttemptTells
  <2> QED
    BY <1>1, <2>2, <2>3 DEF Past
<1> QED
  BY <1>3, <1>4

(* When no type is left, everything that would do was refused. *)
LEMMA NothingLeft ==
  ASSUME LaunchAssumption, PlainClaims(Claims), IInv, at = "type", types = {}
  PROVE  Suitable = refused
<1>0. InputsOK /\ Progress /\ RefusedIsPast
  BY DEF IInv
<1>1. \A l : l \in Suitable <=> \E i \in Matching : \E v \in Allowed : l = Attempt(offered[i], v)
  BY <1>0, SuitableIsAttempts DEF Progress
<1>2. \A l : l \in PastAttempts <=> \E i \in Matching : \E v \in Allowed : Past(i, v) /\ l = Attempt(offered[i], v)
  BY PastAttempt
<1>3. \A i, v : Past(i, v)
  BY DEF Past
<1>4. \A l : l \in Suitable <=> l \in PastAttempts
  BY <1>1, <1>2, <1>3
<1> QED
  BY <1>0, <1>4, SameMembers DEF RefusedIsPast

Would == IF nodeClass.images = <<>> THEN {} ELSE Suitable

(* Create is a OneLaunch: it launches one instance at most, one that would   *)
(* do and that ECS has not refused, and it ends as exhausted only if all     *)
(* that would do were refused.                                               *)
THEOREM ImplementsOneLaunch ==
  ASSUME LaunchAssumption, PlainClaims(Claims)
  PROVE  Spec => Outside!Spec
<1> USE LaunchAssumption, PlainClaims(Claims)
<1>1. Init => Outside!Init
  BY DEF Init, Outside!Init
<1>2. IInv /\ [Next]_vars => [Outside!Next]_Outside!vars
  <2> SUFFICES ASSUME IInv, [Next]_vars PROVE [Outside!Next]_Outside!vars
    OBVIOUS
  <2>0. TypeOK /\ InputsOK /\ Progress /\ RefusedIsPast
    BY DEF IInv
  <2>1. Would' = Would
    BY InputsStay, ChoicesStay DEF Would
  <2>2. at \in {"type", "vSwitch", "details"} => Would = Suitable
    BY <2>0 DEF Would, Progress
  <2>3. CASE Prepare \/ NextType \/ TypeExhausted \/ UNCHANGED vars
    <3>1. UNCHANGED <<refused, launched, outcome>>
      BY <2>3 DEF Prepare, NextType, TypeExhausted, vars
    <3> QED
      BY <2>1, <3>1 DEF Outside!vars, Would
  <2>4. CASE PrepareFails \/ GetFails
    <3>1. outcome = "pending" /\ outcome' = "failed" /\ UNCHANGED <<refused, launched>>
      BY <2>0, <2>4 DEF PrepareFails, GetFails, End, Progress
    <3> QED
      BY <2>1, <3>1 DEF Outside!Next, Outside!Fail, Would
  <2>5. CASE AllTypesExhausted
    <3>1. /\ outcome = "pending" /\ outcome' = "exhausted" /\ UNCHANGED <<refused, launched>>
          /\ launched = {} /\ at = "type" /\ types = {}
      BY <2>0, <2>5 DEF AllTypesExhausted, End, Progress
    <3>2. Would = refused
      BY <2>2, <3>1, NothingLeft
    <3> QED
      BY <2>1, <3>1, <3>2 DEF Outside!Next, Outside!Exhausted, Would
  <2>6. CASE Gets
    <3>1. /\ outcome = "pending" /\ outcome' = "created" /\ UNCHANGED <<refused, launched>>
          /\ launched # {}
      BY <2>0, <2>6 DEF Gets, End, Progress
    <3> QED
      BY <2>1, <3>1 DEF Outside!Next, Outside!Created, Would
  <2>7. ASSUME NEW v \in left, Launches(v) \/ OutOfCapacity(v) \/ Fails(v)
        PROVE  [Outside!Next]_Outside!vars
    <3> DEFINE l == Attempt(Tried, v)
    <3>0. at = "vSwitch" /\ outcome = "pending" /\ launched = {}
      BY <2>0, <2>7 DEF Launches, OutOfCapacity, Fails, Progress
    <3>1. l \in Would \ refused
      BY <2>2, <3>0, NextAttempt
    <3>2. CASE Launches(v) \/ Fails(v)
      <4>1. \/ launched' = {l} /\ outcome' \in {"pending", "failed"} /\ UNCHANGED refused
            \/ outcome' = "failed" /\ UNCHANGED <<refused, launched>>
        BY <3>0, <3>2 DEF Launches, Fails, End
      <4> QED
        BY <2>1, <3>0, <3>1, <4>1 DEF Outside!Next, Outside!Launch, Outside!Fail, Would
    <3>3. CASE OutOfCapacity(v)
      <4>1. refused' = refused \cup {l} /\ UNCHANGED <<launched, outcome>>
        BY <3>3 DEF OutOfCapacity
      <4> QED
        BY <2>1, <3>0, <3>1, <4>1 DEF Outside!Next, Outside!Refuse, Would
    <3> QED
      BY <2>7, <3>2, <3>3
  <2> QED
    BY <2>3, <2>4, <2>5, <2>6, <2>7 DEF Next
<1> QED
  BY <1>1, <1>2, Invariance, PTL DEF Spec, Outside!Spec

================================================================================
