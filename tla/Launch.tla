--------------------------------- MODULE Launch ---------------------------------
(***************************************************************************)
(* CloudProvider.Create between the node class and the instance provider    *)
(* (pkg/cloudprovider/cloudprovider.go): the choice of instance types and   *)
(* vSwitches, and the fallback from one to the next when ECS is out of      *)
(* capacity.  One call; what becomes of the instance in ECS, and the calls  *)
(* that follow, are module InstanceLifecycle.                               *)
(***************************************************************************)
EXTENDS InstanceTypeFilter

CONSTANTS
  Claims,        (* sets of requirements                                      *)
  TypeLists,     (* what List of the instance types may return                *)
  NodeClasses    (* [vSwitches, images, securityGroups, spotStrategy]         *)

(* A type is listed once, and has no label for the zone or capacity type;   *)
(* vSwitches and requirements have identities; zones have names.            *)
LaunchAssumption ==
  /\ \A list \in TypeLists :
       /\ DOMAIN list = 1..Len(list) /\ Len(list) \in Nat
       /\ \A i, j \in DOMAIN list : list[i].name = list[j].name => i = j
       /\ \A i \in DOMAIN list : /\ {ZoneKey, CapacityTypeKey} \cap DOMAIN list[i].label = {}
                                 /\ "" \notin list[i].available
  /\ \A nc \in NodeClasses :
       /\ DOMAIN nc.images = 1..Len(nc.images) /\ Len(nc.images) \in Nat
       /\ \A v, w \in nc.vSwitches : v.id = w.id => v = w
       /\ \A v \in nc.vSwitches : v.zone # ""
  /\ \A c \in Claims : \A r, s \in c : r.key = s.key => r = s

VARIABLES
  claim, offered, nodeClass,   (* the inputs of the call                      *)
  at,            (* "start", "type", "vSwitch", "details", "end"              *)
  types,         (* the positions of the types that have not been exhausted   *)
  left,          (* vSwitches left for the first of them                      *)
  refused,       (* launches that ECS had no capacity for                     *)
  launched,      (* the instances of this call                                *)
  outcome,       (* "pending", "created", "exhausted", "failed"               *)
  labels         (* those of the NodeClaim returned, or <<>>                  *)

inputs == <<claim, offered, nodeClass>>
vars == <<inputs, at, types, left, refused, launched, outcome, labels>>

SpotStrategies == {"SpotAsPriceGo", "SpotWithPriceLimit"}

(* SpotStrategyForCapacityType *)
SpotStrategy ==
  IF CapacityType(claim) # Spot THEN "NoSpot"
  ELSE IF nodeClass.spotStrategy \in SpotStrategies THEN nodeClass.spotStrategy
  ELSE "SpotAsPriceGo"

(* CapacityTypeFromInstance, for the charge type PostPaid of every launch.  *)
CapacityTypeOf(strategy) == IF strategy \in {"", "NoSpot"} THEN OnDemand ELSE Spot

(* The type that is tried: the first in the list of those that are left.    *)
First(S) == CHOOSE i \in S : \A j \in S : i <= j
Tried == offered[First(types)]

(* The request of one attempt. *)
Attempt(it, v) ==
  [type |-> it.name, vSwitch |-> v.id, zone |-> v.zone, strategy |-> SpotStrategy,
   image |-> ImageFor(nodeClass.images, it.arch)]

End(o) == at' = "end" /\ outcome' = o

(* The checks of Create before it launches anything. *)
Prepare ==
  /\ at = "start"
  /\ types' = Filter(offered, claim)
  /\ types' # {}
  /\ nodeClass.images # <<>>
  /\ AllowedVSwitches(nodeClass.vSwitches, claim) # {}
  /\ nodeClass.securityGroups # {}
  /\ at' = "type"
  /\ UNCHANGED <<inputs, left, refused, launched, outcome, labels>>

(* One of them fails, or a list, the user data, the role or the disks do.   *)
PrepareFails ==
  /\ at = "start"
  /\ End("failed")
  /\ UNCHANGED <<inputs, types, left, refused, launched, labels>>

NextType ==
  /\ at = "type"
  /\ types # {}
  /\ left' = AllowedVSwitches(nodeClass.vSwitches, claim)
  /\ at' = "vSwitch"
  /\ UNCHANGED <<inputs, types, refused, launched, outcome, labels>>

AllTypesExhausted ==
  /\ at = "type"
  /\ types = {}
  /\ End("exhausted")
  /\ UNCHANGED <<inputs, types, left, refused, launched, labels>>

(* vswitchFallbackCreate: the vSwitch with the most free addresses first.   *)
Preferred(v) == v \in left /\ \A w \in left : w.ips <= v.ips

Launches(v) ==
  /\ at = "vSwitch"
  /\ Preferred(v)
  /\ launched' = launched \cup {Attempt(Tried, v)}
  /\ at' = "details"
  /\ UNCHANGED <<inputs, types, left, refused, outcome, labels>>

(* IsInsufficientCapacityError: stock, sales in the zone, or addresses.     *)
OutOfCapacity(v) ==
  /\ at = "vSwitch"
  /\ Preferred(v)
  /\ refused' = refused \cup {Attempt(Tried, v)}
  /\ left' = left \ {v}
  /\ UNCHANGED <<inputs, at, types, launched, outcome, labels>>

(* Mutation: after any error the next vSwitch is tried. *)
FailsGoesOn(v) ==
  /\ at = "vSwitch"
  /\ Preferred(v)
  /\ launched' \in {launched, launched \cup {Attempt(Tried, v)}}
  /\ left' = left \ {v}
  /\ UNCHANGED <<inputs, at, types, refused, outcome, labels>>

(* Any other error ends the call: the instance may have been launched.      *)
Fails(v) ==
  /\ at = "vSwitch"
  /\ Preferred(v)
  /\ launched' \in {launched, launched \cup {Attempt(Tried, v)}}
  /\ End("failed")
  /\ UNCHANGED <<inputs, types, left, refused, labels>>

(* The error that ends the vSwitches of a type still tells of its kind.     *)
TypeExhausted ==
  /\ at = "vSwitch"
  /\ left = {}
  /\ types' = types \ {First(types)}
  /\ at' = "type"
  /\ UNCHANGED <<inputs, left, refused, launched, outcome, labels>>

(* convertInstanceToNodeClaim, instanceLabelsFromInstance: the type is      *)
(* looked up among those that matched.                                      *)
LabelsOf(l, it) ==
  [key \in DOMAIN it.label \cup {ZoneKey, CapacityTypeKey} |->
     CASE key = ZoneKey -> l.zone
       [] key = CapacityTypeKey -> CapacityTypeOf(l.strategy)
       [] OTHER -> it.label[key]]

(* Mutation: the labels are those the claim asked for. *)
GetsLabelsOfClaim ==
  /\ at = "details"
  /\ labels' = LabelsOf([(CHOOSE l \in launched : TRUE) EXCEPT !.strategy = "NoSpot"], Tried)
  /\ End("created")
  /\ UNCHANGED <<inputs, types, left, refused, launched>>

Gets ==
  /\ at = "details"
  /\ labels' = LabelsOf(CHOOSE l \in launched : TRUE, Tried)
  /\ End("created")
  /\ UNCHANGED <<inputs, types, left, refused, launched>>

GetFails ==
  /\ at = "details"
  /\ End("failed")
  /\ UNCHANGED <<inputs, types, left, refused, launched, labels>>

Init ==
  /\ claim \in Claims
  /\ offered \in TypeLists
  /\ nodeClass \in NodeClasses
  /\ at = "start"
  /\ types = {}
  /\ left = {}
  /\ refused = {}
  /\ launched = {}
  /\ outcome = "pending"
  /\ labels = <<>>

Next ==
  \/ Prepare \/ PrepareFails
  \/ NextType \/ TypeExhausted \/ AllTypesExhausted
  \/ \E v \in left : Launches(v) \/ OutOfCapacity(v) \/ Fails(v)
  \/ Gets \/ GetFails

Spec == Init /\ [][Next]_vars

--------------------------------------------------------------------------------
(* Properties. *)

TypeOK ==
  /\ at \in {"start", "type", "vSwitch", "details", "end"}
  /\ types \subseteq DOMAIN offered
  /\ at \in {"vSwitch", "details"} => types # {}
  /\ left \subseteq nodeClass.vSwitches
  /\ outcome \in {"pending", "created", "exhausted", "failed"}

(* What a requirement means to Kubernetes, for the value of a label. *)
Meets(value, req) ==
  CASE req.operator = "In" -> value \in req.values
    [] req.operator = "NotIn" -> value \notin req.values
    [] req.operator = "Exists" -> value # ""
    [] req.operator = "DoesNotExist" -> value = ""

(* An instance type that has stock in a zone of the claim and its labels.   *)
TypeWillDo(it) ==
  \A req \in claim :
    /\ req.key \in DOMAIN it.label => Meets(it.label[req.key], req)
    /\ req.key = ZoneKey => \E z \in it.available : Meets(z, req)

VSwitchWillDo(v) == \A req \in claim : req.key = ZoneKey => Meets(v.zone, req)

(* Spot if the claim names it, with an image of the type's architecture if  *)
(* the node class has one.                                                  *)
FitsImage(it, image) ==
  (\E i \in DOMAIN nodeClass.images : nodeClass.images[i].arch = it.arch) => image.arch = it.arch
WantsSpot == \E req \in claim : req.key = CapacityTypeKey /\ req.operator = "In" /\ Spot \in req.values
SuitableOf(it) ==
  {l \in {Attempt(it, v) : v \in {w \in nodeClass.vSwitches : VSwitchWillDo(w)}} :
     /\ FitsImage(it, l.image)
     /\ CapacityTypeOf(l.strategy) = IF WantsSpot THEN Spot ELSE OnDemand}
Suitable == UNION {SuitableOf(offered[i]) : i \in {j \in DOMAIN offered : TypeWillDo(offered[j])}}

(* Create launches one instance at most, and one the claim asks for, and    *)
(* gives up for want of capacity only when nothing that would do is left:   *)
(* neither a fallback after an error that may hide a launch, nor a type or  *)
(* a zone that is skipped.                                                  *)
Outside == INSTANCE OneLaunch WITH
  suitable <- IF nodeClass.images = <<>> THEN {} ELSE Suitable,
  refused <- refused, launched <- launched, outcome <- outcome
LaunchesOnce == Outside!Spec

(* The NodeClaim that is returned has the labels Karpenter reads, and they  *)
(* meet the claim's requirements on them.                                   *)
LabelsMeetClaim ==
  outcome = "created" =>
    \A req \in claim : /\ req.key \in {ZoneKey, CapacityTypeKey} => req.key \in DOMAIN labels
                       /\ req.key \in DOMAIN labels => Meets(labels[req.key], req)

(* An instance is in a zone the claim asks for, whatever the operator.      *)
LaunchInRequiredZone ==
  \A l \in launched : \A req \in claim : req.key = ZoneKey => Meets(l.zone, req)

--------------------------------------------------------------------------------
(* The inductive invariant behind them. *)

Matching == Filter(offered, claim)
Allowed == AllowedVSwitches(nodeClass.vSwitches, claim)

(* The attempts that lie behind: all vSwitches of the types before the one  *)
(* that is tried, and those of this type that are no longer left.           *)
Past(i, v) == i \notin types \/ (at = "vSwitch" /\ i = First(types) /\ v \notin left)
PastAttempts == UNION {{Attempt(offered[i], v) : v \in {w \in Allowed : Past(i, w)}} : i \in Matching}

InputsOK == claim \in Claims /\ offered \in TypeLists /\ nodeClass \in NodeClasses

(* Where the call is, and what it has done by then.                         *)
Progress ==
  /\ at = "end" <=> outcome # "pending"
  /\ at = "start" => refused = {}
  /\ at \in {"start", "type", "vSwitch"} => launched = {}
  /\ at \in {"type", "vSwitch", "details"} =>
       nodeClass.images # <<>> /\ Matching # {} /\ types \subseteq Matching
  /\ at = "vSwitch" => left \subseteq Allowed
  /\ at = "details" => \E v \in Allowed : launched = {Attempt(Tried, v)}

RefusedIsPast == at \in {"type", "vSwitch"} => refused = PastAttempts

IInv == TypeOK /\ InputsOK /\ Progress /\ RefusedIsPast

(* The claims that ask for zones and capacity types by In or Exists.  For   *)
(* NotIn and DoesNotExist the vSwitches are not filtered at all: what       *)
(* becomes of those claims is the finding about LaunchInRequiredZone.       *)
PlainClaims(S) ==
  \A c \in S : \A req \in c :
    /\ req.operator \in Operators
    /\ req.key = ZoneKey => req.operator = "Exists" \/ (req.operator = "In" /\ req.values # {})
    /\ req.key = CapacityTypeKey => req.operator \in {"In", "Exists"}

================================================================================
