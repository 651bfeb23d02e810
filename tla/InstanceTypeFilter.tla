--------------------------- MODULE InstanceTypeFilter ---------------------------
(***************************************************************************)
(* How the requirements of a NodeClaim or NodePool choose instance types    *)
(* (pkg/providers/instancetype/instancetype.go, Filter) and vSwitches and   *)
(* the capacity type (pkg/cloudprovider/cloudprovider.go).                  *)
(*                                                                         *)
(* A requirement is a record [key, operator, values]; there is one at most  *)
(* for a key.  An instance type is a record with its name, its Kubernetes   *)
(* arch, its labels (a value for each label key, "" for none) and the       *)
(* zones it has stock in.                                                   *)
(***************************************************************************)
EXTENDS Naturals, Sequences

ZoneKey == "topology.kubernetes.io/zone"
CapacityTypeKey == "karpenter.sh/capacity-type"
OnDemand == "on-demand"
Spot == "spot"

(* filterInstanceTypesByRequirements drops the other operators, Gt and Lt. *)
Operators == {"In", "NotIn", "Exists", "DoesNotExist"}

MatchesString(value, req) ==
  \/ req.operator = "In" /\ value \in req.values
  \/ req.operator = "NotIn" /\ value \notin req.values
  \/ req.operator = "Exists" /\ value # ""
  \/ req.operator = "DoesNotExist" /\ value = ""

(* By the zones that have stock, whatever zones the type is known in. *)
MatchesZone(it, req) ==
  \/ req.operator = "In" /\ it.available \cap req.values # {}
  \/ req.operator = "NotIn" /\ it.available \cap req.values = {}
  \/ req.operator = "Exists" /\ it.available # {}
  \/ req.operator = "DoesNotExist" /\ it.available = {}

(* A key that is no label of an instance type is taken to match. *)
Matches(it, req) ==
  \/ req.key = ZoneKey /\ MatchesZone(it, req)
  \/ req.key = CapacityTypeKey /\ \E c \in {OnDemand, Spot} : MatchesString(c, req)
  \/ req.key \in DOMAIN it.label /\ MatchesString(it.label[req.key], req)
  \/ req.key \notin DOMAIN it.label \cup {ZoneKey, CapacityTypeKey}

(* The positions of the types that remain: they keep the order of the list. *)
Filter(types, reqs) ==
  {i \in DOMAIN types : \A req \in reqs : req.operator \in Operators => Matches(types[i], req)}

(* zonesFromRequirements and filterVSwitchesByZones: without a requirement  *)
(* In, or with an empty one, any zone will do.                              *)
RequiredZones(reqs) == UNION {req.values : req \in {r \in reqs : r.key = ZoneKey /\ r.operator = "In"}}
AllowedVSwitches(vswitches, reqs) ==
  {v \in vswitches : RequiredZones(reqs) = {} \/ v.zone \in RequiredZones(reqs)}

(* capacityTypeFromRequirements *)
CapacityType(reqs) ==
  IF \E r \in reqs : r.key = CapacityTypeKey /\ r.operator = "In" /\ Spot \in r.values
    THEN Spot ELSE OnDemand

(* selectImageForArchitecture *)
ImageFor(images, arch) ==
  IF \E i \in DOMAIN images : images[i].arch = arch
    THEN images[CHOOSE i \in DOMAIN images : /\ images[i].arch = arch
                                             /\ \A j \in 1..i-1 : images[j].arch # arch]
    ELSE images[1]

================================================================================
