-------------------------------- MODULE MCParts ---------------------------------
(* The parts on small instances. *)
EXTENDS Parts, TLC

CONSTANTS c1, c2, s1, s2, q1, q2, r1

ASSUME PartsAssumption

Callers == {c1, c2}
Symmetry == Permutations(Callers)

(* s1 selects by tags, in two terms that find the same; s2 by ID. *)
MCTerms == s1 :> <<q1, q2>> @@ s2 :> <<q2>>
MCFinds == q1 :> {r1} @@ q2 :> {r1}
MCPinned == {s2}

(* On-demand capacity of z1 comes and goes; the NodePool may ask for z1. *)
MCZone == {"z1", "z2"}
MCVolatile == {<<"z1", "on-demand">>}
MCSteady == [p \in MCZone \X {"on-demand", "spot"} |->
               IF p[2] = "on-demand" THEN "stocked" ELSE IF p[1] = "z1" THEN "out" ELSE "unlisted"]
MCPools == {{}, {[key |-> "topology.kubernetes.io/zone", operator |-> "In", values |-> {"z1"}]}}

(* A node class, and what makes it another one, a field or two at a time.   *)
Term(has) == [has |-> has, bad |-> {}, many |-> FALSE]
Disk == [category |-> {"cloud_essd"}, size |-> {40}, level |-> {}, encrypted |-> {}, kms |-> {}, delete |-> {}]
Plain ==
  [template |-> {}, version |-> {}, vSwitches |-> <<Term({"id"})>>, securityGroups |-> <<Term({"tags"})>>,
   images |-> <<Term({"imageFamily"})>>, role |-> {}, tags |-> {"team"}, systemDisk |-> {}, dataDisks |-> <<>>,
   storePolicy |-> {}, spotStrategy |-> {}, spotLimit |-> {}, userData |-> {}, preference |-> {},
   reservations |-> <<>>, metadata |-> {}, kubelet |-> {}]
NoSelectors == [vSwitches |-> <<>>, securityGroups |-> <<>>, images |-> <<>>]

Disks ==
  {[category |-> c, size |-> z] @@ Disk :
     c \in {{"cloud_essd"}, {"cloud_auto"}, {"elastic_ephemeral_disk_premium"}, {"cloud_essd_xc1"}},
     z \in {{20}, {40}, {64}}}
  \cup {[category |-> c] @@ Disk : c \in {{"ephemeral_ssd"}, {"cloud_disk"}}}
  \cup {[level |-> {"PL1"}, category |-> c] @@ Disk : c \in {{"cloud_essd"}, {"cloud_ssd"}}}
  \cup {[encrypted |-> e, kms |-> {"key"}] @@ Disk : e \in {{}, {FALSE}, {TRUE}}}
SystemDisks == Disks \cup {[size |-> {}] @@ d : d \in Disks} \cup {[category |-> {}] @@ Disk}
DataDisks == Disks \cup {[delete |-> {e}] @@ Disk : e \in BOOLEAN}

BadTerms ==
  {Term({}), Term({"id", "tags"}), [bad |-> {"id"}] @@ Term({"id"}), [bad |-> {"tags"}] @@ Term({"tags"}),
   [many |-> TRUE] @@ Term({"tags"}), Term({"imageOwnerID"}), Term({"name", "tags"})}

Variants ==
  {[systemDisk |-> {d}] : d \in SystemDisks}
  \cup {[dataDisks |-> <<d>>] : d \in DataDisks}
  \cup {[dataDisks |-> <<Disk, Disk, Disk>>]}
  \cup {[vSwitches |-> <<t>>] : t \in BadTerms} \cup {[securityGroups |-> <<t>>] : t \in BadTerms}
  \cup {[images |-> <<t>>] : t \in BadTerms} \cup {[vSwitches |-> <<Term({"id"}), Term({"tags"}), Term({"zoneID"})>>]}
  \cup {NoSelectors, [version |-> {1}], [template |-> {"wellFormed"}], [tags |-> {"nodeclaim"}]}
  \cup {[template |-> {t}, version |-> v] @@ NoSelectors : t \in {"wellFormed", "malformed"}, v \in {{}, {0}}}
  \cup {[role |-> {r}] : r \in {"wellFormed", "spaced", "arn"}}
  \cup {[storePolicy |-> {r}] : r \in {"RAID0", "RAID1"}}
  \cup {[spotStrategy |-> {"SpotWithPriceLimit"}, spotLimit |-> l] : l \in {{}, {0}, {1}}}
  \cup {[preference |-> {r}] : r \in {"none", "any"}}
  \cup {[reservations |-> <<Term(f)>>] : f \in {{}, {"id"}, {"id", "tags"}}}
  \cup {[metadata |-> {[tokens |-> t, hops |-> h, endpoint |-> {}]}] :
           t \in {{}, {"required"}, {"any"}}, h \in {{}, {64}, {65}}}
  \cup {[kubelet |-> {[high |-> h, low |-> {50}]}] : h \in {{}, {40}, {60}, {101}}}

MCSpecs == {v @@ Plain : v \in Variants \cup {<<>>}}

(* A cluster with a second addon; memory that the overhead does not divide.  *)
Bare == [cores |-> {4}, memory |-> {1000}, gpus |-> 0, mibOfType |-> {}, mibOfFamily |-> {}, enis |-> {3}, ips |-> {10}]
MCTypes ==
  {[memory |-> {n}] @@ Bare : n \in {1000, 1100, 1120, 1130}} \cup
  {[memory |-> {}] @@ Bare, [enis |-> {}] @@ Bare,
   [gpus |-> 2, mibOfFamily |-> {23028}] @@ Bare, [gpus |-> 2, mibOfType |-> {32768}] @@ Bare}

(* Claims with the operators that the code tells apart, on each kind of     *)
(* label; lists of types and node classes, some of which Create refuses.    *)
ZoneKey == "topology.kubernetes.io/zone"
CapacityTypeKey == "karpenter.sh/capacity-type"
TypeKey == "node.kubernetes.io/instance-type"
ArchKey == "kubernetes.io/arch"
GPUKey == "karpenter.k8s.alibabacloud/instance-gpu-name"

TypeOf(name, arch, gpu, available) ==
  [name |-> name, arch |-> arch, available |-> available,
   label |-> (TypeKey :> name @@ ArchKey :> arch @@ GPUKey :> gpu)]

X86(available) == TypeOf("x", "amd64", "", available)
Arm(available) == TypeOf("a", "arm64", "", available)
GPU(available) == TypeOf("g", "amd64", "v100", available)

MCTypeLists ==
  {<<>>, <<X86({"z1"})>>, <<X86({"z1"}), Arm({"z1", "z2"})>>, <<GPU({"z2"}), Arm({"z1"}), X86({"z1", "z2"})>>}

Require(key, op, values) == [key |-> key, operator |-> op, values |-> values]
In(key, values) == {Require(key, "In", values)}

ZoneRequirements == {{}, In(ZoneKey, {"z1"}), In(ZoneKey, {"z1", "z2"}), {Require(ZoneKey, "Exists", {})}}
CapacityRequirements == {{}, In(CapacityTypeKey, {"spot"}), In(CapacityTypeKey, {"on-demand", "spot"})}
LabelRequirements ==
  {{}, In(ArchKey, {"arm64"}), {Require(TypeKey, "NotIn", {"x"})},
   {Require(GPUKey, "Exists", {})}, {Require(GPUKey, "DoesNotExist", {})},
   {Require("example.com/team", "In", {"a"})}}

MCClaims == {z \cup c \cup l : z \in ZoneRequirements, c \in CapacityRequirements, l \in LabelRequirements}

VSwitch(id, zone, ips) == [id |-> id, zone |-> zone, ips |-> ips]
VSwitchLists ==
  {{}, {VSwitch("v1", "z1", 1)}, {VSwitch("v1", "z1", 1), VSwitch("v2", "z2", 2), VSwitch("v3", "z2", 2)}}

Image(id, arch) == [id |-> id, arch |-> arch]
ImageLists == {<<>>, <<Image("i1", "amd64")>>, <<Image("i1", "amd64"), Image("i2", "arm64")>>}

MCNodeClasses ==
  [vSwitches : VSwitchLists, images : ImageLists, securityGroups : {{"sg"}}, spotStrategy : {"", "SpotWithPriceLimit"}]
    \cup [vSwitches : {{VSwitch("v1", "z1", 1)}}, images : {<<Image("i1", "amd64")>>},
          securityGroups : {{}}, spotStrategy : {"NoSpot"}]

(* These claims are what the theorems are about. *)
ASSUME Launching!PlainClaims(MCClaims)

================================================================================
