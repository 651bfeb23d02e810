-------------------------------- MODULE Capacity --------------------------------
(***************************************************************************)
(* What a node can hold: the network of the cluster, read when the operator *)
(* starts (pkg/providers/cluster/cluster.go), the instance types of ECS     *)
(* (pkg/providers/instancetype/instancetype.go), what GetInstanceTypes lets  *)
(* the scheduler plan with, and what the NodeClaim of an instance then says *)
(* (pkg/cloudprovider/cloudprovider.go).                                    *)
(*                                                                         *)
(* CPU is in thousandths; memory in units that are as good as bytes, so     *)
(* that the integers stay small: a cluster's memory does not overflow, and  *)
(* neither is the cap on it modelled.                                       *)
(***************************************************************************)
EXTENDS Integers, Sequences

CONSTANTS
  Types,           (* as ECS describes them                                   *)
  Installed,       (* the network addons of the cluster                       *)
  Mask,            (* its node CIDR mask: none (not a number) or one          *)
  PerMille,        (* VMMemoryOverheadPercent, in thousandths                 *)
  FixedMemory,     (* VMMemoryOverhead, 100Mi if it does not parse            *)
  MaxStarts        (* bound of the model: starts of the operator              *)

CapacityAssumption ==
  /\ PerMille \in Nat /\ FixedMemory \in Nat /\ MaxStarts \in Nat
  /\ Mask \subseteq 8..32
  /\ \A t \in Types : t.cores \cup t.memory \subseteq Nat

VARIABLES
  operator,        (* where its start is, then the network configuration      *)
  starts,
  plan,            (* what GetInstanceTypes last said of a type: none or one  *)
  claim            (* the last NodeClaim made of an instance: none or one     *)

vars == <<operator, starts, plan, claim>>

Addons == <<"terway-eniip", "terway", "kube-flannel-ds", "kube-flannel-ds-vxlan">>
DefaultPodsLimit == 110
DefaultMask == 24

OrZero(field) == IF field = {} THEN 0 ELSE CHOOSE n \in field : TRUE
DivUp(a, b) == (a + b - 1) \div b
Larger(a, b) == IF a < b THEN b ELSE a

--------------------------------------------------------------------------------
(* The operator starts. *)

Asking(i) == [at |-> "asking", addon |-> i]

(* An addon that is not installed, or a call that fails: the next is asked  *)
(* for; there is none: the operator exits and starts again.                 *)
AddonMissing ==
  /\ operator.at = "asking"
  /\ operator' = IF operator.addon < Len(Addons) THEN Asking(operator.addon + 1) ELSE [at |-> "down"]
  /\ UNCHANGED <<starts, plan, claim>>

AddonFound ==
  /\ operator.at = "asking"
  /\ Addons[operator.addon] \in Installed
  /\ operator' = [at |-> "detail", network |-> Addons[operator.addon]]
  /\ UNCHANGED <<starts, plan, claim>>

CalculateMaxPods(mask) == IF 0 < mask /\ mask < 32 THEN 2 ^ (32 - mask) ELSE 0

Flannel == {"kube-flannel-ds", "kube-flannel-ds-vxlan"}

(* The detail of the cluster; the mask is 24 if the call fails or the mask  *)
(* is not a number.  guessed (history): the call failed.                    *)
Initialize(mask, guessed) ==
  operator' = [at |-> "running", network |-> operator.network, guessed |-> guessed,
               maxPods |-> IF operator.network \in Flannel THEN CalculateMaxPods(mask) ELSE 0]

DetailFound ==
  /\ operator.at = "detail"
  /\ Initialize(IF Mask = {} THEN DefaultMask ELSE OrZero(Mask), FALSE)
  /\ UNCHANGED <<starts, plan, claim>>

DetailFails ==
  /\ operator.at = "detail"
  /\ Initialize(DefaultMask, TRUE)
  /\ UNCHANGED <<starts, plan, claim>>

Crash ==
  /\ operator.at # "down"
  /\ operator' = [at |-> "down"]
  /\ UNCHANGED <<starts, plan, claim>>

Start ==
  /\ operator.at = "down"
  /\ starts < MaxStarts
  /\ operator' = Asking(1)
  /\ starts' = starts + 1
  /\ UNCHANGED <<plan, claim>>

--------------------------------------------------------------------------------
(* An instance type.  A description without cores or memory is left out.    *)

Known(t) == t.cores # {} /\ t.memory # {}

(* The tables have the memory of a type, or of one GPU of a family, in MiB. *)
GpuMemory(t) ==
  IF t.mibOfType # {} THEN OrZero(t.mibOfType) \div 1024
  ELSE (OrZero(t.mibOfFamily) * t.gpus) \div 1024

Convert(t) ==
  [cpu |-> 1000 * OrZero(t.cores), memory |-> OrZero(t.memory), gpus |-> t.gpus,
   gpuMemory |-> IF t.gpus > 0 THEN GpuMemory(t) ELSE 0,
   enis |-> OrZero(t.enis), ips |-> OrZero(t.ips)]

Overhead(it) ==
  [cpu |-> 100, memory |-> Larger(DivUp(it.memory * PerMille, 1000), FixedMemory)]

(* Pods, and those with a network interface of their own. *)
Pods(it) ==
  IF operator.network = "terway-eniip" THEN (it.enis - 1) * it.ips + 3
  ELSE IF operator.maxPods > 0 THEN operator.maxPods
  ELSE DefaultPodsLimit

ExclusivePods(it) == IF operator.network = "terway-eniip" THEN it.enis - 1 + 3 ELSE 0

CapacityOf(it) ==
  [cpu |-> it.cpu, memory |-> it.memory, pods |-> Pods(it), exclusive |-> ExclusivePods(it),
   gpus |-> it.gpus, gpuMemory |-> it.gpuMemory]

Less(capacity, cpu, memory) == [capacity EXCEPT !.cpu = @ - cpu, !.memory = @ - memory]

(* Mutation: each third is rounded up. *)
ThirdsUp(overhead) ==
  [cpu |-> 1000 * (DivUp(overhead.cpu, 1000) \div 3), memory |-> DivUp(overhead.memory, 3)]

(* divideQuantity: a third, of the quantity in whole units rounded up.      *)
Thirds(overhead) ==
  [cpu |-> 1000 * (DivUp(overhead.cpu, 1000) \div 3), memory |-> overhead.memory \div 3]

(* What the scheduler subtracts: kube and system reserved and the eviction  *)
(* threshold.                                                               *)
Planned(it) ==
  LET third == Thirds(Overhead(it))
  IN Less(CapacityOf(it), 3 * third.cpu, 3 * third.memory)

Allocatable(it) == Less(CapacityOf(it), Overhead(it).cpu, Overhead(it).memory)

About(t, holds) == {[type |-> t, holds |-> holds, network |-> operator.network, guessed |-> operator.guessed]}

GetInstanceTypes(t) ==
  /\ operator.at = "running"
  /\ Known(t)
  /\ plan' = About(t, Planned(Convert(t)))
  /\ UNCHANGED <<operator, starts, claim>>

(* Create and Get; a List does the same for each instance.                  *)
Get(t) ==
  /\ operator.at = "running"
  /\ Known(t)
  /\ claim' = About(t, Allocatable(Convert(t)))
  /\ UNCHANGED <<operator, starts, plan>>

(* A type that is not known, or no longer listed: a claim without capacity. *)
GetUnknown ==
  /\ operator.at = "running"
  /\ claim' = {}
  /\ UNCHANGED <<operator, starts, plan>>

Init ==
  /\ operator = [at |-> "down"]
  /\ starts = 0
  /\ plan = {}
  /\ claim = {}

Next ==
  \/ AddonMissing \/ AddonFound \/ DetailFound \/ DetailFails \/ Crash \/ Start
  \/ \E t \in Types : GetInstanceTypes(t) \/ Get(t)
  \/ GetUnknown

Spec == Init /\ [][Next]_vars

--------------------------------------------------------------------------------
(* Properties. *)

(* The variables have their types. *)
TypeOK ==
  /\ operator.at \in {"down", "asking", "detail", "running"}
  /\ operator.at \in {"detail", "running"} => operator.network \in Installed
  /\ operator.at = "running" => operator.maxPods \in {0} \cup {2 ^ n : n \in 1..24}
  /\ starts \in 0..MaxStarts
  /\ \A x \in plan \cup claim : x.type \in Types /\ x.holds.cpu \in Int /\ x.holds.memory \in Int

(* A node is planned with what its claim will say it can hold: the sums of  *)
(* thirds lose two units of memory at most and never take one too many; a   *)
(* tenth of a CPU is planned with that the claim does not have.  Starts of  *)
(* the operator in between change it only if they find another addon, or if *)
(* one of them could not read the mask.                                     *)
ClaimAsPlanned ==
  \A p \in plan, c \in claim : p.type = c.type /\ p.network = c.network =>
    /\ c.holds.cpu = p.holds.cpu - 100
    /\ c.holds.memory \in p.holds.memory - 2 .. p.holds.memory
    /\ \A k \in {"exclusive", "gpus", "gpuMemory"} : c.holds[k] = p.holds[k]
    /\ c.holds.pods = p.holds.pods \/ c.guessed # p.guessed

--------------------------------------------------------------------------------
(* The inductive invariant behind it: what runs, what was planned and what   *)
(* was claimed can each be told from the type and the network.              *)

(* What an operator that runs with this network hands out as pods depends on *)
(* whether it could read the mask, and on nothing else of its start.         *)
MaxPodsOf(network, guessed) ==
  IF network \in Flannel
    THEN CalculateMaxPods(IF guessed \/ Mask = {} THEN DefaultMask ELSE OrZero(Mask))
    ELSE 0

PodsOf(it, network, guessed) ==
  IF network = "terway-eniip" THEN (it.enis - 1) * it.ips + 3
  ELSE IF MaxPodsOf(network, guessed) > 0 THEN MaxPodsOf(network, guessed)
  ELSE DefaultPodsLimit

ExclusiveOf(it, network) == IF network = "terway-eniip" THEN it.enis - 1 + 3 ELSE 0

(* What a plan and a claim hold of a type, but for CPU and memory. *)
Described(x) ==
  /\ x.holds.pods = PodsOf(Convert(x.type), x.network, x.guessed)
  /\ x.holds.exclusive = ExclusiveOf(Convert(x.type), x.network)
  /\ x.holds.gpus = Convert(x.type).gpus
  /\ x.holds.gpuMemory = Convert(x.type).gpuMemory

PlanIsOfType(p) ==
  /\ p.type \in Types /\ Known(p.type)
  /\ Described(p)
  /\ p.holds.cpu = Convert(p.type).cpu
  /\ p.holds.memory = Convert(p.type).memory - 3 * (Overhead(Convert(p.type)).memory \div 3)

ClaimIsOfType(c) ==
  /\ c.type \in Types /\ Known(c.type)
  /\ Described(c)
  /\ c.holds.cpu = Convert(c.type).cpu - 100
  /\ c.holds.memory = Convert(c.type).memory - Overhead(Convert(c.type)).memory

IInv ==
  /\ operator.at = "running" => operator.maxPods = MaxPodsOf(operator.network, operator.guessed)
  /\ \A p \in plan : PlanIsOfType(p)
  /\ \A c \in claim : ClaimIsOfType(c)

================================================================================
