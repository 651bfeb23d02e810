---------------------------- MODULE NodeClass_proofs ----------------------------
(* Theorems about NodeClass, for any sequence of specs and any lag. *)
EXTENDS NodeClass, TLAPS

VSwitchIds       == UNION {SpecOf[g].vswitches : g \in Generation}
SecurityGroupIds == UNION {SpecOf[g].securityGroups : g \in Generation}
HashType         == {Hash(SpecOf[g]) : g \in Generation} \cup {NoHash}

StatusType ==
  [images : SUBSET Image, vswitches : SUBSET VSwitchIds,
   securityGroups : SUBSET SecurityGroupIds, role : Role,
   resolved : [Condition -> BOOLEAN], ready : BOOLEAN]

ObjectType == [gen : Generation, hash : HashType, status : StatusType]

InstanceType ==
  [gen : Generation, hash : HashType, image : Image, vswitch : VSwitchIds,
   securityGroups : SUBSET SecurityGroupIds, role : Role]

TInv ==
  /\ versions \in Seq(ObjectType)
  /\ versions # <<>>
  /\ imageStatus \in [Release -> {"Creating", "Available", "Deprecated"}]
  /\ statusPc \in {"idle", "update"}
  /\ work \in StatusType
  /\ instances \in [Claim -> SUBSET InstanceType]
  /\ drifted \subseteq {c \in Claim : instances[c] # {}}

(* The informer, and the object, only move to newer specs. *)
GenerationsGrow ==
  \A j, k \in 1..Len(versions) : j <= k => versions[j].gen <= versions[k].gen

(* A status that may be written onto a spec of generation n or later. *)
OneSpecUpTo(n, s) ==
  s.ready => \E g \in 1..n : \A image \in s.images : OfSpec(g, image, s.vswitches, s.securityGroups)

WorkOfOneSpec == OneSpecUpTo(Informed.gen, work)

IInv ==
  /\ TInv
  /\ GenerationsGrow
  /\ ReadyOfOneSpec
  /\ WorkOfOneSpec
  /\ ResourcesOfOneSpec
  /\ RoleOfSpec

--------------------------------------------------------------------------------
(* The specs are numbered from 1. *)
LEMMA GenerationType ==
  /\ Len(SpecOf) \in Nat
  /\ 1 \in Generation
  /\ Generation \subseteq Nat
<1>1. SpecOf \in Seq({SpecOf[g] : g \in DOMAIN SpecOf}) /\ SpecOf # <<>>
  BY NodeClassAssumption DEF NodeClassAssumption
<1>2. Len(SpecOf) \in Nat /\ Len(SpecOf) # 0
  BY <1>1
<1>3. QED
  BY <1>2 DEF Generation

(* What a resolve, that succeeds or not, makes of a status: it is a status  *)
(* again, and if it is ready everything was resolved in this pass, from     *)
(* this spec (status/controller.go:90-138).                                 *)
LEMMA SelectorsResolve ==
  ASSUME NEW g \in Generation, NEW s \in StatusType, NEW ok \in [Condition -> BOOLEAN]
  PROVE  LET r == WithSelectors(s, SpecOf[g], ok) IN
         /\ r \in StatusType
         /\ (r.ready \/ \A t \in Condition \ {"RAMRoleResolved"} : r.resolved[t]) =>
              /\ \A image \in r.images : image[1] = SpecOf[g].image
              /\ r.vswitches = SpecOf[g].vswitches
              /\ r.securityGroups = SpecOf[g].securityGroups
<1> DEFINE spec == SpecOf[g]
           v == WithVSwitches(s, spec, ok["VSwitchResolved"])
           w == WithSecurityGroups(v, spec, ok["SecurityGroupResolved"])
           x == WithImages(w, spec, ok["ImageResolved"])
<1>1. /\ spec.vswitches \in SUBSET VSwitchIds
      /\ spec.securityGroups \in SUBSET SecurityGroupIds
      /\ DescribeImages(spec.image) \in SUBSET Image
      /\ \A image \in DescribeImages(spec.image) : image[1] = spec.image
  <2>1. \A r \in Release : imageStatus[r] = "Available" => r \in {0} \cup Published
    BY DEF Published
  <2>2. ASSUME NEW image \in DescribeImages(spec.image)
        PROVE  image \in Image /\ image[1] = spec.image
    <3> PICK r \in Release : imageStatus[r] = "Available" /\ image = <<SpecOf[g].image, r>>
      BY <2>2 DEF DescribeImages
    <3>1. r \in {0} \cup Published
      BY <2>1
    <3>2. <<SpecOf[g].image, r>> \in Image
      BY <3>1 DEF Image
    <3>3. QED
      BY <3>2
  <2>3. DescribeImages(spec.image) \in SUBSET Image
    BY <2>2
  <2>4. QED
    BY <2>2, <2>3 DEF VSwitchIds, SecurityGroupIds
<1> HIDE DEF spec
<1>2. /\ v \in StatusType
      /\ (v.ready \/ v.resolved["VSwitchResolved"]) => v.vswitches = spec.vswitches
  BY <1>1 DEF WithVSwitches, Succeeded, Failed, StatusType, Condition
<1> HIDE DEF v
<1>3. /\ w \in StatusType
      /\ w.vswitches = v.vswitches
      /\ w.ready => v.ready
      /\ w.resolved["VSwitchResolved"] => v.resolved["VSwitchResolved"]
      /\ (w.ready \/ w.resolved["SecurityGroupResolved"]) => w.securityGroups = spec.securityGroups
  BY <1>1, <1>2 DEF WithSecurityGroups, Succeeded, Failed, StatusType, Condition
<1> HIDE DEF w
<1>4. /\ x \in StatusType
      /\ x.vswitches = w.vswitches
      /\ x.securityGroups = w.securityGroups
      /\ x.ready => w.ready
      /\ x.resolved["VSwitchResolved"] => w.resolved["VSwitchResolved"]
      /\ x.resolved["SecurityGroupResolved"] => w.resolved["SecurityGroupResolved"]
      /\ (x.ready \/ x.resolved["ImageResolved"]) => x.images = DescribeImages(spec.image)
  BY <1>1, <1>3 DEF WithImages, Succeeded, Failed, StatusType, Condition
<1> HIDE DEF x
<1>5. WithSelectors(s, spec, ok) = x
  BY DEF WithSelectors, x, w, v
<1>6. (x.ready \/ \A t \in Condition \ {"RAMRoleResolved"} : x.resolved[t]) =>
        /\ x.images = DescribeImages(spec.image)
        /\ x.vswitches = spec.vswitches
        /\ x.securityGroups = spec.securityGroups
  BY <1>2, <1>3, <1>4 DEF Condition
<1>7. QED
  BY <1>1, <1>4, <1>5, <1>6 DEF spec

(* The same from a launch template: nothing is ready unless all three came  *)
(* from this template in this pass (status/controller.go:158-217).          *)
LEMMA TemplateResolves ==
  ASSUME NEW g \in Generation, NEW s \in StatusType, NEW ok \in [Condition -> BOOLEAN]
  PROVE  LET r == WithTemplate(s, SpecOf[g], ok) IN
         /\ r \in StatusType
         /\ (r.ready \/ \A t \in Condition \ {"RAMRoleResolved"} : r.resolved[t]) =>
              /\ \A image \in r.images : image[1] = SpecOf[g].image
              /\ r.vswitches = SpecOf[g].vswitches
              /\ r.securityGroups = SpecOf[g].securityGroups
<1> DEFINE spec == SpecOf[g]
           r == WithTemplate(s, spec, ok)
<1>1. /\ spec.vswitches \in SUBSET VSwitchIds
      /\ spec.securityGroups \in SUBSET SecurityGroupIds
      /\ <<spec.image, 0>> \in Image
  BY DEF VSwitchIds, SecurityGroupIds, Image
<1> HIDE DEF spec
<1> DEFINE selected == {"VSwitchResolved", "SecurityGroupResolved", "ImageResolved"}
           imaged   == [s EXCEPT !.images = {<<spec.image, 0>>}]
           found    == [imaged EXCEPT !.vswitches = spec.vswitches,
                                      !.securityGroups = spec.securityGroups]
           Sound    == /\ r \in StatusType
                       /\ (r.ready \/ \A t \in selected : r.resolved[t]) =>
                            /\ r.images = {<<spec.image, 0>>}
                            /\ r.vswitches = spec.vswitches
                            /\ r.securityGroups = spec.securityGroups
<1>2. /\ imaged \in StatusType
      /\ found \in StatusType
      /\ found.images = {<<spec.image, 0>>}
      /\ found.vswitches = spec.vswitches
      /\ found.securityGroups = spec.securityGroups
  BY <1>1 DEF StatusType
<1>3. \A a \in StatusType, types \in SUBSET selected :
        types # {} => /\ Failed(a, types) \in StatusType
                      /\ ~Failed(a, types).ready
                      /\ \E t \in selected : ~Failed(a, types).resolved[t]
  BY ZenonT(60) DEF Failed, StatusType, Condition
<1>4. \A a \in StatusType :
        /\ Succeeded(a, selected) \in StatusType
        /\ Succeeded(a, selected).images = a.images
        /\ Succeeded(a, selected).vswitches = a.vswitches
        /\ Succeeded(a, selected).securityGroups = a.securityGroups
  BY DEF Succeeded, StatusType, Condition
<1>5. \/ r = Failed(s, selected)
      \/ r = Failed(imaged, {"VSwitchResolved"})
      \/ r = Succeeded(found, selected)
  BY DEF WithTemplate
<1> HIDE DEF r, found, imaged
<1>6. Sound
  <2>1. CASE r = Failed(s, selected)
    BY <1>3, <2>1
  <2>2. CASE r = Failed(imaged, {"VSwitchResolved"})
    BY <1>2, <1>3, <2>2
  <2>3. CASE r = Succeeded(found, selected)
    BY <1>2, <1>4, <2>3
  <2>4. QED
    BY <1>5, <2>1, <2>2, <2>3
<1>7. selected = Condition \ {"RAMRoleResolved"}
  BY DEF Condition
<1>8. QED
  BY <1>6, <1>7 DEF spec, r

(* A reconcile leaves a status that is ready only if it is of the spec that *)
(* was read (status/controller.go:90-138).                                  *)
LEMMA ResolvedOfOneSpec ==
  ASSUME NEW g \in Generation, NEW s \in StatusType, NEW ok \in [Condition -> BOOLEAN]
  PROVE  LET r == Resolved(s, SpecOf[g], ok) IN
         /\ r \in StatusType
         /\ r.ready => \A image \in r.images : OfSpec(g, image, r.vswitches, r.securityGroups)
<1> DEFINE spec  == SpecOf[g]
           found == IF spec.template THEN WithTemplate(s, spec, ok) ELSE WithSelectors(s, spec, ok)
           roled == WithRole(found, spec, ok["RAMRoleResolved"])
           r     == WithReady(roled)
<1>1. /\ found \in StatusType
      /\ (found.ready \/ \A t \in Condition \ {"RAMRoleResolved"} : found.resolved[t]) =>
           /\ \A image \in found.images : image[1] = spec.image
           /\ found.vswitches = spec.vswitches
           /\ found.securityGroups = spec.securityGroups
  BY SelectorsResolve, TemplateResolves
<1>2. spec.role \in Role
  BY DEF Role
<1> HIDE DEF found, spec
<1>3. /\ roled \in StatusType
      /\ roled.images = found.images
      /\ roled.vswitches = found.vswitches
      /\ roled.securityGroups = found.securityGroups
      /\ roled.ready => found.ready
      /\ \A t \in Condition \ {"RAMRoleResolved"} : roled.resolved[t] = found.resolved[t]
  BY <1>1, <1>2 DEF WithRole, Succeeded, Failed, StatusType, Condition
<1> HIDE DEF roled
<1>4. /\ r \in StatusType
      /\ r.images = roled.images
      /\ r.vswitches = roled.vswitches
      /\ r.securityGroups = roled.securityGroups
      /\ r.ready => roled.ready \/ \A t \in Condition : roled.resolved[t]
  BY <1>3 DEF WithReady, StatusType
<1>5. Resolved(s, spec, ok) = r
  BY DEF Resolved, r, roled, found
<1> HIDE DEF r
<1>6. r.ready => /\ \A image \in r.images : image[1] = spec.image
                 /\ r.vswitches = spec.vswitches
                 /\ r.securityGroups = spec.securityGroups
  <2>1. SUFFICES ASSUME r.ready
                 PROVE  found.ready \/ \A t \in Condition \ {"RAMRoleResolved"} : found.resolved[t]
    BY <1>1, <1>3, <1>4
  <2>2. QED
    BY <1>3, <1>4, <2>1
<1>7. QED
  BY <1>4, <1>5, <1>6 DEF spec, OfSpec

--------------------------------------------------------------------------------
(* What is in the list of versions after a write, and after a delivery. *)
LEMMA WrittenVersions ==
  ASSUME versions \in Seq(ObjectType), versions # <<>>, NEW object \in ObjectType,
         Written(object)
  PROVE  /\ versions' \in Seq(ObjectType)
         /\ versions' # <<>>
         /\ Len(versions') = Len(versions) + 1
         /\ \A k \in 1..Len(versions) : versions'[k] = versions[k]
         /\ versions'[Len(versions)+1] = object
         /\ Informed' = Informed
<1>1. /\ versions' \in Seq(ObjectType)
      /\ Len(versions') = Len(versions) + 1
      /\ \A k \in 1..Len(versions) : versions'[k] = versions[k]
      /\ versions'[Len(versions)+1] = object
  BY DEF Written
<1>2. Len(versions) \in Nat /\ Len(versions) # 0
  OBVIOUS
<1>3. versions' # <<>>
  <2>1. Len(versions') # Len(<<>>)
    BY <1>1, <1>2
  <2>2. QED
    BY <2>1
<1>4. Informed' = Informed
  BY <1>1, <1>2, <1>3 DEF Informed
<1>5. QED
  BY <1>1, <1>3, <1>4

LEMMA DeliveredVersions ==
  ASSUME versions \in Seq(ObjectType), Deliver
  PROVE  /\ versions' \in Seq(ObjectType)
         /\ versions' # <<>>
         /\ Len(versions') = Len(versions) - 1
         /\ \A k \in 1..Len(versions') : versions'[k] = versions[k + 1]
         /\ Informed = versions[1]
         /\ Informed' = versions[2]
<1>1. Len(versions) \in Nat /\ Len(versions) > 1 /\ versions' = Tail(versions)
  BY DEF Deliver, Conflict
<1>2. /\ versions' \in Seq(ObjectType)
      /\ Len(versions') = Len(versions) - 1
      /\ \A k \in 1..Len(versions') : versions'[k] = versions[k + 1]
  BY <1>1
<1>3. versions' # <<>>
  <2>1. Len(versions') # Len(<<>>)
    BY <1>1, <1>2
  <2>2. QED
    BY <2>1
<1>4. Informed = versions[1] /\ Informed' = versions[2]
  BY <1>1, <1>2, <1>3 DEF Informed
<1>5. QED
  BY <1>2, <1>3, <1>4

(* Without a conflict the informer's copy is the stored object. *)
LEMMA NoConflictOneVersion ==
  ASSUME Len(versions) \in Nat \ {0}, ~Conflict
  PROVE  Len(versions) = 1
<1> DEFINE n == Len(versions)
<1>1. n \in Nat \ {0} /\ ~(n > 1)
  BY DEF Conflict
<1> HIDE DEF n
<1>2. n = 1
  BY <1>1
<1>3. QED
  BY <1>2 DEF n

(* The informer's copy and the stored object are typed. *)
LEMMA EndsTyped ==
  ASSUME TInv
  PROVE  /\ Len(versions) \in Nat \ {0}
         /\ Informed \in ObjectType /\ Informed = versions[1]
         /\ Stored \in ObjectType
<1>1. versions \in Seq(ObjectType) /\ versions # <<>>
  BY DEF TInv
<1>2. Len(versions) \in Nat \ {0}
  BY <1>1
<1>3. Informed = versions[1] /\ Informed \in ObjectType
  BY <1>1, <1>2 DEF Informed
<1>4. Stored \in ObjectType
  BY <1>1, <1>2 DEF Stored
<1>5. QED
  BY <1>2, <1>3, <1>4

--------------------------------------------------------------------------------
(* The inductive invariant holds at the start. *)
LEMMA InitIInv == Init => IInv
<1> SUFFICES ASSUME Init PROVE IInv
  OBVIOUS
<1> DEFINE object == [gen |-> 1, hash |-> NoHash, status |-> NoStatus]
<1> USE GenerationType
<1>1. NoStatus \in StatusType
  BY DEF NoStatus, StatusType, Role
<1>2. object \in ObjectType
  BY <1>1 DEF ObjectType, HashType
<1>3. /\ versions = <<object>>
      /\ versions \in Seq(ObjectType)
      /\ Len(versions) = 1
      /\ versions[1] = object
      /\ Informed = object
  BY <1>2 DEF Init, Informed
<1>4. versions # <<>>
  <2>1. Len(versions) # Len(<<>>)
    BY <1>3
  <2>2. QED
    BY <2>1
<1>5. instances \in [Claim -> SUBSET InstanceType]
  BY DEF Init
<1>6. TInv
  BY <1>1, <1>3, <1>4, <1>5 DEF Init, TInv
<1>7. GenerationsGrow
  BY <1>3 DEF GenerationsGrow
<1>8. ReadyOfOneSpec /\ WorkOfOneSpec
  BY <1>3 DEF ReadyOfOneSpec, WorkOfOneSpec, OneSpecUpTo, NoStatus, Init
<1>9. ResourcesOfOneSpec /\ RoleOfSpec
  BY DEF ResourcesOfOneSpec, RoleOfSpec, Init
<1>10. QED
  BY <1>6, <1>7, <1>8, <1>9 DEF IInv

(* What the types say depends on what ECS says of the images only for those *)
(* that are published, and an image that is published stays so.             *)
LEMMA ImageTypes ==
  ASSUME TInv, NEW r \in Release, ImagePublished(r) \/ ImageDeprecated(r)
  PROVE  /\ StatusType \subseteq StatusType'
         /\ ObjectType \subseteq ObjectType'
         /\ InstanceType \subseteq InstanceType'
<1>1. \A q \in Release : imageStatus[q] # "Creating" => imageStatus'[q] # "Creating"
  BY DEF TInv, ImagePublished, ImageDeprecated
<1>2. Published \subseteq Published'
  BY <1>1 DEF Published
<1>3. Image \subseteq Image'
  BY <1>2 DEF Image
<1>4. StatusType \subseteq StatusType'
  BY <1>3 DEF StatusType
<1>5. ObjectType \subseteq ObjectType'
  BY <1>4 DEF ObjectType
<1>6. InstanceType \subseteq InstanceType'
  BY <1>3 DEF InstanceType
<1>7. QED
  BY <1>4, <1>5, <1>6

(* A write onto the stored object keeps the invariant when the object is of *)
(* the same or a newer generation and its status is of one spec.            *)
LEMMA WriteKeepsVersions ==
  ASSUME IInv, NEW object \in ObjectType, Written(object),
         object.gen >= Stored.gen, OneSpecUpTo(object.gen, object.status)
  PROVE  GenerationsGrow' /\ ReadyOfOneSpec'
<1> DEFINE n == Len(versions)
<1>1. /\ versions \in Seq(ObjectType) /\ versions # <<>>
      /\ n \in Nat \ {0}
      /\ Stored = versions[n]
      /\ \A k \in 1..n : versions[k] \in ObjectType
  BY EndsTyped DEF IInv, TInv, Stored
<1>2. /\ Len(versions') = n + 1
      /\ \A k \in 1..n : versions'[k] = versions[k]
      /\ versions'[n + 1] = object
  BY <1>1, WrittenVersions
<1>3. \A k \in 1..n : versions[k].gen \in Nat
  BY <1>1, GenerationType DEF ObjectType
<1>4. \A k \in 1..n : versions[k].gen <= object.gen
  <2> TAKE k \in 1..n
  <2>1. versions[k].gen <= versions[n].gen
    BY <1>1 DEF IInv, GenerationsGrow
  <2>2. object.gen \in Nat
    BY GenerationType DEF ObjectType
  <2>3. QED
    BY <1>1, <1>3, <2>1, <2>2
<1>5. GenerationsGrow'
  <2> SUFFICES ASSUME NEW j \in 1..(n + 1), NEW k \in 1..(n + 1), j <= k
               PROVE  versions'[j].gen <= versions'[k].gen
    BY <1>2 DEF GenerationsGrow
  <2>1. CASE k \in 1..n
    <3>1. j \in 1..n
      BY <1>1, <2>1
    <3>2. QED
      BY <1>2, <2>1, <3>1 DEF IInv, GenerationsGrow
  <2>2. CASE k = n + 1 /\ j \in 1..n
    BY <1>2, <1>4, <2>2
  <2>3. CASE k = n + 1 /\ j = n + 1
    <3>1. object.gen \in Nat
      BY GenerationType DEF ObjectType
    <3>2. QED
      BY <1>2, <2>3, <3>1
  <2>4. QED
    BY <1>1, <2>1, <2>2, <2>3
<1>6. ReadyOfOneSpec'
  <2> SUFFICES ASSUME NEW k \in 1..(n + 1)
               PROVE  OneSpecUpTo(versions'[k].gen, versions'[k].status)
    BY <1>2 DEF ReadyOfOneSpec, OneSpecUpTo
  <2>1. CASE k \in 1..n
    <3>1. OneSpecUpTo(versions[k].gen, versions[k].status)
      BY <2>1 DEF IInv, ReadyOfOneSpec, OneSpecUpTo
    <3>2. QED
      BY <1>2, <2>1, <3>1
  <2>2. CASE k = n + 1
    BY <1>2, <2>2
  <2>3. QED
    BY <1>1, <2>1, <2>2
<1>7. QED
  BY <1>5, <1>6

(* What was of one of the first specs is of one of more of them. *)
LEMMA OneSpecWidens ==
  ASSUME NEW n \in Nat, NEW m \in Nat, n <= m, NEW s, OneSpecUpTo(n, s)
  PROVE  OneSpecUpTo(m, s)
<1>1. 1..n \subseteq 1..m
  OBVIOUS
<1>2. QED
  BY <1>1 DEF OneSpecUpTo

(* The steps of the other parties leave the instances alone. *)
LEMMA InstancesKept ==
  ASSUME IInv, UNCHANGED instances
  PROVE  ResourcesOfOneSpec' /\ RoleOfSpec'
BY DEF IInv, ResourcesOfOneSpec, RoleOfSpec

(* A write that changes nothing but the object keeps the types. *)
LEMMA WriteKeepsTypes ==
  ASSUME IInv, NEW object \in ObjectType, Written(object),
         UNCHANGED <<imageStatus, instances, drifted>>,
         statusPc' \in {"idle", "update"}, work' \in StatusType
  PROVE  TInv'
<1>1. versions \in Seq(ObjectType) /\ versions # <<>>
  BY DEF IInv, TInv
<1>2. versions' \in Seq(ObjectType) /\ versions' # <<>>
  BY <1>1, WrittenVersions
<1>3. /\ StatusType' = StatusType
      /\ ObjectType' = ObjectType
      /\ InstanceType' = InstanceType
  BY DEF ObjectType, StatusType, InstanceType, Image, Published
<1>4. QED
  BY <1>2, <1>3 DEF IInv, TInv

LEMMA EditSpecKeeps == ASSUME IInv, EditSpec PROVE IInv'
<1> DEFINE object == [Stored EXCEPT !.gen = @ + 1]
<1>1. /\ Stored \in ObjectType
      /\ Stored.gen \in Nat
      /\ Stored.gen + 1 \in Generation
      /\ versions \in Seq(ObjectType) /\ versions # <<>>
      /\ Len(versions) \in Nat \ {0}
  BY EndsTyped, GenerationType DEF IInv, TInv, EditSpec, ObjectType, Generation
<1>2. /\ object \in ObjectType
      /\ object.gen = Stored.gen + 1
      /\ object.status = Stored.status
      /\ object.gen \in Nat
  BY <1>1 DEF ObjectType
<1>3. OneSpecUpTo(Stored.gen, Stored.status)
  BY <1>1 DEF IInv, ReadyOfOneSpec, OneSpecUpTo, Stored
<1>4. Written(object) /\ UNCHANGED <<imageStatus, statusPc, work, instances, drifted>>
  BY DEF EditSpec
<1> HIDE DEF object
<1>5. OneSpecUpTo(object.gen, object.status)
  BY <1>1, <1>2, <1>3, OneSpecWidens
<1>6. GenerationsGrow' /\ ReadyOfOneSpec'
  BY <1>1, <1>2, <1>4, <1>5, WriteKeepsVersions
<1>7. TInv'
  BY <1>2, <1>4, WriteKeepsTypes DEF IInv, TInv
<1>8. WorkOfOneSpec'
  BY <1>1, <1>2, <1>4, WrittenVersions DEF IInv, WorkOfOneSpec, OneSpecUpTo, OfSpec
<1>9. QED
  BY <1>4, <1>6, <1>7, <1>8, InstancesKept DEF IInv

LEMMA DeliverKeeps == ASSUME IInv, Deliver PROVE IInv'
<1> DEFINE n == Len(versions)
<1>1. /\ n \in Nat /\ n > 1
      /\ versions \in Seq(ObjectType)
      /\ \A k \in 1..n : versions[k] \in ObjectType
  BY EndsTyped DEF IInv, TInv, Deliver, Conflict
<1>2. /\ versions' \in Seq(ObjectType)
      /\ versions' # <<>>
      /\ Len(versions') = n - 1
      /\ \A k \in 1..(n - 1) : versions'[k] = versions[k + 1]
      /\ Informed = versions[1]
      /\ Informed' = versions[2]
  BY <1>1, DeliveredVersions
<1>3. UNCHANGED <<imageStatus, statusPc, work, instances, drifted>>
  BY DEF Deliver
<1>4. TInv'
  <2>1. /\ StatusType' = StatusType
        /\ ObjectType' = ObjectType
        /\ InstanceType' = InstanceType
    BY <1>3 DEF ObjectType, StatusType, InstanceType, Image, Published
  <2>2. QED
    BY <1>2, <1>3, <2>1 DEF IInv, TInv
<1>5. \A k \in 1..(n - 1) : k + 1 \in 1..n
  BY <1>1
<1>6. GenerationsGrow'
  <2> SUFFICES ASSUME NEW j \in 1..(n - 1), NEW k \in 1..(n - 1), j <= k
               PROVE  versions'[j].gen <= versions'[k].gen
    BY <1>2 DEF GenerationsGrow
  <2>1. j + 1 \in 1..n /\ k + 1 \in 1..n /\ j + 1 <= k + 1
    BY <1>1, <1>5
  <2>2. versions[j + 1].gen <= versions[k + 1].gen
    BY <2>1 DEF IInv, GenerationsGrow
  <2>3. QED
    BY <1>2, <2>2
<1>7. ReadyOfOneSpec'
  <2> SUFFICES ASSUME NEW k \in 1..(n - 1)
               PROVE  OneSpecUpTo(versions'[k].gen, versions'[k].status)
    BY <1>2 DEF ReadyOfOneSpec, OneSpecUpTo
  <2>1. OneSpecUpTo(versions[k + 1].gen, versions[k + 1].status)
    BY <1>5 DEF IInv, ReadyOfOneSpec, OneSpecUpTo
  <2>2. QED
    BY <1>2, <2>1
<1>8. WorkOfOneSpec'
  <2>1. 1 \in 1..n /\ 2 \in 1..n /\ 1 <= 2
    BY <1>1
  <2>2. versions[1].gen <= versions[2].gen
    BY <2>1 DEF IInv, GenerationsGrow
  <2>3. versions[1].gen \in Nat /\ versions[2].gen \in Nat
    BY <1>1, <2>1, GenerationType DEF ObjectType
  <2>4. OneSpecUpTo(versions[2].gen, work)
    BY <1>2, <2>2, <2>3, OneSpecWidens DEF IInv, WorkOfOneSpec
  <2>5. QED
    BY <1>2, <1>3, <2>4 DEF WorkOfOneSpec
<1>9. QED
  BY <1>3, <1>4, <1>6, <1>7, <1>8, InstancesKept DEF IInv

LEMMA ImagesKeep ==
  ASSUME IInv, NEW r \in Release, ImagePublished(r) \/ ImageDeprecated(r) PROVE IInv'
<1>1. /\ imageStatus' \in [Release -> {"Creating", "Available", "Deprecated"}]
      /\ UNCHANGED <<versions, statusPc, work, instances, drifted>>
  BY DEF ImagePublished, ImageDeprecated, IInv, TInv
<1>2. /\ StatusType \subseteq StatusType'
      /\ ObjectType \subseteq ObjectType'
      /\ InstanceType \subseteq InstanceType'
  BY ImageTypes DEF IInv
<1>3. versions' \in Seq(ObjectType')
  <2>1. versions \in Seq(ObjectType)
    BY DEF IInv, TInv
  <2>2. /\ Len(versions) \in Nat
        /\ versions \in [1..Len(versions) -> ObjectType]
    BY <2>1
  <2>3. versions \in [1..Len(versions) -> ObjectType']
    BY <1>2, <2>2
  <2>4. QED
    BY <1>1, <2>2, <2>3
<1>4. TInv'
  BY <1>1, <1>2, <1>3 DEF IInv, TInv
<1>5. GenerationsGrow' /\ ReadyOfOneSpec' /\ WorkOfOneSpec'
  BY <1>1 DEF IInv, GenerationsGrow, ReadyOfOneSpec, WorkOfOneSpec, OneSpecUpTo, Informed
<1>6. QED
  BY <1>1, <1>4, <1>5, InstancesKept DEF IInv

(* The controller's own steps leave the object alone. *)
LEMMA VersionsKept ==
  ASSUME IInv, UNCHANGED <<versions, imageStatus>>
  PROVE  /\ GenerationsGrow' /\ ReadyOfOneSpec'
         /\ Informed' = Informed
         /\ StatusType' = StatusType
         /\ ObjectType' = ObjectType
         /\ InstanceType' = InstanceType
<1>1. GenerationsGrow' /\ ReadyOfOneSpec' /\ Informed' = Informed
  BY DEF IInv, GenerationsGrow, ReadyOfOneSpec, OfSpec, Informed
<1>2. /\ StatusType' = StatusType
      /\ ObjectType' = ObjectType
      /\ InstanceType' = InstanceType
  BY DEF ObjectType, StatusType, InstanceType, Image, Published
<1>3. QED
  BY <1>1, <1>2

LEMMA NoStatusIsNotReady ==
  /\ NoStatus \in StatusType
  /\ \A n \in Nat : OneSpecUpTo(n, NoStatus)
<1>1. NoStatus \in StatusType
  BY DEF NoStatus, StatusType, Role
<1>2. \A n \in Nat : OneSpecUpTo(n, NoStatus)
  BY DEF NoStatus, OneSpecUpTo
<1>3. QED
  BY <1>1, <1>2

LEMMA StatusReconcileKeeps ==
  ASSUME IInv, NEW ok \in Outcome, StatusReconcile(ok) PROVE IInv'
<1> DEFINE g == Informed.gen
           s == Resolved(Informed.status, SpecOf[g], ok)
<1>1. ok \in [Condition -> BOOLEAN]
  BY DEF Outcome
<1>2. /\ g \in Generation
      /\ g \in 1..g
      /\ Informed.status \in StatusType
  BY EndsTyped, GenerationType DEF IInv, ObjectType, Generation
<1>3. /\ s \in StatusType
      /\ s.ready => \A image \in s.images : OfSpec(g, image, s.vswitches, s.securityGroups)
  BY <1>1, <1>2, ResolvedOfOneSpec
<1>4. /\ statusPc' = "update"
      /\ work' = s
      /\ UNCHANGED <<versions, imageStatus, instances, drifted>>
  BY DEF StatusReconcile
<1> HIDE DEF s
<1>5. OneSpecUpTo(g, s)
  BY <1>2, <1>3 DEF OneSpecUpTo
<1>6. TInv'
  BY <1>3, <1>4, VersionsKept DEF IInv, TInv
<1>7. WorkOfOneSpec'
  <2>1. Informed'.gen = g
    BY <1>4, VersionsKept
  <2>2. QED
    BY <1>4, <1>5, <2>1 DEF WorkOfOneSpec
<1>8. QED
  BY <1>4, <1>6, <1>7, VersionsKept, InstancesKept DEF IInv

LEMMA UpdateStatusKeeps == ASSUME IInv, UpdateStatus PROVE IInv'
<1> DEFINE object == [Informed EXCEPT !.status = work]
<1>1. /\ Informed \in ObjectType
      /\ Informed.gen \in Nat
      /\ Len(versions) = 1
      /\ Stored = Informed
      /\ versions \in Seq(ObjectType) /\ versions # <<>>
      /\ work \in StatusType
  <2>1. Len(versions) = 1
    <3>1. Len(versions) \in Nat \ {0}
      BY EndsTyped DEF IInv
    <3>2. ~Conflict
      BY DEF UpdateStatus
    <3>3. QED
      BY <3>1, <3>2, NoConflictOneVersion
  <2>2. Stored = Informed
    BY <2>1, EndsTyped DEF IInv, Stored
  <2>3. QED
    BY <2>1, <2>2, EndsTyped, GenerationType DEF IInv, TInv, ObjectType
<1>2. /\ object \in ObjectType
      /\ object.gen = Informed.gen
      /\ object.status = work
  BY <1>1 DEF ObjectType
<1>3. /\ Written(object)
      /\ statusPc' = "idle"
      /\ work' = NoStatus
      /\ UNCHANGED <<imageStatus, instances, drifted>>
  BY DEF UpdateStatus
<1> HIDE DEF object
<1>4. OneSpecUpTo(object.gen, object.status)
  BY <1>2 DEF IInv, WorkOfOneSpec
<1>5. GenerationsGrow' /\ ReadyOfOneSpec'
  <2>1. object.gen >= Stored.gen
    BY <1>1, <1>2
  <2>2. QED
    BY <1>2, <1>3, <1>4, <2>1, WriteKeepsVersions
<1>6. TInv'
  BY <1>2, <1>3, WriteKeepsTypes, NoStatusIsNotReady
<1>7. WorkOfOneSpec'
  <2>1. Informed' = Informed
    BY <1>1, <1>2, <1>3, WrittenVersions
  <2>2. QED
    BY <1>1, <1>3, <2>1, NoStatusIsNotReady DEF WorkOfOneSpec
<1>8. QED
  BY <1>3, <1>5, <1>6, <1>7, InstancesKept DEF IInv

LEMMA UpdateStatusFailedKeeps == ASSUME IInv, UpdateStatusFailed PROVE IInv'
<1>1. /\ statusPc' = "idle"
      /\ work' = NoStatus
      /\ UNCHANGED <<versions, imageStatus, instances, drifted>>
  BY DEF UpdateStatusFailed
<1>2. Informed.gen \in Nat
  BY EndsTyped, GenerationType DEF IInv, ObjectType
<1>3. TInv'
  BY <1>1, VersionsKept, NoStatusIsNotReady DEF IInv, TInv
<1>4. WorkOfOneSpec'
  <2>1. Informed' = Informed
    BY <1>1, VersionsKept
  <2>2. QED
    BY <1>1, <1>2, <2>1, NoStatusIsNotReady DEF WorkOfOneSpec
<1>5. QED
  BY <1>1, <1>3, <1>4, VersionsKept, InstancesKept DEF IInv

LEMMA UpdateHashKeeps == ASSUME IInv, UpdateHash PROVE IInv'
<1> DEFINE hash   == Hash(SpecOf[Informed.gen])
           object == [Informed EXCEPT !.hash = hash]
<1>1. /\ Informed \in ObjectType
      /\ Informed.gen \in Nat
      /\ Len(versions) = 1
      /\ Stored = Informed
      /\ Informed = versions[1]
      /\ versions \in Seq(ObjectType) /\ versions # <<>>
  <2>1. Len(versions) = 1
    <3>1. Len(versions) \in Nat \ {0}
      BY EndsTyped DEF IInv
    <3>2. ~Conflict
      BY DEF UpdateHash
    <3>3. QED
      BY <3>1, <3>2, NoConflictOneVersion
  <2>2. Stored = Informed
    BY <2>1, EndsTyped DEF IInv, Stored
  <2>3. QED
    BY <2>1, <2>2, EndsTyped, GenerationType DEF IInv, TInv, ObjectType
<1>2. hash \in HashType
  BY <1>1 DEF HashType, ObjectType
<1> HIDE DEF hash
<1>3. /\ object \in ObjectType
      /\ object.gen = Informed.gen
      /\ object.status = Informed.status
  BY <1>1, <1>2 DEF ObjectType
<1>4. Written(object) /\ UNCHANGED <<imageStatus, statusPc, work, instances, drifted>>
  BY DEF UpdateHash, hash
<1> HIDE DEF object
<1>5. OneSpecUpTo(object.gen, object.status)
  BY <1>1, <1>3 DEF IInv, ReadyOfOneSpec, OneSpecUpTo
<1>6. GenerationsGrow' /\ ReadyOfOneSpec'
  <2>1. object.gen >= Stored.gen
    BY <1>1, <1>3
  <2>2. QED
    BY <1>3, <1>4, <1>5, <2>1, WriteKeepsVersions
<1>7. TInv'
  BY <1>3, <1>4, WriteKeepsTypes DEF IInv, TInv
<1>8. WorkOfOneSpec'
  BY <1>1, <1>3, <1>4, WrittenVersions DEF IInv, WorkOfOneSpec, OneSpecUpTo, OfSpec
<1>9. QED
  BY <1>4, <1>6, <1>7, <1>8, InstancesKept DEF IInv

LEMMA CreateKeeps == ASSUME IInv, NEW c \in Claim, Create(c) PROVE IInv'
<1> DEFINE spec   == SpecOf[Informed.gen]
           status == Informed.status
<1>1. /\ Informed.gen \in Generation
      /\ Informed.gen \in Nat
      /\ status \in StatusType
      /\ Informed = versions[1]
      /\ 1 \in 1..Len(versions)
  <2>1. Len(versions) \in Nat \ {0}
    BY EndsTyped DEF IInv
  <2>2. 1 \in 1..Len(versions)
    BY <2>1
  <2>3. QED
    BY <2>2, EndsTyped, GenerationType DEF IInv, ObjectType
<1>2. PICK image \in status.images, vswitch \in status.vswitches :
        instances' = [instances EXCEPT ![c] =
          {[gen |-> Informed.gen, hash |-> Hash(spec), image |-> image, vswitch |-> vswitch,
            securityGroups |-> status.securityGroups,
            role |-> IF spec.role = NoRole THEN NoRole ELSE status.role]}]
  BY DEF Create
<1> DEFINE i == [gen |-> Informed.gen, hash |-> Hash(spec), image |-> image, vswitch |-> vswitch,
                 securityGroups |-> status.securityGroups,
                 role |-> IF spec.role = NoRole THEN NoRole ELSE status.role]
<1>3. /\ status.ready
      /\ RoleIsValid(spec, status)
      /\ UNCHANGED <<versions, imageStatus, statusPc, work, drifted>>
  BY DEF Create
<1>4. i \in InstanceType
  <2>1. Hash(spec) \in HashType
    BY <1>1 DEF HashType
  <2>2. /\ image \in Image
        /\ vswitch \in VSwitchIds
        /\ status.securityGroups \in SUBSET SecurityGroupIds
        /\ status.role \in Role
        /\ NoRole \in Role
    BY <1>1 DEF StatusType, Role
  <2>3. QED
    BY <1>1, <2>1, <2>2 DEF InstanceType
<1>5. i.role = SpecOf[i.gen].role
  BY <1>3 DEF RoleIsValid
<1>6. \E g \in 1..i.gen : OfSpec(g, i.image, {i.vswitch}, i.securityGroups)
  <2>1. PICK g \in 1..Informed.gen :
          \A other \in status.images : OfSpec(g, other, status.vswitches, status.securityGroups)
    BY <1>1, <1>3 DEF IInv, ReadyOfOneSpec
  <2>2. OfSpec(g, image, {vswitch}, status.securityGroups)
    BY <2>1 DEF OfSpec
  <2>3. QED
    BY <2>2
<1>7. /\ instances \in [Claim -> SUBSET InstanceType]
      /\ instances' = [instances EXCEPT ![c] = {i}]
  BY <1>2 DEF IInv, TInv
<1> HIDE DEF i
<1>8. /\ instances' \in [Claim -> SUBSET InstanceType]
      /\ instances'[c] = {i}
      /\ \A d \in Claim \ {c} : instances'[d] = instances[d]
  BY <1>4, <1>7
<1>9. TInv'
  <2>1. drifted' \subseteq {d \in Claim : instances'[d] # {}}
    BY <1>3, <1>8 DEF IInv, TInv
  <2>2. QED
    BY <1>3, <1>8, <2>1, VersionsKept DEF IInv, TInv
<1>10. ResourcesOfOneSpec'
  <2> SUFFICES ASSUME NEW d \in Claim, NEW j \in instances'[d]
               PROVE  \E g \in 1..j.gen : OfSpec(g, j.image, {j.vswitch}, j.securityGroups)
    BY DEF ResourcesOfOneSpec, OfSpec
  <2>1. CASE d = c
    BY <1>6, <1>8, <2>1
  <2>2. CASE d # c
    BY <1>8, <2>2 DEF IInv, ResourcesOfOneSpec
  <2>3. QED
    BY <2>1, <2>2
<1>11. RoleOfSpec'
  BY <1>5, <1>8 DEF IInv, RoleOfSpec
<1>12. WorkOfOneSpec'
  BY <1>3, VersionsKept DEF IInv, WorkOfOneSpec, OneSpecUpTo, OfSpec
<1>13. QED
  BY <1>3, <1>9, <1>10, <1>11, <1>12, VersionsKept DEF IInv

LEMMA DriftReconcileKeeps ==
  ASSUME IInv, NEW c \in Claim, DriftReconcile(c) PROVE IInv'
<1>1. /\ instances[c] # {}
      /\ drifted' \in {drifted \cup {c}, drifted \ {c}}
      /\ UNCHANGED <<versions, imageStatus, statusPc, work, instances>>
  BY DEF DriftReconcile
<1>2. TInv'
  <2>1. drifted' \subseteq {d \in Claim : instances'[d] # {}}
    BY <1>1 DEF IInv, TInv
  <2>2. QED
    BY <1>1, <2>1, VersionsKept DEF IInv, TInv
<1>3. WorkOfOneSpec'
  BY <1>1, VersionsKept DEF IInv, WorkOfOneSpec, OneSpecUpTo, OfSpec
<1>4. QED
  BY <1>1, <1>2, <1>3, VersionsKept, InstancesKept DEF IInv

LEMMA ReplaceKeeps == ASSUME IInv, NEW c \in Claim, Replace(c) PROVE IInv'
<1>1. /\ instances' = [instances EXCEPT ![c] = {}]
      /\ drifted' = drifted \ {c}
      /\ UNCHANGED <<versions, imageStatus, statusPc, work>>
  BY DEF Replace
<1>2. /\ instances' \in [Claim -> SUBSET InstanceType]
      /\ instances'[c] = {}
      /\ \A d \in Claim \ {c} : instances'[d] = instances[d]
  BY <1>1 DEF IInv, TInv
<1>3. TInv'
  <2>1. drifted' \subseteq {d \in Claim : instances'[d] # {}}
    BY <1>1, <1>2 DEF IInv, TInv
  <2>2. QED
    BY <1>1, <1>2, <2>1, VersionsKept DEF IInv, TInv
<1>4. ResourcesOfOneSpec' /\ RoleOfSpec'
  BY <1>2 DEF IInv, ResourcesOfOneSpec, RoleOfSpec, OfSpec
<1>5. WorkOfOneSpec'
  BY <1>1, VersionsKept DEF IInv, WorkOfOneSpec, OneSpecUpTo, OfSpec
<1>6. QED
  BY <1>1, <1>3, <1>4, <1>5, VersionsKept DEF IInv

(* No step of any party breaks the invariant. *)
LEMMA NextIInv == IInv /\ [Next]_vars => IInv'
<1> SUFFICES ASSUME IInv, [Next]_vars PROVE IInv'
  OBVIOUS
<1>1. CASE EditSpec
  BY <1>1, EditSpecKeeps
<1>2. CASE Deliver
  BY <1>2, DeliverKeeps
<1>3. CASE \E r \in Release : ImagePublished(r) \/ ImageDeprecated(r)
  BY <1>3, ImagesKeep
<1>4. CASE \E ok \in Outcome : StatusReconcile(ok)
  BY <1>4, StatusReconcileKeeps
<1>5. CASE UpdateStatus
  BY <1>5, UpdateStatusKeeps
<1>6. CASE UpdateStatusFailed
  BY <1>6, UpdateStatusFailedKeeps
<1>7. CASE UpdateHash
  BY <1>7, UpdateHashKeeps
<1>8. CASE \E c \in Claim : Create(c) \/ DriftReconcile(c) \/ Replace(c)
  BY <1>8, CreateKeeps, DriftReconcileKeeps, ReplaceKeeps
<1>9. CASE UNCHANGED vars
  <2>1. UNCHANGED <<versions, imageStatus, statusPc, work, instances, drifted>>
    BY <1>9 DEF vars
  <2>2. TInv'
    BY <2>1, VersionsKept DEF IInv, TInv
  <2>3. WorkOfOneSpec'
    BY <2>1, VersionsKept DEF IInv, WorkOfOneSpec, OneSpecUpTo, OfSpec
  <2>4. QED
    BY <2>1, <2>2, <2>3, VersionsKept, InstancesKept DEF IInv
<1>10. QED
  BY <1>1, <1>2, <1>3, <1>4, <1>5, <1>6, <1>7, <1>8, <1>9 DEF Next

(* The inductive invariant: the object only moves to newer specs, and a     *)
(* status, written or about to be written, that is ready is of one spec.    *)
THEOREM Invariance == Spec => []IInv
<1>1. QED
  BY InitIInv, NextIInv, PTL DEF Spec

(* The variables keep their types, whatever the specs and the lag. *)
THEOREM TypeCorrect == Spec => []TypeOK
<1>1. IInv => TypeOK
  <2> SUFFICES ASSUME IInv PROVE TypeOK
    OBVIOUS
  <2>1. \A s \in StatusType : StatusOK(s)
    BY DEF StatusType, StatusOK, VSwitchIds, SecurityGroupIds
  <2>2. \A k \in 1..Len(versions) : versions[k].gen \in Generation /\ StatusOK(versions[k].status)
    <3> TAKE k \in 1..Len(versions)
    <3>1. versions[k] \in ObjectType
      BY DEF IInv, TInv
    <3>2. QED
      BY <2>1, <3>1 DEF ObjectType
  <2>3. \A c \in Claim : \A i \in instances[c] : i.gen \in Generation /\ i.image \in Image
    <3> TAKE c \in Claim
    <3> TAKE i \in instances[c]
    <3>1. i \in InstanceType
      BY DEF IInv, TInv
    <3>2. QED
      BY <3>1 DEF InstanceType
  <2>4. QED
    BY <2>1, <2>2, <2>3 DEF IInv, TInv, TypeOK
<1>2. QED
  BY <1>1, Invariance, PTL

(* A status that says Ready is of one spec, this one or an earlier one.     *)
(* The resolves may fail alone and the write may be late.                   *)
THEOREM ReadyIsOfOneSpec == Spec => []ReadyOfOneSpec
<1>1. IInv => ReadyOfOneSpec
  BY DEF IInv
<1>2. QED
  BY <1>1, Invariance, PTL

(* What Create launches is of one spec, no newer than the one of its hash,  *)
(* and has the role of that one.                                            *)
THEOREM InstancesAreOfOneSpec == Spec => []InstanceOfOneSpec
<1>1. IInv => InstanceOfOneSpec
  BY DEF IInv, InstanceOfOneSpec
<1>2. QED
  BY <1>1, Invariance, PTL

(* What Create launches has the role of the spec of its hash. *)
THEOREM RoleIsOfSpec == Spec => []RoleOfSpec
<1>1. IInv => RoleOfSpec
  BY DEF IInv
<1>2. QED
  BY <1>1, Invariance, PTL

(* No write, of the status or of the hash, brings an older spec back. *)
THEOREM SpecIsKept == Spec => SpecKept
<1>1. IInv /\ [Next]_vars => [Stored'.gen >= Stored.gen]_vars
  <2> SUFFICES ASSUME IInv, Next PROVE Stored'.gen >= Stored.gen
    OBVIOUS
  <2>1. /\ Stored \in ObjectType /\ Stored.gen \in Nat
        /\ Informed \in ObjectType /\ Informed.gen \in Nat
        /\ versions \in Seq(ObjectType) /\ versions # <<>>
        /\ Len(versions) \in Nat \ {0}
        /\ work \in StatusType
    BY EndsTyped, GenerationType DEF IInv, TInv, ObjectType
  <2>2. \A object \in ObjectType : Written(object) => Stored' = object
    <3> SUFFICES ASSUME NEW object \in ObjectType, Written(object) PROVE Stored' = object
      OBVIOUS
    <3>1. Len(versions') = Len(versions) + 1 /\ versions'[Len(versions) + 1] = object
      BY <2>1, WrittenVersions
    <3>2. QED
      BY <3>1 DEF Stored
  <2>3. ~Conflict => Stored = Informed
    <3>1. ~Conflict => Len(versions) = 1
      BY <2>1, NoConflictOneVersion
    <3>2. QED
      BY <3>1, EndsTyped DEF IInv, Stored
  <2>4. CASE EditSpec
    <3>1. Stored.gen + 1 \in Generation
      BY <2>1, <2>4, GenerationType DEF EditSpec, Generation
    <3>2. [Stored EXCEPT !.gen = @ + 1] \in ObjectType
      BY <2>1, <3>1 DEF ObjectType
    <3>3. Stored' = [Stored EXCEPT !.gen = @ + 1]
      BY <2>2, <2>4, <3>2 DEF EditSpec
    <3>4. QED
      BY <2>1, <3>3 DEF ObjectType
  <2>5. CASE Deliver
    <3>1. Stored' = Stored
      BY <2>1, <2>5, DeliveredVersions DEF Stored, Deliver, Conflict
    <3>2. QED
      BY <2>1, <3>1
  <2>6. CASE UpdateStatus
    <3>1. [Informed EXCEPT !.status = work] \in ObjectType
      BY <2>1 DEF ObjectType
    <3>2. Stored' = [Informed EXCEPT !.status = work] /\ Stored = Informed
      BY <2>2, <2>3, <2>6, <3>1 DEF UpdateStatus
    <3>3. QED
      BY <2>1, <3>2 DEF ObjectType
  <2>7. CASE UpdateHash
    <3> DEFINE hash == Hash(SpecOf[Informed.gen])
    <3>1. hash \in HashType
      BY <2>1 DEF HashType, ObjectType
    <3> HIDE DEF hash
    <3>2. [Informed EXCEPT !.hash = hash] \in ObjectType
      BY <2>1, <3>1 DEF ObjectType
    <3>3. Written([Informed EXCEPT !.hash = hash]) /\ ~Conflict
      BY <2>7 DEF UpdateHash, hash
    <3>4. Stored' = [Informed EXCEPT !.hash = hash] /\ Stored = Informed
      BY <2>2, <2>3, <3>2, <3>3
    <3>5. QED
      BY <2>1, <3>4 DEF ObjectType
  <2>8. CASE UNCHANGED versions
    BY <2>1, <2>8 DEF Stored
  <2>9. QED
    BY <2>4, <2>5, <2>6, <2>7, <2>8 DEF Next, ImagePublished, ImageDeprecated, StatusReconcile,
       UpdateStatusFailed, Create, DriftReconcile, Replace
<1>2. QED
  BY <1>1, Invariance, PTL DEF Spec, SpecKept

================================================================================
