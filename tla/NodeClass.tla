------------------------------- MODULE NodeClass -------------------------------
(***************************************************************************)
(* One ECSNodeClass and the instances launched from it.  Five parties read  *)
(* and write it through the API server:                                     *)
(*                                                                         *)
(*   - the user edits the spec;                                             *)
(*   - the status controller resolves the spec into images, vSwitches,      *)
(*     security groups and a role (pkg/controllers/nodeclass/status);       *)
(*   - the hash controller annotates it (pkg/controllers/nodeclass/hash);   *)
(*   - CloudProvider.Create launches from its status and annotates the      *)
(*     NodeClaim with the hash of its spec;                                 *)
(*   - CloudProvider.IsDrifted compares both with the instance.             *)
(*                                                                         *)
(* All but the user read the copy of the manager's informer, which follows  *)
(* the API server with a delay; a write that starts from an old copy is     *)
(* refused as a conflict.  versions holds the object from the copy of the   *)
(* informer to the one of the API server.                                   *)
(***************************************************************************)
EXTENDS Naturals, Sequences, FiniteSets

CONSTANTS
  SpecOf,       (* the specs the user gives, in order: a sequence of records with *)
                (*   template: resources come from a launch template             *)
                (*   image, vswitches, securityGroups: what the selectors, or    *)
                (*     the template, stand for (image: a family of images)       *)
                (*   role: a RAM role or NoRole                                  *)
                (*   hashed, unhashed: the other fields that Create uses, those  *)
                (*     that are in the hash and those that are not               *)
  NoRole,
  AttachLimit,  (* defaultSecurityGroupAttachLimit: 5                             *)
  Fallible,     (* bound on the resources whose resolve may fail                  *)
  MaxReleases,  (* bound on the images of a family                                *)
  MaxLag,       (* bound on the versions the informer has still to see            *)
  Claim

Generation == 1..Len(SpecOf)
Release    == 1..MaxReleases

ASSUME NodeClassAssumption ==
  /\ SpecOf \in Seq({SpecOf[g] : g \in DOMAIN SpecOf})
  /\ SpecOf # <<>>
  /\ \A g \in Generation : IsFiniteSet(SpecOf[g].securityGroups)
  /\ AttachLimit \in Nat
  /\ Fallible \subseteq {"VSwitchResolved", "SecurityGroupResolved", "ImageResolved", "RAMRoleResolved"}
  /\ MaxReleases \in Nat
  /\ MaxLag \in Nat \ {0}

VARIABLES
  versions,    (* of the ECSNodeClass: the first is the informer's copy, the  *)
               (* last what the API server has                               *)
  imageStatus, (* of the images of every family: what ECS says of each       *)
  statusPc,    (* "idle", or "update": in updateStatus                       *)
  work,        (* the status that updateStatus writes                        *)
  instances,   (* the instances launched for each claim: none or one         *)
  drifted      (* the claims with the condition Drifted                      *)

vars == <<versions, imageStatus, statusPc, work, instances, drifted>>

--------------------------------------------------------------------------------
(* The object. *)

Condition == {"VSwitchResolved", "SecurityGroupResolved", "ImageResolved", "RAMRoleResolved"}

NoStatus ==
  [images |-> {}, vswitches |-> {}, securityGroups |-> {}, role |-> NoRole,
   resolved |-> [t \in Condition |-> FALSE], ready |-> FALSE]

Informed == Head(versions)
Stored   == versions[Len(versions)]

(* A write goes through when nothing was written since the informer's copy. *)
Conflict == Len(versions) > 1
Written(object) == versions' = Append(versions, object)

(* calculateNodeClassHash: the selectors and some of the rest; a launch     *)
(* template and its version are not in it.                                  *)
Hash(spec) ==
  [role |-> spec.role, hashed |-> spec.hashed,
   terms |-> IF spec.template THEN <<>> ELSE <<spec.image, spec.vswitches, spec.securityGroups>>]

NoHash == [role |-> NoRole, hashed |-> "none", terms |-> <<>>]

--------------------------------------------------------------------------------
(* The user, the informer and the publishers of images (external). *)

EditSpec ==
  /\ Stored.gen < Len(SpecOf)
  /\ Len(versions) <= MaxLag
  /\ Written([Stored EXCEPT !.gen = @ + 1])
  /\ UNCHANGED <<imageStatus, statusPc, work, instances, drifted>>

Deliver ==
  /\ Conflict
  /\ versions' = Tail(versions)
  /\ UNCHANGED <<imageStatus, statusPc, work, instances, drifted>>

ImagePublished(r) ==
  /\ imageStatus[r] = "Creating"
  /\ imageStatus' = [imageStatus EXCEPT ![r] = "Available"]
  /\ UNCHANGED <<versions, statusPc, work, instances, drifted>>

ImageDeprecated(r) ==
  /\ imageStatus[r] = "Available"
  /\ imageStatus' = [imageStatus EXCEPT ![r] = "Deprecated"]
  /\ UNCHANGED <<versions, statusPc, work, instances, drifted>>

--------------------------------------------------------------------------------
(* The status controller: Reconcile. *)

(* Mutation: a condition that fails leaves Ready to the other conditions. *)
FailedKeepsReady(s, types) ==
  [s EXCEPT !.resolved = [t \in Condition |-> t \notin types /\ @[t]]]

(* Resolve answered with something, with nothing, or with an error; the     *)
(* last two leave the resources of the status as they were.                 *)
Failed(s, types) ==
  [s EXCEPT !.resolved = [t \in Condition |-> t \notin types /\ @[t]], !.ready = FALSE]

Succeeded(s, types) == [s EXCEPT !.resolved = [t \in Condition |-> t \in types \/ @[t]]]

WithVSwitches(s, spec, ok) ==
  IF ok /\ spec.vswitches # {}
    THEN Succeeded([s EXCEPT !.vswitches = spec.vswitches], {"VSwitchResolved"})
    ELSE Failed(s, {"VSwitchResolved"})

(* validateResolvedSecurityGroupAttachLimit is part of it. *)
WithSecurityGroups(s, spec, ok) ==
  IF ok /\ Cardinality(spec.securityGroups) \in 1..AttachLimit
    THEN Succeeded([s EXCEPT !.securityGroups = spec.securityGroups], {"SecurityGroupResolved"})
    ELSE Failed(s, {"SecurityGroupResolved"})

(* Mutation: the status of an image is not looked at. *)
DescribeAllImages(family) == {<<family, r>> : r \in Release}

(* All the images that are available, on every page, older ones too. *)
DescribeImages(family) == {<<family, r>> : r \in {q \in Release : imageStatus[q] = "Available"}}

WithImages(s, spec, ok) ==
  LET images == DescribeImages(spec.image) IN
  IF ok /\ images # {}
    THEN Succeeded([s EXCEPT !.images = images], {"ImageResolved"})
    ELSE Failed(s, {"ImageResolved"})

(* resolveSelectorResources. *)
WithSelectors(s, spec, ok) ==
  WithImages(WithSecurityGroups(WithVSwitches(s, spec, ok["VSwitchResolved"]),
                                spec, ok["SecurityGroupResolved"]),
             spec, ok["ImageResolved"])

(* resolveLaunchTemplate: GetData yields all three or fails for all three;  *)
(* the image is stored before the vSwitch of the template is resolved.      *)
WithTemplate(s, spec, ok) ==
  LET selected == {"VSwitchResolved", "SecurityGroupResolved", "ImageResolved"}
      imaged   == [s EXCEPT !.images = {<<spec.image, 0>>}] IN
  IF ~ok["ImageResolved"] \/ spec.vswitches = {} \/ spec.securityGroups = {}
    THEN Failed(s, selected)
    ELSE IF ~ok["VSwitchResolved"]
      THEN Failed(imaged, {"VSwitchResolved"})
      ELSE Succeeded([imaged EXCEPT !.vswitches = spec.vswitches,
                                    !.securityGroups = spec.securityGroups], selected)

(* ValidateRole; a spec without a role is always valid. *)
WithRole(s, spec, ok) ==
  IF ok \/ spec.role = NoRole
    THEN Succeeded([s EXCEPT !.role = spec.role], {"RAMRoleResolved"})
    ELSE Failed(s, {"RAMRoleResolved"})

(* isReady: Ready is set when every condition is, and never reset here. *)
WithReady(s) ==
  IF \A t \in Condition : s.resolved[t] THEN [s EXCEPT !.ready = TRUE] ELSE s

Resolved(s, spec, ok) ==
  LET found == IF spec.template THEN WithTemplate(s, spec, ok) ELSE WithSelectors(s, spec, ok)
  IN  WithReady(WithRole(found, spec, ok["RAMRoleResolved"]))

(* Mutation: an ECSNodeClass that is ready needs no reconcile. *)
StatusReconcileOnce(ok) ==
  LET status == Resolved(Informed.status, SpecOf[Informed.gen], ok) IN
  /\ statusPc = "idle"
  /\ ~Informed.status.ready
  /\ status # Informed.status
  /\ statusPc' = "update"
  /\ work' = status
  /\ UNCHANGED <<versions, imageStatus, instances, drifted>>

(* Everything up to updateStatus, which is skipped when nothing changed. *)
StatusReconcile(ok) ==
  LET status == Resolved(Informed.status, SpecOf[Informed.gen], ok) IN
  /\ statusPc = "idle"
  /\ status # Informed.status
  /\ statusPc' = "update"
  /\ work' = status
  /\ UNCHANGED <<versions, imageStatus, instances, drifted>>

(* updateStatus: the status of work goes onto the spec of the moment. *)
UpdateStatus ==
  /\ statusPc = "update"
  /\ ~Conflict
  /\ Written([Informed EXCEPT !.status = work])
  /\ statusPc' = "idle"
  /\ work' = NoStatus
  /\ UNCHANGED <<imageStatus, instances, drifted>>

(* A conflict is tried again five times; that, or any other error, ends it. *)
UpdateStatusFailed ==
  /\ statusPc = "update"
  /\ statusPc' = "idle"
  /\ work' = NoStatus
  /\ UNCHANGED <<versions, imageStatus, instances, drifted>>

--------------------------------------------------------------------------------
(* The hash controller: updateNodeClass, which writes the whole object.  Its *)
(* computeHash leaves out other fields than calculateNodeClassHash does, but *)
(* nobody compares the annotation with that of a NodeClaim.                 *)

(* Mutation: the object is written whatever was written since. *)
UpdateHashForced ==
  /\ Informed.hash # Hash(SpecOf[Informed.gen])
  /\ Len(versions) <= MaxLag + 1
  /\ Written([Informed EXCEPT !.hash = Hash(SpecOf[Informed.gen])])
  /\ UNCHANGED <<imageStatus, statusPc, work, instances, drifted>>

UpdateHash ==
  /\ Informed.hash # Hash(SpecOf[Informed.gen])
  /\ ~Conflict
  /\ Written([Informed EXCEPT !.hash = Hash(SpecOf[Informed.gen])])
  /\ UNCHANGED <<imageStatus, statusPc, work, instances, drifted>>

--------------------------------------------------------------------------------
(* CloudProvider.Create and IsDrifted. *)

(* Mutation: any role that was resolved will do. *)
RoleIsPresent(spec, status) == spec.role = NoRole \/ status.role # NoRole

(* validateRAMRoleForCreate. *)
RoleIsValid(spec, status) == spec.role = NoRole \/ status.role = spec.role

(* One of the images for the architecture, one of the vSwitches of the zone.  The   *)
(* object is read once, at the start, and the instance follows from that    *)
(* copy alone: the launch is one step here, at the time of the read.        *)
Create(c) ==
  LET spec   == SpecOf[Informed.gen]
      status == Informed.status IN
  /\ instances[c] = {}
  /\ status.ready
  /\ status.securityGroups # {}
  /\ RoleIsValid(spec, status)
  /\ \E image \in status.images, vswitch \in status.vswitches :
       instances' = [instances EXCEPT ![c] =
         {[gen |-> Informed.gen, hash |-> Hash(spec), image |-> image, vswitch |-> vswitch,
           securityGroups |-> status.securityGroups,
           role |-> IF spec.role = NoRole THEN NoRole ELSE status.role]}]
  /\ UNCHANGED <<versions, imageStatus, statusPc, work, drifted>>

(* Mutation: the hash tells it all. *)
IsDriftedByHash(i) == i.hash # Hash(SpecOf[Informed.gen])

IsDrifted(i) ==
  \/ i.hash # Hash(SpecOf[Informed.gen])
  \/ i.image \notin Informed.status.images
  \/ i.vswitch \notin Informed.status.vswitches
  \/ i.securityGroups # Informed.status.securityGroups

(* Core sets or clears the condition by the answer; an error changes nothing. *)
DriftReconcile(c) ==
  /\ instances[c] # {}
  /\ drifted' = IF \E i \in instances[c] : IsDrifted(i) THEN drifted \cup {c} ELSE drifted \ {c}
  /\ UNCHANGED <<versions, imageStatus, statusPc, work, instances>>

(* External: core replaces a drifted node, as budgets allow. *)
Replace(c) ==
  /\ c \in drifted
  /\ instances' = [instances EXCEPT ![c] = {}]
  /\ drifted' = drifted \ {c}
  /\ UNCHANGED <<versions, imageStatus, statusPc, work>>

--------------------------------------------------------------------------------
AllOk   == [t \in Condition |-> TRUE]
Outcome == {[t \in Condition |-> t \notin failing] : failing \in SUBSET Fallible}

Init ==
  /\ versions = <<[gen |-> 1, hash |-> NoHash, status |-> NoStatus]>>
  /\ imageStatus = [r \in Release |-> IF r = 1 THEN "Available" ELSE "Creating"]
  /\ statusPc = "idle"
  /\ work = NoStatus
  /\ instances = [c \in Claim |-> {}]
  /\ drifted = {}

Next ==
  \/ EditSpec \/ Deliver
  \/ \E r \in Release : ImagePublished(r) \/ ImageDeprecated(r)
  \/ \E ok \in Outcome : StatusReconcile(ok)
  \/ UpdateStatus \/ UpdateStatusFailed \/ UpdateHash
  \/ \E c \in Claim : Create(c) \/ DriftReconcile(c) \/ Replace(c)

Spec == Init /\ [][Next]_vars

(***************************************************************************)
(* Fairness.  The informer follows the API server; the status controller    *)
(* runs again after an error, after a while and after every event, and so   *)
(* do the hash controller and core's drift controller; a write that is      *)
(* tried again and again succeeds at last.  Users, launches and             *)
(* replacements need not happen.                                            *)
(***************************************************************************)
Fairness ==
  /\ WF_vars(Deliver)
  /\ WF_vars(StatusReconcile(AllOk))
  /\ WF_vars(UpdateStatus \/ UpdateStatusFailed)
  /\ SF_vars(UpdateStatus)
  /\ SF_vars(UpdateHash)
  /\ \A c \in Claim : WF_vars(DriftReconcile(c))

FairSpec == Spec /\ Fairness

--------------------------------------------------------------------------------
(* Properties. *)

(* The images there are; 0 stands for the one a launch template names. *)
Published == {r \in Release : imageStatus[r] # "Creating"}
Image == {<<SpecOf[g].image, r>> : g \in Generation, r \in {0} \cup Published}
Role  == {SpecOf[g].role : g \in Generation} \cup {NoRole}

StatusOK(s) ==
  /\ s.images \subseteq Image
  /\ s.vswitches \subseteq UNION {SpecOf[g].vswitches : g \in Generation}
  /\ s.securityGroups \subseteq UNION {SpecOf[g].securityGroups : g \in Generation}
  /\ s.role \in Role
  /\ s.resolved \in [Condition -> BOOLEAN]
  /\ s.ready \in BOOLEAN

TypeOK ==
  /\ versions # <<>>
  /\ \A k \in 1..Len(versions) : versions[k].gen \in Generation /\ StatusOK(versions[k].status)
  /\ imageStatus \in [Release -> {"Creating", "Available", "Deprecated"}]
  /\ statusPc \in {"idle", "update"}
  /\ StatusOK(work)
  /\ \A c \in Claim : \A i \in instances[c] : i.gen \in Generation /\ i.image \in Image
  /\ drifted \subseteq {c \in Claim : instances[c] # {}}

(* The image, the vSwitches and the security groups are those of one spec. *)
OfSpec(g, image, vswitches, securityGroups) ==
  /\ image[1] = SpecOf[g].image
  /\ vswitches \subseteq SpecOf[g].vswitches
  /\ securityGroups = SpecOf[g].securityGroups

(* A status that says Ready is not a mixture: all of its resources were     *)
(* resolved from one spec, this one or an earlier one, although each of     *)
(* them may fail alone and is then left as it was, and although updateStatus *)
(* writes onto whatever spec is there (status/controller.go:90-398).        *)
ReadyOfOneSpec ==
  \A k \in 1..Len(versions) :
    LET s == versions[k].status IN
    s.ready => \E g \in 1..versions[k].gen :
                 \A image \in s.images : OfSpec(g, image, s.vswitches, s.securityGroups)

(* Nor is an instance, and the hash it is annotated with is of that spec or *)
(* of a later one, never of an earlier one (cloudprovider.go:137-226).      *)
ResourcesOfOneSpec ==
  \A c \in Claim : \A i \in instances[c] :
    \E g \in 1..i.gen : OfSpec(g, i.image, {i.vswitch}, i.securityGroups)

(* An instance has the role of the spec its hash is of: "status may be      *)
(* stale" (cloudprovider.go:1081).                                          *)
RoleOfSpec ==
  \A c \in Claim : \A i \in instances[c] : i.role = SpecOf[i.gen].role

(* So an instance is no mixture, whatever Create reads from the spec and    *)
(* whatever from the status, and its hash is never ahead of what it is.     *)
InstanceOfOneSpec == ResourcesOfOneSpec /\ RoleOfSpec

(* The hash controller writes the whole object, and the status controller a *)
(* status computed before: neither brings an older spec back.               *)
SpecKept == [][Stored'.gen >= Stored.gen]_vars

(* The images that a spec asks for. *)
ImagesOf(spec) == IF spec.template THEN {<<spec.image, 0>>} ELSE DescribeImages(spec.image)

(* An instance can be launched from it. *)
Launchable(spec) ==
  /\ spec.vswitches # {}
  /\ Cardinality(spec.securityGroups) \in 1..AttachLimit
  /\ ImagesOf(spec) # {}

(* The resolves fail no more.  A reconcile that starts from an old copy and *)
(* fails for one resource puts the old one back, so without this the status *)
(* need not settle.                                                         *)
ResolvesRecover == <>[][\A ok \in Outcome \ {AllOk} : ~StatusReconcile(ok)]_vars

(* When the user is done with a spec that can be launched, and the resolves *)
(* fail no more, the status has the resources of the spec for good, whatever *)
(* old results were still on their way: every image that is available by    *)
(* then, and none that was deprecated (status/controller.go:90-398).        *)
StatusSettles ==
  ResolvesRecover =>
  <>[](LET spec == SpecOf[Stored.gen] IN
       Launchable(spec) =>
       /\ Stored.status.images = ImagesOf(spec)
       /\ Stored.status.vswitches = spec.vswitches
       /\ Stored.status.securityGroups = spec.securityGroups)

(* An instance that is not what the spec asks for.  An older image that is *)
(* still available is as good as the newest one.                           *)
Stale(i) ==
  LET spec == SpecOf[Stored.gen] IN
  \/ i.image \notin ImagesOf(spec)
  \/ i.vswitch \notin spec.vswitches
  \/ i.securityGroups # spec.securityGroups
  \/ i.role # spec.role
  \/ SpecOf[i.gen].hashed # spec.hashed

(* Then also an instance is drifted for good if it is not what the spec     *)
(* asks for, even when its hash is newer than the status it was launched    *)
(* from, and is not drifted otherwise (cloudprovider.go:653-698).           *)
DriftSettles ==
  ResolvesRecover =>
  <>[](Launchable(SpecOf[Stored.gen]) =>
         \A c \in Claim : \A i \in instances[c] : c \in drifted <=> Stale(i))

================================================================================
