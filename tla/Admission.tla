-------------------------------- MODULE Admission --------------------------------
(***************************************************************************)
(* What becomes of an ECSNodeClass between a user and the API server        *)
(* (pkg/apis/v1alpha1): the defaults of its schema, the mutating webhook,   *)
(* the rules of its schema, the validating webhook; and what CloudProvider  *)
(* .Create makes of its disks afterwards.                                   *)
(*                                                                         *)
(* In the program webhooks is FALSE: nothing calls SetupWebhookWithManager,  *)
(* and what it builds, For(nc).Complete(), has neither a defaulter nor a    *)
(* validator.  TRUE is the chain that the +kubebuilder:webhook markers       *)
(* describe.  Default and the Validate functions read and change their      *)
(* receiver and never look at the object they are given; they are modelled  *)
(* with the receiver as the object, which is how the tests call them.       *)
(*                                                                         *)
(* A field that may be absent is a set of none or one.  A term is [has, bad, *)
(* many]: its fields, those that are not well formed, and whether it has    *)
(* more than twenty tags.                                                   *)
(***************************************************************************)
EXTENDS Naturals, Sequences

CONSTANTS
  Specs,         (* the specs users submit                                    *)
  MaxTerms,      (* of a list of selector terms, 30                           *)
  MaxDataDisks   (* 16                                                        *)

AtMostOne(field) == \A x, y \in field : x = y

IsDisk(d) ==
  /\ d = [category |-> d.category, size |-> d.size, level |-> d.level,
          encrypted |-> d.encrypted, kms |-> d.kms, delete |-> d.delete]
  /\ AtMostOne(d.category)
  /\ AtMostOne(d.size) /\ d.size \subseteq Nat
  /\ d.encrypted \cup d.delete \subseteq BOOLEAN

IsMetadata(m) ==
  m = [tokens |-> m.tokens, hops |-> m.hops, endpoint |-> m.endpoint] /\ m.hops \subseteq Nat

(* A spec has all fields; the rules on those that are not here are its own.  *)
IsSpec(s) ==
  /\ s = [field \in DOMAIN s |-> s[field]]
  /\ {"systemDisk", "dataDisks", "storePolicy", "metadata", "preference", "template"} \subseteq DOMAIN s
  /\ AtMostOne(s.systemDisk) /\ \A d \in s.systemDisk : IsDisk(d)
  /\ s.dataDisks = [i \in DOMAIN s.dataDisks |-> s.dataDisks[i]]
  /\ \A i \in DOMAIN s.dataDisks : IsDisk(s.dataDisks[i])
  /\ \A m \in s.metadata : IsMetadata(m)

AdmissionAssumption ==
  MaxTerms \in Nat /\ MaxDataDisks \in Nat /\ \A s \in Specs : IsSpec(s)

VARIABLES
  webhooks,      (* whether the API server calls the webhooks                 *)
  stored,        (* the spec in the API server: none or one                   *)
  call           (* the request on its way, and the spec as it was sent       *)

vars == <<webhooks, stored, call>>

Selectors == {"vSwitches", "securityGroups", "images"}
OrElse(field, value) == IF field = {} THEN {value} ELSE field

--------------------------------------------------------------------------------
(* Disks: disks_normalize.go. *)

Essd == "cloud_essd"
Levels == {"PL0", "PL1", "PL2", "PL3"}

Categories ==
  {Essd, "cloud_essd_entry", "cloud_efficiency", "cloud_pperf", "cloud_sperf", "cloud_ssd", "cloud_auto",
   "ephemeral_ssd", "cloud", "cloud_essd_xc0", "cloud_essd_xc1",
   "elastic_ephemeral_disk_premium", "elastic_ephemeral_disk_standard"}

(* The sizes of each category; cloud_essd_xc1 is known and has none. *)
DiskSizes ==
  [c \in Categories |->
     CASE c \in {Essd, "cloud_essd_entry", "cloud_efficiency", "cloud_pperf", "cloud_sperf", "cloud_ssd"} -> 20..32768
       [] c = "cloud_auto" -> 40..32768
       [] c = "ephemeral_ssd" -> 5..800
       [] c = "cloud" -> 5..2000
       [] c = "cloud_essd_xc0" -> 40..2048
       [] c = "cloud_essd_xc1" -> {}
       [] c \in {"elastic_ephemeral_disk_premium", "elastic_ephemeral_disk_standard"} -> 64..8192]

SizeFits(category, size) == category \in DOMAIN DiskSizes /\ size \in DiskSizes[category]

LevelOf(d) == IF d.category = {Essd} THEN OrElse(d.level, "PL0") ELSE d.level

(* A disk as it is launched: encryption and deletion with the instance only  *)
(* where they differ from what ECS does anyway.                             *)
NormalDisk(d) ==
  [d EXCEPT !.level = LevelOf(d), !.encrypted = @ \ {FALSE}, !.delete = @ \ {TRUE}]

DiskNormalizes(d) ==
  /\ \E c \in d.category, s \in d.size : SizeFits(c, s)
  /\ d.level # {} => d.category = {Essd} /\ d.level \subseteq Levels
  /\ d.kms # {} => TRUE \in d.encrypted

BareDisk == [category |-> {}, size |-> {}, level |-> {}, encrypted |-> {}, kms |-> {}, delete |-> {}]

WithSize(d, size) == [d EXCEPT !.category = OrElse(@, Essd), !.size = OrElse(@, size)]
SystemDisk(s) ==
  WithSize(IF s.systemDisk = {} THEN BareDisk ELSE CHOOSE d \in s.systemDisk : TRUE, 40)

Normalizes(s) ==
  /\ s.storePolicy \subseteq {"RAID0"}
  /\ DiskNormalizes(SystemDisk(s))
  /\ \A i \in DOMAIN s.dataDisks : DiskNormalizes(s.dataDisks[i])

NormalizeDisks(s) ==
  [system |-> NormalDisk(SystemDisk(s)),
   data |-> [i \in DOMAIN s.dataDisks |-> NormalDisk(s.dataDisks[i])],
   storePolicy |-> s.storePolicy]

--------------------------------------------------------------------------------
(* The schema: the markers of ecsnodeclass_types.go, as the API server       *)
(* applies them.                                                            *)

DefaultDataDisk(d) == [d EXCEPT !.delete = OrElse(@, TRUE)]
DefaultMetadata(m) ==
  [tokens |-> OrElse(m.tokens, "optional"), hops |-> OrElse(m.hops, 1),
   endpoint |-> OrElse(m.endpoint, "enabled")]

SchemaDefaults(s, size) ==
  [s EXCEPT !.systemDisk = {WithSize(d, size) : d \in s.systemDisk},
            !.dataDisks = [i \in DOMAIN s.dataDisks |-> DefaultDataDisk(s.dataDisks[i])],
            !.metadata = {DefaultMetadata(m) : m \in s.metadata}]

(* Mutation: a system disk without a size is of the smallest. *)
SchemaDefaultSmall(s) == SchemaDefaults(s, 20)

SchemaDefault(s) == SchemaDefaults(s, 40)

(* Mutation: one bound differs from that of the other table. *)
RuleSizesApart == [DiskSizes EXCEPT !["cloud_auto"] = 20..32768]

(* The rules have a table of their own. *)
RuleSizes ==
  [c \in Categories |->
     CASE c \in {Essd, "cloud_essd_entry", "cloud_efficiency", "cloud_pperf", "cloud_sperf", "cloud_ssd"} -> 20..32768
       [] c = "cloud_auto" -> 40..32768
       [] c = "ephemeral_ssd" -> 5..800
       [] c = "cloud" -> 5..2000
       [] c = "cloud_essd_xc0" -> 40..2048
       [] c = "cloud_essd_xc1" -> {}
       [] c \in {"elastic_ephemeral_disk_premium", "elastic_ephemeral_disk_standard"} -> 64..8192]

SystemDiskRules(d) ==
  /\ \A c \in d.category : c \in DOMAIN RuleSizes /\ d.size \subseteq RuleSizes[c]
  /\ d.level # {} => d.category = {Essd} /\ d.level \subseteq Levels

DataDiskRules(d) ==
  /\ d.category # {} /\ d.size # {}
  /\ \A c \in d.category : c \in DOMAIN RuleSizes /\ d.size \subseteq RuleSizes[c]
  /\ d.level # {} => d.category = {Essd} /\ d.level \subseteq Levels

TermRules(t) == ~t.many

SelectorRules(s) ==
  \A f \in Selectors :
    /\ s.template = {} => s[f] # <<>>
    /\ Len(s[f]) <= MaxTerms
    /\ \A i \in DOMAIN s[f] : TermRules(s[f][i])

MetadataRules(m) ==
  /\ m.tokens \subseteq {"optional", "required"}
  /\ m.hops \subseteq 1..64
  /\ m.endpoint \subseteq {"enabled", "disabled"}

KubeletRules(k) == k.high \cup k.low \subseteq 0..100

SchemaValid(s) ==
  /\ SelectorRules(s)
  /\ \A d \in s.systemDisk : SystemDiskRules(d)
  /\ \A i \in DOMAIN s.dataDisks : DataDiskRules(s.dataDisks[i])
  /\ \A m \in s.metadata : MetadataRules(m)
  /\ \A k \in s.kubelet : KubeletRules(k)

--------------------------------------------------------------------------------
(* The validating webhook: ecsnodeclass_validation.go. *)

(* Tags with an empty key or value are not well formed. *)
ValidTags(term, limit) == "tags" \notin term.bad /\ (limit => ~term.many)

ValidID(term) == "id" \notin term.bad

ValidTerms(terms) == terms # <<>> /\ Len(terms) <= MaxTerms

ValidVSwitch(t) ==
  /\ t.has # {}
  /\ "id" \in t.has => t.has = {"id"}
  /\ ValidTags(t, TRUE) /\ ValidID(t)

ValidSecurityGroup(t) ==
  /\ t.has # {}
  /\ t.has \cap {"id", "name"} # {} => t.has = {"id"} \/ t.has = {"name"}
  /\ ValidTags(t, FALSE) /\ ValidID(t)

ValidImage(t) ==
  /\ t.has \ {"imageOwnerID"} # {}
  /\ "id" \in t.has => t.has = {"id"}
  /\ ValidTags(t, TRUE) /\ ValidID(t)
  /\ t.bad \cap {"imageOwnerAlias", "imageOwnerID"} = {}

(* A launch template is alone; the role, a role's name and no ARN.          *)
ValidTemplate(s) ==
  /\ s.version # {} => s.template # {} /\ \A v \in s.version : v > 0
  /\ s.template # {} =>
       /\ s.template = {"wellFormed"}
       /\ \A f \in Selectors : s[f] = <<>>
       /\ s.systemDisk = {} /\ s.dataDisks = <<>> /\ s.userData = {}
       /\ s.spotStrategy = {} /\ s.spotLimit = {}

Restricted == {"managed-by", "cluster-id", "nodepool", "nodeclaim", "max-pods", "kubernetes.io/cluster"}
UserTags(s) == s.tags \cap Restricted = {}

ValidRole(s) == s.role \subseteq {"wellFormed"}

ValidSystemDisk(s) ==
  \A d \in s.systemDisk :
    /\ \E c \in d.category : \A size \in OrElse(d.size, 40) : SizeFits(c, size)
    /\ d.level \subseteq Levels

ValidDataDisks(s) ==
  /\ Len(s.dataDisks) <= MaxDataDisks
  /\ \A i \in DOMAIN s.dataDisks :
       /\ \E c \in s.dataDisks[i].category, size \in s.dataDisks[i].size : SizeFits(c, size)
       /\ s.dataDisks[i].level \subseteq Levels

ValidSpot(s) ==
  /\ s.spotStrategy \subseteq {"SpotAsPriceGo", "SpotWithPriceLimit"}
  /\ "SpotWithPriceLimit" \in s.spotStrategy => s.spotLimit # {}
  /\ \A limit \in s.spotLimit : limit > 0

ValidReservation(s) ==
  /\ s.preference \subseteq {"open", "target", "none"}
  /\ \A i \in DOMAIN s.reservations :
       s.reservations[i].has \in {{"id"}, {"tags"}} /\ ValidID(s.reservations[i])

ValidMetadata(s) ==
  \A m \in s.metadata :
    m.tokens # {} /\ MetadataRules(m)

ValidKubelet(s) ==
  \A k \in s.kubelet : KubeletRules(k) /\ \A high \in k.high, low \in k.low : low <= high

Validate(s) ==
  /\ UserTags(s)
  /\ ValidTemplate(s)
  /\ s.template = {} =>
       /\ ValidTerms(s.vSwitches) /\ \A i \in DOMAIN s.vSwitches : ValidVSwitch(s.vSwitches[i])
       /\ ValidTerms(s.securityGroups) /\ \A i \in DOMAIN s.securityGroups : ValidSecurityGroup(s.securityGroups[i])
       /\ ValidTerms(s.images) /\ \A i \in DOMAIN s.images : ValidImage(s.images[i])
       /\ ValidRole(s)
       /\ ValidSystemDisk(s) /\ ValidDataDisks(s) /\ Normalizes(s)
       /\ ValidSpot(s) /\ ValidReservation(s) /\ ValidMetadata(s) /\ ValidKubelet(s)

--------------------------------------------------------------------------------
(* The mutating webhook: ecsnodeclass_webhook.go. *)

WebhookDefaults(s, disk) ==
  [s EXCEPT !.systemDisk = {disk},
            !.metadata = {[m EXCEPT !.tokens = OrElse(@, "optional"), !.hops = OrElse(@, 1)] : m \in s.metadata},
            !.preference = OrElse(@, "open")]

(* Mutation: only a system disk that is there gets its performance level. *)
DefaultWithoutLevel(s) ==
  LET disk == SystemDisk(s)
  IN WebhookDefaults(s, IF s.systemDisk = {} THEN disk ELSE [disk EXCEPT !.level = LevelOf(disk)])

(* s is the receiver of Default. *)
Default(s) ==
  LET disk == SystemDisk(s) IN WebhookDefaults(s, [disk EXCEPT !.level = LevelOf(disk)])

--------------------------------------------------------------------------------
(* A request to create or to update the node class, at the stages of the API *)
(* server.  No field is immutable.                                          *)

Idle == [at |-> "idle"]
Goes(at, request) == call' = [call EXCEPT !.at = at, !.request = request]

(* A user submits a spec, or what the API server returned for one. *)
Submit(s) ==
  /\ call.at = "idle"
  /\ call' = [at |-> "defaulted", sent |-> s, request |-> SchemaDefault(s)]
  /\ UNCHANGED <<webhooks, stored>>

MutatingWebhook ==
  /\ call.at = "defaulted"
  /\ IF ~webhooks THEN Goes("mutated", call.request)
     ELSE IF Normalizes(call.request) THEN Goes("mutated", Default(call.request))
     ELSE Goes("rejected", call.request)
  /\ UNCHANGED <<webhooks, stored>>

SchemaCheck ==
  /\ call.at = "mutated"
  /\ Goes(IF SchemaValid(call.request) THEN "valid" ELSE "rejected", call.request)
  /\ UNCHANGED <<webhooks, stored>>

ValidatingWebhook ==
  /\ call.at = "valid"
  /\ IF webhooks => Validate(call.request)
     THEN Goes("admitted", call.request) /\ stored' = {call.request}
     ELSE Goes("rejected", call.request) /\ UNCHANGED stored
  /\ UNCHANGED webhooks

Respond ==
  /\ call.at \in {"admitted", "rejected"}
  /\ call' = Idle
  /\ UNCHANGED <<webhooks, stored>>

Init == webhooks \in BOOLEAN /\ stored = {} /\ call = Idle

Next ==
  \/ \E s \in Specs \cup stored : Submit(s)
  \/ MutatingWebhook \/ SchemaCheck \/ ValidatingWebhook \/ Respond

Spec == Init /\ [][Next]_vars

--------------------------------------------------------------------------------
(* Properties. *)

(* The variables have their types. *)
TypeOK ==
  /\ webhooks \in BOOLEAN
  /\ call.at \in {"idle", "defaulted", "mutated", "valid", "admitted", "rejected"}
  /\ call.at # "idle" => /\ call = [at |-> call.at, sent |-> call.sent, request |-> call.request]
                         /\ IsSpec(call.sent) /\ IsSpec(call.request)
  /\ \A s \in stored : IsSpec(s)

(* What the API server returned for a node class can be submitted again: no *)
(* step rejects or changes it, whichever of them added the defaults.        *)
Reappliable ==
  \A s \in stored : call.at # "idle" /\ call.sent = s => call.at # "rejected" /\ call.request = s

(* The three sets of defaults agree: those of the schema and of the webhook  *)
(* do not change the disks that a launch makes of the spec that was sent.   *)
DisksAsSent ==
  call.at = "admitted" => NormalizeDisks(call.request) = NormalizeDisks(call.sent)

(* What is stored can be launched, the two tables of sizes and the two sets *)
(* of rules notwithstanding: without the webhook, but for a key without     *)
(* encryption and a store policy other than RAID0, which no rule looks at.  *)
StoredCanLaunch ==
  \A s \in stored : s.template = {} =>
    \/ Normalizes(s)
    \/ /\ ~webhooks
       /\ \/ ~(s.storePolicy \subseteq {"RAID0"})
          \/ \E d \in s.systemDisk \cup {s.dataDisks[i] : i \in DOMAIN s.dataDisks} :
               d.kms # {} /\ TRUE \notin d.encrypted

--------------------------------------------------------------------------------
(* The inductive invariant behind them: what comes of a spec that was sent,  *)
(* and the specs that come through as they are.                             *)

Final(s) == IF webhooks THEN Default(SchemaDefault(s)) ELSE SchemaDefault(s)

Stable(s) ==
  /\ SchemaDefault(s) = s /\ SchemaValid(s)
  /\ webhooks => Normalizes(s) /\ Default(s) = s /\ Validate(s)

IInv ==
  /\ \A s \in stored : Stable(s)
  /\ call.at = "defaulted" => call.request = SchemaDefault(call.sent)
  /\ call.at \in {"mutated", "valid", "admitted"} =>
       call.request = Final(call.sent) /\ (webhooks => Normalizes(SchemaDefault(call.sent)))
  /\ call.at \in {"valid", "admitted"} => SchemaValid(call.request)
  /\ call.at = "rejected" => ~Stable(call.sent)

================================================================================
