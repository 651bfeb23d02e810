--------------------------- MODULE InstanceLifecycle ---------------------------
(***************************************************************************)
(* The life of the ECS instances behind the NodeClaims of a cluster.  Three *)
(* processes of the operator call ECS about the same instance:              *)
(*                                                                         *)
(*   - the worker of the claim: CloudProvider.Create and CloudProvider.Delete, *)
(*     driven by the lifecycle controller of Karpenter core (external);     *)
(*   - the tagging controller (pkg/controllers/nodeclaim/tagging);          *)
(*   - the garbage collector (pkg/controllers/nodeclaim/garbagecollection). *)
(*                                                                         *)
(* Every call to ECS or to the API server is a step of its own, so the      *)
(* others may move between two calls of one operation; each call may fail;  *)
(* RunInstances and DeleteInstances may take effect and lose their answer;  *)
(* the operator may restart and lose whatever it held in memory.            *)
(*                                                                         *)
(* Instances are numbered in the order DescribeInstances returns them, tags *)
(* in the sorted order of their keys.                                       *)
(***************************************************************************)
EXTENDS Naturals, FiniteSets

CONSTANTS
  Claim,              (* the names of the NodeClaims                         *)
  NumInstances,       (* how many instances ECS can ever create: bounds the  *)
                      (* number of launches                                  *)
  NumTags,            (* how many tags BuildInstanceTags yields              *)
  ManagedBy,          (* the rank of the key karpenter.sh/managed-by         *)
  MaxTagsPerRequest,  (* tags one ECS request may carry: 20 in the code      *)
  PageSize,           (* instances in a page of DescribeInstances: 100       *)
  MaxRestarts         (* bound on the restarts of the operator               *)

ASSUME ConstantsAssumption ==
  /\ NumInstances \in Nat
  /\ NumTags \in Nat
  /\ ManagedBy \in 1..NumTags
  /\ MaxTagsPerRequest \in Nat \ {0}
  /\ PageSize \in Nat \ {0}
  /\ MaxRestarts \in Nat

Instance   == 1..NumInstances
Tag        == 1..NumTags
NoInstance == 0        (* an empty provider ID *)

VARIABLES
  (* ECS *)
  ecs,        (* the state of each instance                                 *)
  ecsTags,    (* the tags each instance carries                             *)
  (* the API server *)
  claim,      (* "absent", "live", "deleting" (deletionTimestamp), "removed"*)
  providerID, (* Status.ProviderID of each claim                            *)
  tagged,     (* the claims annotated AnnotationInstanceTagged = "true"     *)
  aged,       (* the claims older than creationProtectionDuration           *)
  nodes,      (* Spec.ProviderID of each Node; NoInstance is the Node of a  *)
              (* machine that sets none, such as a virtual kubelet          *)
  (* the worker of each claim *)
  pc,         (* "idle", "create" (in Create), "describe" (in Delete)       *)
  launched,   (* the instance the running Create has started                *)
  deferred,   (* the tags that Create has still to apply                    *)
  (* the tagging controller *)
  tagging,    (* the claims whose reconcile is past its Get                 *)
  missing,    (* the tags that reconcile has still to apply                 *)
  (* the garbage collector *)
  gcPc,       (* "idle", "list", "nodes", "sweep"                           *)
  gcClaims,   (* the claims of its NodeClaimList it has still to look at    *)
  gcProvider, (* their Status.ProviderID in that list                       *)
  gcPage,     (* the next page of the listing of instances                  *)
  gcListed,   (* the instances the listing has returned so far              *)
  gcNodes,    (* its NodeList                                               *)
  gcRecent,   (* less than a minute has passed since lastRun                *)
  restarts

ecsVars    == <<ecs, ecsTags>>
apiVars    == <<claim, providerID, tagged, aged, nodes>>
workerVars == <<pc, launched, deferred>>
tagVars    == <<tagging, missing>>
gcVars     == <<gcPc, gcClaims, gcProvider, gcPage, gcListed, gcNodes, gcRecent>>
vars       == <<ecsVars, apiVars, workerVars, tagVars, gcVars, restarts>>

--------------------------------------------------------------------------------
(* Tag batches and pages. *)

(* The first batch of BatchTags(S): the MaxTagsPerRequest first keys of S. *)
FirstBatch(S) == {t \in S : Cardinality({u \in S : u < t}) < MaxTagsPerRequest}

(* Mutation: the listing asks for running instances only. *)
VisibleOnceRunning == {i \in Instance : ecs[i] = "running" /\ ManagedBy \in ecsTags[i]}

(* The instances DescribeInstances answers with under the tag filter. *)
Visible == {i \in Instance : ecs[i] \notin {"none", "gone"} /\ ManagedBy \in ecsTags[i]}

Rank(i) == Cardinality({j \in Visible : j <= i})

Page(k) == {i \in Visible : (k - 1) * PageSize < Rank(i) /\ Rank(i) <= k * PageSize}

--------------------------------------------------------------------------------
(* ECS, the kubelet and the users of the API server (external). *)

InstanceBooted(i) ==
  /\ ecs[i] = "initializing"
  /\ ecs' = [ecs EXCEPT ![i] = "running"]
  /\ UNCHANGED <<ecsTags, apiVars, workerVars, tagVars, gcVars, restarts>>

(* Termination is asynchronous: an instance stays visible until released. *)
InstanceReleased(i) ==
  /\ ecs[i] = "terminating"
  /\ ecs' = [ecs EXCEPT ![i] = "gone"]
  /\ UNCHANGED <<ecsTags, apiVars, workerVars, tagVars, gcVars, restarts>>

(* A spot reclaim, or a release from outside the cluster. *)
InstanceReclaimed(i) ==
  /\ ecs[i] = "running"
  /\ ecs' = [ecs EXCEPT ![i] = "gone"]
  /\ UNCHANGED <<ecsTags, apiVars, workerVars, tagVars, gcVars, restarts>>

NodeRegistered(i) ==
  /\ ecs[i] = "running"
  /\ i \notin nodes
  /\ nodes' = nodes \cup {i}
  /\ UNCHANGED <<ecsVars, claim, providerID, tagged, aged, workerVars, tagVars, gcVars, restarts>>

ClaimCreated(c) ==
  /\ claim[c] = "absent"
  /\ claim' = [claim EXCEPT ![c] = "live"]
  /\ UNCHANGED <<ecsVars, providerID, tagged, aged, nodes, workerVars, tagVars, gcVars, restarts>>

ClaimDeleted(c) ==
  /\ claim[c] = "live"
  /\ claim' = [claim EXCEPT ![c] = "deleting"]
  /\ UNCHANGED <<ecsVars, providerID, tagged, aged, nodes, workerVars, tagVars, gcVars, restarts>>

ProtectionEnds(c) ==
  /\ claim[c] \in {"live", "deleting"}
  /\ c \notin aged
  /\ aged' = aged \cup {c}
  /\ UNCHANGED <<ecsVars, claim, providerID, tagged, nodes, workerVars, tagVars, gcVars, restarts>>

MinutePasses ==
  /\ gcRecent
  /\ gcRecent' = FALSE
  /\ UNCHANGED <<ecsVars, apiVars, workerVars, tagVars,
                 gcPc, gcClaims, gcProvider, gcPage, gcListed, gcNodes, restarts>>

--------------------------------------------------------------------------------
(* CloudProvider.Create, called for a claim without a provider ID. *)

CreateCalled(c) == claim[c] = "live" /\ providerID[c] = NoInstance /\ pc[c] = "idle"

(* Mutation: a request token that two launches share answers the second one *)
(* with the instance of the first.                                          *)
RunInstancesReusesToken(i) ==
  /\ ecs[i] \in {"none", "initializing"}
  /\ ecs' = [ecs EXCEPT ![i] = "initializing"]
  /\ ecsTags' = [ecsTags EXCEPT ![i] = FirstBatch(Tag)]

(* RunInstances carries the first batch of tags, the rest is deferred. *)
RunInstancesEffect(i) ==
  /\ ecs[i] = "none"
  /\ ecs' = [ecs EXCEPT ![i] = "initializing"]
  /\ ecsTags' = [ecsTags EXCEPT ![i] = FirstBatch(Tag)]

RunInstances(c, i) ==
  /\ CreateCalled(c)
  /\ RunInstancesEffect(i)
  /\ pc' = [pc EXCEPT ![c] = "create"]
  /\ launched' = [launched EXCEPT ![c] = i]
  /\ deferred' = [deferred EXCEPT ![c] = Tag \ FirstBatch(Tag)]
  /\ UNCHANGED <<apiVars, tagVars, gcVars, restarts>>

(* The request is carried out and its answer lost: Create returns an error. *)
RunInstancesAnswerLost(c, i) ==
  /\ CreateCalled(c)
  /\ RunInstancesEffect(i)
  /\ UNCHANGED <<apiVars, workerVars, tagVars, gcVars, restarts>>

(* A deferred batch that fails is logged and left to the tagging controller. *)
ApplyDeferredBatch(c) ==
  /\ pc[c] = "create"
  /\ deferred[c] # {}
  /\ deferred' = [deferred EXCEPT ![c] = @ \ FirstBatch(@)]
  /\ \/ /\ ecs[launched[c]] # "gone"
        /\ ecsTags' = [ecsTags EXCEPT ![launched[c]] = @ \cup FirstBatch(deferred[c])]
     \/ UNCHANGED ecsTags
  /\ UNCHANGED <<ecs, apiVars, pc, launched, tagVars, gcVars, restarts>>

(* Create ends with a Get, which an entry cached by a List may answer even   *)
(* for an instance just lost; core then stores the provider ID.             *)
GetCreatedInstance(c) ==
  /\ pc[c] = "create"
  /\ deferred[c] = {}
  /\ providerID' = [providerID EXCEPT ![c] = launched[c]]
  /\ pc' = [pc EXCEPT ![c] = "idle"]
  /\ launched' = [launched EXCEPT ![c] = NoInstance]
  /\ UNCHANGED <<ecsVars, claim, tagged, aged, nodes, deferred, tagVars, gcVars, restarts>>

(* The Get fails: Create returns an error and forgets what it launched. *)
GetCreatedInstanceFailed(c) ==
  /\ pc[c] = "create"
  /\ deferred[c] = {}
  /\ pc' = [pc EXCEPT ![c] = "idle"]
  /\ launched' = [launched EXCEPT ![c] = NoInstance]
  /\ UNCHANGED <<ecsVars, apiVars, deferred, tagVars, gcVars, restarts>>

--------------------------------------------------------------------------------
(* CloudProvider.Delete and instance.Provider.Delete.  The finalizer of the *)
(* claim goes only when Delete answers NodeClaimNotFoundError.              *)

(* DeleteInstances with Force: accepted once the instance has booted. *)
DeleteAccepted(i) ==
  /\ ecs[i] \in {"running", "terminating"}
  /\ ecs' = [ecs EXCEPT ![i] = "terminating"]

FinalizerCalls(c) == claim[c] = "deleting" /\ pc[c] = "idle"

RemoveClaim(c) ==
  /\ claim' = [claim EXCEPT ![c] = "removed"]
  /\ UNCHANGED <<providerID, tagged, aged, nodes>>

(* External: core has nothing to terminate for a claim that never launched. *)
FinalizeUnlaunched(c) ==
  /\ FinalizerCalls(c)
  /\ providerID[c] = NoInstance
  /\ RemoveClaim(c)
  /\ UNCHANGED <<ecsVars, workerVars, tagVars, gcVars, restarts>>

(* External: core drains the node and removes it before the instance. *)
NodeDrained(c) ==
  /\ claim[c] = "deleting"
  /\ providerID[c] \in nodes \ {NoInstance}
  /\ nodes' = nodes \ {providerID[c]}
  /\ UNCHANGED <<ecsVars, claim, providerID, tagged, aged, workerVars, tagVars, gcVars, restarts>>

(* Mutation: not found is answered with nil, as any instance that is going. *)
DeleteInstanceNotFoundIsNil(c) ==
  /\ FinalizerCalls(c)
  /\ providerID[c] # NoInstance
  /\ \/ /\ ecs[providerID[c]] \in {"gone", "initializing"}
        /\ UNCHANGED <<ecs, pc, apiVars>>
     \/ /\ DeleteAccepted(providerID[c])
        /\ pc' = [pc EXCEPT ![c] = "describe"]
        /\ UNCHANGED apiVars
  /\ UNCHANGED <<ecsTags, launched, deferred, tagVars, gcVars, restarts>>

(* The answers of DeleteInstances: not found, still initializing (Delete    *)
(* returns nil and is called again), accepted (Delete goes on to describe). *)
DeleteInstance(c) ==
  /\ FinalizerCalls(c)
  /\ providerID[c] # NoInstance
  /\ \/ /\ ecs[providerID[c]] = "gone"
        /\ RemoveClaim(c)
        /\ UNCHANGED <<ecs, pc>>
     \/ /\ ecs[providerID[c]] = "initializing"
        /\ UNCHANGED <<ecs, pc, apiVars>>
     \/ /\ DeleteAccepted(providerID[c])
        /\ pc' = [pc EXCEPT ![c] = "describe"]
        /\ UNCHANGED apiVars
  /\ UNCHANGED <<ecsTags, launched, deferred, tagVars, gcVars, restarts>>

(* The request is carried out and its answer lost: Delete returns an error. *)
DeleteAnswerLost(c) ==
  /\ FinalizerCalls(c)
  /\ providerID[c] # NoInstance
  /\ DeleteAccepted(providerID[c])
  /\ UNCHANGED <<ecsTags, apiVars, workerVars, tagVars, gcVars, restarts>>

(* Mutation: an accepted delete is reported as not found at once. *)
DescribeAfterDeleteSkipped(c) ==
  /\ pc[c] = "describe"
  /\ pc' = [pc EXCEPT ![c] = "idle"]
  /\ RemoveClaim(c)
  /\ UNCHANGED <<ecsVars, launched, deferred, tagVars, gcVars, restarts>>

(* The describe that follows an accepted DeleteInstances.  Found, or the    *)
(* describe failed: Delete returns nil, and core calls it again.            *)
DescribeAfterDelete(c) ==
  /\ pc[c] = "describe"
  /\ pc' = [pc EXCEPT ![c] = "idle"]
  /\ \/ /\ ecs[providerID[c]] = "gone"
        /\ RemoveClaim(c)
     \/ UNCHANGED apiVars
  /\ UNCHANGED <<ecsVars, launched, deferred, tagVars, gcVars, restarts>>

--------------------------------------------------------------------------------
(* The tagging controller: Reconcile and tagInstance. *)

Taggable(c) == claim[c] = "live" /\ providerID[c] # NoInstance /\ c \notin tagged

(* Get past the cache, and the tags whose value is missing on the instance. *)
(* A describe in flight is joined (Batcher.Do): what it saw may be old.     *)
TagGet(c) ==
  /\ Taggable(c)
  /\ c \notin tagging
  /\ ecs[providerID[c]] # "gone"
  /\ tagging' = tagging \cup {c}
  /\ \E seen \in SUBSET ecsTags[providerID[c]] : missing' = [missing EXCEPT ![c] = Tag \ seen]
  /\ UNCHANGED <<ecsVars, apiVars, workerVars, gcVars, restarts>>

TagBatch(c) ==
  /\ c \in tagging
  /\ missing[c] # {}
  /\ ecs[providerID[c]] # "gone"
  /\ ecsTags' = [ecsTags EXCEPT ![providerID[c]] = @ \cup FirstBatch(missing[c])]
  /\ missing' = [missing EXCEPT ![c] = @ \ FirstBatch(@)]
  /\ UNCHANGED <<ecs, apiVars, workerVars, tagging, gcVars, restarts>>

(* The first batch that fails ends the reconcile, and so may its last call. *)
TagFailed(c) ==
  /\ c \in tagging
  /\ tagging' = tagging \ {c}
  /\ missing' = [missing EXCEPT ![c] = {}]
  /\ UNCHANGED <<ecsVars, apiVars, workerVars, gcVars, restarts>>

(* Mutation: the annotation is patched whatever tagInstance returned. *)
TagPatchIgnoresError(c) ==
  /\ c \in tagging
  /\ tagging' = tagging \ {c}
  /\ tagged' = IF claim[c] = "removed" THEN tagged ELSE tagged \cup {c}
  /\ missing' = [missing EXCEPT ![c] = {}]
  /\ UNCHANGED <<ecsVars, claim, providerID, aged, nodes, workerVars, gcVars, restarts>>

(* Mutation: the annotation is set on the copy that was made for the patch. *)
TagPatchOfNothing(c) ==
  /\ c \in tagging
  /\ missing[c] = {}
  /\ tagging' = tagging \ {c}
  /\ UNCHANGED <<ecsVars, apiVars, workerVars, missing, gcVars, restarts>>

(* The annotation is patched last; a claim removed meanwhile is ignored. *)
TagPatch(c) ==
  /\ c \in tagging
  /\ missing[c] = {}
  /\ tagging' = tagging \ {c}
  /\ tagged' = IF claim[c] = "removed" THEN tagged ELSE tagged \cup {c}
  /\ UNCHANGED <<ecsVars, claim, providerID, aged, nodes, workerVars, missing, gcVars, restarts>>

--------------------------------------------------------------------------------
(* The garbage collector: Reconcile. *)

(* The claims are listed before the instances.  An empty list ends the      *)
(* cycle, and so does a failed one; lastRun has been set either way.        *)
GCListClaims ==
  /\ gcPc = "idle"
  /\ ~gcRecent
  /\ gcRecent' = TRUE
  /\ \/ /\ \E c \in Claim : claim[c] \in {"live", "deleting"}
        /\ gcClaims' = {c \in Claim : claim[c] \in {"live", "deleting"}}
        /\ gcProvider' = providerID
        /\ gcPc' = "list"
     \/ UNCHANGED <<gcPc, gcClaims, gcProvider>>
  /\ UNCHANGED <<ecsVars, apiVars, workerVars, tagVars, gcPage, gcListed, gcNodes, restarts>>

(* Mutation: the pages are counted from 0. *)
GCEndPageZero ==
  /\ gcPc' = "idle"
  /\ gcClaims' = {}
  /\ gcProvider' = [c \in Claim |-> NoInstance]
  /\ gcPage' = 0
  /\ gcListed' = {}
  /\ gcNodes' = {}

(* The state of the collector between two cycles. *)
GCEnd ==
  /\ gcPc' = "idle"
  /\ gcClaims' = {}
  /\ gcProvider' = [c \in Claim |-> NoInstance]
  /\ gcPage' = 1
  /\ gcListed' = {}
  /\ gcNodes' = {}

(* One page of instance.Provider.List; TotalCount is counted at that moment. *)
GCListPage ==
  /\ gcPc = "list"
  /\ gcListed' = gcListed \cup Page(gcPage)
  /\ IF gcPage * PageSize >= Cardinality(Visible)
       THEN gcPc' = "nodes" /\ UNCHANGED gcPage
       ELSE gcPage' = gcPage + 1 /\ UNCHANGED gcPc
  /\ UNCHANGED <<ecsVars, apiVars, workerVars, tagVars,
                 gcClaims, gcProvider, gcNodes, gcRecent, restarts>>

(* With both lists in hand, the claims whose instance was not listed are    *)
(* left, and the Nodes that go with them; the loop looks at no other.       *)
GCListNodes ==
  LET orphans == {c \in gcClaims : gcProvider[c] \notin gcListed} IN
  /\ gcPc = "nodes"
  /\ gcPc' = "sweep"
  /\ gcClaims' = orphans
  /\ gcProvider' = [c \in Claim |-> IF c \in orphans THEN gcProvider[c] ELSE NoInstance]
  /\ gcNodes' = nodes \cap {gcProvider[c] : c \in orphans}
  /\ gcPage' = 1
  /\ gcListed' = {}
  /\ UNCHANGED <<ecsVars, apiVars, workerVars, tagVars, gcRecent, restarts>>

GCListFailed ==
  /\ gcPc \in {"list", "nodes"}
  /\ GCEnd
  /\ UNCHANGED <<ecsVars, apiVars, workerVars, tagVars, gcRecent, restarts>>

(* The loop of Reconcile over the orphans. *)
GCNextClaim(c) ==
  /\ gcPc = "sweep"
  /\ c \in gcClaims
  /\ gcClaims' = gcClaims \ {c}
  /\ gcProvider' = [gcProvider EXCEPT ![c] = NoInstance]
  /\ UNCHANGED <<gcPc, gcPage, gcListed, gcNodes, gcRecent>>

GCProtected(c) ==
  /\ GCNextClaim(c)
  /\ c \notin aged
  /\ UNCHANGED <<ecsVars, apiVars, workerVars, tagVars, restarts>>

(* The Node of the list with the provider ID of the claim is deleted too.   *)
GCDeleteNode(c) ==
  /\ \/ nodes' = nodes \ ({gcProvider[c]} \cap gcNodes)
     \/ UNCHANGED nodes
  /\ UNCHANGED <<claim, providerID, tagged, aged>>

(* CloudProvider.Delete ignores a claim without a provider ID: nil. *)
GCDeleteUnlaunched(c) ==
  /\ GCNextClaim(c)
  /\ c \in aged
  /\ gcProvider[c] = NoInstance
  /\ GCDeleteNode(c)
  /\ UNCHANGED <<ecsVars, workerVars, tagVars, restarts>>

(* Mutation: not found is taken for a failure, and the Node is left. *)
GCDeleteStopsAtNotFound(c) ==
  /\ GCNextClaim(c)
  /\ c \in aged
  /\ gcProvider[c] # NoInstance
  /\ \/ ecs[gcProvider[c]] = "gone" /\ UNCHANGED <<ecs, apiVars>>
     \/ ecs[gcProvider[c]] = "initializing" /\ UNCHANGED ecs /\ GCDeleteNode(c)
     \/ DeleteAccepted(gcProvider[c]) /\ GCDeleteNode(c)
  /\ UNCHANGED <<ecsTags, workerVars, tagVars, restarts>>

(* CloudProvider.Delete: not found, nil and accepted all go on to the Node. *)
(* The describe that follows an accepted delete decides nothing here.       *)
GCDelete(c) ==
  /\ GCNextClaim(c)
  /\ c \in aged
  /\ gcProvider[c] # NoInstance
  /\ \/ ecs[gcProvider[c]] \in {"gone", "initializing"} /\ UNCHANGED ecs
     \/ DeleteAccepted(gcProvider[c])
  /\ GCDeleteNode(c)
  /\ UNCHANGED <<ecsTags, workerVars, tagVars, restarts>>

(* Any other error leaves the Node alone; the request may have been obeyed. *)
GCDeleteFailed(c) ==
  /\ GCNextClaim(c)
  /\ c \in aged
  /\ gcProvider[c] # NoInstance
  /\ \/ UNCHANGED ecs
     \/ DeleteAccepted(gcProvider[c])
  /\ UNCHANGED <<ecsTags, apiVars, workerVars, tagVars, restarts>>

GCDone ==
  /\ gcPc = "sweep"
  /\ gcClaims = {}
  /\ GCEnd
  /\ UNCHANGED <<ecsVars, apiVars, workerVars, tagVars, gcRecent, restarts>>

--------------------------------------------------------------------------------
(* The operator restarts: every reconcile in flight is lost, and lastRun is *)
(* set so that the first cycle of the collector is not skipped.             *)
OperatorRestart ==
  /\ restarts < MaxRestarts
  /\ restarts' = restarts + 1
  /\ pc' = [c \in Claim |-> "idle"]
  /\ launched' = [c \in Claim |-> NoInstance]
  /\ deferred' = [c \in Claim |-> {}]
  /\ tagging' = {}
  /\ missing' = [c \in Claim |-> {}]
  /\ GCEnd
  /\ gcRecent' = FALSE
  /\ UNCHANGED <<ecsVars, apiVars>>

Init ==
  /\ ecs = [i \in Instance |-> "none"]
  /\ ecsTags = [i \in Instance |-> {}]
  /\ claim = [c \in Claim |-> "absent"]
  /\ providerID = [c \in Claim |-> NoInstance]
  /\ tagged = {}
  /\ aged = {}
  /\ nodes = {NoInstance}
  /\ pc = [c \in Claim |-> "idle"]
  /\ launched = [c \in Claim |-> NoInstance]
  /\ deferred = [c \in Claim |-> {}]
  /\ tagging = {}
  /\ missing = [c \in Claim |-> {}]
  /\ gcPc = "idle"
  /\ gcClaims = {}
  /\ gcProvider = [c \in Claim |-> NoInstance]
  /\ gcPage = 1
  /\ gcListed = {}
  /\ gcNodes = {}
  /\ gcRecent = FALSE
  /\ restarts = 0

Environment ==
  \/ \E i \in Instance : \/ InstanceBooted(i)
                         \/ InstanceReleased(i)
                         \/ InstanceReclaimed(i)
                         \/ NodeRegistered(i)
  \/ \E c \in Claim : ClaimCreated(c) \/ ClaimDeleted(c) \/ ProtectionEnds(c) \/ NodeDrained(c)
  \/ MinutePasses

ClaimWorker(c) ==
  \/ \E i \in Instance : RunInstances(c, i) \/ RunInstancesAnswerLost(c, i)
  \/ ApplyDeferredBatch(c)
  \/ GetCreatedInstance(c)
  \/ GetCreatedInstanceFailed(c)
  \/ FinalizeUnlaunched(c)
  \/ DeleteInstance(c)
  \/ DeleteAnswerLost(c)
  \/ DescribeAfterDelete(c)

Tagging(c) == TagGet(c) \/ TagBatch(c) \/ TagFailed(c) \/ TagPatch(c)

GarbageCollector ==
  \/ GCListClaims \/ GCListPage \/ GCListNodes \/ GCListFailed \/ GCDone
  \/ \E c \in Claim : GCProtected(c) \/ GCDeleteUnlaunched(c) \/ GCDelete(c) \/ GCDeleteFailed(c)

Next ==
  \/ Environment
  \/ \E c \in Claim : ClaimWorker(c) \/ Tagging(c)
  \/ GarbageCollector
  \/ OperatorRestart

Spec == Init /\ [][Next]_vars

(***************************************************************************)
(* Fairness.  ECS finishes what it started; the work queues of the          *)
(* controllers run every reconcile again until it succeeds, so a call that  *)
(* is made again and again succeeds at last (SF), and a describe that is    *)
(* made again and again does not always join an older one; nothing makes    *)
(* users or the spot market act, and no launch has to succeed.              *)
(***************************************************************************)
Fairness ==
  /\ \A i \in Instance : WF_vars(InstanceBooted(i)) /\ WF_vars(InstanceReleased(i))
  /\ \A c \in Claim :
       /\ WF_vars(ProtectionEnds(c))
       /\ WF_vars(ApplyDeferredBatch(c))
       /\ WF_vars(GetCreatedInstance(c) \/ GetCreatedInstanceFailed(c))
       /\ WF_vars(FinalizeUnlaunched(c))
       /\ WF_vars(DeleteInstance(c))
       /\ WF_vars(DescribeAfterDelete(c))
       /\ SF_vars(TagGet(c) /\ missing'[c] = Tag \ ecsTags[providerID[c]])
       /\ SF_vars(TagBatch(c) /\ ecsTags' # ecsTags)
       /\ WF_vars(TagBatch(c) \/ TagFailed(c) \/ TagPatch(c))
       /\ SF_vars(TagPatch(c))
       /\ WF_vars(GCProtected(c))
       /\ WF_vars(GCDeleteUnlaunched(c))
       /\ SF_vars(GCDelete(c) /\ nodes' = nodes \ {gcProvider[c]})
  /\ WF_vars(MinutePasses)
  /\ SF_vars(GCListClaims /\ gcPc' = "list")
  /\ SF_vars(GCListPage)
  /\ SF_vars(GCListNodes)
  /\ WF_vars(GCDone)

FairSpec == Spec /\ Fairness

--------------------------------------------------------------------------------
(* Properties. *)

TypeOK ==
  /\ ecs \in [Instance -> {"none", "initializing", "running", "terminating", "gone"}]
  /\ ecsTags \in [Instance -> SUBSET Tag]
  /\ claim \in [Claim -> {"absent", "live", "deleting", "removed"}]
  /\ providerID \in [Claim -> Instance \cup {NoInstance}]
  /\ tagged \subseteq Claim
  /\ aged \subseteq Claim
  /\ nodes \subseteq Instance \cup {NoInstance}
  /\ pc \in [Claim -> {"idle", "create", "describe"}]
  /\ launched \in [Claim -> Instance \cup {NoInstance}]
  /\ deferred \in [Claim -> SUBSET Tag]
  /\ tagging \subseteq Claim
  /\ missing \in [Claim -> SUBSET Tag]
  /\ gcPc \in {"idle", "list", "nodes", "sweep"}
  /\ gcClaims \subseteq Claim
  /\ gcProvider \in [Claim -> Instance \cup {NoInstance}]
  /\ gcPage \in Nat \ {0}
  /\ gcListed \subseteq Instance
  /\ gcNodes \subseteq Instance \cup {NoInstance}
  /\ gcRecent \in BOOLEAN
  /\ restarts \in 0..MaxRestarts

(* The finalizer goes last: a claim is removed only when the instance it was *)
(* given is gone, whatever Delete was told on the way (instance.go:557-610). *)
RemovedOnlyWhenGone ==
  \A c \in Claim : claim[c] = "removed" /\ providerID[c] # NoInstance => ecs[providerID[c]] = "gone"

(* The annotation is the only record that a claim is tagged, and nothing    *)
(* looks again once it is there: it is written only when every tag is on    *)
(* the instance, whatever batch of Create or of the controller put it there *)
(* (tagging/controller.go:54-138, instance.go:366-372).                     *)
TaggedOnlyWhenComplete ==
  \A c \in tagged : ecsTags[providerID[c]] = Tag

(* No instance is given to two claims, and none that Create still holds is  *)
(* already another's, whatever restarts and lost answers came in between.   *)
InstanceOfOneClaim ==
  \A c, d \in Claim : c # d =>
    /\ providerID[c] # NoInstance => providerID[c] \notin {providerID[d], launched[d]}
    /\ launched[c] # NoInstance => launched[c] # launched[d]

InUse(c) == claim[c] = "live" /\ providerID[c] # NoInstance

(* Nobody terminates the instance of a claim that is not being deleted: the *)
(* collector, whose lists are taken one after the other and are old when it *)
(* uses them, deletes only what is already gone (garbagecollection.go:124). *)
InstanceInUseKept ==
  [][\A c \in Claim : InUse(c) /\ ecs[providerID[c]] \in {"initializing", "running"}
       => ecs'[providerID[c]] # "terminating"]_vars

(* Nor does anyone delete its Node while the instance is there.             *)
NodeInUseKept ==
  [][\A c \in Claim : InUse(c) /\ providerID[c] \in nodes /\ ecs[providerID[c]] # "gone"
       => providerID[c] \in nodes']_vars

(* The Node without a provider ID belongs to no claim: a claim that has not *)
(* launched is skipped (suite_test.go:876).                     *)
NodeOfNoClaimKept ==
  [][(NoInstance \in nodes) => (NoInstance \in nodes')]_vars

(* A claim that is deleted goes away in the end, through instances that are *)
(* still initializing, lost answers and restarts.                           *)
DeletedClaimRemoved ==
  \A c \in Claim : claim[c] = "deleting" ~> claim[c] = "removed"

(* A launched claim is tagged in the end, or lost its instance, or is gone. *)
LaunchedClaimTagged ==
  \A c \in Claim : InUse(c) ~> (c \in tagged \/ ~InUse(c) \/ ecs[providerID[c]] = "gone")

(* The Node of an instance that was reclaimed is deleted in the end.        *)
LostNodeDeleted ==
  \A c \in Claim :
    (InUse(c) /\ ecs[providerID[c]] = "gone" /\ providerID[c] \in nodes)
      ~> (providerID[c] \notin nodes \/ ~InUse(c))

--------------------------------------------------------------------------------
(* The inductive invariant behind the safety properties. *)

(* What the worker of a claim is doing. *)
WorkerState ==
  \A c \in Claim :
    /\ launched[c] # NoInstance <=> pc[c] = "create"
    /\ pc[c] = "create" => claim[c] \in {"live", "deleting"} /\ providerID[c] = NoInstance
    /\ pc[c] = "describe" => claim[c] = "deleting" /\ providerID[c] # NoInstance

(* The instances that claims, workers and the collector know were launched. *)
KnownLaunched ==
  \A c \in Claim : \A i \in {providerID[c], launched[c], gcProvider[c]} \ {NoInstance} : ecs[i] # "none"

(* Every instance carries the tags that RunInstances was given. *)
FirstBatchApplied == \A i \in Instance : ecs[i] # "none" => FirstBatch(Tag) \subseteq ecsTags[i]

(* Where a reconcile of the tagging controller stands. *)
TagState ==
  /\ \A c \in tagging \cup tagged : providerID[c] # NoInstance
  /\ \A c \in tagging : Tag \ missing[c] \subseteq ecsTags[providerID[c]]

IInv ==
  /\ WorkerState
  /\ KnownLaunched
  /\ FirstBatchApplied
  /\ TagState
  /\ InstanceOfOneClaim
  /\ RemovedOnlyWhenGone
  /\ TaggedOnlyWhenComplete

(* What the collector may rely on when every instance is in one page: what  *)
(* it takes for an orphan was already gone when the instances were listed.  *)
OrphansGone ==
  /\ gcPage = 1
  /\ \A c \in gcClaims :
       /\ gcPc = "nodes" /\ gcProvider[c] \notin gcListed \cup {NoInstance} => ecs[gcProvider[c]] = "gone"
       /\ gcPc = "sweep" /\ gcProvider[c] # NoInstance => ecs[gcProvider[c]] = "gone"

================================================================================
