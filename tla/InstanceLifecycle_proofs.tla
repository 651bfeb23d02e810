----------------------- MODULE InstanceLifecycle_proofs ------------------------
(***************************************************************************)
(* Theorems about InstanceLifecycle, for every number of claims, instances, *)
(* tags, pages and restarts.                                                *)
(***************************************************************************)
EXTENDS InstanceLifecycle, FiniteSetTheorems, TLAPS

(* Tag batches and pages hold nothing that was not asked for. *)
LEMMA BatchesAndPages ==
  /\ \A S \in SUBSET Tag : FirstBatch(S) \subseteq S
  /\ \A k \in Nat : Page(k) \subseteq Instance
BY DEF FirstBatch, Page, Visible

(* An empty provider ID names no instance. *)
LEMMA NotInstance == NoInstance \notin Instance
BY DEF NoInstance, Instance

(* What Init and a restart of the operator set. *)
LEMMA Blank ==
  /\ [c \in Claim |-> {}] \in [Claim -> SUBSET Tag]
  /\ [i \in Instance |-> {}] \in [Instance -> SUBSET Tag]
  /\ [c \in Claim |-> NoInstance] \in [Claim -> Instance \cup {NoInstance}]
OBVIOUS

(* Every step keeps the variables in their types. *)
LEMMA TypeStep ==
  ASSUME TypeOK, [Next]_vars
  PROVE  TypeOK'
<1> USE DEF TypeOK, ecsVars, apiVars, workerVars, tagVars, gcVars
<1>1. CASE Environment
  <2>1. ASSUME NEW i \in Instance,
               InstanceBooted(i) \/ InstanceReleased(i) \/ InstanceReclaimed(i) \/ NodeRegistered(i)
        PROVE  TypeOK'
    BY <2>1 DEF InstanceBooted, InstanceReleased, InstanceReclaimed, NodeRegistered
  <2>2. ASSUME NEW c \in Claim, ClaimCreated(c) \/ ClaimDeleted(c) \/ ProtectionEnds(c) \/ NodeDrained(c)
        PROVE  TypeOK'
    BY <2>2 DEF ClaimCreated, ClaimDeleted, ProtectionEnds, NodeDrained
  <2>3. CASE MinutePasses
    BY <2>3 DEF MinutePasses
  <2> QED
    BY <1>1, <2>1, <2>2, <2>3 DEF Environment
<1>2. ASSUME NEW c \in Claim, ClaimWorker(c) PROVE TypeOK'
  <2>1. ASSUME NEW i \in Instance, RunInstances(c, i) \/ RunInstancesAnswerLost(c, i) PROVE TypeOK'
    BY <2>1, BatchesAndPages DEF RunInstances, RunInstancesAnswerLost, RunInstancesEffect
  <2>2. CASE ApplyDeferredBatch(c)
    BY <2>2, BatchesAndPages DEF ApplyDeferredBatch
  <2>3. CASE GetCreatedInstance(c) \/ GetCreatedInstanceFailed(c)
    BY <2>3 DEF GetCreatedInstance, GetCreatedInstanceFailed
  <2>4. CASE FinalizeUnlaunched(c) \/ DescribeAfterDelete(c)
    BY <2>4 DEF FinalizeUnlaunched, DescribeAfterDelete, RemoveClaim
  <2>5. CASE DeleteInstance(c) \/ DeleteAnswerLost(c)
    BY <2>5 DEF DeleteInstance, DeleteAnswerLost, DeleteAccepted, RemoveClaim
  <2> QED
    BY <1>2, <2>1, <2>2, <2>3, <2>4, <2>5 DEF ClaimWorker
<1>3. ASSUME NEW c \in Claim, Tagging(c) PROVE TypeOK'
  <2>1. CASE TagGet(c)
    <3>1. PICK seen : missing' = [missing EXCEPT ![c] = Tag \ seen]
      BY <2>1 DEF TagGet
    <3>2. missing' \in [Claim -> SUBSET Tag]
      BY <3>1
    <3>3. tagging' \subseteq Claim /\ UNCHANGED <<ecsVars, apiVars, workerVars, gcVars, restarts>>
      BY <2>1 DEF TagGet
    <3> QED
      BY <3>2, <3>3
  <2>1a. CASE TagFailed(c)
    <3>1. {} \in SUBSET Tag
      OBVIOUS
    <3>2. missing' \in [Claim -> SUBSET Tag] /\ tagging' \subseteq Claim
      BY <2>1a, <3>1 DEF TagFailed
    <3>3. UNCHANGED <<ecsVars, apiVars, workerVars, gcVars, restarts>>
      BY <2>1a DEF TagFailed
    <3> QED
      BY <3>2, <3>3
  <2>1b. CASE TagPatch(c)
    <3>1. tagged' \subseteq Claim /\ tagging' \subseteq Claim
      BY <2>1b DEF TagPatch
    <3>2. UNCHANGED <<ecsVars, claim, providerID, aged, nodes, workerVars, missing, gcVars, restarts>>
      BY <2>1b DEF TagPatch
    <3> QED
      BY <3>1, <3>2
  <2>2. CASE TagBatch(c)
    <3>1. FirstBatch(missing[c]) \in SUBSET Tag /\ missing[c] \ FirstBatch(missing[c]) \in SUBSET Tag
      BY BatchesAndPages
    <3>2. missing' \in [Claim -> SUBSET Tag]
      BY <2>2, <3>1 DEF TagBatch
    <3>3. ecsTags' \in [Instance -> SUBSET Tag]
      BY <2>2, <3>1 DEF TagBatch
    <3>4. UNCHANGED <<ecs, apiVars, workerVars, tagging, gcVars, restarts>>
      BY <2>2 DEF TagBatch
    <3> QED
      BY <3>2, <3>3, <3>4
  <2> QED
    BY <1>3, <2>1, <2>1a, <2>1b, <2>2 DEF Tagging
<1>4. CASE GarbageCollector
  <2>1. CASE GCListClaims
    BY <2>1 DEF GCListClaims
  <2>2. CASE GCListPage
    BY <2>2, BatchesAndPages DEF GCListPage
  <2>3. CASE GCListNodes
    BY <2>3 DEF GCListNodes
  <2>4. CASE GCListFailed \/ GCDone
    BY <2>4 DEF GCListFailed, GCDone, GCEnd
  <2>5. ASSUME NEW c \in Claim,
               GCProtected(c) \/ GCDeleteUnlaunched(c) \/ GCDelete(c) \/ GCDeleteFailed(c)
        PROVE  TypeOK'
    BY <2>5 DEF GCProtected, GCDeleteUnlaunched, GCDelete, GCDeleteFailed, GCNextClaim, GCDeleteNode, DeleteAccepted
  <2> QED
    BY <1>4, <2>1, <2>2, <2>3, <2>4, <2>5 DEF GarbageCollector
<1>5. CASE OperatorRestart
  <2>1. deferred' \in [Claim -> SUBSET Tag] /\ missing' \in [Claim -> SUBSET Tag]
    BY <1>5, Blank DEF OperatorRestart
  <2>2. /\ launched' \in [Claim -> Instance \cup {NoInstance}]
        /\ gcProvider' \in [Claim -> Instance \cup {NoInstance}]
    BY <1>5, Blank DEF OperatorRestart, GCEnd
  <2>3. restarts' \in 0..MaxRestarts
    BY <1>5, ConstantsAssumption DEF OperatorRestart
  <2>4. pc' \in [Claim -> {"idle", "create", "describe"}]
    BY <1>5 DEF OperatorRestart
  <2>5. /\ gcPc' \in {"idle", "list", "nodes", "sweep"} /\ gcPage' \in Nat \ {0}
        /\ tagging' \subseteq Claim /\ gcClaims' \subseteq Claim /\ gcListed' \subseteq Instance
        /\ gcNodes' \subseteq Instance \cup {NoInstance}
    BY <1>5 DEF OperatorRestart, GCEnd
  <2>7. gcRecent' \in BOOLEAN
    BY <1>5 DEF OperatorRestart
  <2>6. UNCHANGED <<ecsVars, apiVars>>
    BY <1>5 DEF OperatorRestart
  <2> QED
    BY <2>1, <2>2, <2>3, <2>4, <2>5, <2>6, <2>7
<1>6. CASE UNCHANGED vars
  BY <1>6 DEF vars
<1> QED
  BY <1>1, <1>2, <1>3, <1>4, <1>5, <1>6 DEF Next

(* The variables keep their types in every behaviour (TypeStep), whatever the
   numbers of claims, instances, tags and restarts. *)
THEOREM TypeCorrect == Spec => []TypeOK
<1>1. Init => TypeOK
  <2> SUFFICES ASSUME Init PROVE TypeOK
    OBVIOUS
  <2>1. deferred \in [Claim -> SUBSET Tag] /\ missing \in [Claim -> SUBSET Tag]
    BY Blank DEF Init
  <2>2. ecsTags \in [Instance -> SUBSET Tag]
    BY Blank DEF Init
  <2>3. /\ providerID \in [Claim -> Instance \cup {NoInstance}]
        /\ launched \in [Claim -> Instance \cup {NoInstance}]
        /\ gcProvider \in [Claim -> Instance \cup {NoInstance}]
    BY Blank DEF Init
  <2>4. /\ ecs \in [Instance -> {"none", "initializing", "running", "terminating", "gone"}]
        /\ claim \in [Claim -> {"absent", "live", "deleting", "removed"}]
        /\ pc \in [Claim -> {"idle", "create", "describe"}]
    BY DEF Init
  <2>5. /\ tagged \subseteq Claim /\ aged \subseteq Claim /\ tagging \subseteq Claim
        /\ nodes \subseteq Instance \cup {NoInstance} /\ gcNodes \subseteq Instance \cup {NoInstance}
        /\ gcClaims \subseteq Claim /\ gcListed \subseteq Instance
    BY DEF Init
  <2>6. gcPc \in {"idle", "list", "nodes", "sweep"} /\ gcPage \in Nat \ {0}
    BY DEF Init
  <2>8. gcRecent \in BOOLEAN
    BY DEF Init
  <2>7. restarts \in 0..MaxRestarts
    BY ConstantsAssumption DEF Init
  <2> QED
    BY <2>1, <2>2, <2>3, <2>4, <2>5, <2>6, <2>7, <2>8 DEF TypeOK
<1> QED
  BY <1>1, TypeStep, PTL DEF Spec

--------------------------------------------------------------------------------
(* What a step may do. *)

(* An instance that is gone stays gone, and tags are only ever added. *)
LEMMA EcsStep ==
  ASSUME TypeOK, [Next]_vars
  PROVE  \A i \in Instance :
           /\ ecs[i] = "gone" => ecs'[i] = "gone"
           /\ ecs[i] # "none" => ecs'[i] # "none" /\ ecsTags[i] \subseteq ecsTags'[i]
           /\ ecs[i] = "none" => ecs'[i] = "none" \/ FirstBatch(Tag) \subseteq ecsTags'[i]
<1> DEFINE Goal == \A i \in Instance :
           /\ ecs[i] = "gone" => ecs'[i] = "gone"
           /\ ecs[i] # "none" => ecs'[i] # "none" /\ ecsTags[i] \subseteq ecsTags'[i]
           /\ ecs[i] = "none" => ecs'[i] = "none" \/ FirstBatch(Tag) \subseteq ecsTags'[i]
<1> SUFFICES Goal
  OBVIOUS
<1> USE DEF TypeOK
<1>1. ASSUME NEW i \in Instance, InstanceBooted(i) \/ InstanceReleased(i) \/ InstanceReclaimed(i) PROVE Goal
  BY <1>1 DEF InstanceBooted, InstanceReleased, InstanceReclaimed
<1>2. ASSUME NEW c \in Claim, NEW i \in Instance, RunInstances(c, i) \/ RunInstancesAnswerLost(c, i) PROVE Goal
  BY <1>2 DEF RunInstances, RunInstancesAnswerLost, RunInstancesEffect
<1>3. ASSUME NEW c \in Claim, ApplyDeferredBatch(c) \/ TagBatch(c) PROVE Goal
  BY <1>3 DEF ApplyDeferredBatch, TagBatch
<1>4. ASSUME NEW i, DeleteAccepted(i), UNCHANGED ecsTags PROVE Goal
  BY <1>4 DEF DeleteAccepted
<1>5. CASE UNCHANGED ecsVars
  BY <1>5 DEF ecsVars
<1>6. CASE Environment
  BY <1>1, <1>5, <1>6
  DEF Environment, NodeRegistered, ClaimCreated, ClaimDeleted, ProtectionEnds, NodeDrained, MinutePasses
<1>7. ASSUME NEW c \in Claim, ClaimWorker(c) \/ Tagging(c) PROVE Goal
  BY <1>2, <1>3, <1>4, <1>5, <1>7
  DEF ClaimWorker, Tagging, GetCreatedInstance, GetCreatedInstanceFailed, FinalizeUnlaunched, DeleteInstance,
      DeleteAnswerLost, DescribeAfterDelete, TagGet, TagFailed, TagPatch, ecsVars
<1>8. CASE GarbageCollector
  BY <1>4, <1>5, <1>8
  DEF GarbageCollector, GCListClaims, GCListPage, GCListNodes, GCListFailed, GCDone, GCProtected,
      GCDeleteUnlaunched, GCDelete, GCDeleteFailed, ecsVars
<1> QED
  BY <1>5, <1>6, <1>7, <1>8 DEF Next, OperatorRestart, vars

(* The steps that change a claim or its worker. *)
ClaimChange(c) ==
  \/ ClaimCreated(c) \/ ClaimDeleted(c)
  \/ \E i \in Instance : RunInstances(c, i)
  \/ GetCreatedInstance(c) \/ GetCreatedInstanceFailed(c)
  \/ FinalizeUnlaunched(c) \/ DeleteInstance(c) \/ DescribeAfterDelete(c)

(* The state of a claim and of its worker is changed by ClaimChange alone. *)
LEMMA ClaimStep ==
  ASSUME [Next]_vars
  PROVE  \/ \E c \in Claim : ClaimChange(c)
         \/ OperatorRestart
         \/ UNCHANGED <<claim, providerID, pc, launched>>
<1> USE DEF ClaimChange, apiVars, workerVars
<1>1. CASE Environment
  BY <1>1 DEF Environment, InstanceBooted, InstanceReleased, InstanceReclaimed, NodeRegistered,
              ProtectionEnds, NodeDrained, MinutePasses
<1>2. ASSUME NEW c \in Claim, ClaimWorker(c) PROVE ClaimChange(c) \/ UNCHANGED <<claim, providerID, pc, launched>>
  BY <1>2 DEF ClaimWorker, RunInstancesAnswerLost, ApplyDeferredBatch, DeleteAnswerLost
<1>3. ASSUME NEW c \in Claim, Tagging(c) PROVE UNCHANGED <<claim, providerID, pc, launched>>
  BY <1>3 DEF Tagging, TagGet, TagBatch, TagFailed, TagPatch
<1>4. ASSUME GarbageCollector PROVE UNCHANGED <<claim, providerID, pc, launched>>
  BY <1>4 DEF GarbageCollector, GCListClaims, GCListPage, GCListNodes, GCListFailed, GCDone, GCProtected,
      GCDeleteUnlaunched, GCDelete, GCDeleteFailed, GCDeleteNode
<1> QED
  BY <1>1, <1>2, <1>3, <1>4 DEF Next, vars

(* A worker that holds an instance works for a claim that has none yet. *)
LEMMA WorkerStateStep ==
  ASSUME TypeOK, WorkerState, [Next]_vars
  PROVE  WorkerState'
<1> USE DEF TypeOK, WorkerState
<1>1. ASSUME NEW c \in Claim, ClaimCreated(c) \/ ClaimDeleted(c) PROVE WorkerState'
  BY <1>1 DEF ClaimCreated, ClaimDeleted, workerVars
<1>2. ASSUME NEW c \in Claim, NEW i \in Instance, RunInstances(c, i) PROVE WorkerState'
  BY <1>2, NotInstance DEF RunInstances, CreateCalled, apiVars
<1>3. ASSUME NEW c \in Claim, GetCreatedInstance(c) \/ GetCreatedInstanceFailed(c) PROVE WorkerState'
  BY <1>3 DEF GetCreatedInstance, GetCreatedInstanceFailed, apiVars
<1>4. ASSUME NEW c \in Claim, FinalizeUnlaunched(c) \/ DeleteInstance(c) \/ DescribeAfterDelete(c) PROVE WorkerState'
  BY <1>4 DEF FinalizeUnlaunched, DeleteInstance, DescribeAfterDelete, FinalizerCalls, RemoveClaim, apiVars, workerVars
<1>5. CASE OperatorRestart
  BY <1>5 DEF OperatorRestart, apiVars
<1>6. CASE UNCHANGED <<claim, providerID, pc, launched>>
  BY <1>6
<1> QED
  BY <1>1, <1>2, <1>3, <1>4, <1>5, <1>6, ClaimStep DEF ClaimChange

(* A provider ID is set once, to what Create launched. *)
LEMMA ProviderIDStep ==
  ASSUME TypeOK, WorkerState, [Next]_vars
  PROVE  \/ providerID' = providerID
         \/ \E c \in Claim : GetCreatedInstance(c) /\ providerID[c] = NoInstance
BY ClaimStep
DEF ClaimChange, ClaimCreated, ClaimDeleted, RunInstances, GetCreatedInstance, GetCreatedInstanceFailed, WorkerState,
    FinalizeUnlaunched, DeleteInstance, DescribeAfterDelete, RemoveClaim, OperatorRestart, apiVars

(* A claim keeps its instance, and the instance its tags and its end. *)
LEMMA InstanceKeptStep ==
  ASSUME TypeOK, WorkerState, KnownLaunched, [Next]_vars,
         NEW c \in Claim, providerID[c] # NoInstance
  PROVE  /\ providerID[c] \in Instance
         /\ providerID'[c] = providerID[c]
         /\ ecsTags[providerID[c]] \subseteq ecsTags'[providerID[c]]
         /\ ecs[providerID[c]] = "gone" => ecs'[providerID[c]] = "gone"
<1>1. providerID[c] \in Instance /\ ecs[providerID[c]] # "none"
  BY DEF TypeOK, KnownLaunched
<1>2. providerID'[c] = providerID[c]
  BY ProviderIDStep DEF GetCreatedInstance, TypeOK
<1> QED
  BY <1>1, <1>2, EcsStep

(* What the collector knows of the claims comes from the API server. *)
LEMMA GCProviderStep ==
  ASSUME TypeOK, [Next]_vars
  PROVE  \A c \in Claim : gcProvider'[c] \in {gcProvider[c], providerID[c], NoInstance}
<1> DEFINE Goal == \A c \in Claim : gcProvider'[c] \in {gcProvider[c], providerID[c], NoInstance}
<1> SUFFICES Goal
  OBVIOUS
<1>1. CASE GCListClaims \/ GCListPage \/ GCListNodes
  BY <1>1 DEF GCListClaims, GCListPage, GCListNodes
<1>2. ASSUME GCEnd PROVE Goal
  BY <1>2 DEF GCEnd
<1>3. ASSUME NEW d \in Claim, GCNextClaim(d) PROVE Goal
  BY <1>3 DEF GCNextClaim, TypeOK
<1>4. CASE UNCHANGED gcProvider
  BY <1>4
<1>5. CASE GarbageCollector
  BY <1>1, <1>2, <1>3, <1>5 DEF GarbageCollector, GCListFailed, GCDone, GCProtected, GCDeleteUnlaunched, GCDelete, GCDeleteFailed
<1>6. CASE Environment
  BY <1>4, <1>6 DEF Environment, InstanceBooted, InstanceReleased, InstanceReclaimed, NodeRegistered, ClaimCreated,
     ClaimDeleted, ProtectionEnds, NodeDrained, MinutePasses, gcVars
<1>7. ASSUME NEW c \in Claim, ClaimWorker(c) \/ Tagging(c) PROVE Goal
  BY <1>4, <1>7 DEF ClaimWorker, Tagging, RunInstances, RunInstancesAnswerLost, ApplyDeferredBatch, GetCreatedInstance,
     GetCreatedInstanceFailed, FinalizeUnlaunched, DeleteInstance, DeleteAnswerLost, DescribeAfterDelete,
     TagGet, TagBatch, TagFailed, TagPatch, gcVars
<1> QED
  BY <1>2, <1>4, <1>5, <1>6, <1>7 DEF Next, OperatorRestart, vars, gcVars

(* A worker comes to hold an instance by launching it. *)
LEMMA LaunchedStep ==
  ASSUME TypeOK, [Next]_vars
  PROVE  \/ \E c \in Claim, i \in Instance : RunInstances(c, i)
         \/ \A c \in Claim : launched'[c] \in {launched[c], NoInstance}
BY ZenonT(60), ClaimStep
DEF TypeOK, ClaimChange, ClaimCreated, ClaimDeleted, GetCreatedInstance, GetCreatedInstanceFailed,
    FinalizeUnlaunched, DeleteInstance, DescribeAfterDelete, OperatorRestart, workerVars

(* Whatever a claim, a worker or the collector names has been launched. *)
LEMMA KnownLaunchedStep ==
  ASSUME TypeOK, WorkerState, KnownLaunched, [Next]_vars
  PROVE  KnownLaunched'
<1> SUFFICES ASSUME NEW c \in Claim, NEW i \in {providerID'[c], launched'[c], gcProvider'[c]}, i # NoInstance
             PROVE  ecs'[i] # "none"
  BY DEF KnownLaunched
<1>1. \A j \in {providerID[c], launched[c], gcProvider[c]} \ {NoInstance} : j \in Instance /\ ecs'[j] # "none"
  BY EcsStep DEF KnownLaunched, TypeOK
<1>2. CASE i = providerID'[c]
  <2>1. i \in {providerID[c], launched[c]}
    BY <1>2, ProviderIDStep DEF GetCreatedInstance, TypeOK
  <2> QED
    BY <1>1, <2>1
<1>3. CASE i = gcProvider'[c]
  BY <1>1, <1>3, GCProviderStep
<1>4. CASE i = launched'[c]
  <2>1. CASE launched'[c] \in {launched[c], NoInstance}
    BY <1>1, <1>4, <2>1
  <2>2. ASSUME NEW d \in Claim, NEW j \in Instance, RunInstances(d, j) PROVE ecs'[i] # "none"
    <3>1. launched' = [launched EXCEPT ![d] = j] /\ ecs' = [ecs EXCEPT ![j] = "initializing"]
      BY <2>2 DEF RunInstances, RunInstancesEffect
    <3>2. i = j \/ i = launched[c]
      BY <1>4, <3>1 DEF TypeOK
    <3>3. ecs'[j] = "initializing"
      BY <3>1 DEF TypeOK
    <3> QED
      BY <1>1, <3>2, <3>3
  <2> QED
    BY <2>1, <2>2, LaunchedStep
<1> QED
  BY <1>2, <1>3, <1>4

(* The tags RunInstances was given stay on the instance. *)
LEMMA FirstBatchAppliedStep ==
  ASSUME TypeOK, FirstBatchApplied, [Next]_vars
  PROVE  FirstBatchApplied'
BY EcsStep DEF FirstBatchApplied

(* A new instance is nobody's yet, and the one a claim is given was its worker's. *)
LEMMA InstanceOfOneClaimStep ==
  ASSUME TypeOK, WorkerState, KnownLaunched, InstanceOfOneClaim, [Next]_vars
  PROVE  InstanceOfOneClaim'
<1> USE DEF TypeOK, InstanceOfOneClaim
<1>1. ASSUME NEW c \in Claim, NEW i \in Instance, RunInstances(c, i) PROVE InstanceOfOneClaim'
  <2>1. \A d \in Claim : i # providerID[d] /\ i # launched[d]
    BY <1>1, NotInstance DEF RunInstances, RunInstancesEffect, KnownLaunched
  <2>2. launched' = [launched EXCEPT ![c] = i] /\ providerID' = providerID
    BY <1>1 DEF RunInstances, apiVars
  <2> QED
    BY <2>1, <2>2
<1>2. ASSUME NEW c \in Claim, GetCreatedInstance(c) PROVE InstanceOfOneClaim'
  BY <1>2 DEF GetCreatedInstance, WorkerState
<1>3. ASSUME UNCHANGED providerID, \A c \in Claim : launched'[c] \in {launched[c], NoInstance}
      PROVE  InstanceOfOneClaim'
  BY <1>3
<1> QED
  BY <1>1, <1>2, <1>3, LaunchedStep, ProviderIDStep

(* A claim is removed by those who saw its instance gone. *)
LEMMA RemovedStep ==
  ASSUME TypeOK, WorkerState, KnownLaunched, RemovedOnlyWhenGone, [Next]_vars
  PROVE  RemovedOnlyWhenGone'
<1> SUFFICES ASSUME NEW c \in Claim, claim'[c] = "removed", providerID'[c] # NoInstance
             PROVE  ecs'[providerID'[c]] = "gone"
  BY DEF RemovedOnlyWhenGone
<1>1. CASE claim[c] = "removed"
  <2>1. providerID'[c] = providerID[c]
    BY <1>1, ProviderIDStep DEF GetCreatedInstance, WorkerState, TypeOK
  <2> QED
    BY <1>1, <2>1, InstanceKeptStep DEF RemovedOnlyWhenGone
<1>2. CASE claim[c] # "removed"
  <2>1. /\ FinalizeUnlaunched(c) \/ DeleteInstance(c) \/ DescribeAfterDelete(c)
        /\ providerID' = providerID
    BY ZenonT(60), <1>2, ClaimStep
    DEF TypeOK, ClaimChange, ClaimCreated, ClaimDeleted, RunInstances, GetCreatedInstance, GetCreatedInstanceFailed,
        FinalizeUnlaunched, DeleteInstance, DescribeAfterDelete, RemoveClaim, OperatorRestart, apiVars
  <2>2. ecs[providerID[c]] = "gone"
    BY <1>2, <2>1 DEF FinalizeUnlaunched, DeleteInstance, DescribeAfterDelete, RemoveClaim, apiVars
  <2> QED
    BY <2>1, <2>2, InstanceKeptStep
<1> QED
  BY <1>1, <1>2

(* The steps that change what the tagging controller knows. *)
LEMMA TagChange ==
  ASSUME [Next]_vars
  PROVE  \/ \E c \in Claim : Tagging(c)
         \/ OperatorRestart
         \/ UNCHANGED <<tagging, missing, tagged>>
<1> USE DEF apiVars, tagVars
<1>1. CASE Environment
  BY <1>1 DEF Environment, InstanceBooted, InstanceReleased, InstanceReclaimed, NodeRegistered, ClaimCreated,
     ClaimDeleted, ProtectionEnds, NodeDrained, MinutePasses
<1>2. ASSUME NEW c \in Claim, ClaimWorker(c) PROVE UNCHANGED <<tagging, missing, tagged>>
  BY <1>2 DEF ClaimWorker, RunInstances, RunInstancesAnswerLost, ApplyDeferredBatch, GetCreatedInstance,
     GetCreatedInstanceFailed, FinalizeUnlaunched, DeleteInstance, DeleteAnswerLost, DescribeAfterDelete, RemoveClaim
<1>3. ASSUME GarbageCollector PROVE UNCHANGED <<tagging, missing, tagged>>
  BY <1>3 DEF GarbageCollector, GCListClaims, GCListPage, GCListNodes, GCListFailed, GCDone, GCProtected,
     GCDeleteUnlaunched, GCDelete, GCDeleteFailed, GCDeleteNode
<1> QED
  BY <1>1, <1>2, <1>3 DEF Next, vars

(* A reconcile in flight still has to apply every tag the instance lacks,   *)
(* and what it has applied nobody takes away: the annotation it writes at   *)
(* the end is true, and stays true.                                         *)
LEMMA TagStateStep ==
  ASSUME TypeOK, WorkerState, KnownLaunched, TagState, TaggedOnlyWhenComplete, [Next]_vars
  PROVE  TagState' /\ TaggedOnlyWhenComplete'
<1>0. ASSUME NEW c \in Claim, c \in tagging \cup tagged \/ TagGet(c)
      PROVE  /\ providerID[c] # NoInstance /\ providerID'[c] = providerID[c]
             /\ ecsTags[providerID[c]] \subseteq ecsTags'[providerID[c]]
             /\ ecsTags'[providerID[c]] \subseteq Tag
  <2>1. providerID[c] # NoInstance
    BY <1>0 DEF TagState, TagGet, Taggable
  <2>2. TypeOK'
    BY TypeStep
  <2> QED
    BY <2>1, <2>2, InstanceKeptStep DEF TypeOK
<1>1. \A c \in tagging : Tag \ missing[c] \subseteq ecsTags'[providerID[c]]
  BY <1>0 DEF TagState, TypeOK
<1>2. \A c \in tagged : ecsTags'[providerID[c]] = Tag
  <2> SUFFICES ASSUME NEW c \in tagged PROVE ecsTags'[providerID[c]] = Tag
    OBVIOUS
  <2>1. c \in Claim /\ ecsTags[providerID[c]] = Tag
    BY DEF TaggedOnlyWhenComplete, TypeOK
  <2>2. /\ ecsTags[providerID[c]] \subseteq ecsTags'[providerID[c]]
        /\ ecsTags'[providerID[c]] \subseteq Tag
    BY <1>0, <2>1
  <2> QED
    BY <2>1, <2>2
<1>3. ASSUME NEW d \in Claim, TagGet(d) PROVE TagState' /\ TaggedOnlyWhenComplete'
  <2> PICK seen \in SUBSET ecsTags[providerID[d]] : missing' = [missing EXCEPT ![d] = Tag \ seen]
    BY <1>3 DEF TagGet
  <2>1. tagging' = tagging \cup {d} /\ tagged' = tagged
    BY <1>3 DEF TagGet, apiVars
  <2>2. Tag \ missing'[d] \subseteq ecsTags'[providerID[d]]
    BY <1>0, <1>3, <2>1 DEF TypeOK
  <2>3. \A c \in Claim \ {d} : missing'[c] = missing[c]
    BY DEF TypeOK
  <2> QED
    BY <1>0, <1>1, <1>2, <1>3, <2>1, <2>2, <2>3 DEF TagState, TaggedOnlyWhenComplete, TypeOK
<1>4. ASSUME NEW d \in Claim, TagBatch(d) PROVE TagState' /\ TaggedOnlyWhenComplete'
  <2>1. /\ d \in tagging /\ tagging' = tagging /\ tagged' = tagged
        /\ missing' = [missing EXCEPT ![d] = @ \ FirstBatch(@)]
        /\ ecsTags' = [ecsTags EXCEPT ![providerID[d]] = @ \cup FirstBatch(missing[d])]
    BY <1>4 DEF TagBatch, apiVars
  <2>2. providerID[d] \in Instance
    BY <1>0, <2>1 DEF TypeOK
  <2>3. Tag \ missing'[d] \subseteq ecsTags'[providerID[d]]
    BY <1>1, <2>1, <2>2 DEF TypeOK
  <2>4. \A c \in Claim \ {d} : missing'[c] = missing[c]
    BY <2>1 DEF TypeOK
  <2> QED
    BY <1>0, <1>1, <1>2, <2>1, <2>3, <2>4 DEF TagState, TaggedOnlyWhenComplete, TypeOK
<1>5. ASSUME NEW d \in Claim, TagFailed(d) PROVE TagState' /\ TaggedOnlyWhenComplete'
  <2>1. /\ tagging' = tagging \ {d} /\ tagged' = tagged
        /\ \A c \in Claim \ {d} : missing'[c] = missing[c]
    BY <1>5 DEF TagFailed, apiVars, TypeOK
  <2> QED
    BY <1>0, <1>1, <1>2, <2>1 DEF TagState, TaggedOnlyWhenComplete, TypeOK
<1>6. ASSUME NEW d \in Claim, TagPatch(d) PROVE TagState' /\ TaggedOnlyWhenComplete'
  <2>1. /\ d \in tagging /\ missing[d] = {} /\ missing' = missing
        /\ tagging' \subseteq tagging /\ tagged' \subseteq tagged \cup {d}
    BY <1>6 DEF TagPatch
  <2>2. ecsTags'[providerID[d]] = Tag
    BY <1>0, <1>1, <2>1
  <2> QED
    BY <1>0, <1>1, <1>2, <2>1, <2>2 DEF TagState, TaggedOnlyWhenComplete, TypeOK
<1>7. CASE OperatorRestart
  BY <1>0, <1>2, <1>7 DEF OperatorRestart, TagState, TaggedOnlyWhenComplete, apiVars, TypeOK
<1>8. CASE UNCHANGED <<tagging, missing, tagged>>
  BY <1>0, <1>1, <1>2, <1>8 DEF TagState, TaggedOnlyWhenComplete, TypeOK
<1> QED
  BY <1>3, <1>4, <1>5, <1>6, <1>7, <1>8, TagChange DEF Tagging

--------------------------------------------------------------------------------
(* The inductive invariant, and what follows from it. *)

(* Each conjunct of IInv is kept by every step that starts in IInv: the    *)
(* invariant behind what Create, Delete and the tagging controller promise. *)
THEOREM Invariance == Spec => []IInv
<1>1. Init => IInv
  <2> SUFFICES ASSUME Init PROVE IInv
    OBVIOUS
  <2>1. WorkerState /\ KnownLaunched
    BY DEF Init, WorkerState, KnownLaunched
  <2>2. FirstBatchApplied
    BY DEF Init, FirstBatchApplied
  <2>3. TagState /\ TaggedOnlyWhenComplete
    BY DEF Init, TagState, TaggedOnlyWhenComplete
  <2>4. InstanceOfOneClaim /\ RemovedOnlyWhenGone
    BY DEF Init, InstanceOfOneClaim, RemovedOnlyWhenGone
  <2> QED
    BY <2>1, <2>2, <2>3, <2>4 DEF IInv
<1>2. TypeOK /\ IInv /\ [Next]_vars => IInv'
  BY WorkerStateStep, KnownLaunchedStep, FirstBatchAppliedStep, TagStateStep, InstanceOfOneClaimStep, RemovedStep DEF IInv
<1> QED
  BY <1>1, <1>2, TypeCorrect, PTL DEF Spec

(* The finalizer of a claim goes last: through restarts, lost answers and a *)
(* collector that deletes too, no claim goes away before its instance.      *)
THEOREM ClaimOutlivesInstance == Spec => []RemovedOnlyWhenGone
<1>1. IInv => RemovedOnlyWhenGone
  BY DEF IInv
<1> QED
  BY <1>1, Invariance, PTL

(* The annotation of the tagging controller is never wrong: tags that Create *)
(* deferred and lost are on the instance before it is written.              *)
THEOREM AnnotationIsTrue == Spec => []TaggedOnlyWhenComplete
<1>1. IInv => TaggedOnlyWhenComplete
  BY DEF IInv
<1> QED
  BY <1>1, Invariance, PTL

(* No instance is given to two claims.                                      *)
THEOREM InstanceIsOfOneClaim == Spec => []InstanceOfOneClaim
<1>1. IInv => InstanceOfOneClaim
  BY DEF IInv
<1> QED
  BY <1>1, Invariance, PTL

--------------------------------------------------------------------------------
(* When every instance fits in one page of DescribeInstances, and the tag   *)
(* its filter looks for is in the first batch, the collector is right about *)
(* orphans: the two conditions that the violated runs do without.           *)
OnePage == NumInstances <= PageSize /\ ManagedBy <= MaxTagsPerRequest

(* The key of the tag filter is among the first keys. *)
LEMMA FirstBatchHasManagedBy ==
  ASSUME OnePage
  PROVE  ManagedBy \in FirstBatch(Tag)
<1>1. /\ NumTags \in Nat /\ MaxTagsPerRequest \in Nat /\ ManagedBy \in 1..NumTags
      /\ ManagedBy <= MaxTagsPerRequest
  BY ConstantsAssumption DEF OnePage
<1>2. {u \in Tag : u < ManagedBy} = 1 .. ManagedBy - 1
  BY <1>1 DEF Tag
<1>3. Cardinality(1 .. ManagedBy - 1) = ManagedBy - 1
  BY <1>1, FS_Interval
<1>3a. Cardinality({u \in Tag : u < ManagedBy}) = ManagedBy - 1
  BY <1>2, <1>3, Zenon
<1>4. Cardinality({u \in Tag : u < ManagedBy}) < MaxTagsPerRequest
  BY <1>1, <1>3a
<1>5. ManagedBy \in Tag
  BY <1>1 DEF Tag
<1> QED
  BY <1>4, <1>5 DEF FirstBatch

(* With one page, the listing returns every visible instance at once. *)
LEMMA FirstPageIsAll ==
  ASSUME OnePage
  PROVE  Page(1) = Visible /\ Cardinality(Visible) \in Nat /\ Cardinality(Visible) <= PageSize
<1>1. NumInstances \in Nat /\ PageSize \in Nat /\ NumInstances <= PageSize
  BY ConstantsAssumption DEF OnePage
<1>2. IsFiniteSet(Instance) /\ Cardinality(Instance) = NumInstances
  BY <1>1, FS_Interval DEF Instance
<1>3. ASSUME NEW S \in SUBSET Instance
      PROVE  IsFiniteSet(S) /\ Cardinality(S) \in Nat /\ Cardinality(S) <= PageSize
  BY <1>1, <1>2, FS_Subset, FS_CardinalityType
<1>4. ASSUME NEW i \in Visible PROVE Rank(i) \in Nat /\ 0 < Rank(i) /\ Rank(i) <= PageSize
  <2> DEFINE S == {j \in Visible : j <= i}
  <2>1. S \in SUBSET Instance /\ i \in S
    BY <1>1 DEF Visible, Instance
  <2>2. Cardinality(S) # 0
    BY <1>3, <2>1, FS_EmptySet
  <2> QED
    BY <1>3, <2>1, <2>2 DEF Rank
<1>5. Page(1) = Visible
  BY <1>1, <1>4 DEF Page
<1> QED
  BY <1>3, <1>5 DEF Visible

(* What the collector takes for an orphan was gone before it decided so. *)
LEMMA OrphansGoneStep ==
  ASSUME OnePage, TypeOK, KnownLaunched, FirstBatchApplied, OrphansGone, [Next]_vars
  PROVE  OrphansGone'
<1> USE DEF OrphansGone
<1>0. \A c \in Claim : gcProvider[c] # NoInstance =>
        /\ gcProvider[c] \in Instance
        /\ ecs[gcProvider[c]] # "none"
        /\ ecs[gcProvider[c]] = "gone" => ecs'[gcProvider[c]] = "gone"
  BY EcsStep DEF KnownLaunched, TypeOK
<1>1. CASE GCListClaims
  BY <1>1, <1>0 DEF GCListClaims, TypeOK
<1>2. CASE GCListPage
  <2>1. gcPage * PageSize >= Cardinality(Visible) /\ Page(gcPage) = Visible
    <3>1. PageSize \in Nat /\ 1 * PageSize = PageSize
      BY ConstantsAssumption
    <3> QED
      BY <3>1, FirstPageIsAll
  <2>2. /\ gcPc' = "nodes" /\ gcPage' = gcPage /\ ecs' = ecs
        /\ gcProvider' = gcProvider /\ gcClaims' = gcClaims
        /\ Visible \subseteq gcListed'
    BY <1>2, <2>1 DEF GCListPage, ecsVars
  <2>3. ASSUME NEW c \in gcClaims, gcProvider[c] \notin gcListed' \cup {NoInstance} PROVE ecs[gcProvider[c]] = "gone"
    <3>1. c \in Claim /\ gcProvider[c] \notin Visible
      BY <2>2, <2>3 DEF TypeOK
    <3>2. gcProvider[c] \in Instance /\ ecs[gcProvider[c]] # "none"
      BY <1>0, <2>3, <3>1
    <3>3. ManagedBy \in ecsTags[gcProvider[c]]
      BY <3>2, FirstBatchHasManagedBy DEF FirstBatchApplied
    <3> QED
      BY <3>1, <3>2, <3>3 DEF Visible
  <2> QED
    BY <2>2, <2>3
<1>3. CASE GCListNodes
  <2>1. /\ gcPc = "nodes" /\ gcPage' = 1 /\ ecs' = ecs
        /\ gcClaims' = {c \in gcClaims : gcProvider[c] \notin gcListed}
        /\ \A c \in gcClaims' : c \in Claim => gcProvider'[c] = gcProvider[c]
    BY <1>3 DEF GCListNodes, ecsVars
  <2> QED
    BY <2>1 DEF TypeOK
<1>4. ASSUME GCEnd PROVE OrphansGone'
  BY <1>4 DEF GCEnd
<1>5. ASSUME NEW d \in Claim, GCNextClaim(d) PROVE OrphansGone'
  BY <1>0, <1>5 DEF GCNextClaim, TypeOK
<1>6. CASE UNCHANGED gcVars
  BY <1>0, <1>6 DEF gcVars, TypeOK
<1>7. CASE GarbageCollector
  BY <1>1, <1>2, <1>3, <1>4, <1>5, <1>7
  DEF GarbageCollector, GCListFailed, GCDone, GCProtected, GCDeleteUnlaunched, GCDelete, GCDeleteFailed
<1>8. CASE Environment
  <2>1. CASE MinutePasses
    BY <1>0, <2>1 DEF MinutePasses, ecsVars, TypeOK
  <2> QED
    BY <1>6, <1>8, <2>1 DEF Environment, InstanceBooted, InstanceReleased, InstanceReclaimed, NodeRegistered, ClaimCreated,
       ClaimDeleted, ProtectionEnds, NodeDrained
<1>9. ASSUME NEW c \in Claim, ClaimWorker(c) \/ Tagging(c) PROVE OrphansGone'
  BY <1>6, <1>9 DEF ClaimWorker, Tagging, RunInstances, RunInstancesAnswerLost, ApplyDeferredBatch, GetCreatedInstance,
     GetCreatedInstanceFailed, FinalizeUnlaunched, DeleteInstance, DeleteAnswerLost, DescribeAfterDelete,
     TagGet, TagBatch, TagFailed, TagPatch
<1> QED
  BY <1>4, <1>6, <1>7, <1>8, <1>9 DEF Next, OperatorRestart, vars

(* The claims the collector acts on have lost their instance, although it   *)
(* looks at them with lists taken earlier (garbagecollection.go:59-127).    *)
THEOREM CollectorIsRight == ASSUME OnePage PROVE Spec => []OrphansGone
<1>1. Init => OrphansGone
  BY DEF Init, OrphansGone
<1>2. TypeOK /\ IInv /\ OrphansGone /\ [Next]_vars => OrphansGone'
  BY OrphansGoneStep DEF IInv
<1> QED
  BY <1>1, <1>2, TypeCorrect, Invariance, PTL DEF Spec

(* The only steps that terminate an instance or delete a Node. *)
LEMMA TerminatingStep ==
  ASSUME TypeOK, [Next]_vars, NEW i \in Instance, ecs[i] # "terminating", ecs'[i] = "terminating"
  PROVE  \E c \in Claim :
           \/ claim[c] = "deleting" /\ providerID[c] = i
           \/ gcPc = "sweep" /\ c \in gcClaims /\ gcProvider[c] = i
<1> DEFINE Goal == \E c \in Claim :
           \/ claim[c] = "deleting" /\ providerID[c] = i
           \/ gcPc = "sweep" /\ c \in gcClaims /\ gcProvider[c] = i
<1> SUFFICES Goal
  OBVIOUS
<1> USE DEF TypeOK
<1>1. ASSUME NEW j \in Instance, InstanceBooted(j) \/ InstanceReleased(j) \/ InstanceReclaimed(j) PROVE Goal
  BY <1>1 DEF InstanceBooted, InstanceReleased, InstanceReclaimed
<1>2. ASSUME NEW c \in Claim, NEW j \in Instance, RunInstances(c, j) \/ RunInstancesAnswerLost(c, j) PROVE Goal
  BY <1>2 DEF RunInstances, RunInstancesAnswerLost, RunInstancesEffect
<1>3. ASSUME NEW c \in Claim, DeleteInstance(c) \/ DeleteAnswerLost(c) PROVE Goal
  BY <1>3 DEF DeleteInstance, DeleteAnswerLost, DeleteAccepted, FinalizerCalls
<1>4. ASSUME NEW c \in Claim, GCDelete(c) \/ GCDeleteFailed(c) PROVE Goal
  BY <1>4 DEF GCDelete, GCDeleteFailed, DeleteAccepted, GCNextClaim
<1>5. CASE UNCHANGED ecs
  BY <1>5
<1>6. CASE Environment
  BY <1>1, <1>5, <1>6
  DEF Environment, NodeRegistered, ClaimCreated, ClaimDeleted, ProtectionEnds, NodeDrained, MinutePasses, ecsVars
<1>7. ASSUME NEW c \in Claim, ClaimWorker(c) \/ Tagging(c) PROVE Goal
  BY <1>2, <1>3, <1>5, <1>7
  DEF ClaimWorker, Tagging, ApplyDeferredBatch, GetCreatedInstance, GetCreatedInstanceFailed, FinalizeUnlaunched,
      DescribeAfterDelete, TagGet, TagBatch, TagFailed, TagPatch, ecsVars
<1>8. CASE GarbageCollector
  BY <1>4, <1>5, <1>8
  DEF GarbageCollector, GCListClaims, GCListPage, GCListNodes, GCListFailed, GCDone, GCProtected,
      GCDeleteUnlaunched, ecsVars
<1> QED
  BY <1>5, <1>6, <1>7, <1>8 DEF Next, OperatorRestart, vars, ecsVars

(* The only steps that delete a Node that names an instance. *)
LEMMA NodeDeletedStep ==
  ASSUME TypeOK, [Next]_vars, NEW i \in Instance, i \in nodes, i \notin nodes'
  PROVE  \E c \in Claim :
           \/ claim[c] = "deleting" /\ providerID[c] = i
           \/ gcPc = "sweep" /\ c \in gcClaims /\ gcProvider[c] = i
<1> DEFINE Goal == \E c \in Claim :
           \/ claim[c] = "deleting" /\ providerID[c] = i
           \/ gcPc = "sweep" /\ c \in gcClaims /\ gcProvider[c] = i
<1> SUFFICES Goal
  OBVIOUS
<1>1. CASE Environment
  BY <1>1 DEF Environment, InstanceBooted, InstanceReleased, InstanceReclaimed, NodeRegistered, ClaimCreated,
     ClaimDeleted, ProtectionEnds, NodeDrained, MinutePasses, apiVars
<1>2. ASSUME NEW c \in Claim, ClaimWorker(c) \/ Tagging(c) PROVE Goal
  BY <1>2 DEF ClaimWorker, Tagging, RunInstances, RunInstancesAnswerLost, ApplyDeferredBatch, GetCreatedInstance,
     GetCreatedInstanceFailed, FinalizeUnlaunched, DeleteInstance, DeleteAnswerLost, DescribeAfterDelete, RemoveClaim,
     TagGet, TagBatch, TagFailed, TagPatch, apiVars
<1>3. CASE GarbageCollector
  BY <1>3 DEF GarbageCollector, GCListClaims, GCListPage, GCListNodes, GCListFailed, GCDone, GCProtected,
     GCDeleteUnlaunched, GCDelete, GCDeleteFailed, GCDeleteNode, GCNextClaim, apiVars
<1> QED
  BY <1>1, <1>2, <1>3 DEF Next, OperatorRestart, vars, apiVars

(* Whoever terminates the instance of a claim, or deletes its Node, works   *)
(* for that claim, and it is being deleted; or the instance is gone.        *)
LEMMA InUseStep ==
  ASSUME TypeOK, IInv, OrphansGone, NEW c \in Claim, InUse(c), ecs[providerID[c]] # "gone",
         NEW d \in Claim,
         \/ claim[d] = "deleting" /\ providerID[d] = providerID[c]
         \/ gcPc = "sweep" /\ d \in gcClaims /\ gcProvider[d] = providerID[c]
  PROVE  FALSE
BY DEF TypeOK, IInv, InstanceOfOneClaim, OrphansGone, InUse

(* Nobody terminates the instance of a claim that is not being deleted, and *)
(* the collector with its three old lists is no exception.                  *)
THEOREM InstanceInUseIsKept == ASSUME OnePage PROVE Spec => InstanceInUseKept
<1>1. TypeOK /\ IInv /\ OrphansGone /\ [Next]_vars =>
        [\A c \in Claim : InUse(c) /\ ecs[providerID[c]] \in {"initializing", "running"}
           => ecs'[providerID[c]] # "terminating"]_vars
  <2> SUFFICES ASSUME TypeOK, IInv, OrphansGone, [Next]_vars,
                      NEW c \in Claim, InUse(c), ecs[providerID[c]] \in {"initializing", "running"},
                      ecs'[providerID[c]] = "terminating"
               PROVE  FALSE
    OBVIOUS
  <2>1. providerID[c] \in Instance
    BY DEF TypeOK, InUse
  <2> QED
    BY <2>1, TerminatingStep, InUseStep
<1> QED
  BY <1>1, TypeCorrect, Invariance, CollectorIsRight, PTL DEF Spec, InstanceInUseKept

(* Nor does anyone delete the Node of such a claim before the instance is gone. *)
THEOREM NodeInUseIsKept == ASSUME OnePage PROVE Spec => NodeInUseKept
<1>1. TypeOK /\ IInv /\ OrphansGone /\ [Next]_vars =>
        [\A c \in Claim : InUse(c) /\ providerID[c] \in nodes /\ ecs[providerID[c]] # "gone"
           => providerID[c] \in nodes']_vars
  <2> SUFFICES ASSUME TypeOK, IInv, OrphansGone, [Next]_vars,
                      NEW c \in Claim, InUse(c), ecs[providerID[c]] # "gone",
                      providerID[c] \in nodes, providerID[c] \notin nodes'
               PROVE  FALSE
    OBVIOUS
  <2>1. providerID[c] \in Instance
    BY DEF TypeOK, InUse
  <2> QED
    BY <2>1, NodeDeletedStep, InUseStep
<1> QED
  BY <1>1, TypeCorrect, Invariance, CollectorIsRight, PTL DEF Spec, NodeInUseKept

================================================================================
