# A TLA+ model of karpenter-provider-alibabacloud

This directory holds TLA+ modules that model the controllers of the provider
and the code they share, the TLC configurations that check them, and proofs
that TLAPS checks. Paths are relative to `pkg/` unless they say otherwise.

- `tlc -config <run>.cfg <module>.tla` checks a run (the table below names the
  module of each); every run ends in less than five minutes with two workers.
- `tlapm <module>_proofs.tla` checks the proofs.
- `PROJECT.json` relates every definition to the lines it models, lists the
  runs, the mutations each property was seen to catch, the hazards of the code
  and the findings.

## 1. The system

The operator is one process. It runs the controllers of Karpenter core, which
are a library and not in this repository, with the `CloudProvider` of this
repository, and four controllers of its own. All share the ECS client and the
cached resource providers; they see each other only through ECS and the API
server.

| Component | State it keeps | Operations | Talks to |
|---|---|---|---|
| `providers/instance` | a 30 s cache of instances, the describe batcher | Create, Get, Delete, List, TagInstance | ECS |
| `cloudprovider` | none of its own | Create, Delete, Get, List, GetInstanceTypes, IsDrifted | every provider; called by core, the collector |
| `controllers/nodeclaim/garbagecollection` | `lastRun` | Reconcile (one NodeClaim event, once a minute) | API server, CloudProvider |
| `controllers/nodeclaim/tagging` | none; the annotation on the claim | Reconcile per claim | API server, instance provider |
| `batcher/window.go`, `batcher/instance.go` | items, two timers, flags; a goroutine per flush | Add, timer callbacks, Close, Execute | ECS; callers of CreateInstance |
| `batcher/batcher.go` | singleflight group, TTL cache | Do, BatchDescribeInstances, DedupWithTTL | instance provider |
| `cache/unavailable_offerings.go` | marks with an expiry | MarkUnavailable, IsAvailable, cleanup | nobody consults it yet |
| `controllers/nodeclass/status`, `/hash` | status and annotations of an ECSNodeClass | Reconcile | API server, resolvers |
| `providers/instancetype` | three caches | List, Get, Filter | ECS |
| `providers/vswitch`, `securitygroup`, `imagefamily` | a 2 h cache each | Resolve | ECS, VPC |
| `providers/bootstrap`, `cluster`, `pricing`, `ramrole`, `launchtemplate`, `instanceprofile`, `capacityreservation` | caches or nothing | lookups, rendering | Alibaba Cloud |
| `apis`, `clients`, `operator`, `errors`, `utils` | none | types, validation, API calls, wiring, arithmetic | |

What is hard here, and what makes each part correct:

- **Several processes act on one instance.** The worker of a claim creates and
  deletes it, the tagging controller completes its tags, the collector deletes
  what it takes for an orphan. No two hold a lock; each works from what it read
  some calls ago. Correct means: nobody terminates the instance, or deletes the
  Node, of a claim that is in use; no claim goes away before its instance; an
  annotation is never ahead of the tags; no instance has two claims.
- **Calls fail, and fail after they worked.** RunInstances and DeleteInstances
  may be carried out and lose their answer; deferred tag batches may fail; the
  operator may restart between any two calls.
- **Something must happen in the end.** A claim that is deleted must go, a
  launched one be tagged, the Node of a lost instance be deleted, a request in
  a batch be answered.
- **Timers race a lock.** Callbacks of timers that were stopped still run; a
  flush runs outside the lock while requests come in.
- **Caches are old.** The describe a Get joins may have started earlier; a
  listing in pages is not a snapshot; an answer stored in one cache may itself
  come from another. Correct means a bound on the age of what is used, and that
  no order of concurrent reads and stores breaks it.
- **One question is answered in several places.** Defaults, validation and the
  launch each have their own table of disks; the scheduler plans with one
  computation of a node's capacity and the NodeClaim says another; the zones of
  a claim are read by the filter of types and again by the choice of vSwitches.

## 2. Modules

### InstanceLifecycle: claims, instances, tagging and the collector

One action per call to ECS or to the API server, since that is where the
processes interleave. The functions of the code that make several calls are
spread over actions in the order of their calls:

| Code | Actions |
|---|---|
| `CloudProvider.Create` | `RunInstances` or `RunInstancesAnswerLost`, `ApplyDeferredBatch` per batch, `GetCreatedInstance` or `GetCreatedInstanceFailed` |
| `CloudProvider.Delete`, `instance.Provider.Delete` | `DeleteInstance` (not found, still initializing, accepted) or `DeleteAnswerLost`, then `DescribeAfterDelete` |
| tagging `Reconcile`, `tagInstance` | `TagGet`, `TagBatch` per batch, `TagPatch`; `TagFailed` at any of them |
| collector `Reconcile` | `GCListClaims`, `GCListPage` per page, `GCListNodes`, then for each orphan `GCProtected`, `GCDeleteUnlaunched`, `GCDelete` or `GCDeleteFailed`; `GCListFailed`, `GCDone` |
| start of the operator | `OperatorRestart` |

State: `ecs` and `ecsTags` are ECS; `claim`, `providerID`, `tagged`, `aged` and
`nodes` the API server; `pc`, `launched`, `deferred` the memory of the worker of
a claim; `tagging`, `missing` that of the tagging controller; the variables with
`gc` that of the collector. Instances are numbered in the order in which ECS
lists them and tags in the order of their sorted keys, so that batches and
pages are sets of numbers. External, and marked so in `PROJECT.json`: ECS
itself, the kubelet that registers a Node, and Karpenter core, which calls
Create for a claim without provider ID and Delete for a claim with a deletion
timestamp until it answers `NodeClaimNotFoundError`, and drains the Node first.

Abstracted: which type, image, vSwitch and security group Create picks (one
RunInstances stands for the choice; an early return before it changes nothing);
the texts of errors (an answer is found, not found, still initializing, other);
values of tags. An early return that changes no state is a step that does not
happen. A cached Get is a Get that may answer although the instance was just
lost, and a describe that was joined is one that misses tags applied since:
what the cache may do is module InstanceCache.

### BatchWindow and BatchService: the RunInstances batcher

`BatchWindow` has one window with its callers. `Add`, the two timer callbacks,
`Close` and the end of a flush hold the mutex throughout and are one step each;
the goroutine of a flush holds nothing and takes one step per call and per send
(`RunInstances`, `Distribute`, `ExecuteReturns`, `SendError`, `FlushEnds`). A
timer is nil, armed or expired; when it expires its callback is counted in
`idleCalls` or `maxCalls` and cannot be taken back, which is what
`time.Timer.Stop` guarantees and no more. `BatchService` is what a caller may
rely on: a request is answered at most once, with a failure or with an instance
no other caller was given. `ServiceSpec` is that module under the identity on
`caller` and `answer`: `BatchWindow` implements it.

`WindowedBatcher` is the map around it: `Lookup` under the lock of the map and
`Add` after it, `CleanupExpiredWindows` and `Close`. A window there takes an item
or is closed; what it does with its items is `BatchWindow`. `Delay` is the longest
a call takes from the lookup to `Add`, and is assumed not to exceed `windowTTL`,
ten minutes.

The operator does not call this batcher yet; `InstanceLifecycle` therefore
launches with the unbatched `RunInstances`.

### NodeClass: one ECSNodeClass, what is launched from it, and drift

`versions` is the object from the informer's copy to the API server's: every
reader but the user reads the first, a write appends, `Deliver` drops the first,
and a write that does not start from the last is a conflict. The status
controller is two steps, since the resolve takes as long as its calls do:
`StatusReconcile` computes a status from the informer's copy (`WithSelectors` or
`WithTemplate`, `WithRole`, `WithReady`, in the order of the code, each resource
failing alone), and `UpdateStatus` puts it onto whatever spec is there by then.
`UpdateHash` is the hash controller. `Create` reads one copy and everything about
the instance comes from it; `IsDrifted` compares the instance with another. A
spec is what its selectors stand for. VSwitches and security groups resolve to
that set; a family of images to all its images that are available, older ones
too (`DescribeImages`): one is published (`ImagePublished`) and deprecated
(`ImageDeprecated`) in time, and the status follows at the next reconcile. An
instance of an image that is still available is as good as one of the newest, and
does not drift.

Abstracted: the caches of the resolvers, which delay by up to two hours what a
change of the images does (their own module is `Resolver`), reasons and messages
of conditions, and which of the usable images and vSwitches is picked (any).

### InstanceCache and RecentReads: Get, its cache and the shared describe

One instance stands for all, since entries and keys are separate. Its states in
ECS are numbered; a Get (`GetHit`, `GetMiss`, `GetSkip` for the readers in `Skipper`, as the tagging
controller is one, `DropExpired`, `Do`, `GetReturns`) looks the entry up, joins or starts
the describe of its key (`EcsAnswers`, `Lands`, `Fails`), and stores the answer;
`List` stores what it read, and `Delete` drops the entry. Time is explicit.
`Delay` bounds how long an answer of ECS travels before it is used, and is the
only thing assumed of the scheduler. `RecentReads` is the promise: an answer was
the state of ECS at most `Bound` ago. `ReadsAreRecent` is that module with
`Bound` equal to TTL plus `Delay`.

### UnavailableOfferings: the marks of sold-out offerings

One key. `IsAvailable` leaves the deletion of an expired mark to a goroutine,
which does not look again (`Cleanup`). Nobody consults these marks yet.

### Resolver: vSwitches, security groups and images

The three resolvers have the same shape: key, cache, a query per term,
deduplication, store. They differ in whether nothing found is cached, the
constant `CachesEmpty`. `FreshKey` is the key the code makes: the text of terms by
tags, but an address for a term by ID or name. `there` and `away` remember when
each resource last existed and last did not.

### InstanceTypeFilter, Offerings, Launch and OneLaunch: from stock to launch

`InstanceTypeFilter` has the pure operators by which requirements choose types,
vSwitches, the capacity type and the image; the two others extend it.

`Offerings` follows the stock of ECS through two polls (`PollOnDemand`,
`PollSpot`), each of which may fail or be empty, the cache of the inventory, the
cache of the list, and `Offered`, what `GetInstanceTypes` returns for a NodePool.

`Launch` is one Create: `Prepare` with its early returns, then `NextType` and
the attempts over vSwitches (`Launches`, `OutOfCapacity`, `Fails`,
`TypeExhausted`), then the Get and the labels of the NodeClaim. `OneLaunch` is
what it promises from outside, with every launch that would do in `suitable`:
one instance at most, a suitable one, and "exhausted" only when all of them were
refused. `suitable` is written from the meaning of requirements in Kubernetes,
not with the operators of the code; of the two capacity types it has the one that
Create settles on, spot where the claim names it, so that on-demand is never tried
after spot does not count as giving up early.

### Admission: what is stored of an ECSNodeClass

`Submit` applies the defaults of the schema; then come the mutating webhook, the
rules of the schema and the validating webhook, one step each. `webhooks`, which
the initial state chooses and no step changes, says whether the webhooks run: as
the operator is built they do not, since nothing calls
`SetupWebhookWithManager`, and what that function builds, `For(nc).Complete()`,
has neither a defaulter nor a validator. `Default` and the `Validate` functions
work on their receiver, whatever object they are given; the model has the
receiver for the object, as their tests do. A field is a set of none or one, and a spec
differs from a plain one in a field or two. `Normalizes` and `NormalizeDisks` are
`disks_normalize.go`, which every launch runs.

### Capacity: what a node can hold

`AddonMissing`, `AddonFound`, `DetailFound` and `DetailFails` are the read of the
cluster's network at start, where a crash may come at any point; the operator
then plans with `GetInstanceTypes` and makes NodeClaims with `Get`. `Planned` and
`Allocatable` are the two computations of one quantity.

### Parts: the smaller modules side by side

`Parts` has `UnavailableOfferings`, `WindowedBatcher`, the `Resolver` of vSwitches
and that of security groups, `Offerings`, `Admission`, `Capacity` and `Launch` as
instances. They share no state in the code, and none here: each behaviour
belongs to one `part`, that part's `Next` is the only one enabled, and the
variables of the others keep a fixed value, so the state space is the disjoint
union of theirs. A property of `Parts` is the property of that name of the
module, where its part is the one that runs.

### MC modules

`MCInstanceLifecycle`, `MCBatchWindow`, `MCNodeClass`, `MCInstanceCache`,
`MCLaunch`, `MCOfferings`, `MCResolver` and `MCParts` give one module its
constants.

## 3. Runs

| Run | Module | Bounds | Shows |
|---|---|---|---|
| `LifecycleTwoClaims` | `MCInstanceLifecycle` | 2 claims, 2 instances, 1 page, `NoTagging` | `InstanceOfOneClaim`, `InstanceInUseKept`, `NodeInUseKept` |
| `LifecycleLiveness` | `MCInstanceLifecycle` | 1 claim, 1 instance, 2 tags in 2 batches, 1 restart | `RemovedOnlyWhenGone`, `TaggedOnlyWhenComplete`, `DeletedClaimRemoved`, `LaunchedClaimTagged`, `LostNodeDeleted` |
| `BatchWindow` | `MCBatchWindow` | 2 callers | `NoRequestLost`, `SendNeverBlocks`, `NoInstanceDropped`, `ServiceSpec`, `BatchAnswered`, `ArmedWindowFlushed` |
| `NodeClass` | `MCNodeClass` | 3 specs, one of a template; 1 claim, 2 images, lag 1 | `ReadyOfOneSpec`, `InstanceOfOneSpec`, `SpecKept`, `StatusSettles`, `DriftSettles` |
| `InstanceCache` | `MCInstanceCache` | 2 readers, one of which skips the cache, TTL 1, delay 1, time 3, 2 states | `ReadsAreRecent`, `SkipNotBehind`, `LiveEntryKept`, `GetAnswered` |
| `Parts` | `MCParts` | below | `MarkLasts`, `RefusedOnlyByClose`, `MapIsOfOpen`, `AnswerIsRecent`, `OfferingsAreRecent`, `Reappliable`, `DisksAsSent`, `StoredCanLaunch`, `ClaimAsPlanned`, `LabelsMeetClaim`, `LaunchesOnce` |
| `LifecycleGCPages` | `MCInstanceLifecycle` | 2 pages of 1 | violated: `InstanceInUseKept` |
| `LifecycleBareNode` | `MCInstanceLifecycle` | 1 claim, a Node without provider ID | violated: `NodeOfNoClaimKept` |
| `ResolverPointerKey` | `MCResolver` | 2 selectors by ID, 1 address | violated: `AnswerIsOfSelector` |
| `LaunchForbiddenZone` | `MCLaunch` | a claim with `NotIn` on the zone | violated: `LaunchInRequiredZone` |
| `OfferingsDropped` | `MCOfferings` | 2 zones, a NodePool of the one that is out of stock | violated: `KnownPairIsOffered` |
| `OfferingsShrunk` | `MCOfferings` | the same | violated: `KnownPairKept` |

Every passing run but `LifecycleLiveness` also checks the `TypeOK` of its modules.

Bounds. Two claims are enough for the collector to work for one while the other
is created, deleted or reclaimed, and two instances for a launch that is lost
and repeated. `PageSize` and `MaxTagsPerRequest` are 100 and 20 in the code and
1 or 2 here: what matters is whether one page and one batch are enough.
`NumInstances` bounds the launches and `MaxRestarts` the restarts; nothing else
is bounded. In `LifecycleTwoClaims` the constraint `NoTagging` stops the tagging
controller after its Get, since it only adds tags that none of the three
properties looks at; `LifecycleLiveness` has all of it, and the theorems have
everything. Two callers of a window let one wait while the other is flushed, and
share a batch; that more of them change nothing about safety is proved. In
`NodeClass` three specs let a late status meet a spec two edits on; `Fallible`
bounds which resolves fail (one of them: that is enough for a status that mixes
specs while it is not ready, and more security groups than an instance takes fail
the same step; the proofs have no such bound), `MaxReleases` the images of a family
(two: one comes or goes while another stays), and `MaxLag` how far the informer is
behind when the user writes; one claim is enough, since claims do not meet. In
`InstanceCache` a clock of 3 passes a TTL and a delay with one tick to spare, and
two states of an instance are one change.

In `Parts`: three goroutines and a clock of 7, three TTLs, for marks; three
windows of one key, two calls and a TTL of one tick for the map; two callers, two
selectors of three queries and the one resource they all find for the resolvers,
once with and once without empty entries; two callers, two zones and one pair whose stock changes for offerings,
with a clock of 3 for two TTLs of one. `MaxTerms` and `MaxDataDisks` are 30 and
16 in the code and 2 in the run, so that lists of three are too long; the sizes,
categories and limits of disks are those of the code. Capacity has the code's
share of 5 % for memory, types that it divides evenly and not, types without
memory or network interfaces or with GPUs of each table, and two starts. Launch has
72 claims with each operator the code tells apart, on type, architecture, GPU, zone,
capacity type and a label that types do not have (`NotIn` on the zone is the subject
of `LaunchForbiddenZone`), lists of up to three types and up to three vSwitches in
two zones. One selector of the resolvers is by ID: with two, their entries can be confused,
which is `ResolverPointerKey`.

The claims are symmetric, and so are the callers of `Parts`: no action orders them
(instances and tags are ordered, and are not declared symmetric).

Fairness. ECS boots and releases what it has started. The controllers'
work queues run a reconcile again after an error, with back-off, so an operation
that is called again and again is assumed to get through in the end: strong
fairness of the calls of the tagging controller and of the collector's. A
`DeleteInstance` that fails leaves it as enabled as before, so that weak fairness
is enough for it. A describe that is made again and again is assumed not to join an
older one each time. Nothing is assumed of users, of the spot market, of
launches, of a restart or of `Close`. In `NodeClass`: the
informer catches up, the controllers run again and again, a write that is
repeated succeeds at last, and core asks about drift again and again. That the
resolves stop failing is not a fairness but the premise of the two liveness
properties, `ResolvesRecover`: a reconcile that starts before the informer has
seen the controller's own last write, and fails for one resource, puts the old
value of that resource back, and this may happen every other time. In the
window: timers expire, goroutines are scheduled, and a caller takes what is in
its channel. In `InstanceCache`: a Get that has begun goes on, and ECS answers,
fails or times out. `Parts` assumes no fairness, and has no liveness property.

`CHECK_DEADLOCK FALSE` is set where the modelled part may stop: `BatchWindow`, when
all callers have been answered; `NodeClass`, when the user is done;
`LaunchForbiddenZone`, when the call has returned; `InstanceCache`, `Parts`,
`ResolverPointerKey`, `OfferingsDropped` and `OfferingsShrunk`, when the clock is at
its bound.

### Findings

The violated runs are disagreements of the code with what its comments and tests
say of it; `PROJECT.json` quotes them.

- The collector can terminate an instance that is in use when a page boundary
  moves under its listing (`LifecycleGCPages`, `instance.go:738`).
- It can delete a Node that has no provider ID (`LifecycleBareNode`,
  `garbagecollection.go:149`).
- The key of the resolvers' caches holds addresses, so one selector by ID can be
  answered with what another found (`ResolverPointerKey`,
  `securitygroup.go:114`).
- A claim that forbids a zone may be launched there (`LaunchForbiddenZone`,
  `cloudprovider.go:859`).
- A NodePool that asks for a zone sees no offering for a type that is out of
  stock there, although unavailable offerings are promised
  (`OfferingsDropped`, `instancetype.go:838`).
- One poll of stock whose answer has no body takes the pairs that were known from
  it off the list, which `instancetype.go:123` forbids (`OfferingsShrunk`,
  `instancetype.go:405`).

### What the code does that a reader may not expect

Met while modelling, and part of the models as it is. No property speaks against
it; where one stops short of it, that is said here.

- An instance that no claim has, after a Create whose answer was lost or a
  failed Get (`cloudprovider.go:213`), is never collected: the collector goes
  from claims to instances, not the other way (`garbagecollection.go:120`).
- The collector also takes a claim for an orphan when `karpenter.sh/managed-by`
  was in a deferred batch of tags that failed (`instance.go:367`). The passing
  runs and the theorems have that key in the first batch.
- A window whose timers both expire during a flush keeps what was added meanwhile
  until another request comes (`window.go:107`), and one that is closed during a
  flush keeps it for good (`window.go:187`); `ArmedWindowFlushed` is therefore
  about windows that still have a timer.
- A mark of `unavailable_offerings.go` that is renewed while a cleanup of the old
  one is pending is lost (`:70`); `MarkLasts` excepts exactly that.
- The scheduler plans with 100m of CPU more than the NodeClaim has, since
  `divideQuantity` rounds a third of 100m down to nothing
  (`cloudprovider.go:1283`); and a start that cannot read the detail of a flannel
  cluster plans with the pods of a mask of 24 until the next start
  (`cluster.go:83`). `ClaimAsPlanned` takes both as they are: it says that nothing
  else differs.
- `spotStrategy`, `spotPriceLimit` and `clusterEndpoint` are outside the hash of a
  node class (`cloudprovider.go:1186`), and an edit of them never drifts.
- Create tries types in the order of the list, which is not sorted by price. A
  requirement `NotIn` on the zone drops every type that has stock in the excluded
  zone, also when it has stock elsewhere.
- The status of a node class lists every image its terms find, and nothing selects
  the newest: an instance of an older one does not drift as long as that one is
  available (`status/controller.go:293`), and `selectImageForArchitecture` takes
  the first of the list that fits (`cloudprovider.go:1146`).
- Without webhooks, a disk with `kmsKeyID` and no `encrypted`, or a store policy
  other than RAID0, is admitted and then fails every launch
  (`cloudprovider.go:930`); `StoredCanLaunch` names these. With them, a node
  class of a launch template would always be refused, since `Default` adds a system
  disk that `validateLaunchTemplate` rejects. `disks_normalize.go:61` says that
  hashing uses normalised disks; `calculateNodeClassHash` takes the spec as it
  is.
- A type that ECS returns without network interfaces is planned with less than
  three pods on terway.

## 4. Proofs

Eight modules hold theorems, for all values of the constants that the named
assumptions of the modules admit: `InstanceLifecycle_proofs`,
`BatchWindow_proofs`, `NodeClass_proofs`, `InstanceCache_proofs`,
`Launch_proofs`, `Resolver_proofs`, `WindowedBatcher_proofs` and `Parts_proofs`.
The modules that `Parts` instantiates state no ASSUME of their own, since one of
them is there twice with different constants; the theorems take
`PartsAssumption` as a hypothesis, and `MCParts` asserts it of the constants it
uses. Every invariant, every action property and every refinement of a passing run is a
theorem; what the end of this section names is not.

- Type correctness (`TypeCorrect`) and an inductive invariant (`Invariance`) of
  each.
- From the invariant of `InstanceLifecycle`: `RemovedOnlyWhenGone`,
  `TaggedOnlyWhenComplete`, `InstanceOfOneClaim`. They are not inductive alone.
  That a claim outlives its instance needs `WorkerState` (a worker that
  describes works for a claim with a provider ID that is being deleted) and that
  no instance comes back from `gone`, which `KnownLaunched` gives. That the
  annotation is true needs `TagState`: what a reconcile does not have in
  `missing` is on the instance, and stays, since tags are only added.
- `CollectorIsRight`, and from it `InstanceInUseKept` and `NodeInUseKept`, under
  `OnePage`: the instances fit in one page and the filter's key is in the first
  batch. `LifecycleGCPages` shows that it fails without the first. The argument:
  claims are listed before instances, so a claim of the list was launched before the
  listing, its instance is visible until it is gone (`FirstBatchApplied`), and one
  page returns all that is visible; hence what is not listed is gone.
- From the invariant of `BatchWindow`: that no request is lost, that the plain
  sends never block, that no instance goes to two callers and that none is
  dropped. The invariant says where every request is (in the window, in the
  batch, or answered: `Distinct`, `Quiet`, `OneAnswer`) and that the instances
  told to callers are exactly the numbers up to `Handed`.
- `ImplementsService`: `BatchWindow` refines `BatchService`.
- From the invariant of `NodeClass`: `ReadyOfOneSpec`, `InstanceOfOneSpec`,
  and `SpecKept`, for any number of specs and any lag. The lemma
  they rest on, `ResolvedOfOneSpec`, says that a reconcile leaves Ready true only
  if this pass resolved everything from the spec that was read. The invariant
  adds that a status on its way (`WorkOfOneSpec`) is of a spec the informer has
  seen, and that generations only grow from the informer to the store
  (`GenerationsGrow`), so it never lands on an older spec.
- From the invariant of `InstanceCache`: `SkipNotBehind`, `LiveEntryKept`, and the
  refinement `ImplementsRecentReads`. The invariant says of every answer that is
  held, and of every entry, which state it is and until when it may be used; of
  the describe under way, that it will answer no less than what was told.
- From the invariant of `Launch`: `ImplementsOneLaunch`, that each step of Create
  is a step of `OneLaunch` or none, and `LabelsMeetClaim`. The loops over types
  and vSwitches are tied to what has happened by `Progress` and `RefusedIsPast`:
  what ECS has refused are exactly the attempts that come before the next one, in
  the order of types and of free addresses, so "exhausted" means all. The lemmas
  `MatchingWillDo` and `AllowedWillDo` say that the filter of types and the choice
  of vSwitches agree with the meaning of requirements in Kubernetes, from which
  `suitable` is written. They need `PlainClaims`: zones and capacity types are
  asked for by In or Exists. For NotIn they do not agree, which
  `LaunchForbiddenZone` shows.
- From the invariant of `WindowedBatcher`: `RefusedOnlyByClose` and `MapIsOfOpen`,
  for any keys and calls. `Held` is the core: until Close, the window that a call
  has looked up is still that of a key whose last access is no earlier than the
  lookup, so a cleanup within the TTL leaves it alone. That `Delay` is at most
  `WindowTTL` is needed, and is the assumption.
- From the invariant of `Resolver`: `AnswerIsRecent`, under `KeysTell`: selectors
  and addresses are apart, and one selector at most is by ID or name. Without it the
  entry of another selector is found, which `ResolverPointerKey` shows. The
  invariant carries the age of every resource through a resolve: what a term found
  still existed when the resolve began, and what it did not find was away at some
  moment since (`FoundTrue`), hence the bound on an entry (`EntryTrue`).

`Parts_proofs` has lemmas on the first states and the steps of four modules, and
takes the theorems of `Resolver`, `WindowedBatcher` and `Launch` with the constants
that `Parts` gives them (`OfBatcher`, `OfVSwitches`, `OfSecurityGroups`, `OfLaunch`: a
behaviour of `Parts` is one of that module, or its part is another for ever). From
them follow all twelve properties of the run `Parts`, for any constants:

- `MarkLasts`: a goroutine that was started since the last mark was made found it
  expired.
- `OfferingsAreRecent`, in two lemmas, `OfferIsSound` for the offerings there are
  and `OffersAreComplete` for the pairs without one: `IInv` says of each entry and each call under way when what
  it knows was so (`InventoryKnown`, `TypeListKnown`, `CallKnows`), with the age of
  one cache for the inventory and of two for the list; `Tick` cannot pass the end
  of a call that is too old. The history `last` only grows (`LastGrows`). It needs
  `PlainPools`, zones by In or Exists, since for NotIn a type is dropped for the
  stock of a zone that the pool does not want.
- `Reappliable`, `DisksAsSent` and `StoredCanLaunch`, for every node class that has
  the shape of one, with webhooks and without. The invariant says of what is stored
  that the defaults leave it as it is and the rules accept it (`Stable`), and of a
  submission under way that it has become what the defaults make of what was sent
  (`Final`). The lemmas say what the defaults keep: those of the schema
  (`SchemaDefaulted`), and those of the webhook on top of them (`WebhookDefaulted`);
  and that a disk that satisfies the rules of the schema is one that a launch can
  use (`RulesNormalize`).
- `ClaimAsPlanned`, for any types, overheads and masks: plans and claims are what
  the type and the network make of them, and three thirds that are rounded down
  (`ThreeThirds`) lose two units of memory at most.

Only model-checked: every liveness property, since fairness and ENABLED are beyond the
prover; and what depends on constants that the proofs exclude, as the hypotheses above
say. That Create ends is not stated: each attempt takes one vSwitch or one type off a
finite list.

## 5. Not modelled

- `providers/bootstrap`: renders the user data of an instance; text, with no state.
- `batcher/metrics.go`, `controllers/controllers.go`, the wiring and the options of
  `operator`: nothing depends on them after start. What the operator reads of the
  cluster at start is in `Capacity`.
- `controllers/interruption`: a stub that does nothing and is not registered.
- `providers/pricing`: a table of constants that is replaced whole every hour; it
  reads `lastUpdate` without its lock, and whichever branch that read takes, the
  answer is the same table.
- `providers/ramrole`, `instanceprofile`, `launchtemplate`, `capacityreservation`:
  one lookup each, with no state; that a role or a template is or is not found
  enters with the status controller of `NodeClass`.
- `clients`: the calls themselves are the environment of the models, but for
  `DescribeImages`, which filters and collects pages (`NodeClass`).
- `errors`: predicates on texts; of which kind an answer is, is a choice of ECS in
  the models.
- `batcher/batcher.go` beyond the shared describe, and the batch key of
  `batcher/instance.go`, in which tags are not sorted so that equal requests may
  not share a batch: not called by the operator.
- Generated deep copies, labels, the texts of errors and events.
- Which fields ECS leaves out of an answer, and when: `instance.go:664` skips such
  an instance, and the collector would take its claim for an orphan. A model would
  assume the outcome.
- Overflow of 64-bit integers: memory in bytes of a type that exists does not come
  near it (the cap `1<<53` in GiB, were it reached, would).
