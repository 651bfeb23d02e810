---------------------------------- MODULE Parts ----------------------------------
(***************************************************************************)
(* Parts of the program that have nothing to do with each other, side by    *)
(* side: each behaviour is one of UnavailableOfferings, of WindowedBatcher, *)
(* of the Resolver of vSwitches or of security groups, of Offerings, of     *)
(* Admission, of Capacity or of Launch, and the other variables keep their  *)
(* values.                                                                  *)
(***************************************************************************)
EXTENDS Naturals, Sequences

CONSTANTS
  Caller,                                                (* concurrent calls and reconciles *)
  MarkTTL, MaxMarkTime, MaxCleaners,                     (* UnavailableOfferings *)
  BatchKey, WindowTTL, AddDelay, MaxWindowTime, MaxWindows,   (* WindowedBatcher *)
  Selector, Query, Resource, Terms, Finds, Pinned, Address,
  ResolverTTL, ResolveDelay, MaxResolveTime,             (* the Resolvers *)
  Zone, Configured, Pools, Volatile, Steady,
  OfferingsTTL, ListDelay, MaxListTime,                  (* Offerings *)
  Specs, MaxTerms, MaxDataDisks,                         (* Admission *)
  Types, Installed, Mask, PerMille, FixedMemory, MaxStarts,  (* Capacity *)
  Claims, TypeLists, NodeClasses                         (* Launch *)

VARIABLES part, now
VARIABLES mark, cleaners, marked, raced
VARIABLES window, lastAccess, made, keyOf, shut, stopped, request
VARIABLES exists, cache, call, there, away
VARIABLES stock, inventory, typeList, listing, last
VARIABLES webhooks, stored, submission
VARIABLES operator, starts, plan, claim
VARIABLES required, catalog, nodeClass, stage, types, left, refused, launched, outcome, labels

markVars    == <<mark, cleaners, marked, raced>>
windowVars  == <<window, lastAccess, made, keyOf, shut, stopped, request>>
resolveVars == <<exists, cache, call, there, away>>
offerVars   == <<stock, inventory, typeList, listing, last>>
admitVars   == <<webhooks, stored, submission>>
holdVars    == <<operator, starts, plan, claim>>
launchVars  == <<required, catalog, nodeClass, stage, types, left, refused, launched, outcome, labels>>
vars == <<part, now, markVars, windowVars, resolveVars, offerVars, admitVars, holdVars, launchVars>>

Marks == INSTANCE UnavailableOfferings WITH TTL <- MarkTTL, MaxTime <- MaxMarkTime

Batcher == INSTANCE WindowedBatcher WITH
  Key <- BatchKey, Call <- Caller, call <- request, Delay <- AddDelay, MaxTime <- MaxWindowTime

VSwitches == INSTANCE Resolver WITH
  CachesEmpty <- FALSE, TTL <- ResolverTTL, Delay <- ResolveDelay, MaxTime <- MaxResolveTime

SecurityGroups == INSTANCE Resolver WITH
  CachesEmpty <- TRUE, TTL <- ResolverTTL, Delay <- ResolveDelay, MaxTime <- MaxResolveTime

Offers == INSTANCE Offerings WITH
  call <- listing, TTL <- OfferingsTTL, Delay <- ListDelay, MaxTime <- MaxListTime

Admits == INSTANCE Admission WITH call <- submission

Holds == INSTANCE Capacity

Launching == INSTANCE Launch WITH claim <- required, offered <- catalog, at <- stage

PartsAssumption ==
  /\ Marks!MarksAssumption
  /\ Batcher!BatcherAssumption
  /\ VSwitches!ResolverAssumption /\ SecurityGroups!ResolverAssumption
  /\ Offers!OfferingsAssumption
  /\ Admits!AdmissionAssumption
  /\ Holds!CapacityAssumption
  /\ Launching!LaunchAssumption

NoMarks == mark = {} /\ cleaners = 0 /\ marked = {} /\ raced = FALSE
NoWindows == /\ window = <<>> /\ lastAccess = <<>> /\ made = 0 /\ keyOf = <<>>
             /\ shut = {} /\ stopped = FALSE /\ request = <<>>
NoResolver == exists = {} /\ cache = <<>> /\ call = <<>> /\ there = <<>> /\ away = <<>>
NoOffers == stock = <<>> /\ inventory = {} /\ typeList = {} /\ listing = <<>> /\ last = <<>>
NoAdmission == webhooks = FALSE /\ stored = {} /\ submission = <<>>
NoHolds == operator = <<>> /\ starts = 0 /\ plan = {} /\ claim = {}
NoLaunch == /\ required = {} /\ catalog = <<>> /\ nodeClass = [images |-> <<>>] /\ stage = "end" /\ types = {}
            /\ left = {} /\ refused = {} /\ launched = {} /\ outcome = "pending" /\ labels = <<>>

IsMarks     == part = "marks" /\ NoWindows /\ NoResolver /\ NoOffers /\ NoAdmission /\ NoHolds /\ NoLaunch
IsWindows   == part = "windows" /\ NoMarks /\ NoResolver /\ NoOffers /\ NoAdmission /\ NoHolds /\ NoLaunch
Resolves(p) == part = p /\ NoMarks /\ NoWindows /\ NoOffers /\ NoAdmission /\ NoHolds /\ NoLaunch
IsOfferings == part = "offerings" /\ NoMarks /\ NoWindows /\ NoResolver /\ NoAdmission /\ NoHolds /\ NoLaunch
IsAdmission == part = "admission" /\ now = 0 /\ NoMarks /\ NoWindows /\ NoResolver /\ NoOffers /\ NoHolds /\ NoLaunch
IsCapacity  == part = "capacity" /\ now = 0 /\ NoMarks /\ NoWindows /\ NoResolver /\ NoOffers /\ NoAdmission /\ NoLaunch
IsLaunch    == part = "launch" /\ now = 0 /\ NoMarks /\ NoWindows /\ NoResolver /\ NoOffers /\ NoAdmission /\ NoHolds

Init ==
  \/ IsMarks /\ Marks!Init
  \/ IsWindows /\ Batcher!Init
  \/ Resolves("vSwitches") /\ VSwitches!Init
  \/ Resolves("securityGroups") /\ SecurityGroups!Init
  \/ IsOfferings /\ Offers!Init
  \/ IsAdmission /\ Admits!Init
  \/ IsCapacity /\ Holds!Init
  \/ IsLaunch /\ Launching!Init

Next ==
  \/ part = "marks" /\ Marks!Next /\ UNCHANGED <<part, windowVars, resolveVars, offerVars, admitVars, holdVars, launchVars>>
  \/ part = "windows" /\ Batcher!Next /\ UNCHANGED <<part, markVars, resolveVars, offerVars, admitVars, holdVars, launchVars>>
  \/ part = "vSwitches" /\ VSwitches!Next /\ UNCHANGED <<part, markVars, windowVars, offerVars, admitVars, holdVars, launchVars>>
  \/ part = "securityGroups" /\ SecurityGroups!Next /\ UNCHANGED <<part, markVars, windowVars, offerVars, admitVars, holdVars, launchVars>>
  \/ part = "offerings" /\ Offers!Next /\ UNCHANGED <<part, markVars, windowVars, resolveVars, admitVars, holdVars, launchVars>>
  \/ part = "admission" /\ Admits!Next /\ UNCHANGED <<part, now, markVars, windowVars, resolveVars, offerVars, holdVars, launchVars>>
  \/ part = "capacity" /\ Holds!Next /\ UNCHANGED <<part, now, markVars, windowVars, resolveVars, offerVars, admitVars, launchVars>>
  \/ part = "launch" /\ Launching!Next /\ UNCHANGED <<part, now, markVars, windowVars, resolveVars, offerVars, admitVars, holdVars>>

Spec == Init /\ [][Next]_vars

--------------------------------------------------------------------------------
(* The properties are those of the modules, each where its part is active.  *)

(* The variables have their types. *)
TypeOK == /\ part = "marks" => Marks!TypeOK
          /\ part = "windows" => Batcher!TypeOK
          /\ part = "vSwitches" => VSwitches!TypeOK
          /\ part = "securityGroups" => SecurityGroups!TypeOK
          /\ part = "offerings" => Offers!TypeOK
          /\ part = "admission" => Admits!TypeOK
          /\ part = "capacity" => Holds!TypeOK
          /\ part = "launch" => Launching!TypeOK

(* UnavailableOfferings: a mark lasts for a TTL.                             *)
MarkLasts == part = "marks" => Marks!MarkLasts

(* WindowedBatcher: a window is not cleaned up between lookup and Add.      *)
RefusedOnlyByClose == part = "windows" => Batcher!RefusedOnlyByClose

(* WindowedBatcher: the map has the open windows, with their last access.   *)
MapIsOfOpen == part = "windows" => Batcher!MapIsOfOpen

(* Resolver: an answer is of the TTL and one Resolve ago at most, an answer *)
(* "none" about vSwitches of this Resolve.                                  *)
AnswerIsRecent == /\ part = "vSwitches" => VSwitches!AnswerIsRecent
                  /\ part = "securityGroups" => SecurityGroups!AnswerIsRecent

(* Offerings: what is offered is the stock of two TTLs ago at most.         *)
OfferingsAreRecent == part = "offerings" => Offers!OfferingsAreRecent

(* Admission: what is stored can be submitted again.                        *)
Reappliable == part = "admission" => Admits!Reappliable

(* Admission: defaults do not change the disks of a launch.                 *)
DisksAsSent == part = "admission" => Admits!DisksAsSent

(* Admission: what is stored can be launched, with the exceptions it names. *)
StoredCanLaunch == part = "admission" => Admits!StoredCanLaunch

(* Capacity: a NodeClaim can hold what was planned, as the module says.     *)
ClaimAsPlanned == part = "capacity" => Holds!ClaimAsPlanned

(* Launch: the labels of the NodeClaim that Create returns meet the claim.  *)
LabelsMeetClaim == part = "launch" => Launching!LabelsMeetClaim

(* Launch: one instance at most, one that would do, and no giving up before *)
(* all that would do was refused.  The other parts launch nothing.          *)
LaunchesOnce == Launching!LaunchesOnce

================================================================================
