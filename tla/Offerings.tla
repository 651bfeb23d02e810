-------------------------------- MODULE Offerings --------------------------------
(***************************************************************************)
(* The offerings of an instance type, from the stock of ECS to the answer   *)
(* of CloudProvider.GetInstanceTypes: two queries of stock and a list of    *)
(* types, each cached (pkg/providers/instancetype/instancetype.go), then    *)
(* the requirements of the NodePool and the zones of its node class         *)
(* (pkg/cloudprovider/cloudprovider.go).                                    *)
(*                                                                         *)
(* Types are separate, so one stands for all.  Zones come and go over       *)
(* months: the set of zones is constant, and its two-hour cache left out.   *)
(***************************************************************************)
EXTENDS InstanceTypeFilter

CONSTANTS
  Caller,        (* concurrent calls of GetInstanceTypes                      *)
  Zone,
  Configured,    (* the zones of the node class's vSwitches                   *)
  Pools,         (* requirements of NodePools on the zone: sets of none or one *)
  Volatile,      (* the (zone, capacity type) pairs whose stock changes; the  *)
  Steady,        (*   others have the stock Steady                            *)
  TTL,           (* cacheTTLInventory and cacheTTLInstanceTypes, 5 minutes    *)
  Delay,         (* the longest a GetInstanceTypes takes                      *)
  MaxTime        (* bound of the model: the clock                             *)

Pair == Zone \X {OnDemand, Spot}

(* Of DescribeAvailableResource: WithStock and ClosedWithStock; the two     *)
(* without; and not in the answer, or with a status that is not known.      *)
Status == {"stocked", "out", "unlisted"}

OfferingsAssumption ==
  /\ Configured \subseteq Zone
  /\ Volatile \subseteq Pair
  /\ Steady \in [Pair -> Status]
  /\ TTL \in Nat /\ Delay \in Nat /\ MaxTime \in Nat

VARIABLES
  now,
  stock,         (* ECS: the status of each pair                              *)
  inventory,     (* the cache entry of getInventory: none or one              *)
  typeList,      (* the cache entry of List: none or one                      *)
  call,          (* each caller: where it is and what it has found            *)
  last           (* history: the last time each pair had each status          *)

vars == <<now, stock, inventory, typeList, call, last>>

(* What is known of a type: a status for each pair; history: whether the    *)
(* stock could not be asked for, and the polls that answered nothing.       *)
Unlisted == [p \in Pair |-> "unlisted"]
Found(status, guessed, empty) == [status |-> status, guessed |-> guessed, empty |-> empty]
Optimistic == Found([p \in Pair |-> "stocked"], TRUE, {})

Idle == [at |-> "idle"]
At(c, at) == call[c].at = at
Live(e) == now <= e.expires
Entry(found) == {[found |-> found, expires |-> now + TTL]}

Go(c, at, found) == call' = [call EXCEPT ![c].at = at, ![c].found = found]

GetInstanceTypes(c) ==
  /\ At(c, "idle")
  /\ call' = [call EXCEPT ![c] = [at |-> "list", since |-> now, found |-> Found(Unlisted, FALSE, {})]]
  /\ UNCHANGED <<now, stock, inventory, typeList, last>>

(* The node class is not ready, or a call of ECS fails, for the zones or    *)
(* for the types, and List with it.                                         *)
Fails(c) ==
  /\ call[c].at \in {"list", "types"}
  /\ call' = [call EXCEPT ![c] = Idle]
  /\ UNCHANGED <<now, stock, inventory, typeList, last>>

ListHit(c) ==
  /\ At(c, "list")
  /\ \E e \in typeList : Live(e) /\ Go(c, "answer", e.found)
  /\ UNCHANGED <<now, stock, inventory, typeList, last>>

ListMiss(c) ==
  /\ At(c, "list")
  /\ \A e \in typeList : ~Live(e)
  /\ Go(c, "inventory", call[c].found)
  /\ UNCHANGED <<now, stock, inventory, typeList, last>>

InventoryHit(c) ==
  /\ At(c, "inventory")
  /\ \E e \in inventory : Live(e) /\ Go(c, "types", e.found)
  /\ UNCHANGED <<now, stock, inventory, typeList, last>>

InventoryMiss(c) ==
  /\ At(c, "inventory")
  /\ \A e \in inventory : ~Live(e)
  /\ Go(c, OnDemand, call[c].found)
  /\ UNCHANGED <<now, stock, inventory, typeList, last>>

(* What the query for one capacity type adds; an answer without a body is   *)
(* skipped, and what was known before is not looked at.                     *)
Polled(found, capacityType) ==
  {Found([p \in Pair |-> IF p[2] = capacityType THEN stock[p] ELSE found.status[p]], FALSE, found.empty),
   Found(found.status, FALSE, found.empty \cup {capacityType})}

PollOnDemand(c) ==
  /\ At(c, OnDemand)
  /\ \E f \in Polled(call[c].found, OnDemand) : Go(c, Spot, f)
  /\ UNCHANGED <<now, stock, inventory, typeList, last>>

PollSpot(c) ==
  /\ At(c, Spot)
  /\ \E f \in Polled(call[c].found, Spot) : Go(c, "types", f) /\ inventory' = Entry(f)
  /\ UNCHANGED <<now, stock, typeList, last>>

(* A query of stock fails: everything is taken to be in stock.              *)
PollFails(c) ==
  /\ call[c].at \in {OnDemand, Spot}
  /\ Go(c, "types", Optimistic)
  /\ UNCHANGED <<now, stock, inventory, typeList, last>>

(* Mutation: pairs without stock are left out. *)
AssembleStocked(c) ==
  /\ At(c, "types")
  /\ LET f == [call[c].found EXCEPT !.status =
                 [p \in Pair |-> IF @[p] = "out" THEN "unlisted" ELSE @[p]]]
     IN Go(c, "answer", f) /\ typeList' = Entry(f)
  /\ UNCHANGED <<now, stock, inventory, last>>

(* DescribeInstanceTypes is answered; the list is stored and returned, also *)
(* an optimistic one.                                                       *)
Assemble(c) ==
  /\ At(c, "types")
  /\ Go(c, "answer", call[c].found)
  /\ typeList' = Entry(call[c].found)
  /\ UNCHANGED <<now, stock, inventory, last>>

(* GetInstanceTypes: the requirements of the NodePool and the zones of the   *)
(* node class choose what is returned.                                      *)
AvailableZones(f) == {p[1] : p \in {q \in Pair : f.status[q] = "stocked"}}
IsReturned(f, pool) == \A req \in pool : MatchesZone([available |-> AvailableZones(f)], req)
Offered(f, pool) ==
  {[pair |-> p, available |-> f.status[p] = "stocked"] :
     p \in {q \in Pair : IsReturned(f, pool) /\ q[1] \in Configured /\ f.status[q] # "unlisted"}}

Returns(c) ==
  /\ At(c, "answer")
  /\ call' = [call EXCEPT ![c] = Idle]
  /\ UNCHANGED <<now, stock, inventory, typeList, last>>

(* ECS sells out, restocks, or ends or begins the sale of a pair. *)
Sell(p, s) ==
  /\ p \in Volatile
  /\ stock[p] # s
  /\ stock' = [stock EXCEPT ![p] = s]
  /\ last' = [last EXCEPT ![p][s] = now]
  /\ UNCHANGED <<now, inventory, typeList, call>>

Tick ==
  /\ now < MaxTime
  /\ \A c \in Caller : ~At(c, "answer") /\ (~At(c, "idle") => now < call[c].since + Delay)
  /\ now' = now + 1
  /\ last' = [p \in Pair |-> [last[p] EXCEPT ![stock[p]] = now']]
  /\ UNCHANGED <<stock, inventory, typeList, call>>

Init ==
  /\ now = 0
  /\ stock \in [Pair -> Status]
  /\ \A p \in Pair \ Volatile : stock[p] = Steady[p]
  /\ inventory = {}
  /\ typeList = {}
  /\ call = [c \in Caller |-> Idle]
  /\ last = [p \in Pair |-> [s \in Status |-> 0]]

List(c) == \/ Fails(c) \/ ListHit(c) \/ ListMiss(c)
           \/ InventoryHit(c) \/ InventoryMiss(c) \/ PollOnDemand(c) \/ PollSpot(c) \/ PollFails(c)
           \/ Assemble(c)

Next ==
  \/ \E c \in Caller : List(c) \/ Returns(c) \/ GetInstanceTypes(c)
  \/ \E p \in Pair, s \in Status : Sell(p, s)
  \/ Tick

Spec == Init /\ [][Next]_vars

--------------------------------------------------------------------------------
(* Properties. *)

Knowledge == [status : [Pair -> Status], guessed : BOOLEAN, empty : SUBSET {OnDemand, Spot}]
Entries == [found : Knowledge, expires : Nat]
Calls == [at : {"list", "inventory", OnDemand, Spot, "types", "answer"}, since : Nat, found : Knowledge]

(* The variables have their types. *)
TypeOK ==
  /\ now \in Nat
  /\ stock \in [Pair -> Status]
  /\ inventory \in SUBSET Entries
  /\ typeList \in SUBSET Entries
  /\ call \in [Caller -> Calls \cup {Idle}]
  /\ last \in [Pair -> [Status -> Nat]]

Bound == 2 * TTL + 2 * Delay
RecentlyHad(p, s) == now <= last[p][s] + Bound

(* What the pool's requirement says of a zone. *)
Admits(pool, z) ==
  \A req \in pool : CASE req.operator = "In" -> z \in req.values
                      [] req.operator = "NotIn" -> z \notin req.values
                      [] req.operator = "Exists" -> TRUE

(* Through both caches, whichever of the concurrent calls stored what, an    *)
(* offering says how the stock was two TTLs ago at most: it is available     *)
(* only if there was stock or ECS did not say, unavailable only if there was *)
(* none.  When both polls were answered, a pair has no offering only if it   *)
(* was not listed, or if the type is not returned because the pool does not  *)
(* admit the zone or the pair had no stock.                                  *)
OfferingsAreRecent ==
  \A c \in Caller, pool \in Pools : At(c, "answer") =>
    LET f == call[c].found
        offered == Offered(f, pool)
    IN /\ \A o \in offered : IF o.available THEN f.guessed \/ RecentlyHad(o.pair, "stocked")
                                            ELSE RecentlyHad(o.pair, "out")
       /\ f.empty = {} =>
            \A p \in Pair : p[1] \in Configured /\ (\A o \in offered : o.pair # p) =>
              \/ RecentlyHad(p, "unlisted")
              \/ ~IsReturned(f, pool) /\ (~Admits(pool, p[1]) \/ RecentlyHad(p, "out"))

(* "Never shrink this set based on a single API poll": a list does not lose *)
(* a pair that was seen for the list before it and that ECS has listed all   *)
(* the while (instancetype.go:109-123).                                     *)
KnownPairKept ==
  [][\A old \in typeList, new \in typeList', p \in Pair :
       ~old.found.guessed /\ old.found.status[p] # "unlisted" /\ ~RecentlyHad(p, "unlisted")
         => new.found.status[p] # "unlisted"]_vars

(* "Always emit an Offering for every known (zone, capacityType)            *)
(* combination, even when inventory is zero": a pair that has been listed   *)
(* all the while, in a zone the pool admits, has one.  Polls that answer     *)
(* nothing are left to KnownPairKept.                                       *)
KnownPairIsOffered ==
  \A c \in Caller, pool \in Pools, p \in Pair :
    /\ At(c, "answer")
    /\ p[1] \in Configured
    /\ Admits(pool, p[1])
    /\ ~RecentlyHad(p, "unlisted")
    /\ call[c].found.empty = {}
    => \E o \in Offered(call[c].found, pool) : o.pair = p

--------------------------------------------------------------------------------
(* The inductive invariant behind OfferingsAreRecent: how old the knowledge *)
(* is that the entries and the calls under way have.                        *)

(* A status was so at t, or up to age before it, unless it stands for       *)
(* nothing known.                                                           *)
Unknown(f, p) == f.guessed \/ (f.status[p] = "unlisted" /\ p[2] \in f.empty)
SoAt(f, p, t, age) == Unknown(f, p) \/ t <= last[p][f.status[p]] + age
KnownAt(f, t, age) == \A p \in Pair : SoAt(f, p, t, age)

(* A guess is that there is stock of everything.                            *)
GuessesStock(f) == f.guessed => \A p \in Pair : f.status[p] = "stocked"

LastTrue == \A p \in Pair : last[p][stock[p]] = now /\ \A s \in Status : last[p][s] <= now

InventoryKnown ==
  \A e \in inventory : GuessesStock(e.found) /\ KnownAt(e.found, e.expires, TTL + Delay)
TypeListKnown ==
  \A e \in typeList : GuessesStock(e.found) /\ KnownAt(e.found, e.expires, Bound)

(* What a call x knows of the pairs it has asked for, and for how long it    *)
(* has been under way.                                                      *)
CallKnows(x) ==
  /\ x.since <= now /\ now <= x.since + Delay
  /\ GuessesStock(x.found)
  /\ x.at \in {"list", "inventory", OnDemand} => x.found = Found(Unlisted, FALSE, {})
  /\ x.at = Spot =>
       /\ ~x.found.guessed
       /\ \A p \in Pair : IF p[2] = OnDemand THEN SoAt(x.found, p, x.since, 0)
                                            ELSE x.found.status[p] = "unlisted"
  /\ x.at = "types" => KnownAt(x.found, x.since, TTL + Delay)
  /\ x.at = "answer" => KnownAt(x.found, now, Bound)

IInv ==
  /\ LastTrue /\ InventoryKnown /\ TypeListKnown
  /\ \A c \in Caller : ~At(c, "idle") => CallKnows(call[c])

(* The zones that a NodePool asks for are some or any. *)
PlainPools == \A pool \in Pools : \A req \in pool : req.operator \in {"In", "Exists"}

================================================================================
