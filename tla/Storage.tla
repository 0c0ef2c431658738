------------------------------- MODULE Storage -------------------------------
(***************************************************************************)
(* The in-memory storage of pkg/storage: the sharded map, the LRU list of  *)
(* each shard, the admission check, the evictor, the refresher, the memory *)
(* refresher and Clear, run by the request handlers and the background     *)
(* goroutines at the same time.  One step is one critical section, one     *)
(* atomic access or one unlocked check; every boundary between two of them *)
(* is a place where the others run.                                        *)
(*                                                                         *)
(* An entry (model.Entry) and the list element that PushFront makes for it *)
(* have the same name, so Elem is the set of both.  A request stands for   *)
(* what model.NewEntry derives from it, a map key and a fingerprint.       *)
(***************************************************************************)
EXTENDS Ring, Sequences, FiniteSets, FiniteSetsExt, SequencesExt

CONSTANTS
    Client,        \* handler goroutines
    Evictor,       \* the evictor goroutine
    Refresher,     \* a refresh worker
    Request,       \* what clients ask for
    KeyOf,         \* KeyOf[r]: the map key of r
    PrintOf,       \* PrintOf[r]: the fingerprint of r
    Body,          \* what the upstream may answer
    WeightOf,      \* WeightOf[b]: the Weight() of an entry that holds b
    TotalShards,   \* map.go: 2048
    Fat,           \* evictor.go: int(maxShards * fatShardsPercent)
    Threshold,     \* storage.size * eviction.threshold
    Overhead,      \* Balance.Mem(): the fixed size of the lists' headers
    Eviction,      \* eviction.enabled
    Refresh,       \* refresh.enabled
    Repeat,        \* may a request be made again once it has been cached?
    MaxClears      \* bound: how often Clear is called

Proc  == Client \cup {Evictor, Refresher}
Key   == {KeyOf[r] : r \in Request}
Shard == 0..(TotalShards - 1)

Content == [req : Request, body : Body]

ASSUME StorageAssumption ==
    /\ \A r \in Request : KeyOf[r] \in Nat /\ PrintOf[r] \in Nat
    /\ \A b \in Body : WeightOf[b] \in Nat \ {0}
    /\ IsFiniteSet(Client) /\ IsFiniteSet(Request)
    /\ TotalShards \in Nat \ {0}
    /\ Fat \in Nat \ {0}
    /\ Threshold \in Nat /\ Overhead \in Nat
    /\ MaxClears \in Nat
    /\ Eviction \in BOOLEAN /\ Refresh \in BOOLEAN /\ Repeat \in BOOLEAN
    /\ Evictor \notin Client /\ Refresher \notin Client /\ Evictor # Refresher
    /\ Nil \notin Request \cup Content \cup (Request \X Elem)

VARIABLES
    items,      \* items[k]: the entry the shard's map holds at k, or Nil
    len, mem,   \* the counters of each shard
    cachedMem,  \* Map.mem, the total the hot path reads
    ring,       \* ring[s]: the LRU list of shard s
    owner,      \* owner[e]: the request entry e was made for; Nil: no such entry
    payload,    \* payload[e]: what e holds
    listed,     \* listed[e]: has e been given its list element?
    pc,         \* pc[p]: the next step of p
    want,       \* want[p]: the request p still has to answer (or refetch)
    new,        \* new[p]: the entry p is storing
    old,        \* old[p]: the entry p found, removes, raises or replaced
    freed,      \* freed[p]: the weight of the entry p took out of the map
    load,       \* Balance.memList: the shards, most loaded first when sorted
    scan,       \* the evictor's shardOffset, offset and shard
    clears,     \* how often Clear was called
    clearing,   \* the shards Clear still has to empty
    crashed     \* a nil dereference ended the process

maps    == <<items, len, mem>>
entries == <<owner, payload, listed>>
calls   == <<want, new, old, freed>>
evictor == <<load, scan>>
clear   == <<clears, clearing>>
vars    == <<maps, cachedMem, ring, entries, pc, calls, evictor, clear, crashed>>

Label == {"idle", "touch", "move", "serve", "fetch", "set", "swap", "admit",
          "store", "addLen", "addMem", "push", "setElem",
          "unlistCheck", "unlist", "drop", "subLen", "subMem",
          "pick", "evict", "next", "refresh", "await"}

TypeOK ==
    /\ items \in [Key -> Elem \cup {Nil}]
    /\ len \in [Shard -> Int] /\ mem \in [Shard -> Int] /\ cachedMem \in Int
    /\ ring \in [Shard -> RingType]
    /\ owner \in [Elem -> Request \cup {Nil}]
    /\ payload \in [Elem -> Content \cup {Nil}]
    /\ listed \in [Elem -> BOOLEAN]
    /\ pc \in [Proc -> Label]
    /\ want \in [Proc -> Request \cup {Nil}]
    /\ new \in [Proc -> Elem \cup {Nil}]
    /\ old \in [Proc -> Elem \cup {Nil}]
    /\ freed \in [Proc -> Int]
    /\ load \in Seq(Shard)
    /\ scan \in [shardOffset : 0..(Fat - 1), offset : Nat, shard : Shard]
    /\ clears \in 0..MaxClears /\ clearing \subseteq Shard
    /\ crashed \in BOOLEAN

-----------------------------------------------------------------------------
\* MapShardKey.
ShardOf(key) == key % TotalShards

KeyOfEntry(e)   == KeyOf[owner[e]]
ShardOfEntry(e) == ShardOf(KeyOfEntry(e))
Weight(e)       == WeightOf[payload[e].body]

\* Mutation: the map key is taken for the identity of the request.
AnyPrint(e, r) == owner[e] # Nil

\* IsSameFingerprint.
SamePrint(e, r) == PrintOf[owner[e]] = PrintOf[r]

Entries == {e \in Elem : owner[e] # Nil}

TotalMem(m) == SumFunction(m)

\* The goroutines that WalkShards starts register their shards in any order.
Orders == {order \in [1..TotalShards -> Shard] : IsInjective(order)}

Init ==
    /\ items = [k \in Key |-> Nil]
    /\ len = [s \in Shard |-> 0]
    /\ mem = [s \in Shard |-> 0]
    /\ cachedMem = 0
    /\ ring = [s \in Shard |-> EmptyRing]
    /\ owner = [e \in Elem |-> Nil]
    /\ payload = [e \in Elem |-> Nil]
    /\ listed = [e \in Elem |-> FALSE]
    /\ pc = [p \in Proc |-> "idle"]
    /\ want = [p \in Proc |-> Nil]
    /\ new = [p \in Proc |-> Nil]
    /\ old = [p \in Proc |-> Nil]
    /\ freed = [p \in Proc |-> 0]
    /\ load \in Orders
    /\ scan = [shardOffset |-> 0, offset |-> 0, shard |-> 0]
    /\ clears = 0
    /\ clearing = {}
    /\ crashed = FALSE

Ready(p, label) == pc[p] = label /\ ~crashed
Goto(p, label)  == pc' = [pc EXCEPT ![p] = label]
Step(p, from, to) == Ready(p, from) /\ Goto(p, to)

\* The call of p ends here: its local variables go away.
Finish(p) ==
    /\ Goto(p, "idle")
    /\ want' = [want EXCEPT ![p] = Nil]
    /\ new' = [new EXCEPT ![p] = Nil]
    /\ old' = [old EXCEPT ![p] = Nil]
    /\ freed' = [freed EXCEPT ![p] = 0]

\* The entry that p made is not stored: nothing refers to it any more.
Discard(p) ==
    /\ owner' = [owner EXCEPT ![new[p]] = Nil]
    /\ payload' = [payload EXCEPT ![new[p]] = Nil]
    /\ UNCHANGED listed

-----------------------------------------------------------------------------
(* InMemoryStorage.Get, and touch = Balance.Update = List.MoveToFront.     *)

\* Workload: either anything at any time, or each request cached at most once.
MayAsk(r) ==
    Repeat \/ /\ \A e \in Elem : owner[e] # r
              /\ \A p \in Client : want[p] # r

\* The map is read under the shard's lock; a fingerprint mismatch is a miss.
Get(p, r) ==
    /\ Ready(p, "idle")
    /\ MayAsk(r)
    /\ want' = [want EXCEPT ![p] = r]
    /\ LET e == items[KeyOf[r]]
           hit == e # Nil /\ SamePrint(e, r)
       IN  /\ Goto(p, IF hit THEN "touch" ELSE "fetch")
           /\ old' = [old EXCEPT ![p] = IF hit THEN e ELSE Nil]
    /\ UNCHANGED <<maps, cachedMem, ring, entries, new, freed, evictor, clear, crashed>>

\* A Get goes on to answer its request, a Set has nothing left to do.
AfterTouch(p) ==
    IF want[p] # Nil THEN Goto(p, "serve") /\ UNCHANGED calls ELSE Finish(p)

\* MoveToFront up to the lock: no element yet, or fewer than two on the list.
TouchSkips(p) ==
    /\ Ready(p, "touch")
    /\ ~listed[old[p]] \/ ring[ShardOfEntry(old[p])].len < 2
    /\ AfterTouch(p)
    /\ UNCHANGED <<maps, cachedMem, ring, entries, evictor, clear, crashed>>

Touch(p) ==
    /\ Step(p, "touch", "move")
    /\ listed[old[p]] /\ ring[ShardOfEntry(old[p])].len >= 2
    /\ UNCHANGED <<maps, cachedMem, ring, entries, calls, evictor, clear, crashed>>

Move(p) ==
    /\ Ready(p, "move")
    /\ ring' = [ring EXCEPT ![ShardOfEntry(old[p])] = MoveToFront(@, old[p])]
    /\ AfterTouch(p)
    /\ UNCHANGED <<maps, cachedMem, entries, evictor, clear, crashed>>

\* responder.FromEntry: the handler unpacks the payload of the entry it got.
Serve(p) ==
    /\ Ready(p, "serve")
    /\ Finish(p)
    /\ UNCHANGED <<maps, cachedMem, ring, entries, evictor, clear, crashed>>

-----------------------------------------------------------------------------
(* The miss path of the handler: fetch, then InMemoryStorage.Set.          *)

\* A 200 from the upstream: the requested entry gets the answer as payload.
Fetched(p, b) ==
    /\ Step(p, "fetch", "set")
    /\ Entries # Elem
    /\ LET e == CHOOSE x \in Elem : owner[x] = Nil
       IN  /\ owner' = [owner EXCEPT ![e] = want[p]]
           /\ payload' = [payload EXCEPT ![e] = [req |-> want[p], body |-> b]]
           /\ new' = [new EXCEPT ![p] = e]
    /\ want' = [want EXCEPT ![p] = Nil]
    /\ UNCHANGED <<maps, cachedMem, ring, listed, old, freed, evictor, clear, crashed>>

FetchFails(p) ==
    /\ Ready(p, "fetch")
    /\ Finish(p)
    /\ UNCHANGED <<maps, cachedMem, ring, entries, evictor, clear, crashed>>

\* Set finds the entry of this very request: an equal payload leaves only a
\* touch to do, another one is swapped in.  IsSamePayload compares samples of
\* the bytes, so payloads that differ may be taken for equal.
SetFound(p) ==
    /\ Ready(p, "set")
    /\ LET e == items[KeyOfEntry(new[p])]
       IN  /\ e # Nil /\ SamePrint(e, owner[new[p]])
           /\ old' = [old EXCEPT ![p] = e]
           /\ \/ /\ Goto(p, "touch")
                 /\ Discard(p)
                 /\ new' = [new EXCEPT ![p] = Nil]
              \/ /\ payload[e] # payload[new[p]]
                 /\ Goto(p, "swap")
                 /\ UNCHANGED <<entries, new>>
    /\ UNCHANGED <<maps, cachedMem, ring, want, freed, evictor, clear, crashed>>

\* Set finds another request's entry under the key: it goes first.
SetCollides(p) ==
    /\ Step(p, "set", "unlistCheck")
    /\ LET e == items[KeyOfEntry(new[p])]
       IN  /\ e # Nil /\ ~SamePrint(e, owner[new[p]])
           /\ old' = [old EXCEPT ![p] = e]
    /\ UNCHANGED <<maps, cachedMem, ring, entries, want, new, freed, evictor, clear, crashed>>

SetMisses(p) ==
    /\ Step(p, "set", "admit")
    /\ items[KeyOfEntry(new[p])] = Nil
    /\ UNCHANGED <<maps, cachedMem, ring, entries, calls, evictor, clear, crashed>>

\* update: SwapPayloads (and then the touch); no counter of the shard changes.
Swap(p) ==
    /\ Step(p, "swap", "touch")
    /\ owner' = [owner EXCEPT ![new[p]] = Nil]
    /\ payload' = [payload EXCEPT ![old[p]] = payload[new[p]], ![new[p]] = Nil]
    /\ new' = [new EXCEPT ![p] = Nil]
    /\ UNCHANGED <<maps, cachedMem, ring, listed, want, old, freed, evictor, clear, crashed>>

-----------------------------------------------------------------------------
(* Admission: ShouldEvict on the cached total, FindVictim, TinyLFU.Admit.  *)

\* The tail of the own shard's list, else of the next, else of the one before;
\* `shardKeyInt64-1 > 0' never looks at shard 0.
Neighbours(s) == <<s>> \o (IF s + 1 < TotalShards THEN <<s + 1>> ELSE <<>>)
                       \o (IF s - 1 > 0 THEN <<s - 1>> ELSE <<>>)

FindVictim(s) ==
    LET near  == Neighbours(s)
        found == {i \in DOMAIN near : Back(ring[near[i]]) # Nil}
    IN  IF found = {} THEN Nil ELSE Back(ring[near[Min(found)]])

\* ShouldEvict, the hot path's: the stale total, and the balancer's own size.
Room == cachedMem + Overhead < Threshold

Victim(p) == FindVictim(ShardOfEntry(new[p]))

\* Admitted: there is room, or the sketch rates the newcomer above the victim,
\* which stays where it is.  Back() returns the root only of a broken list: the
\* root has no entry, and TinyLFU.Admit dereferences nil.
Admit(p) ==
    /\ Step(p, "admit", "store")
    /\ Room \/ Victim(p) # Nil
    /\ crashed' = (~Room /\ Victim(p) = Root)
    /\ UNCHANGED <<maps, cachedMem, ring, entries, calls, evictor, clear>>

Reject(p) ==
    /\ Ready(p, "admit")
    /\ ~Room /\ Victim(p) # Root
    /\ Discard(p)
    /\ Finish(p)
    /\ UNCHANGED <<maps, cachedMem, ring, evictor, clear, crashed>>

-----------------------------------------------------------------------------
(* Shard.Set, then Balance.Push.                                           *)

\* The locked part of Shard.Set.
Store(p) ==
    /\ Ready(p, "store")
    /\ LET k == KeyOfEntry(new[p])
       IN  /\ items' = [items EXCEPT ![k] = new[p]]
           /\ old' = [old EXCEPT ![p] = items[k]]
           /\ Goto(p, IF items[k] = Nil THEN "addLen" ELSE "addMem")
    /\ UNCHANGED <<len, mem, cachedMem, ring, entries, want, new, freed, evictor, clear, crashed>>

AddLen(p) ==
    /\ Step(p, "addLen", "addMem")
    /\ len' = [len EXCEPT ![ShardOfEntry(new[p])] = @ + 1]
    /\ UNCHANGED <<items, mem, cachedMem, ring, entries, calls, evictor, clear, crashed>>

\* The weights of the new and of the replaced entry as they are now.
Added(p) == Weight(new[p]) - (IF old[p] = Nil THEN 0 ELSE Weight(old[p]))

AddMem(p) ==
    /\ Step(p, "addMem", "push")
    /\ mem' = [mem EXCEPT ![ShardOfEntry(new[p])] = @ + Added(p)]
    /\ old' = [old EXCEPT ![p] = Nil]
    /\ UNCHANGED <<items, len, cachedMem, ring, entries, want, new, freed, evictor, clear, crashed>>

Push(p) ==
    /\ Step(p, "push", "setElem")
    /\ ring' = [ring EXCEPT ![ShardOfEntry(new[p])] = PushFront(@, new[p])]
    /\ UNCHANGED <<maps, cachedMem, entries, calls, evictor, clear, crashed>>

\* SetLruListElement, after the list's lock was released.
SetElem(p) ==
    /\ Ready(p, "setElem")
    /\ listed' = [listed EXCEPT ![new[p]] = TRUE]
    /\ Finish(p)
    /\ UNCHANGED <<maps, cachedMem, ring, owner, payload, evictor, clear, crashed>>

-----------------------------------------------------------------------------
(* InMemoryStorage.Remove(old[p]), by the evictor or by a colliding Set.   *)

\* List.Remove up to the lock: an entry without an element stays listed.
UnlistCheck(p) ==
    /\ Ready(p, "unlistCheck")
    /\ Goto(p, IF listed[old[p]] THEN "unlist" ELSE "drop")
    /\ UNCHANGED <<maps, cachedMem, ring, entries, calls, evictor, clear, crashed>>

Unlist(p) ==
    /\ Step(p, "unlist", "drop")
    /\ ring' = [ring EXCEPT ![ShardOfEntry(old[p])] = RemoveElem(@, old[p])]
    /\ UNCHANGED <<maps, cachedMem, entries, calls, evictor, clear, crashed>>

AfterRemove(p) == IF p = Evictor THEN "evict" ELSE "admit"

\* The locked part of Shard.Remove: whatever entry is at the key goes.
Drop(p) ==
    /\ Ready(p, "drop")
    /\ LET k == KeyOfEntry(old[p])
           found == items[k] # Nil
       IN  /\ items' = [items EXCEPT ![k] = Nil]
           /\ freed' = [freed EXCEPT ![p] = IF found THEN Weight(items[k]) ELSE 0]
           /\ Goto(p, IF found THEN "subLen" ELSE AfterRemove(p))
           /\ old' = IF found THEN old ELSE [old EXCEPT ![p] = Nil]
    /\ UNCHANGED <<len, mem, cachedMem, ring, entries, want, new, evictor, clear, crashed>>

\* Mutation: an eviction does not reach the length counter.
SubLenLost(p) ==
    /\ Step(p, "subLen", "subMem")
    /\ UNCHANGED <<maps, cachedMem, ring, entries, calls, evictor, clear, crashed>>

SubLen(p) ==
    /\ Step(p, "subLen", "subMem")
    /\ len' = [len EXCEPT ![ShardOfEntry(old[p])] = @ - 1]
    /\ UNCHANGED <<items, mem, cachedMem, ring, entries, calls, evictor, clear, crashed>>

\* Mutation: the freed memory is not given back.
SubMemLost(p) ==
    /\ Step(p, "subMem", AfterRemove(p))
    /\ old' = [old EXCEPT ![p] = Nil]
    /\ freed' = [freed EXCEPT ![p] = 0]
    /\ UNCHANGED <<maps, cachedMem, ring, entries, want, new, evictor, clear, crashed>>

SubMem(p) ==
    /\ Step(p, "subMem", AfterRemove(p))
    /\ mem' = [mem EXCEPT ![ShardOfEntry(old[p])] = @ - freed[p]]
    /\ old' = [old EXCEPT ![p] = Nil]
    /\ freed' = [freed EXCEPT ![p] = 0]
    /\ UNCHANGED <<items, len, cachedMem, ring, entries, want, new, evictor, clear, crashed>>

-----------------------------------------------------------------------------
(* Evict.evictUntilWithinLimit.                                            *)

\* RealMem: the sum of the shards, which also refreshes the cached total.
OverLimit == TotalMem(mem) >= Threshold
Measure   == cachedMem' = TotalMem(mem)

\* A tick of the evictor's 500ms ticker.
Tick ==
    /\ Eviction
    /\ Step(Evictor, "idle", "pick")
    /\ scan' = [scan EXCEPT !.shardOffset = 0]
    /\ UNCHANGED <<maps, cachedMem, ring, entries, calls, load, clear, crashed>>

\* The loop of evictUntilWithinLimit, or its inner loop, ends below the limit.
WithinLimit ==
    /\ Ready(Evictor, "pick")
    /\ ~OverLimit
    /\ Measure
    /\ Finish(Evictor)
    /\ UNCHANGED <<maps, ring, entries, evictor, clear, crashed>>

\* Rebalance: List.Sort(DESC) of the shards by their memory, equal ones in the
\* order they were in.
Rank(i) == 1 + Cardinality({j \in 1..TotalShards :
                               \/ mem[load[j]] > mem[load[i]]
                               \/ mem[load[j]] = mem[load[i]] /\ j < i})

Rebalanced == [n \in 1..TotalShards |-> load[CHOOSE i \in 1..TotalShards : Rank(i) = n]]

\* Mutation: the bound of the offset is one too high.
WrapsLate(offset) == offset > Fat

Wraps(offset) == offset >= Fat

\* The next of the Fat most loaded shards, if its list is not empty; the order
\* is refreshed whenever the offset wraps.
Pick ==
    /\ Ready(Evictor, "pick")
    /\ OverLimit
    /\ Measure
    /\ LET wraps == Wraps(scan.shardOffset + 1)
           offset == IF wraps THEN 0 ELSE scan.shardOffset + 1
           sorted == IF wraps THEN Rebalanced ELSE load
           found == offset < TotalShards
           shard == IF found THEN sorted[offset + 1] ELSE scan.shard
       IN  /\ load' = sorted
           /\ scan' = [shardOffset |-> offset, offset |-> 0, shard |-> shard]
           /\ Goto(Evictor, IF found /\ ring[shard].len # 0 THEN "evict" ELSE "pick")
    /\ UNCHANGED <<maps, ring, entries, calls, clear, crashed>>

\* The condition of the inner loop.
GoOn ==
    /\ Step(Evictor, "evict", IF OverLimit THEN "next" ELSE "pick")
    /\ Measure
    /\ UNCHANGED <<maps, ring, entries, calls, evictor, clear, crashed>>

\* Mutation: the scan starts behind the first entry.
SecondCandidate == NextAt(ring[scan.shard], scan.offset + 1)

Candidate == NextAt(ring[scan.shard], scan.offset)

\* The entry at the current offset of the list, counted from the front, is to
\* be removed.  The root has no entry: Remove dereferences nil.
Evict ==
    /\ Step(Evictor, "next", "unlistCheck")
    /\ Candidate # Nil
    /\ crashed' = (Candidate = Root)
    /\ old' = [old EXCEPT ![Evictor] = IF Candidate = Root THEN Nil ELSE Candidate]
    /\ scan' = [scan EXCEPT !.offset = @ + 1]
    /\ UNCHANGED <<maps, cachedMem, ring, entries, want, new, freed, load, clear>>

\* Past the end of this list.
EndOfList ==
    /\ Step(Evictor, "next", "pick")
    /\ Candidate = Nil
    /\ UNCHANGED <<maps, cachedMem, ring, entries, calls, evictor, clear, crashed>>

EvictorStep ==
    Tick \/ WithinLimit \/ Pick \/ GoOn \/ Evict \/ EndOfList

-----------------------------------------------------------------------------
(* The memory refresher, the refresh workers and Clear.                    *)

\* Map.runMemRefresher, each 100ms.
RefreshMem ==
    /\ ~crashed
    /\ cachedMem # TotalMem(mem)
    /\ Measure
    /\ UNCHANGED <<maps, ring, entries, pc, calls, evictor, clear, crashed>>

\* Rand, ShouldBeRefreshed; then the worker waits for the upstream rate.
Sample ==
    /\ Refresh
    /\ Step(Refresher, "idle", "refresh")
    /\ \E k \in Key : /\ items[k] # Nil
                      /\ old' = [old EXCEPT ![Refresher] = items[k]]
    /\ UNCHANGED <<maps, cachedMem, ring, entries, want, new, freed, evictor, clear, crashed>>

\* The request to repeat is unpacked from the payload the entry has by then.
Unpack ==
    /\ Step(Refresher, "refresh", "await")
    /\ want' = [want EXCEPT ![Refresher] = payload[old[Refresher]].req]
    /\ UNCHANGED <<maps, cachedMem, ring, entries, new, old, freed, evictor, clear, crashed>>

\* SetPayload of a 200; no counter of the shard changes.
Refreshed(b) ==
    /\ Ready(Refresher, "await")
    /\ payload' = [payload EXCEPT ![old[Refresher]] = [req |-> want[Refresher], body |-> b]]
    /\ Finish(Refresher)
    /\ UNCHANGED <<maps, cachedMem, ring, owner, listed, evictor, clear, crashed>>

RefreshFails ==
    /\ Ready(Refresher, "await")
    /\ Finish(Refresher)
    /\ UNCHANGED <<maps, cachedMem, ring, entries, evictor, clear, crashed>>

RefresherStep == Sample \/ Unpack \/ RefreshFails \/ \E b \in Body : Refreshed(b)

\* Clear: a goroutine per shard, each under that shard's lock.
Clear ==
    /\ ~crashed
    /\ clears < MaxClears /\ clearing = {}
    /\ clears' = clears + 1
    /\ clearing' = Shard
    /\ UNCHANGED <<maps, cachedMem, ring, entries, pc, calls, evictor, crashed>>

\* Shard.Clear; the LRU list of the shard is left as it is.
ClearShard(s) ==
    /\ ~crashed
    /\ s \in clearing
    /\ clearing' = clearing \ {s}
    /\ items' = [k \in Key |-> IF ShardOf(k) = s THEN Nil ELSE items[k]]
    /\ len' = [len EXCEPT ![s] = 0]
    /\ mem' = [mem EXCEPT ![s] = 0]
    /\ UNCHANGED <<cachedMem, ring, entries, pc, calls, evictor, clears, crashed>>

-----------------------------------------------------------------------------
\* The steps of a handler between two of its own decisions.
Working(p) ==
    \/ TouchSkips(p) \/ Touch(p) \/ Move(p) \/ Serve(p)
    \/ SetFound(p) \/ SetCollides(p) \/ SetMisses(p) \/ Swap(p)
    \/ Admit(p) \/ Reject(p)
    \/ Store(p) \/ AddLen(p) \/ AddMem(p) \/ Push(p) \/ SetElem(p)

Removing(p) ==
    UnlistCheck(p) \/ Unlist(p) \/ Drop(p) \/ SubLen(p) \/ SubMem(p)

ClientStep(p) ==
    \/ \E r \in Request : Get(p, r)
    \/ \E b \in Body : Fetched(p, b)
    \/ FetchFails(p) \/ Working(p) \/ Removing(p)

Next ==
    \/ \E p \in Client : ClientStep(p)
    \/ EvictorStep \/ Removing(Evictor)
    \/ RefresherStep
    \/ RefreshMem
    \/ Clear \/ \E s \in Shard : ClearShard(s)

Spec == Init /\ [][Next]_vars

\* A running goroutine goes on; the evictor's ticker keeps ticking.  Nothing
\* obliges clients to ask, the upstream to answer or the refresher to sample.
Fairness ==
    /\ WF_vars(EvictorStep \/ Removing(Evictor))
    /\ \A p \in Client : WF_vars(Working(p) \/ Removing(p))

FairSpec == Spec /\ Fairness

-----------------------------------------------------------------------------
\* A request is answered only with content fetched for a request of the same
\* key and fingerprint, although payloads are swapped into the entry, written
\* by the refresher from the entry's own payload, and read long after the map
\* was (storage.go Get and Set, payload.go SwapPayloads, refresher.go refresh).
AnswersMatch ==
    \A p \in Client : pc[p] = "serve" =>
        /\ PrintOf[payload[old[p]].req] = PrintOf[want[p]]
        /\ KeyOf[payload[old[p]].req] = KeyOf[want[p]]

\* The storage as the abstract cache: an entry exists for others from the
\* moment the map holds it; a Get is answered by the entry it has found.
Inserting == {"addLen", "addMem", "push", "setElem"}
Answering == {"touch", "move", "serve"}

Private == {e \in Elem : \E p \in Client : new[p] = e /\ pc[p] \notin Inserting}

contents == [e \in Elem |-> IF e \in Private THEN Nil ELSE payload[e]]

replies == [p \in Client |-> IF want[p] # Nil /\ pc[p] \in Answering
                             THEN <<want[p], old[p]>> ELSE Nil]

Cached == INSTANCE Cache WITH entry <- items, content <- contents, reply <- replies

\* Interleaved lookups, insertions, collisions, in-place updates, refreshes,
\* evictions and clears look to the handlers like the atomic operations of the
\* abstract cache.
ImplementsCache == Cached!Spec

KeysOf(s)  == {k \in Key : ShardOf(k) = s}
Held(s)    == {k \in KeysOf(s) : items[k] # Nil}
Adding(s, labels) == {p \in Proc : pc[p] \in labels /\ ShardOfEntry(new[p]) = s}
Taking(s, labels) == {p \in Proc : pc[p] \in labels /\ ShardOfEntry(old[p]) = s}

\* How far the counters are from the map, once the additions and subtractions
\* that the goroutines still have to make are counted in.
LenDrift(s) == len[s] + Cardinality(Adding(s, {"addLen"}))
                      - Cardinality(Taking(s, {"subLen"}))
                      - Cardinality(Held(s))

MemDrift(s) == mem[s] + SumFunction([p \in Adding(s, {"addLen", "addMem"}) |-> Added(p)])
                      - SumFunction([p \in Taking(s, {"subLen", "subMem"}) |-> freed[p]])
                      - SumFunction([k \in Held(s) |-> Weight(items[k])])

\* The counters of a shard, updated after the lock is released, never lose or
\* invent anything, whatever insertion, replacement, collision, Remove and
\* eviction do at once.  The steps that can: Shard.Clear, which overwrites both
\* (shard.go), and for the memory the replacement of a payload in place.
CountersDriftOnlyByClearOrUpdate ==
    [][\A s \in Shard : s \notin clearing \ clearing' =>
          /\ LenDrift(s)' = LenDrift(s)
          /\ \/ MemDrift(s)' = MemDrift(s)
             \/ \E e \in Elem : {payload[e], payload'[e]} \cap {Nil} = {}
                                /\ payload'[e] # payload[e]]_vars

\* The memory counter is the weight of what the shard holds, up to pending
\* additions, as long as nothing was cleared (storage.go:230, "update refreshes
\* Weight accounting ... for an updated entry").
MemAccounted == clears = 0 => \A s \in Shard : MemDrift(s) = 0

\* Every LRU list is a closed ring of Len() elements
\* (pkg/list/doubly_linked_test.go:69).
RingsIntact == \A s \in Shard : Intact(ring[s])

\* An entry of the map is on the LRU list of its shard, or the goroutine that
\* stores it has yet to push it, or the one that removes it has yet to drop it:
\* what the map holds the evictor can reach.
MappedAreListed ==
    \A k \in Key : items[k] # Nil =>
        LET r == ring[ShardOf(k)]
        IN  \/ \E i \in 0..(r.len - 1) : NextAt(r, i) = items[k]
            \/ \E p \in Proc : \/ /\ new[p] = items[k]
                                  /\ pc[p] \in {"addLen", "addMem", "push"}
                               \/ old[p] = items[k] /\ pc[p] = "drop"

\* Whenever the shards together reach the threshold, eviction brings them back
\* below it (evictor.go:92, "until Weight drops below threshold").
EvictionConverges ==
    (TotalMem(mem) >= Threshold) ~> (TotalMem(mem) < Threshold)

\* The evictor takes the least recently used entry of the shard it works on,
\* the tail of its list (README.md:26, "evicts from their tail").
EvictsFromTail ==
    [][pc[Evictor] = "next" /\ pc'[Evictor] = "unlistCheck"
          => old'[Evictor] = Back(ring[scan.shard])]_vars

\* Neither the admission check nor the evictor dereferences the root's value.
NeverPanics == ~crashed
=============================================================================
