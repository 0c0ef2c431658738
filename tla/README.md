# A TLA+ model of advanced-cache

`advanced-cache` is an HTTP cache in front of a cluster of backends: a sharded
in-memory map with an LRU list per shard, an admission check (TinyLFU), an
evictor, a background refresher, dumps to disk, and an upstream cluster that
throttles and quarantines its backends. This directory holds the TLA+ modules
that model it, the TLC configurations that check them on small instances, and
proofs that TLAPS checks for every instance. `PROJECT.json` maps each definition
to the source lines it models and lists runs, mutants, hazards and theorems.

## 1. The system

| Component | State | Operations | Modules |
|---|---|---|---|
| LRU list (`pkg/list`) | `next`, `prev`, `value`, owner list per element; root; atomic `len`; one mutex | `PushFront`, `PushBack`, `Remove`, `MoveToFront`, `Back`, `Next`, `Sort`, `Len` | `Ring`, `DoublyLinked`, `ListOrder`, `MergeSort` |
| Sharded map (`pkg/storage/map`) | per shard: `items` under an RWMutex, `len` and `mem` atomics outside it; totals | `Set`, `Get`, `GetRand`, `Remove`, `Clear`, `Walk`, `WalkShards`, `RealMem`, memory refresher (100 ms) | `Storage`, `Dump`, `App` |
| Storage and balancer (`lru/storage.go`, `lru/balancer.go`) | the parts above, `shards[i].lruList`, `memList` | `Get`, `Set`, `Remove`, `Clear`, `Rand`, `ShouldEvict`; `Push`, `Update`, `Remove`, `Rebalance`, `MostLoaded`, `FindVictim` | `Storage`, `Cache` |
| Evictor (`lru/evictor.go`) | `shardOffset`, `offset`, `shard`; a channel of statistics | every 500 ms `evictUntilWithinLimit`; a logger | `Storage`, `Stats` |
| Refresher (`lru/refresher.go`) | workers, two rate limiters, four counters, bounded error channel | sample, `ShouldBeRefreshed`, wait for a token, `refresh`; two loggers | `Storage`, `Refresher`, `ErrorLog`, `Pools` |
| TinyLFU (`lfu`) | two sketches and a door keeper behind atomic pointers | `Increment`, `Admit`, `Rotate` | `Admission` |
| Entry (`pkg/model`) | key, shard, fingerprint; atomic payload, list element, update time | key derivation, `SetPayload`, `SwapPayloads`, `Payload`, codecs | `Storage`, `Keys`, `Codec`, `Pools` |
| Dumper (`lru/dumper.go`) | version directories, `.tmp` and final shard files | `Dump`, `Load`, `LoadVersion`, rotation | `Dump` |
| Upstream (`pkg/upstream`) | slots (healthy, sick, dead), counters, rate providers, token channel | `Fetch`, `probe`, four walks, throttle / quarantine / cure / kill / resurrect / bury | `Upstream`, `Life`, `Pools` |
| HTTP API (`internal/cache/api`) | enabled flag, clear token with expiry, six counters, error channel | index (cache, proxy), clear, on/off; exporter, two loggers | `Api`, `Stats`, `ErrorLog`, `Pools` |
| Application (`internal/cache`, `pkg/shutdown`, `pkg/k8s`) | server state, wait group, probe channels | build, load, serve, liveness, shutdown | `App`, `Probe`, `Start` |
| Terminal UI, configuration | the menu's position; which file is loaded | versions, mocks, another file, an editor | `Start` |

How they interact: a handler asks `Storage.Get`; on a miss it calls `Upstream.Fetch`,
which takes a slot from the channel that the slots' providers fill at their rate, and
then `Storage.Set`, which asks TinyLFU once the memory is at its threshold. The evictor
and the refresher use the same lists and entries from their own goroutines. The monitor
moves slots by probes and error rates. At the end the application stops the server,
dumps the storage and leaves; at the start it loads a dump.

What is hard here, and what has to hold:

- **Lists.** The checks `e.list != l` and `Len() < 2` come before the lock, `Remove`
  does not mark the element. *The list is one closed ring of the live elements.*
- **Storage.** Lookup, decision and insertion are separate critical sections; list,
  map and counters are changed one after the other. *A request is only answered
  with content of its identity; the counters follow the map; what the map holds
  can be evicted.*
- **Evictor.** Scans a list that shrinks below it. *It gets below the threshold and
  never touches the root.*
- **Refresher.** Uses an entry long after it was sampled. *It may only renew, never
  change an entry's identity; what it found is accounted for once.*
- **TinyLFU.** Counters are replaced under those who use them. *A frequency is never
  underestimated but by a rotation.*
- **Dumper.** Crash between two renames, failing file operations, rotation by time, admission
  on load. *The next process restores the last dump, or what of it fits into memory.*
- **Upstream.** Two lock orders, asynchronous providers, tokens that outlive a
  quarantine. *A slot has at most one live provider; a healthy backend is provided for;
  the monitor makes progress.*
- **API and application.** Token reuse, a probe answer after its timeout, a shutdown that
  may come before the listener, a cache switched off at runtime, counters that two applications
  share, pooled objects released twice, an application replaced under `Start`.

`PROJECT.json` lists each hazard at its line with the property that would catch it.

## 2. The modules

```
Ring ─┬─ DoublyLinked ── refines ── ListOrder        RingProofs ─ DoublyLinkedProofs
      └─ Storage ─────── refines ── Cache            StorageProofs ─ StorageLists ─ StorageCounters
         MCStorage: instances of Storage
Upstream ─── refines ── Life                         UpstreamProofs;  MCUpstream
Dump ─── App                                         AppProofs;       MCApp
MCParts: Api, Probe, Admission, Pools,               PartsProofs
         ErrorLog ─ Refresher, Stats, Start
         Input ─ Keys, Codec                         (algorithms)
         Input, Ring ─ MergeSort                     DoublyLinkedProofs
```

**`Ring`** is the list as a value: two pointer functions over elements and root, and
the counter. Each operator does the pointer writes of the Go method in their order,
so it also says what happens to an element that is *not* on the list, which is what
the races produce. `RingOf(r, S)` states that the pointers form one closed ring
through the root holding exactly `S`, with `len` elements.

**`DoublyLinked`** has goroutines that use the list as `doubly_linked_test.go` does:
each moves and removes only elements it pushed and forgets those it removes. The
bodies under the mutex are single steps, the unlocked checks are earlier ones (`MoveCheck`/`Move`,
`RemoveCheck`/`Remove`). **`ListOrder`** is what it implements: a sequence of distinct
elements; the refinement mapping is `order`, the sequence `Next(0), Next(1), ...`.

**`Storage`** is the storage with everything that runs on it. A step is one critical
section, one atomic access or one unlocked check. The state of a goroutine is `pc[p]`
and the locals `want`, `new`, `old`, `freed`.

| Code | Actions |
|---|---|
| `Get` | `Get`, then `TouchSkips` or `Touch`, `Move`; the handler's `Serve` reads the payload |
| miss path of `handleTroughCache` | `Fetched` or `FetchFails` |
| `Set` | `SetFound`, `SetCollides`, `SetMisses`; `Swap`; `Admit` or `Reject` |
| `Shard.Set` | `Store` (under the lock), `AddLen`, `AddMem` |
| `Balance.Push` | `Push`, `SetElem` |
| `InMemoryStorage.Remove` | `UnlistCheck`, `Unlist`, `Drop` (under the lock), `SubLen`, `SubMem` |
| `evictUntilWithinLimit` | `Tick`, `Pick`, `GoOn`, `Evict`, `EndOfList`, `WithinLimit`, and the actions of `Remove` |
| `runMemRefresher` | `RefreshMem` |
| refresher | `Sample`, `Unpack`, `Refreshed` or `RefreshFails` |
| `Clear` | `Clear`, then `ClearShard` for each shard in any order |

An entry and its list element have the same name, because each entry gets at most one
element. `crashed` becomes true where the code would dereference the root's nil value.

**`Cache`** is what the storage promises: at each key at most one entry, entries are
inserted once, contents are renewed only for the same key and fingerprint, a hit is an
entry that was cached at one moment of the call. The mapping (`Cached` in `Storage`)
takes the map as it is; `contents` hides the entries that are still private to the
handler that made them (`Private`), so an insertion takes effect in `Store`; `replies`
makes a `Get` take effect at its lookup and lasts until the handler has answered.

**`Upstream`** has the slots, the goroutines that renew (`renewal`) and run (`provider`)
a rate provider, the four walks of the monitor, the checks they start, the boot, and
the requests. A step is what happens under a slot's lock, or one access to a channel or
an atomic.

| Code | Actions |
|---|---|
| `renewRateProvider` | `RenewSkips`, `Renew`; its loop: `Provide`, `Send`, `Stop` |
| `initBackends`, monitor | checks of kind `boot`; `StartWalk`, `Visit` |
| `probe` and the checks | `Probe`, then `quarantine`, `Throttle`, `Unthrottle`, `cure`, `kill`, `resurrect` or `Leave` |
| `bury` | `BuryLocks` (under the slot's lock), `bury` (once no walk holds the cluster's) |
| `Fetch`, `fetch` | `Ask`, `Take` or `Busy`, `Answer` |

`LimitAfter` and `LimitAbove` compute the limits with the code's truncation, `crashed` is
the division by zero in `ratelimit.New(0)`. **`Life`** is the life of a backend as the
monitor logs it, move by move: healthy to sick, sick to healthy and throttled, sick to dead, dead to sick.
It is taken from the log lines of `slot.go`, not from a document: `README.md:52` of the repository only has "healthy → sick → dead",
and the comment at `slot.go:276` has a move from dead to healthy that the code does not make. What the refinement
adds to the single functions is that no interleaving of walks, checks and burials makes any other move.

**`Dump`** is the dumper: `disk` is the sequence of version directories by time of
modification, each with a final and a temporary file per shard. `DumpShard` creates,
writes and renames one shard's file, each of which may fail; `Rotate` removes the excess
directories file by file. `Restored` is what a load may leave: all records, or, once they fill memory (`Full`),
those that the admission check of `Set` let through, since no evictor runs yet. `Inherited` are the disks an earlier process may have left. **`App`** is the process around it: `Start`, `LoadData` or
`LoadChosen`, `Serve`, which starts two goroutines, one that will `Listen` and one that waits for
the context, `Signal`, `ShutdownStarts`, `ShutdownEnds`, `ServerStops`, `Close`, `Dumped`,
`Done`, `Success` or `Timeout`, and `Killed` at any step, after which the next
process starts on the same disk. `Switch` is `/cache/on` and `/cache/off`: `Close` does not dump a cache that is
switched off (`skipped`), and a process that starts with it loads nothing.

**`Api`** has the handlers: `Index` with its cache and its proxy path, the answer of the
upstream, the nil entry, on and off, and the clear token from request to use. **`Probe`** is
the liveness prober: callers with their own timeouts that share one channel for questions
and one for answers.

**`Admission`** is TinyLFU with its pointers: a setter counts in the door keeper and in
both sketches row by row while `Rotate` exchanges them.

**`Pools`** says who uses which pair of a request and a response, from its acquisition to
its releaser: `Fetch` (`Copy`, `Replied` or `TimedOut`, `Filter`), `Payload` (`ServeEntry`,
`RepeatEntry`), mocks, health checks and the deferred calls (`RunDefers`). `Compact` is what
`filterHeaders` does to cells that it reads and overwrites at once.

**`ErrorLog`** is the logger that deduplicates errors: the controller and the refresher have
one each. **`Refresher`** extends it with the workers, the refreshes they start, the reports and the
counters. **`Stats`** has the six counters that all controllers of the process share, an exporter with
its summaries for each controller that was built, and the evictor's channel of statistics.

**`Start`** is the way from the command line to the serving application: `LoadCfg`,
`BuildFirst`, every choice of the menu, `Rebuild` with another configuration, the data and the
questions asked. Its main state is `apps`, of which `app` is the one that `c` points to.

**`Keys`**, **`Codec`** and **`MergeSort`** are algorithms: the text that is hashed to a key, the
query parser, the codecs of entry and payload, and the sort of the shard list with its pointer
writes. A loop of the code is a recursive function of its rounds. They have no state: **`Input`** declares the
`part` that runs and its `input`, and a property says what the algorithm makes of that input, by a reference
definition. TLC checks it over bounded inputs, each a state; the proofs are for every input.

The `MC` modules hold the values of the constants. **`MCParts`** puts the parts that share no
state into one run: `part` says which of them a behaviour runs, the others stay put.

### Abstractions

- *Storage.* A request is a map key and a fingerprint; a payload is the request and a
  body; a weight is a small number per body. TinyLFU's verdict is a free choice.
  `IsSamePayload` compares samples, so unequal payloads may be judged equal (`SetFound`).
  `RealMem` reads the shards one after the other and the model at once; so does `Pick`
  with the sort, the list's length and the selection (`MergeSort` has the sort).
  `Overhead` is `Balance.Mem()`, which the admission check adds and the evictor does not.
  `WalkShards` registers shards from concurrent goroutines: `Init` allows each order. One
  refresh worker stands for four.
- *Upstream.* Time passes freely. The float rates of the code are integers rounded down,
  which agrees with the float arithmetic except for a few rates (14, 28, 56, 110, ...), off
  by one. The two atomics of a reset, and of an error rate, are one step. Slots exist from
  the start of the boot. The counts of probes stop one above the number that matters.
- *Dump.* A file is the set of entries whose records are complete in it; checksums are left out,
  as no file changes on its own. Memory is the set of caches that fill it, `Full`. The dump is taken as
  enabled and mocks as off (`Start` has both settings). A temporary file is read raw even where gzip is on, as in the code.
  A request may store an entry also while the cache is switched off, which allows more than the code does.
- *Admission.* Hash functions are any of a given set. Reading an estimate is left out,
  since it changes nothing; setters only add, so one is enough next to a rotation.
- *Pools.* A request and its response are one object, since they come and go together. A
  header is its owner and its number. The upstream answers or it does not.
- *Refresher.* The chance in `ShouldBeRefreshed` is a free choice, its settings are not. A
  limiter always has a token in time, and after the context's end its channel is closed, from
  which a receive succeeds as well: neither limits what may happen.
- *Stats.* Rates, averages and the texts of the summaries are left out; the sums of
  1, 12 and 24 hours work alike and are one.
- *Start.* A configuration is what decides how the start goes on; what is on the screen is
  left out. Answers of the operator, files and build errors are free choices.
- Tickers are free choices everywhere: a step that a ticker allows may happen at any time.

## 3. The runs

All runs use model values for processes and elements; every bound is a constant. `hot`,
`keep` and `parts`, which check safety only, use the symmetry of the handlers (`Handlers`) and of the exporters (`Exporters`).

| Run | Instance | Shows |
|---|---|---|
| `list` | 4 elements, 2 goroutines | `TypeOK`, `RingIntegrity`, refinement of `ListOrder` |
| `hot` | 1 shard, 1 key with 2 fingerprints, bodies of weight 1 and 2, 2 entries, threshold 2, evictor | `AnswersMatch`, refinement of `Cache`, drift of `len` and `mem`: all of `Set`'s branches race on one key |
| `keep` | 1 shard, 2 keys, 2 entries, refresher, one `Clear`, no eviction | the rings stay intact under hits, touches and `Clear` |
| `cold` | 3 shards, 3 requests, each cached once, threshold 2, two fat shards, overhead 1 | rings, completeness, exact `mem`, no dereference of the root, and `EvictionConverges` |
| `broken` (violation) | 1 shard, 2 keys, 3 entries, evictor | a touch that loses the race with an eviction breaks `RingsIntact` |
| `update` (violation) | 1 key, 2 bodies | an update in place breaks `MemAccounted` |
| `tail` (violation) | 1 shard, 2 keys, 1 handler | the evictor takes the head of the list: `EvictsFromTail` |
| `upstream` | 1 backend of rate 3 with 3 steps, 2 providers, 1 renewal at a time, 1 request, one kind of walk at a time | one live provider, why a healthy slot may be silent, the error counter, no crash, refinement of `Life` |
| `heal` | the same without requests, 2 renewals and 2 kinds of walks at a time | `HealsUnlessBurialHangs` under fairness |
| `app` | 2 keys, one of which fills memory, 2 shards, gzip, 1 version kept, 1 failing file operation per process, 2 processes after one that may have left a complete dump | versions, what is restored, what a graceful end means, and `SignalEndsUnlessUnheard` under fairness |
| `snapshot` (violation) | 2 keys, 2 shards, 2 versions kept, no failing operations, no admission, 2 processes after one that may have left a complete dump | a process killed while dumping leaves what the next one prefers: `RestoresLastComplete` |
| `parts` | below | one property per part |

| Part of `parts` | Instance | Property |
|---|---|---|
| `api` | 2 clients, 3 items of which 2 have a rule, 3 tokens | `ClearsOncePerToken`, `PanicsOnlyOnRefusedMiss` |
| `probe` | 2 callers, 3 contexts | `LoneProbeIsAnswered` |
| `admission` | 2 keys, 2 rows of 2 buckets, counters to 2, 1 rotation | `NeverUnderestimates`, `UnknownOnlyAfterRotation` |
| `pools` | 2 users, 4 pairs, 3 headers of which 2 pass | `ReadsOwn` |
| `errors` | a queue of 1, 4 maps | `MapsApart` |
| `refresher` | the same with a worker, 2 scans | `RefreshesAddUp` |
| `stats`, `evictions` | 2 exporters, 1 request, a summary each second tick; 2 evictions, a channel of 1 | `NoExporterRepeats` |
| `start` | 3 files with 6 contents, 3 applications, 1 version | `ServesWhatItLoaded` |
| `keys`, `parse` | up to 3 pairs of 8, up to 5 letters of 6, `%` and `+` among them | `KeyIsOfTheRequest` |
| `codec` | bodies and headers of up to 2 letters | `DumpRestoresEntry` |
| `sort` | 2 to 5 shards; any of 8 comparisons finds the weights changed | `ShardsStayListed` |

Why these bounds. *Storage*: the hazards are races of two operations on one key or on one list,
so two handlers plus the evictor reach them; three elements are the least with which a
removed element can have live neighbours on both sides. `Elem` bounds how many entries
are ever stored (a name is reused only if the entry was discarded unstored), so a
behaviour has a few insertions and any number of hits, collisions and evictions.
Three shards are the least in which the fat shards are a
proper part and `FindVictim` has both neighbours. `Repeat = FALSE` in `cold` keeps
a request from being asked again once it is cached; otherwise the races of `broken`
are there, and after them neither completeness nor convergence holds. `keep` gets
hits and touches, but no removal, for the same reason. In `hot` no property mentions
the lists, so the races run freely. *Upstream*: slots only meet at the cluster's lock and the channel, so one
backend shows the races on a slot, and a burial against a second walk shows the two locks; two providers are one that is
displaced and its successor; three steps are the least with a throttle in between. *App*: with the
dump an earlier process left, two processes are one that writes, fails or dies, and one that loads; two shards are the least of
which a part can be missing; one kept version makes every dump rotate. A key that fills memory and one that does
not are the least with a refused record. *Parts*: two actors
race, a third token, context or pair lets a stale one be told from a new one. Four maps
are one more than there are references. Five shards are the least with runs of uneven length in the merge sort.

Deadlock is not checked in runs that really may stop: the storage rests when no
request comes and all elements are used, the process ends, an input of an algorithm is a state.

**The counters of `Storage`.** `LenDrift` and `MemDrift` add to a counter what the goroutines have
yet to add or subtract and compare it with the map. A drift never changes, except when
`Clear` stores 0 under pending updates or, for `mem`, when a payload changes in place
(`CountersDriftOnlyByClearOrUpdate`).

**Fairness.** `cold` uses it for `EvictionConverges`: the ticker fires and the
evictor's goroutine runs (`WF` of its steps; at every point it has one enabled), and a handler
that is inside `Set` or `Get` goes on. Nothing forces clients to ask, the upstream to
answer, the refresher or `RefreshMem` to act. These steps block
only on mutexes held for a bounded time. Handlers must go on because an entry counts
towards `mem` before it is on a list; the evictor spins until they do. `heal`: the monitor's tickers
fire (`SF`, because the bound on concurrent walks can disable a walk in between, which the code does not), probes
end by their timeout, and what was started runs; no request is needed. The property's last
disjunct is the deadlock of two lock orders, which `bury` can reach: it waits for the cluster's
lock with the slot's lock in hand, and a walk waits for the slot's. `app`: each goroutine goes on, with one `WF` for
all its steps (main, the application's, the two of the server, one per shard of the dump), without a signal, a request or main's own timeout,
and the server's timeout of ten seconds lets a shutdown end in spite of a stuck handler.

## 4. Findings

- **`broken`**: `MoveToFront` and `Remove` trust a check made before the lock, and a removed
  element keeps its owner. After `Get` found an entry, the evictor removes it, and `MoveToFront`
  relinks the dead element: the counter no longer counts the ring.
- **`update`**: `SwapPayloads` changes the weight of an entry, the shard's `mem` does
  not follow, although the comment of `update` says so.
- **`tail`**: `Next(offset)` counts from the front, where the most recently used entries
  are; the documentation says the tail is evicted.
- **`snapshot`**: the last modified version is loaded, whatever is in it; the documentation
  says that the last complete snapshot is.

Seen while modelling, and carried by the models as they are:

- *Upstream.* A backend that is cured twice at the limit of a cure stays silent, since the
  renewal finds its limit unchanged. A late renewal may give a sick backend a provider. `resurrect`
  makes a backend sick, its comment says healthy (`slot.go:276`). Below a rate of ten a
  throttle may ask for the limit 0, which ends the process.
- *Shutdown.* A signal that comes before the server listens may not be heard (`Unheard`): `ShutdownWithContext`
  finds no listener and returns, the server then listens until main's timeout of three minutes, and nothing is dumped.
  After `/cache/off` nothing is dumped either, and the process still reports a graceful shutdown.
- *Dumper.* A load goes through `Set`: near the threshold admission may refuse what was dumped, which is counted as
  restored. Rotation runs although shards of the new version failed. A removal changes the
  time of its directory: given up halfway (`torn`), the remains of the oldest version are the
  newest. The dump's own context cannot expire before main's timeout.
- *API.* A miss answered with another status than 200 asks a nil entry for its time and
  ends the process. An upstream error on the proxy path is not counted as an error. Export reads
  a counter and then stores 0: what is counted in between is lost. The counters are the package's, so after the menu replaced
  the application two exporters read and reset them: they may both report a request, or share the requests between them. The summary of an hour
  leaves out the hits of a period without requests begun in it.
- *Entries.* The path is not part of the key, although `README.md:46` and `:188` list it; pairs are
  joined without separators. The parser used for mocks fails on a leading `=`, and it decodes neither `%` escapes nor `+`
  as the one for requests does (`query.go:17` and `:130`): with either in its query a mock gets another key than the request for it.
- *TinyLFU.* A `Set` counts its key before it asks, so the door keeper turns a key away only when it
  was rotated in between; frequencies count insertions, not hits.
- *Logs.* If the writer of the error log lags behind, one map is never printed and another one
  twice. After the refresher's logger has stopped, refreshes that fail wait on its channel for ever.
- *Start.* Gauges of a backend are registered by `NewGauge`, which panics for a known name: an
  application with another configuration that names the same backend ends the process
  (stage `panicked`). After `*c = *newApp` the context of the old application lives on, and with it its
  monitor. The list of files does not show the default one. "Continue anyway?" continues
  with the old application; "no" to saving leaves a configured dump on. `LoadMocks` never asks its context.
- *Liveness.* The flag is set before the server listens and stays set if it cannot.

## 5. What is proved

For all sets (finite or not, unless an assumption says so) and all values of the constants
that satisfy the named assumptions. Each proof states an inductive invariant, shows that
`Init` has it, that every action keeps it, one step per action, and that it implies the property.

**The list** (`RingProofs`, `DoublyLinkedProofs`; `RingAssumption`): `RingIntegrityHolds`, `TypeCorrect`, `ImplementsOrder`.
The invariant `IInv` is `TypeOK`, `RingIntegrity`, and `Ownership`: no element belongs
to two goroutines, and a call's argument is an element its goroutine owns. Without
`Ownership` the step of `Move` fails, because the body could relink an element that another
goroutine has just removed, which is exactly what happens in `Storage`: the
list is correct for callers that own their elements, and the storage's callers do not.
Linking in front prepends to the represented sequence, linking at the back appends, unlinking position
`k` drops it; from these `PushAdds`, `RemoveTakes` and `MoveKeeps` say what each method does to `RingOf`.
`ImplementsOrder` is the refinement of `ListOrder`. The mapping reads the order off the pointers as
`Next(0), Next(1), ...` do, by a recursive function; in a closed ring this is the represented sequence
(`NextAt` of a position is its element), so each locked body is one operation on sequences and
each check before the lock is a stutter.

**The sort of the list** (`DoublyLinkedProofs`; `RingAssumption`): `ShardsStayListedHolds`, for lists of any length and any behaviour of the
weights while they are compared. `Chain` says that the pointers lead through a sequence up to nil; `Half` cuts a
chain after its middle (`HalfIs`, `CutIs`). The invariant of a merge's rounds is `Merged`: what is taken so far is a chain `D` of the
first elements of both arguments, in order, the rest of each is as it was, and no other pointer was touched. It is
symmetric in the arguments (`MergingSwaps`), so that one lemma, `TakeFrom`, serves both sides of the comparison. What "in
order" means is a parameter, a transitive relation that agrees with the comparisons: `OrderFor` is the stable order by weight
if the weights stand still, and holds of every pair if they move, so that one proof shows both halves of the property. `SortStep` and `SortIs`
are the induction over the depth, `CloseIs` the walk that sets the pointers back, and `RankedIs` says that a list
in this order is the reference order, which finds the place of an element by counting those before it.

**The storage, answers** (`StorageProofs`; `RingAssumption`, `StorageAssumption`):
`AnswersMatchHolds`, and `ImplementsCacheHolds`, that `Storage` refines `Cache`. The conjuncts of `IInv`:

- `Sound`: an entry holds content of the key and fingerprint it was made for, through
  `SwapPayloads` and `SetPayload`. This is what makes a late read of a payload harmless.
- `Mapped`: the map holds an entry under the key of its request.
- `Alive`: whatever a goroutine still refers to is an entry, not a discarded one.
- `Hidden`: between fetch and insertion an entry is known to its maker alone. Without
  it `Discard` could take an entry from under a reader, and `Store` could be the
  second insertion of one entry.
- `Found`: what `Get` or `Set` found matches what the handler wants or stores; the
  fingerprint check of the lookup stays true because identities never change.
- `Refreshing`: the request the refresher repeats is one for the entry it refreshes.

Nothing in it speaks of lists, counters or the evictor's scan: the theorems hold in spite of
the races of `broken`. That is their point: broken lists cost memory bounds, never a wrong answer.
The refinement proof has one lemma per action, under the mapping's five outcomes: a hit, an
insertion, a renewal, a removal, an answer; `Continues` and `Ends` treat the steps the
abstract cache does not have.

**The storage, lists** (`StorageLists`). In every behaviour, the broken ones included, `Lists` holds: the
pointers of a list lead from linked elements to linked ones (`Chained`), a linked element is an
entry of this shard (`Placed`), what is to be moved or removed was once on a list (`TakenFromList`),
and the evictor's scan stays within its shards (`Scanning`). That the list is *whole* is only true of workloads in
which no element is both moved and removed by goroutines that do not know of each other: `KeysApart`, no
two requests share a map key, so that no handler removes a colliding entry, and `OneUser`, nothing is evicted or no request is repeated once it is cached.
The hypotheses are those of `keep` and `cold`, and `broken` shows the ring falling apart without the second. Under them
`RingsIntactHolds`, `MappedAreListedHolds` and `NeverPanicsHolds` follow from `OInv`, whose conjuncts are

- `Whole`: each ring is closed and counts its elements.
- `Attached`: what the evictor is about to unlist is still on its list; without eviction whatever was listed is.
- `Once`: if requests are not repeated, a request has one handler or one entry, never both. It is what makes
  a `Get` miss and keeps hits, and with them the moves, away from the evictor.
- `Reach`: what the map holds is on a list, or its handler has yet to push it, or the evictor is about to drop it.

**The storage, counters** (`StorageCounters`). `TypeOKHolds` needs no hypothesis: it is `CInv`, which adds to the above that
what goroutines carry (`freed`, `Added`) are numbers. `CountersHold` proves the action property
`CountersDriftOnlyByClearOrUpdate`. A drift is a counter, plus what `Adding` processes have yet to add, minus what `Taking` ones
have yet to subtract, minus what the map holds: sums over finite sets, which a fold computes. No
induction over the fold is needed: `SumChanges` says that a sum over functions that differ at one point changes by the difference there, so
each action compares one process's and one key's share (`LenShare`, `MemShare`) before and after.
`MemAccountedHolds` gets from it that memory is accounted for until the first `Clear`, for workloads without updates in place (`NoUpdates`: no two
requests have one identity, none is repeated, nothing is refreshed); `update` shows the drift otherwise.

**The upstream** (`UpstreamProofs`; `UpstreamAssumption`):

- `OneProviderPerSlot`. The invariant is `TypeInv == Types /\ Held`: the slot of a provider that is not
  cancelled holds the handle to cancel it, and a handle that is held belongs to a live provider
  *of this slot*. Without the second half, cancelling through a stale handle could
  hit the provider of another slot, and the first half would not survive it.
- `NoLimitIsZeroFromTen`, by `Positive`: every limit in a slot, a renewal or a provider is positive if
  the rates are at least `Steps`; it rests on what integer division loses (`Quotient`).
- `OnlyCuresSilence`, by `AllServedOrExcused`: a healthy slot has a provider or an *excuse*, that is, its limit
  is the limit of a cure, a renewal of it is under way, or it still has the limit 0 with which it was
  made and the boot's renewal is pending.
- `OverrunIsBounded`, by `AllTallied`: the errors of a slot and its requests in flight are at most its total and the number
  of handlers. The property alone is not inductive: an answer adds an error.
- `MonitorImplementsLife`, the refinement of `Life` under `full`, the slots without throttles.
- `UpstreamTypeCorrect`, by `WithinRates` (no limit that is set, asked for or provided exceeds the rate, since a
  throttle's quotient is at most the rate and an unthrottle takes a minimum with it), `Countable` (probes
  in a row are counted to one more than decides) and `MonitorOK` (a walk visits slots of the cluster, and
  checks are started by walks).

**Dumps and process** (`AppProofs`; `DumpAssumption`, `AppAssumption`): `AppTypeCorrect`,
`VersionsAlwaysGrow`, `GracefulIsDumped`, `LastDumpIsRestored`, `CompleteDumpSurvives`, all from `Invariance`:
`IInv` is `TypeOK`, `Control`, `Order` and `Dumps`. `Control` says which goroutine may be where while
another one is: that nobody dumps twice at a time, and that main leaves after the
dump. `Order` says that names are unique and the rotation's versions are on disk (`Named`), that
the rotation leaves `MaxVersions` (`Room`), that it does not take the newest unless an operation of this process
failed and a removal was given up halfway (`Kept`), and that times and numbers agree except for the one being removed (`Ordered`). `Dumps` ties
the files to what the dump has seen in the cache, the newest version to `complete`, and
what was loaded to both. `Newest` is a maximum: `GreatestExists` shows that a
finite disk has one, by the least element of a set of naturals (`LeastElement`).

**The parts** (`PartsProofs`, each with the assumption of its module):

- *API.* `TokensClearOnce`, since the current token has not cleared yet and the call that
  uses it voids it under the same lock; `OnlyRefusedMissPanics`, since a request without an entry reaches the end
  only with a status other than 200.
- *Probe.* `ProbeTypeCorrect`, and `LoneProbeHolds`, whose invariant `Lone` says that as long as no call timed out
  and no two overlapped, at most one caller waits, its context is alive, its question is with its own
  goroutine or with `Watch`, and nobody else asks.
- *TinyLFU.* `NeverUnderestimatesHolds`: `Covers`, each row has counted a key as often as it was counted, holds of each
  sketch ever made, also of one that was exchanged while a setter still counts in it; a minimum over the rows keeps the bound.
  `UnknownOnlyAfterRotationHolds`: `Told`, a setter that has seen no rotation has the newest door keeper and its key's bits are set there.
- *Error log.* `MapsStayApart`: the map that is written is neither printed nor to be printed, except between the two
  steps of a tick. It needs that a free map exists (`FreeMap`: four maps are more than three references).
- *Refresher.* `RefreshesAddUpHolds`: a cardinality of waiting workers that a step changes by at most one.
- *Pools.* `ReadsOwnHolds`: `HandsApart`, a pair that a goroutine will release is in no pool and with nobody else; `Shape`, what
  it works on it will release, and releases once; `Reads`, what is in the pair is what the goroutine put there. The deferred
  releases make this more than it seems: a call that failed has released its pair, one that succeeded has handed it on. The lemma `Filters`
  adds that filtering the headers in place leaves exactly those that the rule lists: `KeptListed`, no header moves to the
  back, and so `WritesAre`, no cell is overwritten before it is read.
- *Statistics.* `NoExporterRepeatsHolds`: what an exporter has exported and loaded of a counter was counted (`Unexported`), and what it
  is yet to load comes on top of it (`CountedOnce`), also when the others reset the counter in between, which only lowers it (`OthersFine`): so
  storing 0 loses counts, and none is exported twice by one exporter; what was evicted is told, held or on the channel, whose sum grows and shrinks with it (`PendingMore`, `PendingFewer`).
- *Start.* `ServesWhatItLoadedHolds`: `Filled`, until data is loaded all storages are empty and only the last application's is ever filled;
  `AsChosen`, what is built or loaded is what was chosen last, on every way through the menu, failed builds and edited files included.
- *Keys.* `KeyIsOfTheRequestHolds`. The insertion sort makes an ascending sequence of the same pairs (`KVSliceSorts`), of which there is
  only one if the names differ (`AscendingUnique`; the order of names is total, `LessTotal`): so the order of
  the parameters does not matter (`OrderIgnored`). The two parsers are followed character by character: `Opens` relates the state of the
  one to the text since the last `&`, which the other cuts (`ParsersAgree`), and which it decodes; without escapes this changes nothing (`PlainPiece`). They differ in pairs without name and value, which no rule allows (`EmptyForbidden`).
- *Codec.* `DumpRestoresEntryHolds`. `StandsAt` says that a text stands in the bytes at an offset; a header that stands there is read and leaves
  the offset behind it (`HeaderRead`), and so are any number of them (`HeadersRead`). `UnpackPacked` and `RecordRestores` put the pieces together.
- *Types.* `PartsTypeCorrect`: each part has its type in each state, by the invariants above where the type needs them (`PartsInv`).
  A step is one of the part that runs (`OnePartSteps`). Not all of it is plain: that releases are
  never more than two deep (`Short`), that cells of a response have an owner after a filter in place (`Cells`), and that a build
  registers a set of names, whatever the list of backends is (`InitBackendsType`).

Recursive functions (`NextAt`, `Kept`, `Compact`, `Pending`, the loops of the algorithms) and the library's sums are reasoned about by
an induction over a set of naturals (`NatSubset` and `UpTo`, which rest on the least element), since the induction theorems of the
library take an operator. Each recursion has a lemma that it exists (by `Recursion`, where its steps stay in a set),
one that unfolds a step, and one with what it computes.

Every safety property of every passing run is proved. Only model-checked are `EvictionConverges`,
`HealsUnlessBurialHangs` and `SignalEndsUnlessUnheard`: liveness under fairness is out of the prover's reach. So are the violations, which TLC
finds, and the mutants.

## 6. Not modelled

- Locale tables, the template of the mocks' body, the load generator and the generated
  scripts: data and tools. The encodings (`gzip`, `brotli`) and the capturing writer have no callers with
  state; debug dumps of payloads only print.
- The router, the HTTP server's middlewares and its construction: configuration of a library. The
  server's start, state flag and shutdown are in `App`.
- The values of the configuration and their conversion to byte slices; `Backend.Clone`, which copies
  `Timeout` into `MaxTimeout`, has no caller.
- The values of the upstream's gauges, the storage's logger and the forced GC: output without any effect
  on the state.
- The samples that `IsSamePayload` compares: `Storage` leaves the outcome open, so its properties
  hold for each.

## 7. What would come next

- The lists of `Storage` for workloads with collisions: a collision removes an entry that a hit may be about to move, so the
  hypothesis would have to speak of pairs of requests instead of all.
- A bound of the drift that updates in place cause: the difference of the largest and the smallest weight, per update.
- Safety parts of the liveness properties: which steps of the evictor and of the monitor are enabled where (`EvictionConverges` and
  `HealsUnlessBurialHangs` rest on it), stated without ENABLED.
