# A verification project for the Mini HTTP Caching Proxy

The program (`src/`, Go) is a proxy with two faces: a *reverse proxy* for the configured
hosts, which caches GET responses, and a *transparent proxy* that tunnels CONNECT requests
for any other host. This directory holds TLA+ modules that model its concurrent and
stateful parts, the configurations that check them with TLC, and proofs that TLAPS checks.

## 1. Inventory

| Component | State | Operations | What makes it correct |
|---|---|---|---|
| File shard, `initial/stores/file_shard.go` | an append-only file with a byte counter, an index key → (offset, length, expiration), a second file and index while a compaction runs, a trigger channel of one token, two goroutines | Get, Set, Delete, DeleteExp (by a ticker), Compactization (by the trigger), Close, initIndexFromFile | an index entry always points at the live record of its key; what a restart would read from the file is what the index says; a compaction loses no write and revives nothing; the goroutines end |
| File store, `cach_file_store.go` | a slice of shards | start (choose each shard's file, one goroutine per shard in an `errgroup`), route by hash, Close | a start restores what its files held; it yields complete shards or none; the goroutines outlive the start |
| Memory store, `cach_ram_store.go` | shards of maps, a sweep goroutine | Get, Set, SetWithExp, Del, DelExpiration | no expired item is served; the sweep deletes only expired items and reaches all shards |
| Records, `record.go`, `index_record.go` | none | formatting and parsing | a record read back is the record written |
| Reverse proxy, `inbox_handler/revers.go` | a `singleflight.Group`, the cache | InboxRequest, sendHttpRequestInOurHost, ParceCacheControl | no-store is kept out of the cache; a client is not taken back in time; every request is answered |
| Transparent proxy, `transpanent.go`, `session.go`, `connManager.go` | per tunnel two connections, two goroutines and a `sync.Once`; in the manager a map under a mutex and a WaitGroup | HandleConnection, Register, Start, transfer, Close, Deregister, Shutdown | the WaitGroup counts the live sessions; no way out leaks a connection; Shutdown comes to its end |
| Rate limiting, `rate/limiter.go`, `rate/shard_limiter.go`, `inbox_handler/middleware.go` | a token bucket for all, a map of buckets per client in shards, a sweep | Allow, DeleteDontUseLimiters | a bucket stays within its capacity; a client's requests are bounded |
| The process, `main.go`, `domain/ports.go` | the signal's context, the goroutines, the deferred calls, the server | start, serve, shut down | a signal ends the process, whenever it comes; requests are drained first |
| Metrics, `metrics/middleware.go` | a gauge and a counter | count a request in and out | the gauge is exact, also when handlers panic |
| Dispatch, `inbox_handler/handler.go`, `util.go` | none | route to one of the two proxies | – |
| Configuration, certificates, logging, `config/`, the loggers | read once | parse the environment | pure I/O, not modelled |

How they interact. The middleware asks the limiters, then the handler picks the reverse or
the transparent proxy. The reverse proxy calls the cache (memory or file) from within a
flight of `singleflight`, which several requests share. The transparent proxy hands its
connections to a session, which two goroutines serve and which they themselves deregister
from the manager. `main` runs `server.Shutdown` and `Handler.Shutdown` at the same time, so
handlers may still be on their way to `Register` when the manager shuts down. Nothing under
`src/` but tests calls `FileShard.StartCompactization`, `FileShard.Delete`,
`RamCacheStore.Del`, `Limiter.Wait`, or the cache's `Close` on shutdown.

What is hard here: the compaction, which copies records in many short critical sections
while callers go on writing; failing writes, which leave bytes the byte counter does not
know of; a second look at a state found under an earlier lock (both sweeps and the copy
loop); the two goroutines of a session that both want to close it; cancellation and Close
in the middle of everything. `PROJECT.json` lists each hazard at its line, with the
properties that watch it.

## 2. The modules

| Module | Models | Notes |
|---|---|---|
| `CheckpointedCache` | nothing in the code: the abstract specification | what a caller of a cache may rely on |
| `FileShard` | `file_shard.go` from the moment a shard runs | the core; `Cache` is the refinement mapping |
| `Restart` | `newFileShards`, `NewFileShard`, `initIndexFromFile`; the directory of files over several lives of the process | extends `FileShard` |
| `FileShardProofs` | – | the inductive invariant of a shard, its theorems, and that a shard implements `CheckpointedCache` |
| `RestartProofs` | – | theorems on the files over several lives; extends both |
| `RamCacheStore` | `cach_ram_store.go` | operations and sweep; used by the next |
| `Flights` | the GET requests of `revers.go` with `singleflight`, without the cache | actions only; used by the next two |
| `ReversProxy` | `Flights` over `RamCacheStore` | the proxy with the cache in memory |
| `FileProxy` | `Flights` over `FileShard` | the proxy with the cache in files, wired as in `main` |
| `Tunnels` | `transpanent.go`, `session.go`, `connManager.go` | from the dial to the shutdown |
| `RateLimiting` | `limiter.go`, `shard_limiter.go`, the choice in `middleware.go` | |
| `Process` | `main.go`, `NewFileCacheStore`, `MetricMiddleware` | from the start to the exit |
| `FlightsProofs` | – | lemmas on flights over any store; used by the next two |
| `ReversProxyProofs`, `FileProxyProofs` | – | theorems on the flights over either store |
| `TunnelsProofs`, `ProcessProofs`, `RateLimitingProofs` | – | theorems on these components |
| `MC…` | – | values for TLC |

**FileShard.** A step is one critical section of the shard's `RWMutex`. `file` stands for
`fs.file` and `fs.sizeFile`: a set of records with their offsets, the physical end (`end`)
and the counter (`size`). The two differ once a failing write has left bytes behind
(`Tear`), and from then on offsets taken from the counter are wrong, as in the code. Reading
through an entry gives the record whose bytes are exactly those, or `Garbage`. The callers'
actions are `Set(k, v, e)` and `Delete(k)`, with their failures at the tombstone and at the
record; `WriteFails` collects the failing writes of all parties. The goroutine of `StartDeleteExp` is `DeleteExpBegin` … `DeleterStops`; its sweep
holds the lock over one step per key, so that a cancellation can fall in between. The
goroutine of `checkTrigger` is `CheckTrigger`, `CompactBegin`, for each key of the snapshot
`CompactRead` (under RLock) and `CompactWrite` (under Lock), `CompactEnd`, and
`RollbackCompact` for every failure. The copy is what was read, its Delete byte included
(`CopyOf`): a displaced entry may lead to a tombstone. `SafeGo` recovers panics: a panic of the record parser
in the copy loop ends the goroutine with the read lock held (`leakedRLock`).

**CheckpointedCache.** A map with expiration in which a compaction is a checkpoint: it
changes no entry, and if it fails it takes back all puts made since it began. The rule is
the code's, which throws the new file and index away in `rollbackCompact`; the module states
it so that the surprise is visible. The same module is implemented by the memory store, in
which the phase is always "open". A map that callers may change at will allows nearly
every step, so the refinement says more than `Cache!Spec`: `StepsMatch` ties a step to the
party that takes it. A `Set` puts the item it was given or nothing, and the goroutines (the
copy loop, both sweeps) take only the cache's internal steps. A copy loop that wrote an old
value over a newer one would be a legal "put", but not by that party.

**Restart.** The directory is what a process has open (`name`, `nameComp`) and `left`, the files
it has not. `Crash` ends the process at any moment; a kill in the middle of a write is
`FileShard`'s failing write followed by it, and a start that fails is a crash while loading.
`StartFromFile` takes the last of the files by name, as `newFileShards` does, `StartAnew`
makes one when there is none or `ReadDir` fails (which is only logged). `LoadRecord`,
`LoadGarbage`, `LoadEnds` and `LoadCancelled` are the rounds of `initIndexFromFile`; bytes
that begin no record may spell anything. The steps of the running shard are `FileShard`'s,
with what they do to the directory: names for new files, and removals that fail.

**RamCacheStore, Flights, ReversProxy, FileProxy.** `RamCacheStore` gives the operations that
`ReversProxy` calls and the sweep (`SweepBegins`, `SweepScans`, `SweepDeletes`,
`SweepMovesOn`) that runs beside them. A flight of `Flights` goes through "get", "fetch",
"set", "return", or, when the cache cannot be read, "get", "refetch", "return"; `sgr[k]` is
the flight others may join. The origin is outside: a version per key, and an answer with any
header. `Duration` computes a lifetime in 64 bits, of which the run has four. `FileProxy`
gives the file store's answers to the same flights: reads fail or give bytes that are no
response, writes fail or are refused, and beside the flights runs the sweep and nothing
else, since nothing under `src/` but tests deletes or starts a compaction. `Restarts` ends
the process at any moment and starts it on its file: the requests under way are lost
(`FlightsLost`), the counter is the size of the file, the index is read from it
(`Reloaded`) with `ReloadFor` for the code's 20 minutes. It is one step, as the server does
not listen before the store is built, may come any number of times, and is limited to files
without bytes of failed writes: torn files, starts that are cut off and the choice among
several files are `Restart`'s. The variables of `FileProxy` are `FileShard`'s and
`Flights`', whose types the other runs check.

**Process.** The shards load side by side under the errgroup's context (`LoadsRecord`,
`InitReturns`, `InitFails`), `StoreReturns` is `wg.Wait`, and `main` goes on with whatever
came of it: after an error with a nil `*FileCacheStore`, on which every GET panics
(`Panics`) and is recovered by `net/http`. The two goroutines of each shard (`Loops`) end
when the process is told to stop (`ShardLoopEnds`) or of themselves, when `DeleteExp` fails
to write or `SafeGo` swallows a panic (`ShardLoopFails`); nobody notices the latter, and
`ReadyComplete` says no more than that they were started and not stopped. `Signal` may come at any time. `deferred` is the
stack of `main`'s deferred calls. `net/http`'s server is modelled by what `main` uses of it:
it listens or fails, and `Shutdown` closes it and waits until no request is being handled
or its context ends.

**Tunnels.** Per request: the handler's progress, the two connections, the two copiers and the
`Once`. For the manager: `conns`, `wg`, and Shutdown's progress; the mutex is held during the
sweep only. The goroutine that waits for `wg` has a state of its own, `waiter`: it is woken by
the last `Done` and goes on later (`WaitReturns`). If a handler has called `Register` in
between, Go's `Wait` panics ("WaitGroup is reused before previous Wait has returned"), in a
goroutine without a recover, and nothing runs any more (`Alive`). `Done` itself has a
shorter window of the same kind, within the call; it ends the process just so and is not told
apart.

**RateLimiting.** Buckets in fractions of a token, a clock, the general limiter
(`RequestInternal`), the limiter per address (`RequestExternal`) and the sweep.

## 3. The runs

| Run | Asks | Bounds |
|---|---|---|
| `shard_safety` | `IndexSound`, `NoResurrection`, `SnapshotFrozen`, `CompactionOwned`: do index and file agree through every interleaving of Set, Delete, expiry and a compaction with failures at every step? `RefinesCache`: does a reader see anything but a checkpointed cache? | 2 keys (symmetric), records of length 1 and 2, a limit of 2, one tick; failing writes leave no bytes |
| `restart` | `HealedByRestart`, `LifetimeBound`, `RestoresItsFile`, `TornTailContained`, `LeakNeedsTornWrite`, `FailedWriteInvisible`: what does a start restore, whatever happened before, and what do failing writes change? | 2 keys (symmetric), records of length 2, 3 starts, 2 names (so that a new file comes before or after the old), 2 calls, 1 byte left by a failing write, files up to 5 |
| `shard_lifecycle` | `CompactionFinishes`, `CloseReturns`, `ExpiredDeleted`: does what must happen happen? | 1 key, 1 value of length 2; cancel and close at any time; writes fail while the file is then no longer than 3, and leave a byte or none |
| `shard_size_limit` | violated: `SizeWithinLimit` | those of `file_proxy`, without failures |
| `shard_expiry` | violated: `ExpiredNotServed` | the same, with a max-age of a second and 2 ticks; nothing is stored without a max-age |
| `tunnels` | `AccountsExact`, `NoLeakedSocket`, `ShutdownCompletes`, `PanicIsLate`, `BothEnd`, `FoundEnds` | 2 sessions |
| `tunnels_cut` | violated: `TransfersComplete` | 2 sessions |
| `rate_limiting` | `GeneralBound`, `TwiceBurstBound` | 1 address in the second of 2 shards, a rate of 0 or 1 for its limiter, 7 ticks, a sweep every 3 |
| `rate_limiting_burst` | violated: `BurstBound` | the same, with a rate of 1, so that a limiter in use does not count as unused |
| `revers_proxy` | `HeaderHonoured`, `NoGoingBack`, `RefinesCache`, `EveryRequestAnswered`, `ExpiredSwept` | 2 clients, 1 key, 2 versions, 3 headers, 2 ticks, integers up to 7 and a second of 2 |
| `file_proxy` | `NoGoingBackInFiles`, `SetsAreFirst`, `TwiceTheLimit` | 2 clients, 2 keys (both symmetric), 2 versions, 2 headers, records of length 2, a limit of 6, failing writes leave a byte or none in a file then no longer than 2, 1 tick, any number of new starts |
| `process` | `ReadyComplete`, `MetricsExact`, `ShutdownDrains`, `SignalEndsProcess` | a shard with 2 records and an empty one, 2 requests |

Why the bounds are enough. The keys of a shard meet only in the file's offsets and in the
copy loop, so two keys give every order of "copied before / written after"; records of two
lengths make a wrong offset point at something else; a limit of 2 admits a rewrite and its
tombstone, after which files grow beyond the limit (that is the finding). One tick with an
expiration of 0 makes a record expire at any moment. A session meets others only in the
manager's map, mutex and counter, for which two suffice. Seven ticks hold two sweeps and the
time between; one address is enough because buckets of different addresses share nothing but
the sweep's order, and it sits in the second shard so that the sweep has to get there. Three
headers are none, a list with two max-ages, and one with a no-store that a max-age
contradicts; of the max-ages one overflows. For `restart` three starts are a life that builds
files, one that meets what the first left and adds to it, and one that reads that; with two
keys and records of one length a displaced offset still meets another key's record. In
`file_proxy` a limit of three records is reached with two keys, when a key is stored again
after a sweep, and the tick that expires everything comes at any moment, as does a new start
(1.1 million states). In `process` a
shard of two records can be cut off between them by the failure of the empty one.

`CHECK_DEADLOCK FALSE` is said everywhere: clocks stop at their bound, a shut-down shard or
manager does nothing more, and so the models may really stop.

## 4. Fairness

* `FileShard!Fairness`: the goroutines are scheduled, and a disk that fails does not fail for
  ever. Strong fairness where the mutex may be taken over and over by others (Go's `RWMutex`
  starves nobody), where `select` has several ready cases and picks one at random, and
  where a tick may fall into a compaction. Nothing is assumed of callers or of the trigger.
* `Tunnels!Fairness`: a started goroutine runs, as long as the process lives. A copy is assumed
  to end only when one of its connections has been closed here; a peer may keep an open one
  for ever.
* `ReversProxy!FairSpec`: the sweep runs, and the clock moves up to its bound. The origin is
  assumed to answer or fail: the transport has no timeout, so an origin that stays silent
  blocks a flight and all who joined it.
* `Process!FairSpec`: goroutines run, files have an end, and the 30 seconds of the shutdown pass.
  Nothing is assumed of requests and their origin, nor of the server's start.

## 5. What is proved

The theorems hold for every value of the constants that satisfies the modules' named
assumptions: any sets of keys, clients, sessions and requests (finite where something counts
them), any lengths of records, limits, rates, periods and headers, any failing writes. The
assumptions say that lengths, rates and bounds are numbers (and positive where the code
divides by them or advances by them), and that the sentinels `None`, `Garbage` and `Failed`
are none of the values they stand beside.

| Module | Theorem | Says |
|---|---|---|
| `FileShardProofs` | `TypeCorrect` | `[]TypeOK` |
| | `SnapshotIsFrozen` | the index a compaction copies from does not change under it |
| | `CompactionIsOwned` | no compaction without a goroutine to finish it, no leftovers |
| | `IndexIsSound` | without torn bytes each index entry points at the live record of its key |
| | `NothingResurrected` | without torn bytes a restart would restore only what the index holds |
| | `NoLeakWithoutTornWrite` | only torn bytes can make the copy loop panic with the lock held |
| | `ShardRefinesCache` | while nothing is torn, a shard is a checkpointed cache, each step by its own party |
| | `CleanDiskNeverTorn`, `CleanDiskRefinesCache` | where failing writes leave no bytes, that is always so |
| `RestartProofs` | `RestartTypeCorrect` | `[]RestartTypeOK`, with that no two files share a name |
| | `LifetimesBounded` | no entry outlives both what callers ask for and what the latest start gave |
| | `RestartHeals` | what is written after a start is where the index says, whatever the file was like |
| | `FilesRestored` | a file of whole records gives back what it held when a process let go of it |
| | `TornTailsContained` | a write cut short at the end of a file costs at most one key its value |
| | `SoundAfterRestart` | `IndexSound` and `NoResurrection` in every life, on files others have written |
| | `NoLeakInAnyLife` | `NoLeakWithoutTornWrite` in every life |
| | `FailedWritesInvisible` | no failing write of any party changes what a reader sees, in torn files too |
| `ReversProxyProofs` | `TypeCorrect` | `[]TypeOK` |
| | `NobodyGoesBack` | over the memory store no request gets an older version than one answered before it was sent |
| | `HeaderIsHonoured` | what is stored was allowed to be, and for no longer than its header says |
| | `StoreRefinesCache` | the memory store is a checkpointed cache, each step by its own party |
| `FileProxyProofs` | `SetsComeFirst` | a flight never stores over an entry |
| | `FileStaysWithinTwiceTheLimit` | what the shard counts stays within twice its limit, failures or not, and so does the file itself while no failed write has left bytes |
| | `NobodyGoesBackInFiles` | as `NobodyGoesBack`, but for keys that could not be read and torn files |
| `TunnelsProofs` | `TypeCorrect` | `[]TypeOK` |
| | `AccountsAreExact` | WaitGroup and map count the live sessions, however many |
| | `NothingLeaks` | no way out of a handler or session leaves a connection open |
| | `ShutdownIsComplete` | a Shutdown without error has closed and awaited all it found |
| | `OnlyLateSessionsPanic` | the wait of Shutdown panics only after that, by a session registered since |
| `RateLimitingProofs` | `TypeCorrect` | buckets stay between nothing and their capacity |
| | `GeneralIsBounded` | the general limiter's grants are bounded by capacity and time |
| | `TwiceBurstIsBounded` | a client's grants around a sweep are bounded by two buckets and time |
| `ProcessProofs` | `TypeCorrect` | `[]TypeOK` |
| | `ReadyIsComplete` | a store served without error has its files indexed and its goroutines started, and none of them was told to stop unless the process was |
| | `MetricsAreExact` | gauge and counter, for any number of requests |
| | `ShutdownWaits` | the process drains its requests until the time is over |

None of these properties is inductive alone. Each module has an inductive invariant, made of
named parts, that TLC has checked as an invariant of the module's run before the proof, and
one theorem that is the induction over it, one step per action (`Invariance`, `ShapeAndContent`,
`ProxyInvariance`, and for `Restart` `RestartInvariance` with `FittingInvariance`).

**The shard.** `Shape` says what goes with each position of the two goroutines: a sweep and a
compaction exclude each other (`DeleteExp` looks at `isActiveComp`, and the compaction begins
under the same lock), the snapshot equals the index while a compaction is under way, what is
still to copy is in the snapshot, what is carried is an entry of it. `Content`, needed only
while no write has torn the file, says that counter and physical end agree, that no record
reaches beyond the end of the file and no two begin at one offset, that index and records
point at each other, and that the record carried by the copy loop is the one its entry
promises. `Content` needs the frozen snapshot of `Shape`: without it the copy could carry a
record that has been deleted.

**Failing writes.** What a failing write leaves lies behind all that entries point at.
`FailedWritesInvisible` needs that every entry begins before the end of its file (`Consistent`
in `RestartInv`, for files of any past), and then that bytes added at the end are read
by nobody (`FailActiveInvisible` for those of the write, `BuriedReads` for the tombstone that
was written whole before a Set failed on its record).

**The refinements.** The map takes an index and a file to items (`Store`, `Saved`, `Lost`,
`Phase`); it is sound by `Shape` and `Content`, and by `Sweeping`: what a sweep has still to
delete has expired, as nobody moves an expiration while the sweep holds the lock. Each action
is shown to map to an action of the cache or to a stutter, and to one its party may take. The
condition that nothing is torn cannot be dropped: with displaced offsets one key is served
another's response (section 6), which no map to a cache allows.

**The restart.** That a start gives back what a file held relates two moments with any number
of writes, compactions and crashes between them, and files that are torn as well as whole. The
invariant `RestartInv` therefore speaks of all files of the directory at once. In each, records
lie behind each other (`Disjoint`), which no torn bytes can change. `Accounted` says, of a file
that has no bytes but records and at most a tail too short to be one (`Tidy`), that its index
leads to all the live records a start would keep. For a file left behind, `Remembered` says the
same of what `was` holds, and `LoadSound` says of the index under construction that it agrees
with the records before `pos`; at the end of the loop the two meet. `LoadSound` has a second case, `ReadPast`,
for the round that takes the tail for a record of some key: it can only be the last round, as
the tail is shorter than every record, and this is why a tail costs one key at most. A Set that
failed after its tombstone needs an exception in `Accounted` (`HalfSet`), because the index still
leads to the buried record. `Lifetimes` bounds the entries of both indexes, and `Healing` says of
the records behind `born` what `Content` says of all. On top of this, `Fitting` says that each start
brings the shard into a state in which `Content` holds, so that the proofs of `FileShardProofs`
apply to every life and not only to the first: `Content(TRUE)` after a complete start,
`Content(FALSE)`, without what a restart would restore, after a cancelled one.

**The flights.** `FlightsProofs!Sound` says that those who wait for a key are the members of
the one flight there is for it, that the flight is the one for its leader's key, and that what
it returns or stores it has. It holds over any store, and so its lemmas are stated about
`Flights` and used twice. Over the memory store `Versions` and `StoreSound` say that no flight
and no item is newer than the origin or older than what was answered, and that a key being
fetched has no item that counts. Over a file shard the same is said by `Origins` and `Fresh`,
for keys that are not `behind` and files that are not torn; `First` says that what a flight
did not find, nobody stores before it. That `First` holds also in a torn file is what makes
`SetsComeFirst` unconditional. A new start (`RestartInv` of `FileProxyProofs`) finds for each key
the record its index pointed at, since without torn bytes index and file agree
(`ReloadedEntry`), and no flights, so that what it gives back was in the cache before.

**Twice the limit.** The size of a file is no function of its index, and the limit is compared
before a write only. The invariant `Room` is that the live records fit into the file, and that
the file together with one tombstone for each live record stays within twice the limit: a Set
by way of a flight finds no record to bury, so that it adds a record within the limit and its
tombstone to come; the sweep turns a live record into a tombstone; a start on an untorn file
counts what was counted before. Bytes of failed writes are in the file and not in the
counter, which is why the bound on the file has the condition. The sum of the lengths of
the live records is the cardinality of a set of their units, `Live`, as the provers know no
sums.

**Tunnels, process, limiters.** `Stages` ties each position of a handler and of its two copiers
to the state of the connections, `OnceOwned` says that the `Once` lets one of them close and
deregister, `SweepSound` what Shutdown has still to wait for. `StoreSound` says what a shard's
place in its start says of its records and goroutines, `DrainSound` what the deferred calls
have waited for. For the limiters a statement about all
windows becomes one about a limiter's life: `GeneralAccount` is the balance of the general
bucket; `MadeAt` says when a client's limiter was made, that what it has let pass since, in all
and since any time, is within a bucket and what the rate added, that the same holds of its
predecessor over a limiter's age, and that only a limiter of that age is marked for deletion.
`Counting` says that the counts in `grants`, kept per instant, never go down, so that a
window's sum is a difference of two of them.

What stays with TLC. Liveness under fairness is out of this prover's reach, and with it
`CompactionFinishes`, `CloseReturns`, `ExpiredDeleted`, `BothEnd`, `FoundEnds`,
`EveryRequestAnswered`, `ExpiredSwept` and `SignalEndsProcess`. Every other property of a passing
run is proved. The refinement of `CheckpointedCache` is proved for one life of a shard and not
stated over several: a start gives each record a new expiration, and may take another file than
the one last written, which no step of a cache does. Where a proof needs an induction over numbers (a set of indices has a
greatest, for the last max-age), it is had from the well-foundedness of `<`, as the library's
induction theorems cannot be instantiated. `MaxTime`, `MaxVersion` and the like bound the models
and not the theorems: they are constants like the others.

## 6. What the violated runs show

* **The size limit is not one** (`shard_size_limit`). `Set` compares `sizeFile + size` with
  `maxSize` (`file_shard.go:164`), then writes the old record's tombstone as well; `DeleteExp`
  writes tombstones with no check. The run has the shard as `main` wires it under the flights,
  where only `DeleteExp` breaks the limit: a flight never stores over an entry
  (`SetsAreFirst`). What does hold is `TwiceTheLimit`.
* **The file store serves expired responses** (`shard_expiry`, wired the same way).
  `FileShard.Get` never looks at the expiration; in the trace a response with a max-age of one
  second is served two seconds later, and so it would be until `StartDeleteExp`'s next tick.
* **Shutdown cuts transfers** (`tunnels_cut`). It closes the sessions it says it waits for.
* **A client can get two full buckets** (`rate_limiting_burst`). The sweep of unused limiters
  collects under one lock and deletes under another without looking again: in the trace its
  client sends in between. What does hold is `TwiceBurstBound`, which also allows for a rate
  of zero, with which a limiter in use counts as unused (`limiter.go:45`).

Met while modelling; facts the models have in them, and which their properties allow for:

* Bytes of failed writes that add up to a whole record displace the offsets of the index by
  just that, and since `Get` and the copy loop never compare the key of the record they read
  (`file_shard.go:105-144`, `395`), one key is then served another's response. `IndexSound`
  and its theorem have the condition that no write has left bytes, and `HealedByRestart` says
  that the next start puts the offsets right for what is written from then on.
* A `Set` that fails between the tombstone and the record is served until the process ends and
  is gone after the start (`HalfSet` in `Restart`).
* The file a start takes is the last by name: after a compaction whose old file could not be
  removed, or a crash in its middle, that may be the old, the unfinished or an empty one.
  `RestoresItsFile` promises the content of the file taken, not that it is the right one.
* Every start gives each record another 20 minutes (`file_shard.go:618`); `LifetimeBound`.
* After a failed initialisation `main` serves with a nil store: `/healthz` says ok, every GET is
  aborted (`Process!Panics`). A server that cannot listen is only logged.
* A goroutine of a shard that ends of itself, at a failing write of the sweep
  (`file_shard.go:272`) or by a panic, is not started again, and the store stays "ready".
* A session that registers after Shutdown's sweep can make the waiting goroutine panic, and with
  it the process (`connManager.go:61`); `PanicIsLate` says that those Shutdown found have ended.
* A request that panics is in the gauge and never in `httpReqTotal`.
* A flight whose cache read failed shows its members a response that the cache does not have,
  so that a later request may get an older one; `NoGoingBackInFiles` leaves these keys out.
* A max-age too large for `int64` ends a lifetime too soon, never too late (`HeaderHonoured`).
* With `TimeForDel` zero `time.NewTicker` panics (`file_shard.go:261`), `SafeGo` recovers, and
  nothing deletes expired records; the models have a positive period.

Read in the source and not shown by a run: `config/config.go:150` splits `host` and not
`hosts`, so a list in `LIST_HOSTS` is lost; no run covers it, as the configuration is not
modelled.

## 7. Not modelled, and why

* Record formatting and parsing, except that bytes that are not a whole record are garbage.
* Loss of power: what the operating system has accepted is taken to stay. A start that fails on
  one shard's file is, for the others' files, a crash while loading.
* `FileCacheStore.Close` over all shards, `Limiter.Wait`, `RamCacheStore.Del`: nothing calls them.
* The number of shards changing between two starts: keys then hash to shards whose files do
  not hold them. The models have one number.
* The flag `-g`, which writes a configuration and exits; the metrics' own server and histogram.
* Requests other than GET, which are passed on and keep no state.
* Buffer pool, loggers, certificates, configuration: no state the properties are about.
* Float rounding in the limiter; hash functions (a constant map from keys to shards).

## 8. Plan

Done in this order: file shard, its abstract specification, its proofs; tunnels; rate
limiting; memory store with the reverse proxy; restart; the proxy over the file store; the
process; then the proofs of section 5, those of the restart last. All properties of the passing
runs are proved but those on liveness. What could come next:

1. An abstract specification of the store over several lives, refined by `Restart`: a start may
   move expirations and fall back to what another file holds.
2. The number of shards as a variable of the start (section 7).
