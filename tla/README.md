# GBF Flash Cache: a verification project

GBF Flash Cache is a local proxy for one browser game. It keeps the game's static
resources on disk and in memory, shares concurrent downloads of one resource, and
downloads in the background what the responses it sees name. This directory holds
TLA+ modules that model the core of that program, configurations that check them
with TLC, and theorems about them that TLAPS proves for every value of the
constants. Every definition is translated from the source; `PROJECT.json` maps each
to its lines. Paths below are those of the repository, without the leading `src/`
of the map.

## 1. The system

| part | source | state it keeps | operations | correct when |
|---|---|---|---|---|
| memory cache | `core/src/memory.rs` | three queues of weighted entries, running totals, last use | get, put, restore, remove, expire, close | totals agree with the queues; limits hold; eviction goes by tier and age and takes no more than needed; a background put never evicts |
| store | `core/src/cache.rs`, `storage.rs` | entry files, memory cache behind one mutex, list of residents, trackers and the cancellation token | `stored`, `store`, `restore_memory`, `save_residents`, `close` | memory never disagrees with disk; what a store reports as saved is on disk and gives way only to another store of its key; nothing is written after `close()`; `close()` returns |
| coalescing | `core/src/cache.rs` | map of pending downloads, two semaphores, counters | `get`, `refresh`, `download`, `delivery`, streams | one download per request; promotions arrive; everybody is answered; permits follow streams; nobody gets another variant's body |
| scheduler | `core/src/scheduler.rs` | jobs, groups by source, battle windows, what is ready, running, failed or asked | `demand`, `response`, `discover`, `take`, `completion` | tables linked and bounded; what waits can be served; nothing twice; sources take turns; a battle's needs first |
| engine | `core/src/engine.rs` | bounded channel, thread, slots, requests of discovered targets | `request`, observe, the thread's loop, download tasks, `close`, drop | slots counted right and not idle beside work; what is queued is served; `close()` ends |
| codec, reference scanner | `storage.rs`, `refs.rs` | none | encode, decode, parse | pure functions over bytes |
| gateway | `core/src/gateway.rs` | listener, 256 slots, tasks, TLS acceptors | accept, SOCKS, CONNECT, forward, relay, `close` | slots are given back once; forwarded bodies are observed once; `close()` ends all tasks |
| network | `core/src/network.rs`, `tunnel.rs` | two HTTP clients | `forward`, `fetch`, body wrappers | a live transfer is not cut, a dead one is; a cut body does not look whole |
| UDP | `core/src/udp.rs` | endpoint, flows | `associate` | one client endpoint per association; at most 64 flows, each of which gives its place back |
| service, directories | `core/src/service.rs`, `directory.rs` | locks and identities of two directories, running gateway | start, stop, status, clear, change of directory | one owner per directory; a migration loses and overwrites nothing; a failed start leaves nothing running |
| trace, certificates | `core/src/trace.rs`, `certificates.rs` | log thread; CA file | event, close; open, regenerate | drops are counted; one CA wins |
| application, bridges | `app/native/src/application`, `bridge` | settings file | commands | settings and service agree |
| Android capture | `app/native/src/platform/android` | virtual DNS, flows, the one capture | start, stop, DNS, forward | a virtual address never changes its name |
| Android services | `app/android/.../*.java` | two services, worker queue | start, stop, destroy | serialised handle; replies answered once |
| core client | `app/lib/core_client.dart` | pending calls | connect, call, close | every call completes |
| user interface, runners, scripts | `app/lib`, `app/windows`, `scripts` | widgets | | out of scope |

How they interact: the gateway parses a browser's request and calls
`Engine::request`, which tells the scheduling thread through a bounded channel and
calls `Cache::get`. A miss starts or joins a download; the download reads and writes
the store in blocking closures and fetches through `Network`. The response goes back
to the browser and, by the same channel, to the thread, which parses it, feeds the
scheduler and starts background downloads, which are `Cache::get` with the
background flag. A request that is not for an asset goes past the engine's cache
(`Gateway::forward`, `Cache::forward`, `Network::forward`) under one of 32 API permits
that travels with its body. `Service` owns the directories, builds the lot and closes
it, in the order gateway, engine, cache; the application above it runs one command at
a time and keeps `settings.json`.

What is hard here: futures that browsers drop at any await; blocking closures that
outlive the task that spawned them; a promotion racing a queue for permits; bodies
too large to hold, whose permit travels with the stream; a full channel towards a
thread that must also be told to stop; the crash between a rename and its copy in
memory; an LRU with three tiers, weights and two kinds of admission; a scheduler
with a dozen tables that refer to each other; timers that must tell a silent peer
from a slow one; tasks that spawn tasks while everything is being closed; directories
that are renamed or replaced under a running process, and a migration between two of
them that may be cut off at any file. `PROJECT.json` lists each hazard at
its line with the properties that watch it.

## 2. The modules

Contract below, implementation above; a module on the right is used by INSTANCE.

| module | models | uses |
|---|---|---|
| `MemoryContract` | what any caller may rely on about the contents of the memory cache | |
| `MemoryPromise` | the memory cache as an abstract state machine | `MemoryContract` |
| `MemoryCache` | the three tiers, weights, ages; implements both above | `MemoryContract`, `MemoryPromise` |
| `Storage` | files, memory and closures of one cache directory | `MemoryContract` |
| `Cache` | `get` and downloads over the store; implements `Storage` | `Storage` |
| `SchedulerPromise` | which urls are queued, running and known | |
| `Scheduler` | all tables and the ranking; implements `SchedulerPromise` | `SchedulerPromise` |
| `Engine` | channel, thread and download tasks | `SchedulerPromise` |
| `Forward` | one exchange past the cache: permit, uploads, timers, bodies | |
| `Associate` | SOCKS5 UDP associations: endpoint, flow table, flows | |
| `Gateway` | accept loop, slots, tasks, `close()`; extends `Associate` | `Associate` |
| `Directory` | locks and identities of directories, and what happens to them from outside | |
| `Service` | commands, gateway session, settings, migration; extends `Directory` | `Directory` |
| `MemoryCacheProofs`, `StorageProofs`, `CacheProofs`, `SchedulerProofs`, `EngineProofs`, `ForwardProofs`, `GatewayProofs`, `ServiceProofs` | theorems | TLAPS |
| `MC*` | instances for TLC | |

The chain is: `MemoryCache` changes its contents only as `MemoryContract` allows, by
the steps of `MemoryPromise` (checked as `ContractKept`, and proved as `KeepsPromise`
and `KeepsContract`); `Storage` uses that contract as the behaviour of its memory;
`Cache` takes only steps of `Storage` (checked as `StoreKept`, and proved as
`StoreIsKept`), so what is proved of `Storage` holds of the whole cache
(`CacheProofs!Coherence`, `CacheProofs!CloseIsAFence`). Likewise `Scheduler`
implements `SchedulerPromise` (checked as `PromiseKept`, and proved as
`SchedulerKeepsPromise`) and `Engine` runs on that. `Gateway` and `Associate`, and
`Service` and `Directory`, are compositions: the upper module's actions call the
lower module's, on the lower module's variables.

### MemoryCache

`queues` maps a key to its copy (entry, age, tier) or to `NoEntry`, and so stands for
the three LRU queues at once; `bytes` is the counter the code keeps for each tier,
`restored` what the restore has put in. `Get`, `Put`, `Restore`, `ExpireIdle`,
`Remove`, `Close` are the public methods, each with the expiry and balancing it
performs. Last uses are ages in ticks, capped at the idle time; which of two equally
old copies goes first, where the code asks the LRU order, is an open choice. `Put`
with admission `Demand`, `Refresh` or `Preload` follows `put_at`: it takes the old
copy out, refuses what is void or too large, makes room by expiry, and then either
stays without (a background put) or demotes and evicts (a demand). The loops of
`balance()` and `put_at()` are given in closed form, as the shortest sequences of
victims in the order of the queues (`Victims`): among equally old copies any may be
the last one taken, and copies after it stay.

### Storage

`disk` is the set of entry files, `memory` the cache's contents, `residents` the
saved list, `lock` the owner of the mutex, `job[w]` the blocking closure of writer
`w` and its progress, `stage` the progress of `close()`, `restorer` the restore task.
A writer's closure takes the mutex, looks at the cancellation token, renames its
file, then updates memory: each is a step, so that close(), the restore task, a
look-up or a crash may fall between. A failed write leaves the old file. `Restart` is
a crash followed by a new process: memory, closures and tasks vanish, disk stays.
The listing and rename of the residents file happen in one step: nobody else writes
that file.

### Cache

A client is one call of `get()`, a flight one tracked download with its `Pending`
record. A flight queues for a permit (`queued`, `parked` under the background pool,
`urgent` under the demand pool), reads the stored entry, writes its stamp, fetches,
looks whether a browser waits (`Decide`), stores or removes, publishes, and leaves the
map. The two steps between publishing and leaving are separate because a late caller
can meet them. A stream's permit stays with the flight's reply until a client takes
it. `Disconnect` drops a client's future at any point; `Abort` is what the
cancellation does to the flight's task, while its closure runs on. Whether an entry is
older than the check interval is a choice at each place where the code compares the
clock. The origin (`Update`) is external.

Details a reader may look for: how a copy is admitted to memory is decided (`Decide`)
before the flight waits for a disk permit (`Submit`), so that a browser that joins
during the wait does not change it, but does keep the preload from being counted
(`Written`), as in `download()`; a body too large to hold becomes a stream whatever
its status, and only that of a 200 takes the store's copy away on its own account
(that of a 404 or 410 does as the missing resource it reports); a late caller of a
streamed reply fetches for itself under a permit of its own (`direct`, `fetching`);
flight slots are reused only when nobody refers to them.

### Scheduler

The tables are those of the struct: `known` jobs with their sources, `groups`,
`ready`, `running` (`demand_running`), `recent`, windows; the counter of failures is
part of a group. A group numbers its targets in the order in which they were found
(`order`), as its map in the code does. `Discover` includes the reachability through
other sources, the sort by type, the acceptance under the caps and the placement, each
an operator of its own (`Accepted`, `Targets`, `At`, `Inherited`, `Named`, `Numbered`);
`Take` ranks the eligible jobs as the code does (`Priority`), with its tie-breaking and
its turn between sources; `Complete` prunes. The clock is an external `Tick`, and
events carry the times at which they happened, in order.

### Engine

`channel` is the bounded `mpsc`. `Emit` is `try_send`: an event that does not fit is
dropped. `Send` of a download task waits for room or for the cancellation. The thread
alternates between `Receive`, which handles one event and goes back to waiting while
events are queued, and `Assign`, which starts downloads while slots are free and skips
a job whose request was not kept. `Ask`, `Answer` and `HangUp` are the browser's side
of `request()`. `close()` cancels the cache, waits for it, sends Stop, and waits for
the thread.

### Forward

An exchange is a record whose `stage` says what its task awaits: an API permit, the
response headers (`sending`), a frame of the body (`body`), the cache (`fetch`), or a
frame of an asset too large to hold (`overflow`). The browser (`Ask`, `Upload`,
`HangUp`), upstream (`Answer`, `Send`) and the task (`TakePermit`, `AwaitHeaders`,
`ReadBody`, `ReadOverflow`) move independently, and `Tick` lets some seconds pass
between any two steps, so a task may be woken long after its timer expired or its
answer came. `AwaitHeaders` is one poll of `Network::forward`: the response first,
then the progress of `UploadBody`, which moves the deadline, then the deadline.
`ReadBody` is a poll of `IdleBody` inside `ObservedBody`: what has arrived goes before
the timer, which is armed by a read that finds nothing. `ReadOverflow` is
`OverflowBody`, whose timer goes first, and whose deadline is that of the download it
continues, so that an unknown part of it is spent when the body begins (`Fetched`).
`silent` is a history variable that the code does not have: how long upstream really
said nothing, against which the timers are judged.

### Associate and Gateway

A task of the gateway is named by the connection it descends from and its role:
`conn` (the accepted connection, which holds the slot), `tunnel` (spawned for a
CONNECT), `driver` (of a relayed request) and `copy` (of an upgraded connection). Its
stage is what it awaits. `Move` covers the entry through SOCKS, TLS or HTTP and
`tunnel()`; `Connect`, `Relay` and `SwitchProtocols` spawn; `Upgraded` is the moment at
which the connection's task ends and the spawned one gets the stream, and the slot
goes back; `End` is any task's end, by itself or by a failure. `Close` cancels, `Stop`
is a cancelled task that is polled, `Waited` is the tracker's wait, `EngineClosed` the
engine's close after it. A task may still spawn another between the cancellation and
its own next poll.

`Associate` is the loop of `associate()` with the order of its `biased` select: a flow
that ended is reaped (`Reap`) before a datagram is received (`Take`); a datagram in the
hand is dispatched later, so that its flow may end in between (`Dispatch`). The
endpoint is latched by the first dispatched datagram unless the client announced it.
`EndFlow` is every way a flow may end; an association that ends aborts its flows, each
of which is dropped at its own next poll (`DropFlow`).

### Directory and Service

`Directory` has the file system as far as ownership sees it: `at` says which directory
(inode) is at a path, `lockFile` which lock file it contains, `dir` the `Directory`
values of all processes with the inode and lock file each holds. `Opened` needs both
locks, the one on the lock file and the one on the inode. `Check` is
`Identity::check`. `Ensure` never gives up a lock that is held, `Recover` does when
the directory was replaced. `Rename` and `ReplaceLock` are somebody outside.

`Service` is a set of processes that each run one command at a time. `cmd[i].stage` is
where the command stands; the stages are the places between which something else may
happen: opening each directory, `prepare_logs`, ensuring, creating the trace file,
starting the gateway, saving, halting, recovering each directory, copying a file under
its staging name, publishing it, committing, undoing a file, clearing a file. The link
to the final name and the removal of the staging name are one step whose removal may
fail, which nobody looks at in the code either; a crash after such a step is a crash
between the two. Each stage can fail where the code's call can, with what the code
then does: a failed start closes what was started, a failed migration removes what it
copied until it cannot. `Crash` ends a process at any stage: its locks are released,
its memory is gone, files and `settings.json` stay. `StoreEntry` is a file that a
running cache writes.

## 3. The runs

All runs but MCCacheCount and MCServiceStart (section 5) finish with no error.

| run | instance | shows |
|---|---|---|
| MCMemoryCache | 4 keys, weights 2, 3, 7, limit 6, idle time 2 | `WithinLimits`: accounts and limits. `BackgroundIsGentle`: preloads and restores evict and heat nothing. `DemandEvictsInOrder`: victims go by tier and age, no more than needed. `ContractKept`: contents follow contract and promise |
| MCStorage | 2 keys, 2 bodies, 2 writers, 2 disk permits | `Coherent`: memory agrees with disk. `AckedIsDurable`: what is reported as saved is on disk, and only another store of its key replaces it. `CloseFence`: nothing is written after `close()` |
| MCCache | 1 browser that hangs up at will, 2 flights, 2 header sets of one URL and variant, 1 permit per pool and for the disk, 2 bodies of the origin | `SingleFlight`. `OlderOnlyIfOvertaken`: a file goes back to an older body only where flights of two header sets raced |
| MCCacheAnswers | 1 client, 1 flight, 2 header sets of different variants, every kind of answer, restore task, `close()`, crashes | `VariantServed`: nobody gets another variant's body. `StoreKept`: every step is a step of `Storage` |
| MCCacheLive | 2 clients, 1 flight, 1 permit per pool, streams and failures | `PromotionNotLost`: a joiner is not left in the background queue. `Answered`: everybody is answered. `CloseTerminates`. `StreamKeepsPermit`: a permit goes where its stream goes |
| MCCacheCount | 1 client, 1 flight | `PreloadsAreSaved` is violated, see section 5 |
| MCScheduler | a battle and a script that share an image, a sound, times 0 to 2, tables of 2, 1 slot, 1 failure blocks | `Linked`, `Servable`: tables refer to each other as they must, and what waits can be served. `WindowsEnd`, `BattleFirst`: battles. `PromiseKept`: refinement |
| MCEngine | a page that names X and Y, X names Z, 1 browser, a channel of 2, 1 slot, room for 2 requests | `ActiveCounts`: slot accounting. `StartsOnce`: no double download. `Served`: what is queued is served. `Ends`: `close()` ends |
| MCForward | 2 exchanges, 1 permit, idle time 2, total 3, limit of 1 frame, 3 frames | `PermitsReturned`, `ObservedOnce`, `NoSilentTruncation`, `NoFalseTimeout`, `WaitsEnd` |
| MCGateway | 2 connections, 1 slot, 2 targets, 2 client endpoints, a table of 1 flow, room for 1 datagram | `SlotsBalanced`, `CloseIsQuiet`, `CloseTerminates`; `AnswersOwner`, `EndedFlowGoes` of the associations |
| MCService | 2 processes, 3 paths, 4 inodes, 2 cache files, 1 interference from outside | `OneOwner`, `RunningOwns`, `SettingsAgree`; `MigrationAccounted`, `CommitIsComplete`, `StagingIsMarked` of a migration |
| MCServiceStart | the same, where one process changes directories and the other starts | `MigrationIsAlone` is violated, see section 5 |

Bounds, and why they are enough:

- Two writers, flights, clients, exchanges, connections or processes are the least at
  which the interleavings exist that the code guards against (two misses of one
  request, a joiner and a task that leaves the map, two closures at the mutex, two
  that want one permit, slot or directory). The safety properties are proved for any
  number where section 4 says so.
- One permit per pool, and one slot, makes every wait for one happen; more only make
  it rarer.
- One flight is enough for the variants in MCCacheAnswers, because a flight is used
  again, for the other header set, once nobody refers to it; `VariantsServed` proves
  the property for any number of flights. MCCache has two flights and two header sets
  of one variant, whose flights race for the file. One caller is enough for that,
  because a caller that hangs up leaves its flight behind and asks again: every state
  of a flight meets a second miss. It has the answers that write the file, and
  MCCacheLive those that are streamed. Two bodies of the origin tell an older from a
  newer one. `CONSTRAINT Browsing` leaves out bypasses and background callers, which
  MCCacheAnswers and MCCacheLive have, and `ACTION_CONSTRAINT AtOnce` lets a reply be
  read, a closure's result be collected and an ended task be dropped before anything
  else happens: none of the three steps touches the file or what may still be written
  to it. The run has the history in which an older body really replaces a newer one.
- In MCEngine one slot makes the second of the page's resources wait for the first, so
  that a slot that is not given back is noticed by `Served`; room for two requests of
  three resources leaves a queued job without one, which the thread skips. That a second
  slot is counted as well is what `SlotsAreCounted` proves for any number.
- In MCScheduler a battle and its script name three assets, one more than the tables
  have room for, so that the acceptance of references meets its limit with either of
  the two first. `Roles` keeps urls in the part they play (pages are not preloaded, no
  browser is ahead of the preload of an image); it restricts safety properties only,
  and those are proved without it.
- `Limit = 6` in MCMemoryCache makes the hot share 5 and the restore share 3, so that
  each refusal, demotion and eviction of `put_at` and the refusal of `restore` occur.
- `MaxPreloaded`, `MaxAsks`, `MaxTime`, `MaxFrames`, `MaxLock` and `MaxOutside` stop
  counters of the model. `MaxAsks` also makes `Served` the statement it should be:
  when browsing pauses, what is queued is served. A browser that never pauses may keep
  the channel full.
- The runs about coalescing (`CONSTRAINT StaysOpen`) leave `close()` and the restore
  task to MCCacheAnswers, which has both, with every kind of answer, though not in one
  history (`CONSTRAINT RestoreOrClose`): the restore task that outlives the start of
  `close()` is in MCStorage, and `StoreIsKept` carries what holds there over to the
  whole cache without that bound.
- MCCacheLive uses `CONSTRAINT NoRestore`. A constraint may hide behaviours from a
  liveness check; here it removes exactly those in which the restore task was
  started, and starting it is an optional action without fairness, so no remaining
  behaviour is obliged to leave the constraint. That `close()` also outwaits a restore
  task is therefore not part of that result.
- MCForward: a limit of one frame separates a body the engine may learn from one it
  may not, and three frames leave one after the limit; `Total` is larger than `Idle`,
  so that an overflow body can be cut by either of its two timers.
- MCGateway: two endpoints are what it takes to answer the wrong one, and two targets
  for a table of one flow let one wait for the other's entry.
- MCService: process `a` runs, stops, migrates and changes settings; `b` owns the
  directory that `a` may move to, until it is killed, and clears it. Two cache files
  make a migration that is half done; that they are alike is the only symmetry. One
  interference, at the target (`Shaken`), can fall between any two steps. `b` does not
  start its service: with interference at the directory it starts on, its cache may
  work where it owns nothing (section 5), and what `MigrationAccounted` and
  `CommitIsComplete` say of a migration need not hold then. `MaxLock` 2 lets a lock
  file be replaced once. The fourth inode is the directory that is made where
  something was moved away. Process `a` is not asked to `stop`, because `close` and a
  start whose settings cannot be saved take the same steps. `a` cleans its logs and `b`
  keeps them (`keepLogs`); `Keeps` has one value, so saving the settings repeats a save
  here, while `SettingsAgreeAlways` proves the property for both values.
- CHECK_DEADLOCK is FALSE in the runs of the scheduler (time and urls run out), of the
  engine (a closed or dropped engine stops) and of the gateway (a closed one stops).

Fairness, and what justifies it:

- `Cache!FairSpec`: strong fairness of clients, flights and their closures, the restore
  task and `close()`. tokio's semaphores and its mutex are first in, first out, so a
  task that waits is served; a closure that was spawned runs (tokio's blocking pool);
  `fetch()` is bounded by 40 s, so a download's answer is a fair step too. A browser
  that was handed a stream reads to the end or goes away. Nothing is assumed about
  clients asking, connections breaking, or anybody closing.
- `Engine!FairSpec`: weak fairness of the thread and of `close()`, strong fairness of
  the senders that wait for room, because tokio's channel hands room to its waiters in
  order.
- `Forward!FairSpec`: time passes, and the task that waits for headers or for a body
  is polled when there is something for it, which may be the expiry of its timer.
  Nothing is assumed about the browser or upstream: `WaitsEnd` is about their absence.
- `Gateway!FairSpec`: a cancelled task is polled and ends, the accept loop too, and
  `close()` goes on; the loop of an association is polled when something is ready. No
  peer is assumed to do anything.

## 4. The proofs

All of them hold for any sets and any positive numbers of permits and slots, under the
named ASSUMEs of the modules: constants have their types, the markers (`NoEntry`,
`NoJob`, ...) are none of the values they stand beside, and three sets that are counted
(`Exchanges`, `Conns`, `Urls`) are finite. TLC evaluates each of them in a run.
The bodies of a resource are numbered in the order the origin had them
(`VersionsAssumption`). The theorems about migrations have a further hypothesis, which
their statements and the paragraphs below name.

- `MemoryCacheProofs`. The invariant is that `queues` is well typed. `Take`, `Insert`,
  `Balance` and `Evict` each get a lemma that says what they do to the contents; `Put`
  is assembled from them. Then every step is a step of `MemoryPromise`
  (`KeepsPromise`), and each `Put` a put of `MemoryPromise` (`KeepsContract`).

  The second half is about bytes. The load of a tier is a `MapThenSumSet`, whose value
  on a finite set is proved from its recursive function by induction on subsets
  (`FiniteSetsByInduction` states that induction for a family of subsets, so no
  operator is passed to a theorem): it is zero on no key, splits at any key
  (`LoadSplits`), and adds up over disjoint sets (`LoadOfUnion`). With these equations
  every sub-step of an operation keeps the books (`Accounted`: finitely many copies
  are held, and each counter is the load of its tier), `balance()` and `evict()`
  restore the two limits, and `LimitsInv` is inductive; `WithinLimits` follows.
  `restored <= Limit \div 2` is part of it because what `restore()` may still put in
  is computed from it. The order of eviction is that of the victims the code's loop
  takes: a finite set has a last element in the order of (tier, age)
  (`LastOfPreorder`), the loop stops as soon as it has enough (`LastVictim`), so
  without the last victim there is too much (`EvictNeeds`) and what stays is at least
  as warm as what goes (`EvictOrder`). Balancing demotes hot copies only when the copy
  put in overfills the hot tier (`OverfillsHot`), and what it demotes is evicted as
  the candidate it became: that is the one exception `ColdestEvicted` makes.
  `BackgroundIsGentle` and `DemandEvictsInOrder` are read off from that.
- `StorageProofs`. `Coherent` alone is not inductive: between the rename and the copy
  the two may disagree. `IInv` adds that the mutex's owner is the one closure inside
  (`MutexOwner`, `OwnerHasJob`), what a closure has done so far (`PersistedOnDisk`,
  `ForgottenFirst`), that copies disagree only on the key in flux (`CopiesAgree`), and
  what `close()` has established (`Fenced`). Each action has its lemma. The action
  properties follow from `IInv` before and after; `Durability` has two parts. That
  what is reported is on disk needs in addition that only a finished closure reports
  success (`OkWhenDone`). That it stays is a fact about every step: a file changes
  only by the rename or the removal of the closure that has the mutex, to the value
  that closure was given.
- `CacheProofs`. `CInv` joins what flights, clients and the world keep. `SingleFlight`
  needs `PendingRuns` (the map only knows running flights filed under their request);
  `WaiterHasFlight` needs that a slot is blanked only when nobody refers to it;
  `VariantServed` needs `FlightVariant`. `StoreIsKept` shows that each step is a step
  of `Storage` or leaves the store alone, and with it the theorems of `StorageProofs`
  carry over. `StreamKeepsPermit` needs `PermitInv`: no reply before one was fetched,
  and no permit in a browser's hands but while it fetches or reads.
  `OlderOnlyIfOvertaken` needs `VInv`: bodies at rest, in flight or in a closure are
  of the origin's past (`BodiesArePast`), and until the cache is cancelled a closure
  belongs to the flight that waits for it (`ClosuresOwned`). Only a closure writes a
  file, and it is behind that file if the body is older (`OlderComesLate`). A flight
  gets behind only by a step that changes its file or its hand (`SameHand`,
  `NothingNewInHand`): what it takes in hand is at that moment no older than the file,
  and the file changes under it only by the closure of another running flight, which
  by `SingleFlight` has another identity (`ClosureOvertakes`, `StepOvertakes`).
  Nothing is assumed about the headers that requests of one URL carry. After the
  cancellation a detached closure may write late too; then the first half of the
  property still holds.
- `SchedulerProofs`. `SInv` joins the types, `Links`, `Servable`, that a job is known,
  and what holds of times. `Links` is `Linked` with what an induction needs besides: a
  target's number in a group is never above the group's count of those it named, so
  that a new number is new. The lemmas about `Numbering` show that a reference list
  sorted by type is numbered without gaps or repetitions, which is what makes the
  records that `Discover` builds well typed. With `SInv`, each operation is a step of
  `SchedulerPromise` or leaves its view alone (`SchedulerKeepsPromise`), and `Take`
  chooses a required resource of an open battle whenever one waits (`BattleComesFirst`).
- `EngineProofs`. `EInv` adds to the types what `close()` has established
  (`Stopping`), that what runs or is reported in the channel is a job of the
  scheduler's and in one of the two places only, once (`JobsFollow`), and that the
  count is their number (`Counted`). `StartsOnce` follows because the promise only
  hands out what is not running.
- `ForwardProofs`. `FInv` says of every exchange that its record is well typed and
  that its fields agree (`Agrees`: what was read is at most what was sent, what a
  stage has observed, what the timers have seen), and that permits balance. Each
  action moves one exchange from one such record to another (`Moves`), so that the
  balance is proved once for all of them. The action property `NoFalseTimeout` follows
  from the agreement of the timers with `silent` and `age`.
- `GatewayProofs`. `GInv` is the types, `SlotsBalanced` and `CloseIsQuiet`; `UInv` says
  of associations that the datagram in hand is the latched client's, or that there is
  none yet (`LoopInv`), and that flows answer the latched client, in a table within its
  limit (`FlowInv`). The proof that closing is quiet rests on the guards of `Accept`
  and of the spawning actions: after the wait nobody is left who could spawn.
- `ServiceProofs`. `IInv` joins the types, `OneOwner`, that settings in memory and on
  disk are equal, `StagingIsMarked` and `PInv`: the paths of the directories follow the
  settings at every stage (`PathsFollow`), the target of a change is owned
  (`TargetOwned`), and from the stage at which the trace is made a start owns
  both directories (`StartOwns`). `RunningOwns` and `SettingsAgree` follow.

  `MigrationAccounted` and `CommitIsComplete` are not a consequence of the locks alone,
  because a running cache writes by path: if it worked in the directory that another
  process moves its cache to, a name could appear there that nobody copied. So they are
  proved in two parts. First `AInv` (the target holds `before` and `copied`, disjoint;
  until the commit every file of the source is in `todo` or `copied`) is inductive as
  long as `SessionsApart`: no running cache works in a directory that another process
  holds. Then `SessionsApart` itself, as long as `StartsUndisturbed`: somebody outside
  may move any directory and replace any lock file at any time, except that the cache
  directory of a process is not moved between the check and the opening of its own
  start. The invariant is `Undisputed`: while a process starts, its cache's path names
  what it holds, and afterwards its session is in the directory of its own service,
  whatever is moved then. With it `MigrationIsAlone` is a theorem too
  (`MigrationAloneUndisturbed`). The window cannot be left out: the run MCServiceStart
  (section 5) shows `MigrationIsAlone` violated after one move inside it, so the
  hypothesis says exactly what the code leaves to luck.

Only model-checked: all liveness (`Answered`, both `CloseTerminates`, `Served`, `Ends`,
`WaitsEnd`, `EndedFlowGoes`; fairness and ENABLED are out of the prover's reach), and
`MigrationAccounted` and `CommitIsComplete` in the case that a directory is moved under
a start. There the code does not promise them: MCService finds them kept only because
none of its two processes starts while the other migrates. Every other property of a
passing run is stated by a theorem.

## 5. Where code and documentation differ

Two runs check what the repository says of the program and find it violated.

MCCacheCount is the first. README.md:143 says the preload counter counts what
was downloaded in advance and saved. `download()` (`core/src/cache.rs:492`) counts when
`persist()` succeeded and the reply was storable; but when the reply's headers are not
text, `entry()` yields none, `persist()` succeeds by deleting the file, and the counter
grows although nothing was saved.

MCServiceStart is the other. `service.rs:21` says that migration needs exclusive
ownership, and `directory.rs:95` that it is serialised while the directory is
exclusively owned. `start` first ensures that it owns its directories
(`service.rs:325`) and opens the cache by path later (`service.rs:350`,
`cache.rs:169`). If in between the directory is moved away and another process takes
what is then at the path, the cache records the other's directory and lock file as its
own, and its checks pass from then on. The trace TLC prints has the other process
migrate into that directory meanwhile. It takes somebody who moves the directory at
that moment; `RunningOwns`, which is about the locks, holds throughout.
docs/architecture.md:27 says that the locks serve instances that keep the protocol and
do not isolate from modification by others, and that a check is not atomic with the
operation after it; in the trace both processes keep the protocol, and the outsider
moves a directory but takes no lock.

## 6. Not modelled

- Bytes: HTTP framing, header cleaning, the entry codec, the parser of references,
  X.509, DNS wire format.
- In `Engine`: a download that is not started because the engine was dropped while the
  thread was assigning (`weak_sender.upgrade`), after which no slot is needed again.
- Time as a quantity in the cache: freshness is a choice. A property that compares
  check stamps needs a clock (see the hazard at `core/src/cache.rs:427`).
- In `Gateway`: the driver of an upstream proxy's own CONNECT (`tunnel.rs`), which is
  spawned outside the tracker and ends with its connection; a connection relays with
  one driver at a time, where the code may spawn the next while the last still ends.
  Flows of an association are aborted but not awaited by `close()`; the model has them
  outlive it too.
- In `Forward`: the cancellation branches of `Cache::forward` are a `HangUp`.
- In `Directory` and `Service`: `Directory::open` is one step, as is each check with
  the file operation it guards; what a running cache removes or evicts on disk; the
  lists of residents that `clear` removes; Windows' way to identify a directory.
  `configure()` is called only by tests. The commands for probes, certificates,
  passwords and auto-start change no state that the module has.
- The trace's bounded queue to its writer thread: a full queue only counts what it
  drops, and nothing reads it back.
- Android capture and services, the Dart core client, Windows, the user interface, the
  build: the components with status `not_modelled` in `PROJECT.json`, each with its
  reason. The order of the Android life cycle is not in the repository, and what the
  client and the user interface ask of the core are the commands of `Service`.

## 7. Plan

What is left, in order of what it adds:

1. Composition: that what `Gateway` and `Forward` ask of the engine are steps of
   `Engine`, so that its theorems carry over as those of `Storage` do to `Cache`.
2. A clock in `Cache`, for the hazard of a check stamp that is written before a
   validation that fails.
3. `VirtualDns` of the Android capture: that an address never changes its name while a
   flow uses it, with the capacity of its table.
4. `CoreClient`: pending calls against the isolate's exit and its timeouts.
