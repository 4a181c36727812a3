# Verification of the concurrency cores of AnnotatedCode

The repository collects annotated copies of open-source libraries. They are
independent programs; what they have in common, and what most annotations are
about, is a small core of concurrent or stateful code in each. This project
models those cores in TLA+, checks the models with TLC on small instances, and
proves the safety properties of seven of them with TLAPS for every value of the
constants.

## Inventory

| Part of the repository | What it is | Modules |
|---|---|---|
| `go/x/sync/semaphore` | weighted semaphore with contexts | `Semaphore`, `SemaphoreProofs` |
| `go/x/sync/singleflight` | duplicate suppression | `Singleflight`, `SingleflightProofs` |
| `go/x/time/rate` | token bucket | `RateLimiter`, `MCRateLimiter` |
| `boost-lockfree/spsc_queue.hpp` | wait-free ring buffer | `SpscQueue`, `Fifo`, `SpscQueueProofs` |
| `coroutine` | coroutines on a shared stack | `Coroutine`, `CoroutineProofs` |
| `groupcache`: `groupcache.go`, `lru`, `singleflight` | a caching group: two LRU caches, peers, duplicate suppression | `GroupCache` (composes `Lru`), `MCGroupCache`, `GroupCacheProofs` |
| `muduo/net`: `EventLoop`, `TimerQueue`, `Timer` | event loop with timers and work from other threads | `EventLoop` (composes `TimerQueue`), `MCEventLoop`, `EventLoopProofs` |
| `leveldb-1.20/db`: write path, compaction, recovery | a log-structured store and its crashes | `LevelDb` (composes `LevelDbFiles`) |
| `redis-5.0/src/cluster.c`: failover | election of a replica, agreement on slot owners | `ClusterElection`, `MCClusterElection`, `ClusterElectionProofs`, `ClusterConfig` |
| sums over finite sets | used by two proofs | `FiniteSums` |

`PROJECT.json` lists every part of the repository with its status and reason, the
source lines of every definition, and the hazards (what can go wrong that a test
would hardly reach) with the properties that cover them. What is left out is under
*Not modelled* below.

## How the models are built

* One step is what a thread does between two accesses to shared state: a critical
  section without a loop is one step; where another thread can run on inside it
  (the loop of `notifyWaiters`), it is one step per iteration. A call on a file or
  on another process is a step of its own.
* A *session* is one call of the library with what follows it. Sessions, keys,
  values and threads are model values; a payload is what the properties can
  distinguish (a size, a sequence number, the way a function ended).
* Deadlock is checked where a system never stops (`SpscQueue`, `Coroutine`,
  `ClusterElection`, `ClusterConfig`). In the other runs the system may stop: each
  session makes one call, callers of the semaphore panic, or a bound ends the
  behaviour; liveness properties say who must not be left waiting.
* Bounds on counters are constants named `Max...`, and appear in guards.
* Definitions introduced by a comment `Mutant:` are plausible bugs. They are not
  part of any specification; substituting one for the definition it mutates makes
  the property it belongs to fail.

## Semaphore

`cur`, `waiters` and `mu` are the fields of `Weighted`; `pc`, `req`, `ready`,
`done`, `held` belong to the sessions. `AcquireNow`, `AcquireDoomed` and
`AcquireEnqueue` are the three ways out of the first critical section of
`Acquire`; `SelectReady`, `SelectDone`, `CancelTooLate`, `CancelRemove` the two
select statements; `Release`, `ReleasePanic`, `NotifyGrant`, `NotifyBreak` the
release and the loop of `notifyWaiters`. Contexts end at any time
(`CtxDone`), also before the call. `Forget` drops the locals of a call that
returns.

Run `semaphore`: 3 sessions, 3 tokens, weights 1 to 4 (one too large), callers
that release too much. Never more tokens out than there are (`Capacity`), no lost
wake-up (`FrontBlocked`), tokens conserved through races of grant and cancelation
(`Conservation`), first come first served (`NoOvertaking`), and `AcquireReturns`.
Fairness: runnable goroutines run; `sync.Mutex` hands the lock to a starving
goroutine, hence strong fairness of the steps that lock; holders release.
Contexts need not end. Three sessions are enough for a holder, a blocked front
waiter and one behind it.

Observation: with weight 0 the wake-up can be lost. A canceled front waiter of a
full semaphore notifies nobody (`semaphore.go:73`), although a waiter of weight 0
behind it would fit. The theorem about `FrontBlocked` assumes nonzero weights, and
the run uses none.

## SpscQueue

`ringbuffer_base`. A push or pop loads the other side's index, copies element by
element, then stores its own index. A load may return an old value, but never one
older than the thread saw before (`Loads`): this is acquire/release order for one
writer per location. `write_available` keeps the wrap-around of `size_t`
(`SizeMod`). `trivial` is `has_trivial_destructor<T>`, chosen in `Init`. `reset`
runs while no operation is in progress, as its documentation demands; since
nothing runs beside it, the pops of objects with a destructor are one step.

Run `spsc_queue`: 4 slots, ranges of 0 to 4 elements (longer than the capacity
of 3), two values. `SlotsDisjoint` is race freedom, `LiveExactly` no leak or double
destruction, `ImplementsFifo` refinement of `Fifo`, in which a batch is appended
or taken in one step (the mapping is `Contents`). `Drains` assumes that both
threads run, that a store becomes visible in finite time, and that the consumer
keeps calling.

## Coroutine

The fields of `struct schedule` and `struct coroutine`; a stack cell is a frame,
and the bottom frame of a coroutine is that of `mainfunc`, with its local `id`.
`frames` is a ghost: what each coroutine should find. Run `coroutine`: capacity
2 growing to 4, 3 frames, two frame contents, so that ids are reused, the table
grows, and coroutines overwrite each other's cells. `StackIntact` says that
sharing is transparent, `NoAssert` that no assert fails in a legal call, and
`OnlyRunnerDies` that `mainfunc`, which reads its `id` from the shared stack, frees
the coroutine that ran.

## Singleflight

`m` and `mu` are `Group`; a call is named by the session that allocated it. `fn`
returns, panics or calls `runtime.Goexit`; the deferred function of `doCall` is
`WgDone` and `FinishOk`/`FinishGoexit`/`FinishPanic`. A panic with channels
waiting parks with the mutex held until the program crashes (`Crash`).

Run `singleflight`: 3 sessions, 2 keys. `OneInFlight`, `SameResult`, `SharedExact`
(the `shared` flag is true to fact although the leader reads `dups` without the
mutex) and `CallsEnd`, under weak fairness of each goroutine and a `fn` that ends.

Observation: when `fn` calls `Goexit`, `doCall` sends nothing to the channels of
`DoChan` (`singleflight.go:171`), and `CallsEnd` exempts them, while line 116
says that the channel "will receive the results when they are ready".

## Lru, GroupCache

`Lru` has the operations of `lru.go` as operators on a list and a set of map
keys. `GroupCache` composes two such caches with `loadGroup` and the peers. Each
lookup, critical section and call that leaves the process is a step of a `Get`:
`Lookup`, `Load`, `Relookup`, `PickPeer`, `PeerFails`/`PeerAnswers`/..., `CacheAdd`,
`ReadMainBytes`, `ReadHotBytes`, `RemoveOldest`, `Delete`. `Set` installs another
ring at any time. A value is the number of bytes it takes. A peer is external: it
answers or fails.

Run `groupcache`: 3 sessions, 2 keys, sizes 1 and 9 with room for 9, so that one
large value evicts all others and both caches become victims; getters may panic,
and callers may pass a nil sink. `BytesExact` (the counter that drives eviction is
the size of what is stored), `StoredOnce`, `WithinLimit`, `OneLoad` and `SameValue`
(duplicate suppression), `StatsBalance`, and `GetEnds`: every `Get` returns unless a
getter of its key panicked. In particular the eviction loop, which has no bound of
its own, ends. Fairness: weak fairness of each session, and peers and getters
answer.

Observations: `wg.Done()` and the delete after `fn` are not deferred
(`groupcache/singleflight/singleflight.go:56`), so that a getter that panics under a
caller that recovers, as a `net/http` server does, leaves its key registered: its
duplicates and every later `Get` of the key wait forever, while line 39 says that a
duplicate "waits for the original to complete and receives the same results". This
is what `GetEnds` exempts. The statistic `Loads` also counts loads that the second lookup
answers (`groupcache.go:190`, `:262`); and a key of another peer whose peer fails
is stored in `mainCache` (`:287`), which the comment at `:149` describes as the
cache of keys for which this process is authoritative.

## RateLimiter

The fields of `Limiter`; token amounts are integers in units, so the arithmetic is
exact and only the truncation of durations to ticks remains. A call reads the
clock before it locks, so that the time it passes may be `Lag` ticks old.
`WaitN` is two critical sections (`WaitN`, `WaitReserve`) with a context that may
end between or after them. The holder of a reservation may cancel it more than
once, as nothing in `CancelAt` prevents it.

`RateAssumption` excludes a limit of 0, of which `rate.go:18` says that it "allows no
events". `durationFromTokens` (`rate.go:432`) then converts +Inf to a `Duration`, and
Go leaves the result to the processor: on amd64 it is the least integer, the wait is
negative, and `reserveN` grants the request; on arm64 it is the greatest one, and
the request is refused unless the caller waits without a deadline.

Run `rate`: 3 calls, 0.5 or 1.5 tokens per tick or `Inf`, bursts 1 and 2, four
ticks, cancelations, one change of limit or burst, times in order. `RateBound` (no
interval gets more than burst and rate allow, plus the truncation of one tick) is
stated while nothing was canceled or changed. `Conserved` covers changes: what was
granted and what is in the bucket never exceed `earned`, one full bucket and every
tick at the limit that was in force during it, so a change neither counts the past
at the new limit nor counts it twice. `CancelUndoes` covers cancelations. `WaitN`
tests `n` against a burst that may have changed when it reserves (`rate.go:242`);
`reserveN` tests it again under the lock, so only the error message can be stale.
Times out of order are the subject of run `rate_lag`: see *Findings*.

Observation: `CancelAt` computes what to give back from `lastEvent`
(`rate.go:174`). After a cancelation has moved `lastEvent` back, or when a
reservation made under `Inf` is canceled under a finite limit, it can restore more
than was taken. This is why `RateBound` and `Conserved` exclude cancelations.

## TimerQueue, EventLoop

`TimerQueue` has the operations of the class as operators on its state: the two
sets, the timers canceled while callbacks run, the time `timerfd_` is set to, and
the `Timer` object at each address. Objects are deleted and addresses reused. A
tick is 100 microseconds, the least delay `howMuchTimeFromNow` sets.

`EventLoop` adds the loop and the threads. The loop thread goes through `Start`,
`While`, `Poll`, `HandleIO`/`HandleWakeup`/`HandleTimer` in any order, `RunTimer`
for each callback, `Reset`, `Swap`, `RunFunctor`, `EndFunctors`. Other threads add
and cancel timers, queue functors and quit: `QueueInLoop` is the critical
section, `Wakeup` the write that follows, `ReturnId` the end of `addTimer`. A callback,
and the owner of the loop before `loop()`, may make the same calls in the loop
thread (`Callback`). `wakeupFd` is a flag, since only zero and nonzero differ.

Run `event_loop`: 2 threads, 2 addresses, up to 3 timers and 3 calls, 3 ticks: one
timer can expire, its address be reused and its old id be canceled.
`NoLostWakeup`: a loop that sleeps with nothing ready has nothing to do, or a
thread is about to write. `SameTimers`: the two sets agree and point to no deleted
timer, so that the class's asserts hold. `Armed`: `timerfd_` is not set later than
the first timer. `CancelSticks` and `NoLeak` are about canceled timers and the
deletion of objects. No fairness is used. Both threads and the symmetry of their
names are enough for one to queue between another's critical section and its
write.

Observations: a `quit()` before `loop()` is lost (the FIXME of `EventLoop.cc:109`);
a functor queued in the loop thread before `loop()` waits for the first poll to
return, which `NoLostWakeup` exempts with the history variable `early`; a cancel in
the loop thread can overtake the `addTimerInLoop` that another thread has queued,
and is then lost, so `CancelSticks` is about timers that have reached the queue;
and `addTimer` reads `timer->sequence()` after it has handed the timer to the loop
thread, which may have run and deleted it by then (`TimerQueue.cc:126`, `:239`;
`TimerQueue.h:47` says "Must be thread safe"). Not in the model: channels other
than the loop's own are one channel `"io"`, the loop is not destroyed, `loop()` is
entered once (the code lets the owner enter it again after it has returned, and
asserts with `looping_` that it is not entered twice at a time), and a callback makes at most one call of the library. Between two
calls of one callback the loop thread runs nothing else, so what a second call would
add is another thread's step between them.

## LevelDbFiles, LevelDb

`LevelDbFiles` has what is on the disk as operators: what the log reader returns of
a file with a torn record, how version edits of the MANIFEST add up, and which
tables recovery makes of the logs: several of one log when its records exceed
`write_buffer_size` (`MemTables`). `LevelDb` has three parts around it:

* the threads that write: `Write`, `Awake` and `Wait` (the queue `writers_` and its
  groups), `Delay`, `Room`, `RoomWait` and `SwitchMemTable` (`MakeRoomForWrite`),
  `AddRecord`, `Sync`, `Insert`; `CompactMemTableNow` is a write without a batch;
* the background thread: `BackgroundCall`, `BuildTable`, the steps of a compaction
  with memtables written in between (`CompactionMemTable`, `CompactionOutput`,
  `InstallCompactionResults`), `LogAndApply`, and the deletion of obsolete files;
* what interrupts them: `...Fails` of each call on a file, with what it leaves
  behind; `ProcessCrash`, `MachineCrash`, `Close`/`Closed`; and `DB::Open`
  (`Recover`, `OpenInstalls`, `OpenFails`).

A machine crash keeps of each file a prefix that is no shorter than what was
synced, and syncing a new file makes its directory entry durable. A write is a
number; sizes are counted in writes.

Run `leveldb`: 2 threads, 3 calls, a memtable of one write, triggers 1/1/2, and 2
troubles (crashes, closes, failing calls), so that a crash can follow a failure.
`OwedVisible`: an acknowledged write survives process crashes, and also a crash of
the machine once its record was synced or its memtable written to a table.
`StatusTrue`: as long as the process runs, a write whose caller was told OK is in
the database and one whose caller was told of an error is not. The history sets
`acked` and `failed` are filled where `Write` returns (`Answer`), with the status that
the leader of the group copied to each follower (`Tell`). `SequenceExact`: no sequence number names two
writes, also after recovery. `Reopens`: `Open` finds the files the MANIFEST names.
`WriteReturns` and `MemTableWritten` are under weak fairness of each thread, of
the background thread and of the end of `Close`: the pthread conditions are signalled
and the thread pool of `Env` runs what is scheduled.

Observations, each excluded by the history variable or the guard that states it:
a write acknowledged after an `AddRecord` that failed half way may be lost at
recovery, since the reader drops what follows the torn record; a log is closed
without sync when the memtable is switched, so an asynchronous write can be lost
although a later synchronous one survives, which `doc/index.md:121-124` and
`include/leveldb/options.h:189-202` read as impossible; and a nested
`CompactMemTable` that fails with a torn MANIFEST record, followed by a second
attempt or by the compaction's own `LogAndApply`, leaves a MANIFEST that `Open`
rejects, or reads only up to the torn record if the length in it reaches beyond the
end of the file (`log_reader.cc:227-237`). `Reopens` exempts the first case. In the second,
the log of the memtable is still there, since nothing is deleted after an error, but
it need not have been synced: a table that such a MANIFEST names does not make its
writes owed.

## ClusterElection, ClusterConfig

`ClusterElection` is the vote: replicas of a failed master ask (`Retry`,
`StartElection`), masters answer (`ReceiveRequest`), the replica counts
(`ReceiveAck`) and promotes itself (`Win`); epochs spread (`LearnEpoch`), nodes save
`nodes.conf` (`Save`) and restart from it (`Restart`). Messages are lost, delayed and
reordered. A handler is one step; the save that it asks for is another, since
`clusterBeforeSleep` comes later and the message may be out by then: `AE_BARRIER` orders
the reading and the writing of one socket within a round of events, while a vote
leaves on another link than the request came on, and `processEventsWhileBlocked`
(`networking.c`) runs several rounds without it. Whether a master is flagged FAIL,
whether a request is forced, time, and when a node hears of a promotion are left
open: the guards that depend on them may hold or not, so that the model has every
behaviour of the code and more.

Run `cluster_election`: 3 masters, 2 replicas, epochs up to 3, 3 elections and
restarts together, one node that crashes (any of the five). This is enough for an
election, a restart of a voter, and a competing election in the same epoch, and for
a retry with a late vote. `ElectedOnce`: two replicas are elected in one epoch only
if one of them counted a vote of an earlier election (`CountedLate`), or a master that
voted for both lost the first vote in a crash, before it was saved (`VotedTwice`).

Both happen. The second is the finding of run `cluster_election_comment`. As to the
first, `failover_auth_count` is reset when an election is scheduled (`cluster.c:3023`)
but `failover_auth_epoch` changes when it starts (`:3084`), and a vote of the old epoch
that arrives in between counts for the new one. Both contradict the comment at
`cluster.c:1038`; the resolution of colliding epochs, which that comment introduces for
another reason, repairs the result, as `ClusterConfig` shows.

`ClusterConfig` is what follows: each member's view of masters, replicas, epochs
and owner, changed by heartbeats (also late ones), UPDATE messages, promotions by
election or takeover (`Elected`, `Takeover`) with epochs that may collide, and the
resolution of collisions. Run
`cluster_config`: 3 members, 2 promotions, one late heartbeat. `OwnersAgree` and
`EpochsDiffer` (the promise of `cluster.c:1063`) hold in the end, under the assumption
that, as long as a heartbeat would change some view, one eventually does:
`clusterCron` pings every node again and again and reconnects.

Observations: a replica that hears of its demoted master before the new owner
keeps that demoted master as its own and becomes a replica of a replica, which the
comment at `cluster.c:1592-1599` means to exclude; and a TAKEOVER by a replica whose
master serves no slots, left out of the model, makes a master without slots and
with a newer epoch, after which owners may disagree forever.

## Findings

Runs that TLC must find violated. Each states what the repository says.

* `rate_lag`: a refused reservation stores `last` even when it moves back
  (`rate.go:381`); calls whose times are one tick late make the limiter credit the
  same tick repeatedly. The run allows two ticks to spare for each tick of lag, and
  the limiter lets more through than that.
* `cluster_election_comment`: "It is not possible that different slaves get the same
  config epoch during a failover election" (`cluster.c:1038`). A master votes for one
  replica, which is elected; it crashes before `clusterBeforeSleep` has saved the
  vote (`cluster.c:2804`), restarts, and its vote elects the other replica in the same
  epoch.

## Proofs

All safety proofs are inductive invariants: `Init => Inv`, `Inv /\ [Next]_vars =>
Inv'` with one lemma or step per action, `Inv => property`. They hold for every value
of the constants; their assumptions are the named `ASSUME`s of the modules, which
TLC evaluates in the runs, and what is said below.

| Module | Property (theorem) | What makes it inductive |
|---|---|---|
| `SemaphoreProofs` | `Capacity` (`CapacityHolds`), `FrontBlocked` (`NoLostWakeup`), `NoOvertaking` (`FirstComeFirstServed`), `Conservation` (`TokensConserved`) | `CallInv`: where each session is, and that whoever notifies holds the mutex; `ListedOnce`: a waiting session is in the list once, so a canceled one can be removed; `HeldInv`: what a session holds by where it is. `NoLostWakeup` assumes `0 \notin Weights`, `TokensConserved` that `Procs` is finite |
| `SpscQueueProofs` | `SlotsDisjoint` (`RaceFree`), `LiveExactly` (`LiveSlots`), `ImplementsFifo` (`Refinement`) | `IndexInv` orders the indexes and each thread's old view of the other's index around the ring; `LiveVals` and `Copied` say what is in the slots being copied. The refinement maps `Contents`, the slots between the indexes: a store of an index is a step of `Fifo`, all else stutters |
| `CoroutineProofs` | `StackIntact` (`StackTransparent`), `NoAssert` (`AssertsHold`), `OnlyRunnerDies` (`OthersSurvive`) | `RunningExact` and `NcoExact` tie `running` and `nco` to the statuses; `BottomFrame`: a started coroutine has the frame of `mainfunc` with its own id at the bottom |
| `SingleflightProofs` | `OneInFlight` (`DuplicatesSuppressed`), `SameResult` (`ResultsAgree`), `SharedExact` (`SharedFlagExact`) | `Registered`: the map holds exactly the calls that run and were not forgotten; the fields of a call, its channels and `dups` by the progress of its `doCall`; whoever was told "not shared" belongs to a call nobody can join any more |
| `GroupCacheProofs` | `OneLoad` (`LoadedOnce`), `SameValue` (`Shared`), `StoredOnce` (`KeptOnce`), `WithinLimit` (`Bounded`), `BytesExact` (`Sized`), `StatsBalance` (`Balanced`) | list and map of each cache agree; the leader of a load is registered, and the calls joined have their results; a loading session's key is in neither cache (`Missing`), the caches are disjoint (`Apart`); when the caches are over the limit, some session has yet to notice it (`Noticed`) |
| `EventLoopProofs` | `NoLostWakeup` (`NoSleeping`), `SameTimers` (`TimersAgree`), `CancelSticks` (`CanceledForGood`), `NoLeak` (`NoneLeaks`), `Armed` (`AlwaysArmed`) | every live timer is in exactly one place: a queued functor, the sets, the batch being run, or the hands of a thread; what the phase of the loop says about the batch; the time `timerfd_` is set to against the first timer |
| `ClusterElectionProofs` | `ElectedOnce` (`OnePerEpoch`) | a node's epoch is never behind its last vote, in memory and in `nodes.conf`; two votes of one master in one epoch for different replicas mean that the first was forgotten; the votes a winner counted, and those on their way, were cast; a winner's votes are a majority, and two majorities of the masters share one |

`TypeCorrect` theorems state the type invariants; the `Invariance`, `...Holds`,
`MapExact`, `CountExact`, `OneRuns`, `IndexOrder` and `LiveValues` theorems state the
invariants of the last column that are of interest by themselves.

`FiniteSums` is the arithmetic of sums over finite sets: what `SumFunction` becomes
when one value changes, or an element enters or leaves the domain. `SumFunction`
is defined through a fold whose order of elements is a `CHOOSE`; the induction over
the subsets of the domain is carried out in the module, with sets of subsets in
place of predicates. `Conservation` and `BytesExact` are sums over sessions and over
keys, and their proofs look at the one term that a step changes.

Model-checked only:

* liveness (`AcquireReturns`, `Drains`, `CallsEnd`, `GetEnds`, `WriteReturns`,
  `MemTableWritten`, `OwnersAgree`, `EpochsDiffer`): the prover has no rules for
  fairness;
* `RateBound`, `Conserved` and `CancelUndoes` of `RateLimiter`: what
  accrues is a product of a limit and a duration that is itself a truncated
  quotient, summed over the sessions of an interval, and no inductive invariant
  for it has been worked out;
* `OwedVisible`, `StatusTrue`, `SequenceExact` and `Reopens` of `LevelDb`: no
  inductive invariant has been worked out; it has to relate logs, tables, MANIFEST
  and memory at every place where a crash can come.

## Not modelled

Not modelled for their nature: HTTP transport, sinks and byte views, and generated
code of groupcache; channels, pollers and most of `base` of muduo; the hooks of
libco; the mock clock of uber-go ratelimit. Not modelled for their size, and not
annotated in the repository: Redis other than the failover, leveldb's readers,
snapshots, iterators and compactions above level 0, libevent, sofa-pbrpc, grpc-go
and gin. Together these are almost all of the repository's lines.

Candidates for modules to come: `errgroup`; uber-go `ratelimit`; `consistenthash` and
`inject` as operators; `boost::lockfree::queue`, `stack` and the freelist, refining
`Fifo`; `syncmap` refining a map; `EventLoopThread` and `TcpConnection` around
`EventLoop`; `ae.c`.
