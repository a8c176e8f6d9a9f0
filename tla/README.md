# Cubium: a verification of the server's task and chunk machinery

Cubium is a voxel game server and client. Its server keeps the world as
chunks, and almost everything that is hard about it happens where several
threads load, generate, light, send and unload chunks at once. This directory
holds TLA+ modules of that machinery, TLC configurations that model-check them
on small instances, and TLAPS proofs of what matters most for every instance:
the schedulers that run chunk work, the lock they share, the tickets that say
which chunks are wanted, stepwise generation, the unloading of a chunk, and its
delivery to players with light, block updates and changes of dimension.

All paths below are relative to `src/`, the repository.

## 1. Inventory

| Component | Source | State | Operations | What makes it correct |
|---|---|---|---|---|
| Area task scheduler | `src/server/world/scheduling/AreaTaskScheduler.cpp` | tasks with phase, wait count, generation; per position a queue ordered by (priority, id) and the running task; `outstanding` | submit, cancel, pruneCancelledTasks, waitForCompletion, shutdown; claim and finish from pool threads | intersecting regions exclude each other; counts exact; no permit lost or revived; every accepted task ends once; shutdown returns and leaves no body |
| Universal worker pool | `src/common/util/thread/UniversalWorkerPool.cpp` | priority queue, outstanding count, running and stop flags, two condition variables, threads | start, submit, cancel, prune, waitForCompletion, shutdown, worker loop | each task told once; the count exact; no lost wakeup; waiting means idle; shutdown means quiet |
| Chunk holder | `src/server/world/SingleChunkLifecycleManager.cpp` | ticket level, waiters, status and chunk, source state, generation task, neighbour edges and reference counts, abort token | request, attach, prepare, publish, cancel, fail, revive | status, chunk and source change together; references balance; nobody waits for ever |
| Chunk task scheduler | `src/server/world/ChunkTaskScheduler.cpp`, `ChunkProgressionTask.cpp` | none of its own: it drives the holders | schedule, execution, cancellation, completion, failure, reschedule | one generation step at a time per chunk; a step starts only when its neighbours have their status and stay loaded; completion and failure wake every dependant |
| Server chunk manager | `src/server/world/ServerChunkManager.cpp` | holder table, deferred levels, pending loads with attached waiters, unload candidates, unloads in flight, cooldowns | request, load complete, ticket change, auto-save, three-stage unload, shutdown | a request is answered whatever the unload does; no chunk in use is removed; an unload is finished once; no edit is lost; the main thread never waits for the area lock and yet every level arrives |
| Chunk load tickets | `src/common/world/chunk/load/` | tickets with lifespans, players with view distances, dirty chunks, sources, distance graph with its queue | register, release, force, move, view distance, tick, propagate | the incremental level equals its definition by minimum; the tables agree; a timed ticket ends |
| Chunk sending | `src/server/network/sync/ChunkSendManager.cpp`, `BlockUpdateSyncManager.cpp`, `src/server/world/ServerWorld.cpp` | requests to send with their recipients, finished packets in a ready queue, block updates not yet flushed | send, build a snapshot on a worker, submit, deliver, queue an update, flush | a client holds the chunks its player tracks and no other, each in its last state |
| Dimension transfer | `src/server/dimension/ServerDimensionManager.cpp`, `src/server/world/ServerWorld.cpp` | the dimension of each player | transfer, disconnect, release of a player's chunks | nothing of one dimension reaches a player of another |
| Lighting tasks | `ChunkLoadLightTask.cpp`, `ServerLightQueue.cpp`, `RuntimeLightTask.cpp` | chunks still to be post-processed and lit, LIGHT tickets, light tasks; a queue of edits with section tasks | post-process, enqueue, execute, release the ticket; merge edits, claim, publish | a chunk is lit once and sent lit, its ticket ends; edits are not lost under a running task |
| Reentrant area lock | `src/common/util/concurrent/ReentrantAreaLock.cpp` | section table, each node's waiters, park permits, nested handles | tryLock, lock, unlock | areas are owned whole and given back whole; reentrance; one wakeup per park, none lost; no deadlock |
| Containers | `MultiThreadedQueue.hpp`, `ConcurrentLong2ObjectHashTable.hpp` | lock-free nodes | insert, remove, poll | linearizability |
| Connection, transports | `src/common/network/` | protocol state, packet queues | send, receive, switch protocol, close | packets in order, nothing after close |
| Handshake, login, sessions | `src/server/network/` | login step, session table | handshake, login, disconnect | a session exists exactly between login and disconnect |
| Keep-alive, teleports | `src/server/core/` | pending ids with times | send, confirm, time out | stale answers are ignored |
| World storage | `src/server/world/storage/` | pending saves, loaded levels | load, save, flush, close | a load sees the last save |
| Main loop, event bus, timers, scoreboards, containers, entities, client | several | large and sequential | | unit tests serve them well |

How they interact. The main thread owns a `ServerWorld`; `ServerChunkManager`
turns ticket changes and requests into holders and targets;
`ChunkTaskScheduler` turns a target into one progression task at a time,
submitted to the world's `AreaTaskScheduler` with the radius the step reads;
that scheduler hands an execution permit to the shared `UniversalWorkerPool`
once nothing earlier intersects the region. Completion runs back through
callbacks on a pool thread: pool → `DispatchTask` → area scheduler's
`_finish` → the progression task's callback → holder publication → neighbours
are rescheduled. `ChunkLoadTicketManager` is where the ticket changes come
from: `tick` propagates levels and calls back `_onTicketLevelChanged`. Workers
and main thread exclude each other on chunk areas by the `ReentrantAreaLock`.
Cancellation runs the other way, through abort tokens and `cancel`. A published
chunk is post-processed and lit by the main thread's drains and a task, then sent to
who tracks it; block updates follow by `BlockUpdateSyncManager`, and
`ServerDimensionManager` moves a player from one world's sets to another's. Lighting, chunk sending and auto-save submit to the same scheduler
(`ServerLightQueue.cpp:146`, `ChunkSendManager.cpp:132`, `ServerWorld.cpp:2831`).

The hard behaviours, with their lines, are the `hazards` of `PROJECT.json`.

## 2. Modules

| Module | What it is |
|---|---|
| `RegionTasks` | abstract: tasks own regions, start in order, end once |
| `AreaTaskScheduler` | the scheduler with its pool and the threads' call stacks |
| `AreaTaskSchedulerProps` | its properties, the inductive invariant, the refinement |
| `AreaTaskSchedulerProofs` | the theorems |
| `MCAreaTaskScheduler` | instances |
| `TaskPool` | abstract: tasks are served most urgent first, told once, and none is left at close |
| `UniversalWorkerPool`, `UniversalWorkerPoolProps`, `UniversalWorkerPoolProofs`, `MCUniversalWorkerPool` | the pool in detail |
| `CallStacks` | lemmas on threads with a stack of calls, shared by the proofs of scheduler and pool |
| `ChunkTaskScheduler` | stepwise generation: the holders, what drives them and what feeds them |
| `ChunkTaskSchedulerProps` | its properties |
| `ChunkTaskSchedulerProofs` | the theorems, with the inductive invariant |
| `MCChunkTaskScheduler` | instances |
| `ChunkLoadTickets`, `ChunkLoadTicketsProps`, `ChunkLoadTicketsProofs`, `MCChunkLoadTickets` | which chunks are wanted, and how much |
| `ChunkUnload`, `ChunkUnloadProps`, `ChunkUnloadProofs`, `MCChunkUnload` | one position from its first holder to the last |
| `ChunkDelivery`, `ChunkDeliveryProps`, `ChunkDeliveryProofs`, `MCChunkDelivery` | how one position's chunk is lit and reaches the clients |
| `AreaOwnership` | abstract: threads own sections, area by area, in nested scopes |
| `ReentrantAreaLock`, `ReentrantAreaLockProps`, `ReentrantAreaLockProofs`, `MCReentrantAreaLock` | the lock in detail |

How they depend on each other: `AreaTaskScheduler` contains an abstract pool
(submit, refuse, serve in any order, cancel, stop), and `UniversalWorkerPool`
is that pool in detail, shown to implement `TaskPool`. `ChunkTaskScheduler` contains an abstract area
scheduler (a task runs once nothing submitted earlier touches its area, and is
forgotten after its callback), which is what `RegionTasks` promises and
`AreaTaskScheduler` is shown to implement. The scheduling area that
`ChunkTaskScheduler` and `ChunkUnload` take and give back in one step is what
`AreaOwnership` promises and `ReentrantAreaLock` is shown to implement, and the
levels that move in `ChunkUnload` are those `ChunkLoadTickets` computes. The two
chunk modules look at one program from two sides: `ChunkTaskScheduler` at many
chunks that are generated together and never leave, `ChunkUnload` at one that
comes and goes while the chunks around it are reduced to what they do to it.
`ChunkDelivery` begins where they end: for it a chunk is published or unloaded in
one step, and what it follows is the way from there to the players' clients.

### AreaTaskScheduler

One action is the code between two moments at which another thread can act: a
critical section of the scheduler's mutex or the pool's, or a call of user
code. What a thread is in the middle of is a stack of frames, because user
code (a task body, `onCancel`, a completion callback) may call the scheduler
again and because a pool that refuses a permit makes the dispatcher cancel
everything from inside the dispatch.

| Code | TLA+ |
|---|---|
| `State::tasks`, `Task::phase/waiting/generation/keys` | `id`, `phase`, `waiting`, `generation`, `keys`; a task is registered from submission to its removal |
| `Position::queue`, `Position::running` | `positions` (a set: the order is `Before`), `running` |
| `State::outstanding/stopped/nextId/pendingBodies` | the same names |
| `Task::body` | `body`: `unborn`, `held`, `released` |
| permits `(task, generation)` in `ready` vectors and in the pool | frames' `ready`, `queue` |
| `submit` | `Submit`, `SubmitRefused` |
| `_addLocked`, `_removeLocked`, `_scheduleLocked` | `AddLocked`, `RemoveLocked`, `Issued` |
| `_cancelPending` | `CancelLocked`, `SettleCancelBody`, `Settled`, `SettleDone` |
| `_dispatch` | `DispatchCheck`, `Revoke`, `PoolCheck`, `HandOver`, `HandOverRefused`, `DispatchDone` |
| `DispatchTask::execute/onCancel`, `_claim`, `_finish` | `Execute`, `OnCancel`, `ClaimFails`, `BodyReturns`, `BodyThrows`, `Finish` |
| `waitForCompletion`, `shutdown` | `Shutdown`, `Closed` |

Abstractions. A batch that is cancelled leaves the queues in one set operation
instead of one task after the other: the code does it under one lock, and what
the loop issues in between to a task that the same loop removes later is
revoked before the lock is released. `ready` and the batch are sets, so
permits are dispatched and tasks told in any order. The pool serves permits in
any order: more behaviours than the real queue has, and the properties hold
for all of them. Every task has an abort signal. Left out: `type()` and
`description()`, which diagnostics read without a lock; `setExecutor`;
the destructor's second `shutdown`, which finds the scheduler stopped; and a
wait from inside a task or callback, which blocks by construction.

A definition whose name extends the next one's (`ValidIgnoresGeneration`
before `Valid`) is a slip of that code: a plausible bug the properties are
shown to notice. Nothing in the specification uses it.

### UniversalWorkerPool

The same granularity, with `asleep` and `waiting` for the two condition
variables. `Sleep` and `WaitCheck` are one step each because the predicate is
read and the thread put to sleep under the mutex; `NotifyCheck` and
`NotifyLocked` are two, because `_notifyIfIdle` reads the count before it
takes the mutex. `Owner` is the main thread, the only one that starts the pool
and shuts it down (`MinecraftServer.cpp:713-714`, `:2289-2290`). A client's
`waitForCompletion` is not called from a task. Left out: the table of running
tasks kept for diagnostics.

`TaskPool` is what the pool promises without locks, condition variables,
counters and stacks. Its `stage` of a task is read off the history of what the
task has been told and off its place (`StageOf`), its `hands` are the tasks of
the frames of a thread, its `life` comes from the two flags and the owner's
outermost call (`LifeOf`). `Take` maps to `Serve`, `Cancel`, `Prune` and
`ShutdownLocked` to `Withdraw`, `Join` to `Closed`; sleeping, waking and
notifying map to no step.

### ChunkTaskScheduler

A chunk climbs from status 0 (EMPTY) to `Top` (FULL) one progression task at a
time; -1 is a holder without a chunk. `Required[s][c, n]` is the generation
pyramid: the status of `n` that the step of `c` to `s` reads; `Area` is what a
step may write and thus the region of its task.

| Code | TLA+ |
|---|---|
| `SingleChunkLifecycleManager`: waiters, current chunk with its status, source state, failure mark, generation task | `asked`, `status`, `source`, `failed`, `task` |
| `m_neighboursBlockingUs`, `m_neighboursWaitingForUs`, `m_neighboursUsingThisChunk` | `blocking`, `waiting`, `using` |
| `_refreshGenerationTargetLocked`, `_buildDecisionLocked` | `Highest`, `Target`, `MustSchedule` |
| the abort token of a holder, the start mark of a progression task | `cut`, `started` (sets of tasks) |
| `ServerChunkManager::_submitChunkRequest`, `_onTicketLevelChanged`, `_onChunkLoadComplete` | `RequestChunk`, `SetTicket`, `LoadHit`/`LoadMissing`/`LoadUnreadable` |
| lambdas posted to the pool | `jobs`, `ScheduleJob`, `NotifyStored`, `ReconcileJob` |
| `schedule`, `_resolveStorageForScheduling`, `scheduleEmptyLoad`, `scheduleStatusStep`, `checkNeighbour` | `NothingToSchedule`, `ResolveStorage`, `LoadEmpty`, `StartScan`, `CheckNeighbour`, `Scanned` |
| `submitTask` | `Submit`, `CallbackDone`, `CallbackUndone` |
| `ChunkProgressionTask::execute` | `Execute`, `Body`, `Complete` |
| `onChunkGenComplete`, `onLoadedFromStorageReady`, `rescheduleChunk` | `Complete`, `NotifyStored`, `Reschedule` |
| `cancelGeneration(holder, task)`, `onChunkGenFailed`, `reconcileGenerationDemand` | `Cancel`, `Fail`, `Abandon`, `Reconcile` |

One action is one critical section of the scheduling area lock or of a holder,
or the code between two. A worker's stack of frames is what its call has still
to do: `schedule` scans the neighbours one by one and calls itself for a
neighbour that must climb first, so frames nest as the calls do.

Abstractions. The area lock is one lock: the chunks of an instance lie within
its radius of each other, so its sections always intersect. The lock is held
across actions only inside `schedule`, whose steps read what other threads
change without it; every other critical section is one action. `checkNeighbour`
looks at the neighbours in any order, where the code has a fixed one. The steps
between EMPTY and FULL write only into the chunk, so their body is part of
`Complete`. Tickets follow a given `Path`; the propagation that computes the
levels is a component of its own. The pool serves jobs in any order. Task
identities are the smallest free number: like addresses, they are reused once a
task is forgotten. Left out: unloading, re-creation and attached load waiters, which
are `ChunkUnload`'s; shutdown; the inline mode without a pool and the mode
without storage, for tests and stand-alone use; priorities, which order work
but do not change what is possible; and messages to tracking players.

### ChunkLoadTickets

A level is a distance from need: tickets and players make a chunk a source,
and each step away from a source costs one.

| Code | TLA+ |
|---|---|
| `m_chunkTickets`, remaining ticks, `m_expiringChunks` | `tickets`, `ticksLeft`, `expiring` |
| players' centres, followed chunks, `m_chunkTrackingPlayers`, `m_playerViewDistances`, `m_playerSourceCounts` | `center`, `tracked`, `trackers`, `requested`, `sourceCount` |
| `m_dirtyChunks`, `m_tickingTicketSources` | `dirty`, `ticking` |
| `ChunkDistanceGraph`: `m_sourceLevels`, `m_levels`, `m_updateQueue` with `m_pendingKeys` | `source`, `level`, `queue` |
| `registerTicket`, `releaseTicket`, `forceChunk`, `tick` | `RegisterTicket`, `ReleaseTicket`, `ForceChunk`, `Tick` |
| `updatePlayerPosition`, `removePlayer`, `setViewDistance`, `setPlayerViewDistance` | `UpdatePlayerPosition`, `RemovePlayer`, `SetViewDistance`, `SetPlayerViewDistance` |
| `processUpdates`, one chunk of it, its callback, its budget | `ProcessUpdates`, `Step`, `Propagate`, `StopPump` |

It all runs on the main thread, so that a call is one action up to its first
recomputation; what interleaves are the calls a level callback makes in the
middle of the propagation, and a propagation that has run out of time. Chunks
that join the queue together join in any order (they stand in a hash set).

### ChunkUnload

| Code | TLA+ |
|---|---|
| `m_lifecycleManagers`, `m_deferredTicketLevels`, `m_pendingLoadTasks` | `holder`, `deferred`, `load` |
| the holder: level, source and chunk, waiters, waiting neighbours, references, generation task | `level`, `state`, `asked`, `waiting`, `refs`, `task` |
| `m_inUnloadQueue`, `m_idleHaloReclaimArmed`, `m_unloadSaveInProgress`, `m_pendingUnloadFinishes`, `m_unloadCooldownChunks` | `queued`, `armed`, `unloading`, `finish`, `cooldown` |
| `_onTicketLevelChanged`, `_drainDeferredTicketLevels` | `MoveLevel`, `DrainDeferred` (`LevelChanged`) |
| `_submitChunkRequest`, `_onChunkLoadComplete` | `Request`, `LoadHit`, `LoadMissing` |
| `_updateUnloadCandidate` | `Ask` and `Store`, or `Tell` where both are under the holder's mutex |
| `_processChunkUnloads`, `_tryPopUnloadCandidate`, `unloadChunkSync` | `Arm`, `PopCandidate` |
| stage 2, the storage's answer | `Saved` |
| `_finalizeUnloadAfterSave`, `_expireUnloadCooldowns` | `AbortUnload`, `CoolDown`, `Remove`, `CoolEnds` |
| `ServerWorld::saveDirtyChunks` | `GatherDirty`, `SaveGathered` |
| jobs and tasks on workers, `_finalizeGeneratedChunkSync`, `onChunkGenComplete` | `ScheduleJob`, `NotifyJob`, `CancelTask`, `Start`, `Publish`, `Complete` |
| chunks around that use the chunk or wait for it | `Use`, `Release`, `AwaitIt`, `Forgo` |

Abstractions. Generation is one task and not a pyramid of them, and neither it
nor the reading of storage fails: both are in `ChunkTaskScheduler`. A chunk's
content is the number of its last edit. What the main thread does in a tick
comes in any order and any number of times, because its drains have budgets.
The callback of a cancelled task changes nothing, as its comments promise:
finding 1 is shown in `ChunkTaskScheduler` and not carried along. An edit or a
task that the code is known to lose sets `excused`, a variable of the
properties; `NothingLost` speaks of the behaviours without such a loss, and
section 4 names each one. Left out: shutdown;
post-processing and tracking players are `ChunkDelivery`'s.

### ReentrantAreaLock

| Code | TLA+ |
|---|---|
| `m_nodes` (bucket by bucket), `m_areaAffected` | `owner`, `mine` |
| `MultiThreadedQueue` a node is | `waiters`, `blocked` |
| `ThreadHandle::m_permit`, its mutex and condition | `permit`, the places `check`, `doze`, `sleep` of a call |
| `LockHandle`s | `held` |
| `lock`, `tryLock` | `Call`, `PutIfAbsent`, `Acquired`, `Failed`, `Retry` |
| roll back, `unlock` | `Remove`, `Poll`, `BlockAdds`, `Unlock` |
| `backoff`, `add`, `park`, `unpark` | `BackOff`, `Add`, `Look`, `Sleep`, `Unpark`, `NotifyOne` |

One action is one operation of the table under its bucket's mutex, of a queue
at its compare and swap, or of a permit. An area is a sequence of rows of
sections; a lock of a single section is the same path with one. A node's
sections are removed in any order, the waiters are a set, the count of failures
that decides between backing off and queueing up is a free choice, and a node's
memory is used again as soon as nothing refers to it. Spurious wakeups are left
out: they add only further looks at the permit.

### ChunkDelivery

| Code | TLA+ |
|---|---|
| `m_playerDimensions`, `m_chunkTrackingPlayers` of the position | `at`, `tracking` |
| `m_chunks`, `isLightCorrect`, the post-processing still due | `present`, `lit`, `raw` |
| `m_pendingPostProcess`, `m_postProcessedChunks`, the LIGHT ticket | `backlog`, `processed`, `ticket` |
| light and build tasks in the area scheduler | `tasks`, in order: they overlap at the position |
| `m_pendingChunkSends`, `m_readyChunks`, callbacks of requests for an absent chunk | `sends`, `ready`, `asked` |
| `m_pendingBlockUpdates` | `updates` |
| `_applyTrackingDelta`, `onPlayerTrackingChange` | `Enter`, `Depart` |
| `transferPlayerToDimension`, `releasePlayerChunkResources` | `TransferAway`, `TransferHere`, `Disconnect` |
| publication, stage 3 of an unload | `Publish`, `Unload` |
| `_drainPendingPostProcess` with `_postProcessChunk` and `enqueueChunkLoadLight` | `PostProcess`, `PostProcessChunk` |
| `ChunkLoadLightTask::execute`, `_drainPendingChunkSends` | `RunLight`, `DrainSend` |
| `sendChunkToPlayers`, its build task, `submitChunkData`, `processPendingSends` | `BuildsFor` and `RequestsFor`, `TakeSnapshot`, `Submit`, `Deliver` |
| `queueBlockUpdate`, `flushPendingUpdates` | `Edit`, `FlushUpdates` |

Abstractions. One position; a chunk's content is the number of its edits and
whether its light is right. A connection keeps its packets in order, so a packet
arrives when it is sent. `client` is what the player's client would hold;
`owed`, `stale`, `settled`, `shaped` and `skipped` are kept for the properties. A
task that has started to build holds a snapshot of some moment, as the section
locks of a chunk give it. Tickets and levels are reduced to `near`, which follows
what is wanted in the end (fairness) and otherwise moves as it likes; the three
stages of an unload are one step, because `ChunkUnload` shows what they do to
each other. Other dimensions are only places where players are. Left out: light
updates, which go to every player of the server, entities, the shutdown flag,
and the path of a server without worker pool.

## 3. Runs

| Run | Instance | Distinct states | What it shows |
|---|---|---|---|
| `area_priorities` | 3 tasks of 3 priorities, the most urgent bridges two positions; 2 workers, a client, `cancel`; one body may throw | 284 174 | regions exclude each other, wait counts are exact, stale permits stay stale, no assertion can fire, and the scheduler implements `RegionTasks` |
| `area_shutdown` | the same regions, one priority as in the server; scheduler and pool shut down at any moment, `cancel`, pruning, an abort signal on one task | 221 931 | everything accepted ends, the shutdown returns, no body outlives the scheduler, a waiting task keeps its body |
| `pool_calls` | 2 tasks, 2 clients, 2 workers, every call, restart included, under fairness | 175 288 | one settlement per task, the pool implements `TaskPool`, waiting means what it says, waiting and shutdown return |
| `chunk_demand` | 2 neighbouring chunks, 3 statuses, 2 workers; the tickets rise and a request arrives, stored or not, under fairness | 11 272 | every request is answered, every ticket gets its status, references balance |
| `chunk_churn` | the same chunks; both tickets fall in mid-work, one of them returns, one request for less than the ticket, storage may be unreadable | 463 148 | edges agree, a step works on the state it was scheduled for, a started step is not cut, nothing that could go on is forgotten |
| `tickets_levels` | a row of 4 chunks, 4 levels, 2 players, a forced, a permanent and a timed ticket; 3 calls, also from inside a callback; the pump may stop after every chunk | 89 209 | demand is covered, the tables agree, a settled level is the distance from the nearest source, everything settles |
| `unload` | 1 position, 2 holders in turn, 2 workers, 2 moves of the level, 1 call, 1 edit | about 111 000 | removed holders are unused, unloads are single and end, loads tell who waits, the last edit survives, requests end, levels arrive |
| `lock_crossing` | 3 threads, areas that cross in 3 sections, one thread only tries, reentry | 63 433 | areas are had whole, a park has exactly one wakeup, nobody parks for ever |
| `delivery` | 1 position, 1 player, 4 calls (moves, transfers, disconnects, edits, unloads, failed requests) | 242 925 | no ghost chunks, edits arrive, a LIGHT ticket ends, one light task per chunk, who is owed the chunk gets it |
| `chunk_cancelled`, `unload_autosave`, `delivery_isolated` | violations | | findings 1 to 3 below |

Bounds. For the scheduler and the pool each task is submitted once and `nextId`
grows with submissions, so the state spaces are finite without a constraint.
Three tasks with one that bridges two positions are the smallest instance in
which a task waits on several positions, is overtaken on one of them and
succeeds two different tasks; the wait counts then take the values 0, 1 and 2.
One worker is enough where the question is about the calling threads, because
the client dispatches while the worker runs. The pool needs two workers for a
lost wakeup and two clients for a waiter beside a submitter.

For chunks, two that read each other at the last step are the smallest
instance with a cycle of dependencies over different statuses, a neighbour that
climbs only because it is read, and a task whose area excludes the other's.
Two workers let one schedule, cancel or reconcile while the other is between
the claim of a task, its start, its body and its completion. The paths
(`Rising`, `Falling`) take a ticket up, away and back, which is what reaches
the windows of cancellation; the request for a lower status outlives the ticket
that was above it, so that a cancelled task leaves it satisfied. `chunk_churn` uses the symmetry of the workers: it
checks invariants only.

For tickets, four chunks in a row with four levels hold a source, a chunk between
two sources and one out of every reach; three calls are a ticket, another that
overlaps it, and the end of one of them while the pump has stopped. For the
unload, the second holder is what makes a stale job, load or finish possible,
and two moves of the level take a chunk out of reach and back in the middle of
an unload. There one edit is made of a fresh chunk; edits of a stored chunk, and
any number of them, are covered by the proof of `NothingLost`. For the lock, three
threads that cross pairwise are the smallest cycle in which a rollback wakes one
waiter while another queues up. For delivery one player suffices, because what
goes to several players goes to each of them alike, and the proofs hold for any
number; four calls allow to come, lose the chunk to an unload, edit and leave,
or to change dimension twice in between.

Fairness. For the scheduler, the pool and the lock, weak fairness of each
thread's next step: a call in progress goes on, a worker runs, user code returns.
The operating system schedules every thread, the mutexes are held for bounded
code only, and task bodies are finite computations. Nobody is obliged to call
anything. For chunks, weak fairness of every worker and of the answer of
storage, whose callback the main thread drains every tick. For tickets, of `Tick`
and of the pump, which run every tick. For the unload, weak fairness of workers,
storage and the main thread's drains, and strong fairness of those that need the
area lock (`DrainDeferred`, `LoadHit`, `LoadMissing`, `Finish`): every tick tries
them again, and `tryLock` is not unlucky for ever, since workers hold an area
only for bounded code. For delivery, of the tasks and of every drain, and
that what is wanted gets its level and is loaded, which is what the ticket and
chunk runs show.

Deadlock checking is off in every run: the system stops when every task has
ended, every path has been walked, or the calls are used up; that nothing stops
too early is stated by the liveness properties.

## 4. Findings

1. `chunk_cancelled`. The callback of a progression task passes the holder's
   *current* task to `onChunkGenFailed` (`ChunkTaskScheduler.cpp:305`), so the
   test whether the failed task is still the holder's (`:543`) compares a value
   with itself. A queued task that falling demand cancels thereby fails its
   holder, which `:538-541`, `ChunkProgressionTask.cpp:105-107` and
   `ChunkGenerationDemandTest.cpp:274` say it does not. The liveness properties
   of `chunk_demand` are therefore stated for tickets that only rise.
2. `unload_autosave`. `saveDirtyChunks` clears the dirty mark of every chunk that
   is dirty after the write (`ServerWorld.cpp:323`), not of those it wrote. A
   chunk published by a worker meanwhile is marked clean and, once unloaded,
   has to be generated afresh.
3. `delivery_isolated`. A transfer between dimensions (`ServerDimensionManager.cpp:310`)
   does not take the player out of the ticket manager of the dimension it leaves.
   That dimension goes on loading chunks for the player and sending them, though
   `src/server/network/sync/README.md:3-4` promises isolation.

### Observations with a configuration of their own

These configurations are not among the runs; each shows a behaviour of the code that
a comment, an assertion or a reader would not expect.

| Configuration | Property | Behaviour |
|---|---|---|
| `AreaTaskScheduler_throwing_body` | `AssertionsHold` | a body that throws skips `releaseBody` (`AreaTaskScheduler.cpp:71`), and `_finish` fails its assertion (`:315`), while the test `ThrowingTaskAndCallbackStillReleaseRegion` expects the region back |
| `AreaTaskScheduler_shutdown_null` | `NoNullBody` | a shutdown between a submission and its dispatch lets the dispatcher reset (`:280`) the body the shutdown is about to cancel (`:172`) |
| `ChunkTaskScheduler_references` | `ReferencesExact` | an abort first seen at the head of `execute` (`ChunkProgressionTask.cpp:89`) ends the task neither executed nor cancelled; its neighbour references are never given back, though `ChunkTaskScheduler.cpp:795` says they balance |
| `ChunkTaskScheduler_unreadable` | `RequestsSettled` | a request on a holder whose load ended unreadable is queued and never answered (`SingleChunkLifecycleManager.cpp:599`), though `:322-323` says every waiter is taken |
| `ChunkLoadTickets_stale_source` | `SourcesExact` | `_refreshChunkSourceLevel` compares with the chunk's propagated level (`ChunkLoadTicketManager.cpp:437`), which is out of date while the chunk is queued; a weaker demand then passes for a decrease and `updateSourceLevel` keeps the old minimum (`ChunkDistanceGraph.cpp:63`). A view distance lowered just after a player came leaves the stronger source until something refreshes the chunk, against `ChunkLoadTicket.hpp:406` |
| `ChunkUnload_candidates` | `CandidatesQueued` | `_updateUnloadCandidate` evaluates outside the queue's mutex and stores under it (`ServerChunkManager.cpp:1669`); an older answer takes out what the observer has queued, and nothing looks at the holder again, though `:1591` and `:1638` say the observer's events suffice |
| `ReentrantAreaLock_nested` | `ParkedIsWoken` | a thread that asks for an area while it holds another, as stage 3 of an unload does (`ServerChunkManager.cpp:1446`, `ChunkTaskScheduler.cpp:941`), can be parked for ever together with its owner, by a late `add` after `allowAdds` (`ReentrantAreaLock.cpp:185`) |
| `ReentrantAreaLock_unpark` | `UnparkFinishesFirst` | a woken thread may end while its waker is still inside `unpark` (`LockSupport.hpp:183-184`) |
| `ReentrantAreaLock_covered` | `ReentryIsCovered` | reentry into an area the outer one does not cover: design point 3 of `ReentrantAreaLock.hpp` excludes it, the assertion at `.cpp:150-154` cannot notice it, and stage 3 does it |
| `ChunkDelivery_ticket` | `TicketAlwaysOwed` | a light task made for an absent chunk leaves its LIGHT ticket for good: `ChunkLoadLightTask.cpp:75-78` says it is released elsewhere, which only the path without a pool does (`ServerWorld.cpp:2958`) |

Four more configurations check what the runs leave to their stronger
neighbours, and hold: `AreaTaskScheduler_rest` (`NoPermitLost`, `ToldOnce`,
`OutstandingIsExact`, `RestsOnlySettled`, with three priorities, two workers, a body
that throws and every call, 1 380 087 states), `UniversalWorkerPool_counts` (`OutstandingIsExact`,
`StoppedMeansQuiet`, `NoWakeupLost`, `RestsOnlyIdle`), `ReentrantAreaLock_rest`
(`RestsOnlyFree`, with the instance of `lock_crossing`) and `ChunkLoadTickets_timed`
(`TimedTicketsEnd`).

### Observations without one

- Generation. A ticket that rises to a status below `Border` prepares nothing by
  itself (`ServerChunkManager.cpp:943` calls `prepareGeneration` for loaded levels only), so
  such a chunk climbs only when a neighbour reads it; `Due` says so. A chunk whose
  edge to a failed neighbour was cut is not scheduled again
  (`ChunkTaskScheduler.cpp:514`); `NothingForgotten` excuses it, and
  `StopsOnlySettled` says that nothing else needs an excuse.
- Unloading. Edits between stage 1 and stage 3, and those of a stage 1 whose save
  failed, are lost (`ServerChunkManager.cpp:1338`): the ways `NothingLost` excuses.
  A holder attached to a load in flight is told "missing" when its owner is gone
  and generates a chunk that is stored (TODO at `:1518`). Stage 3 cancels work and
  fails requests before it asks `isSafeToUnload`. A task cancelled too late may
  publish a chunk at a position without a holder. The comment at
  `ChunkLoadTicket.hpp:227-228` gives `UNLOAD_COOLDOWN` another level than
  `ServerChunkManager.cpp:1466` uses.
- Delivery. A snapshot delivered after newer block updates leaves the client
  wrong until the chunk is sent again (`stale`). The sends of `_loadPlayerChunks` are not
  validated, against pitfall 6 of `src/server/network/sync/README.md`, and may
  leave a ghost chunk. A player that returns to a dimension finds the set of
  chunks it tracked there, so what lies in the square but outside the circle of
  `_loadPlayerChunks` is not sent. The comment at `ServerWorld.cpp:2866` says an
  absent chunk is skipped, but the code requests a load. Post-processing that is
  due when a generated chunk is unloaded is never done. Light updates go to
  every player of every dimension (`PlayerBroadcaster.cpp:704`).

## 5. Proofs

Each proof module proves its theorems for any values of the constants that
satisfy the named assumption of the component. TLC has checked each inductive
invariant on an instance first.

`AreaTaskSchedulerProofs` (`SchedulerAssumption`, `ThreadsAssumption`):

- `TypeCorrect`: `Spec => []TypeOK`.
- `RegionInvariant`: `Spec => []RegionInv`. Mutual exclusion alone is not
  inductive: that a claim cannot start beside an intersecting task follows
  from its valid permit, the permit from a wait count of zero
  (`PermitMeansUnblocked`), the count from its exactness
  (`WaitingCountsBlockers`), and exactness is preserved only because queues
  match regions (`QueuesMatchKeys`), running marks match phases
  (`RunningMatchesPhase`) and the order of a queue is total (`IdsUnique`).
  The core of the argument is a pair of lemmas that compute the blocked
  positions of every task after `AddLocked` and after `RemoveLocked`.
- `RunningRegionsDisjoint`, `WaitingIsExact`, `ClaimsAndRemovalsSafe`: the
  consequences, each a property of the run `area_priorities`.
- `SchedulerImplementsRegionTasks`: every step maps to a step of `RegionTasks`
  or a stutter. A claim maps to `Start`, whose guard is what
  `ClaimAsserts` gives; a removal maps to `Finish` or `Drop`; that a closing
  drop leaves nothing pending needs the invariant `StoppedHoldsNothing`.
- `SettlingInvariant`: `Spec => []SettleInv`, the life of a task. A task in progress
  is in one call of one thread (`CallStacks` has the lemmas on nested calls: a
  claim, a batch being cancelled, a callback), what it has been told follows from
  where it is (`StagesOK`, `RestOK`), `outstanding` counts what is registered or
  being settled (`CountOK`), and a shutdown closes the scheduler when that count is
  zero (`ClosedOK`). From it `TasksToldOnce`, `OutstandingCorrect` and
  `ShutdownIsComplete`.
- `StalePermitsStayStale`: generations only grow, and no step schedules a task again
  under its old one (`Aged`).
- `PermitsNeverLost`: `Spec => []NoPermitLost`, by the inductive invariant `PermitInv`.
  Every permit is in one call of one thread or in the pool's queue (`PermitsApart`,
  again with `CallStacks`), none is of a generation to come (`PermitsPast`), so that
  those a critical section issues are nowhere yet (`IssuedIsNew`); the valid one
  of a scheduled task is among them (`PermitsOut`), since what a call drops was
  revoked, has just been claimed, or belongs to a scheduler that closes: a thread
  that finds the pool stopped gives up the permits it was to dispatch, but only
  together with a cancellation of everything.
- `SchedulerRestsOnlySettled`: at rest (`AtRest`: no thread can go on by itself) no
  shutdown is under way, and every accepted task is finished and called back. That
  is the part of `AcceptedTasksEnd`, `ShutdownReturns` and `PoolShutdownReturns` that
  needs no fairness. `BottomInv` says that what a stopped pool has left is for the
  thread that stops it, and that only clients wait for others, in their outermost
  call; so at rest no permit is anywhere and nothing runs. Then nothing waits
  either (`SomebodyLeads`): of the registered tasks, one comes before all others
  by (priority, id), it leads every position it has, and a waiting task has a
  count above zero (`WaitersBlocked`), which would be wrong for that one. A pool
  without workers, or one stopped by its own worker, would rest with work left:
  `ThreadsAssumption` excludes both (`UniversalWorkerPool.cpp:52`, `:75`).
- `WaitingTasksKeepBodies` assumes that all tasks have one priority, as the
  server's have: then a scheduled task is not overtaken and keeps its permit until
  it starts (`BodiesKept`). `area_shutdown` has one
  priority too; with several, `DispatchCheck` can reset the body of a task that
  waits again.
- `NoAssertionFires` assumes that no body throws (`AssertInv`): section 4 lists what
  happens when one does.

`UniversalWorkerPoolProofs` (`PoolAssumption`: any tasks, clients and workers, any
sequence of calls, restarts included):

- `PoolCorrect`: the inductive invariant `PoolInv`. `WorkInv` says that a task is in
  the queue or in one call of one thread, how often it has been executed,
  cancelled and called back there, and that the count is theirs. `LifeInv` says
  that the owner's outermost call determines whether the pool is running,
  stopping or stopped and which workers are alive; also that only a restart has
  both flags set. Both are needed for `~crashed`, the assertion of
  `_releaseOutstandingTask`.
- `CountIsExact`, `CalledBackOnce`, `ShutdownIsQuiet` and `WaitIsForAll`, the last
  an action property: consequences.
- `PoolImplementsTaskPool`: every step maps to a step of `TaskPool` or to none.
  `WorkInv` says how often a task has been told what at each place, hence which
  stage it is in; because it is in one frame of one thread, a step of that thread
  moves the stage of no other task. `Closed` is where the two meet: all workers
  have left their loops, so none has a task in hand, and the owner is in no other
  call (`LifeInv`). That a task is told "dropped" only when its signal is set, or
  by the closing owner, follows step by step from the guards.
- `WakeupsReachSleepers` and `PoolRestsOnlyIdle`: no wakeup is lost, and when no
  thread can go on by itself (`AtRest`: the workers sleep, and whoever is in a call
  sleeps too or waits for a worker) nothing is owed to anybody. That is the part of
  `AcceptedTasksEnd`, `WaitReturns` and `ShutdownReturns` that needs no fairness. The
  invariant `WakeInv` says that a task is settled on top of a call that will look
  whether the pool is idle (`StacksShaped`), so that the last decrement of the count
  is followed by a look; that only workers and waiting clients sleep, and no worker
  once `shutdown` has woken them all (`SleepersOK`). A pool without workers would
  rest with a full queue: `PoolAssumption` asks for one, which the constructor
  gives (`UniversalWorkerPool.cpp:52`, `:75`).

`ChunkTaskSchedulerProofs` (`ChunkAssumption`: any chunks, requests and workers,
any pyramid, areas, paths and outcomes):

- `EdgeInvariant`: `Spec => []EdgeInv`. Agreement of the edges is kept by each
  update (`BlockOK`, `UnblockOK`, `ClearEdgesOK`, `DropOK`), but `BlockOK` needs
  that the status a scan waits for is not the mark for "no edge". That holds
  because a scan frame has only neighbours left that its step reads, hence the
  invariant says what every frame on every stack promises (`FramesOK`), and,
  for the task frames, that the tasks they name belong to a chunk and are held.
- `EdgesAgree`: `EdgesMatch`, checked by `chunk_churn`. `TasksHeldOnce`: no task is
  in the hands of two workers and each one held is still in the area scheduler.
  `StagesRunToEnd`: `StartedNeverCut`, inductive as it stands.
- `StepInvariant`: `Spec => []StepInv`, of which `StepsFit` is a consequence. A step is
  checked when it is scheduled and works much later; what holds it in place is
  that statuses only rise, and a holder's only by the one task it has. That it has one
  needs the order of the area scheduler (`HandsOK`: workers have the first task of
  a chunk, and one), the check of `schedule` at the beginning of a scan, and that
  a scan is not begun again for the same chunk while neighbours are scheduled on
  its behalf: they are at a lower status than what waits for them (`ScansOK`,
  `ShapesOK`). `None` must not be a task, which `ChunkAssumption` says.
- `ReferencesSuffice`: a chunk counts at least one reference for each task that reads
  it, always. Submission takes and completion and cancellation give back what the
  holder's task reads, because the task that ends is the one the holder has;
  failure drops a task and keeps its references. So exactness cannot hold in
  general (`ChunkTaskScheduler_references` shows the leak).
- `ReferencesStayExact`: it does hold where tickets only rise and storage is readable
  (`Undisturbed`, what `chunk_demand` assumes). Then no task is ever taken back
  (`NoRegrets`), since demand for a task that has not started stays (`SoughtOK`):
  requests and edges above a chunk's status are neither answered nor freed
  before the chunk rises. `RiseInv` joins this to `StepInv` and the balance.
- `NothingIsForgotten`: `NothingForgotten`, by the inductive invariant `WakeInv`. A
  chunk that is owed more than it has is always about to be scheduled, being
  loaded, at work, or held up by a neighbour (`Awake`). Around it: the edge that
  holds a chunk up says what its next step needs and the neighbour has not,
  or the neighbour's wakeup is on its way (`EdgesLive`); a scan that has met an
  unready neighbour has left an edge or met a failed one (`ScanHeld`); a holder's task
  stays known until its worker is through with it (`OwnerOK`); a failed holder
  has no edges (`FailedFree`); a loaded chunk is complete and nobody works for it
  (`NotifyOK`, `ReadyOK`); and a request for what its chunk has is left waiting only
  while a task is there whose end serves it (`Served`). One lemma per obligation
  and step says how it is handed on: a completion to the jobs it posts, a cancelled
  task to the reconciliation that follows, an edge to the notification that
  takes it away.
- `StopsOnlySettled`: when nothing is going on and no holder has failed, every
  chunk has what is due to it and every request is answered. Chunks do not wait
  in a circle: what a step waits for is below its status, and the neighbour owes
  it too, so the lowest of the chunks that are owed something has nobody to
  wait for.
- `PromisesKeptAtRest`: where tickets only rise and storage is readable, no holder
  fails, so this holds whenever the scheduler is at rest. It is the safety half
  of `RequestsAnswered` and `TicketsHonoured`; that it comes to rest is TLC's.

`ChunkLoadTicketsProofs` (`DistanceAssumption`, `TicketAssumption`: any board with a distance, levels,
tickets, players, view distances, and any number of calls):

- `TicketsCorrect`: the inductive invariant `TicketInv`, which joins the types,
  the tables (`TablesCorrect`), the coverage of demand (`DemandCorrect`) and
  `LevelsFollow`: a chunk whose level does not follow from its source and its
  neighbours is in the queue, or the pump is about to put it there.
- `NearestCorrect`: once the queue is empty every level is the distance from the
  nearest source. `LevelsFollow` makes every level locally right; a chunk whose
  level were wrong, taken with the least level, would have a neighbour that is
  wrong with a smaller one. The argument picks that counterexample by the least
  element of a set of naturals, because induction over an operator is out of reach.

`ChunkUnloadProofs` (`UnloadAssumption`, `NoRecordAssumption`: any number of holders, workers, moves, edits and calls):

- `UnloadCorrect`: the inductive invariant `UnloadInv`. Its parts beside the
  properties say where a load that has not ended is known (`LoadsKnown`) and what
  each save in flight has in hand (`Written`).
- `RemovalSafe`, `UnloadsAreSingle`, `LoadsCorrect`, `EditsSurvive`: the properties
  of the run `unload`.

`ReentrantAreaLockProofs` (`LockAssumption`: any threads, sections, areas and calls, nested ones
included):

- `LockCorrect`: the inductive invariant `LockInv`: the table and the nodes agree
  (`Ledger`), handles are apart (`HandlesApart`), no node is left over
  (`NothingStray`), and what a call in progress knows of its scan (`CallOK`, `ScanOK`).
- `LockImplementsAreaOwnership`: `Acquired` maps to `Acquire`, `Unlock` to `Release`,
  every other step to a stutter.
- `WokenExactlyOnce`: the invariant `WakeInv` adds to `LockInv` what a call may assume at
  each place (`WakeReady`) and that of a queue that has the thread, a thread that
  is to unpark it and its permit there is one while it parks, and none otherwise
  (`Once`).
- `LockRestsFree`: no deadlock. Where `Nesting = {}`, that is where a thread that holds
  an area asks for another only within it, as design point 3 of `ReentrantAreaLock.hpp`
  demands, nobody sleeps when nobody can go on by itself (`AtRest`), and the table is
  empty (`RestsOnlyFree`). Stage 3 of an unload does not keep to it, and with the
  constants of `ReentrantAreaLock_nested` TLC finds `RestsOnlyFree` violated, so the
  hypothesis is needed. `RestInv` adds to `LockInv` and `WakeInv` that a call which met another's node holds nothing (`Alone`), that nobody
  is in a queue that refuses to add (`Joinable`), that who sleeps on a permit is
  about to be notified (`Notified`), and `Ranked`: a node that somebody has met will be
  drained (`Due`), or refuses to add, or is that of a lock whose attempt began later
  (`Late`). The last case is what `allowAdds` makes possible, a queue joined after
  it was drained; the order of the attempts is in no variable, so the invariant
  says that one exists (`rank`), and a new attempt (`Retry`) is put last in it. At
  rest the sleeper whose attempt began last would wait for one that began later still.

`ChunkDeliveryProofs` (`DeliveryAssumption`: any players, any number of calls):

- `TypeCorrect`; `NoGhostCorrect`, inductive with the types: every way a copy
  appears checks `tracking`, every way out of `tracking` takes the copy with it.
- `UpToDateCorrect` needs `NoGhost`, since a flush reaches only who is tracked, and
  `AllSettled`: with no update waiting, every edit is settled.
- `TicketIsOwedCorrect` needs `SkipsKnown`, that a light task without a chunk is
  known of; `LitOnceCorrect` is inductive. Both rest on a lemma (`Quietly`) that
  every step but five leaves the light tasks where they are.

Out of the prover's reach and left to TLC: liveness (fairness, ENABLED), and with
it `AcceptedTasksEnd`, `ShutdownReturns`, `WaitReturns`, `RequestsAnswered`,
`TicketsHonoured`, `Settles`, `UnloadsEnd`, `RequestsEnd`, `LevelsArrive`,
`ParkedIsWoken` and `Delivered`. Every invariant and every action property of the
passing runs is a theorem, under the assumptions named above.

## 6. Plan

What is left, the most important first.

1. Composition: the pool inside `AreaTaskScheduler` is a `TaskPool` served in any
   order, as `UniversalWorkerPool` is one in detail; the area scheduler inside
   `ChunkTaskScheduler` refines `RegionTasks`.
2. The light queue: edits merged into `RuntimeLightTask`s against tasks that run.
3. World storage: pending saves against loads, flush and close; then
   connection, login and keep-alive.

## 7. Not modelled, and why

- The client, rendering, sound, user interface: output without a protocol of
  its own.
- Entities, world simulation, scoreboards, timers, container menus, the event
  bus: sequential game rules on the main thread, large in data and poor in
  interleavings; unit tests serve them well. They are most of the repository's
  lines.
- Terrain, biomes, structures and the light engine: numeric algorithms whose
  inputs are too large to enumerate.
- The pointer chasing of the lock-free containers: it depends on the memory order,
  which interleavings of atomic steps do not show. `ReentrantAreaLock` takes their
  operations at their linearization points.
- The database below world storage and the operating system's threads, mutexes
  and condition variables: external, modelled by how the code uses them.
