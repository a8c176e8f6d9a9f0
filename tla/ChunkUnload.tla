---------------------------- MODULE ChunkUnload ----------------------------
(***************************************************************************)
(* One chunk position from its first holder to the last: how              *)
(* ServerChunkManager loads, generates, saves and unloads the chunk and    *)
(* re-creates its holder, while tickets move, requests come, blocks are    *)
(* edited, and the chunks around use it or wait for it.                    *)
(*                                                                         *)
(* Threads: the main thread (tickets, requests, edits, saves, the queues   *)
(* it drains in tick), workers (jobs and tasks of the pool, scheduling of  *)
(* the chunks around) and the storage.  Workers change holders inside the  *)
(* scheduling area, which the main thread only ever tries to lock.         *)
(*                                                                         *)
(* An unload has three stages.  A holder that could go is a candidate in a *)
(* queue; stage 1 takes it from there and saves the chunk if it is dirty;  *)
(* stage 3, after the save, looks again whether anybody wants the chunk.   *)
(* Whoever changes what makes a holder a candidate looks whether it is     *)
(* one, and then stores the answer under the lock of the queue.  Mostly a  *)
(* worker does both under the mutex of the holder, so at once (Tell); the  *)
(* main thread, and a worker that counts references, do not (Ask, Store).  *)
(*                                                                         *)
(* What the main thread does within a tick may here come in any order and  *)
(* any number, as the drains have budgets.  Generation is one task, not a  *)
(* pyramid of them, and neither it nor the storage's reading fails: both   *)
(* are in ChunkTaskScheduler.  A chunk is a number, its last edit, 0 when  *)
(* fresh.  Left out: post-processing, tracking players, shutdown.          *)
(***************************************************************************)
EXTENDS Integers, Sequences, FiniteSets

CONSTANTS
    Workers,
    Main,           \* the main thread
    MaxHolders,     \* bound: holders made at the position
    MaxMoves,       \* bound: movements of the ticket level
    MaxCalls,       \* bound: requests and calls of chunks around
    MaxEdits,       \* bound: edits
    None

ASSUME UnloadAssumption ==
    /\ Main \notin Workers
    /\ MaxHolders \in Nat /\ MaxMoves \in Nat /\ MaxCalls \in Nat /\ MaxEdits \in Nat
    /\ None \notin Workers \cup Nat

Holders == 1 .. MaxHolders
Threads == Workers \cup {Main}

\* Up to Border, the generation halo, and out of reach of every ticket.
TicketLevels == {"near", "halo", "far"}

VARIABLES
    wanted,         \* the level of the position in the distance graph
    deferred,       \* m_deferredTicketLevels holds the position
    holder,         \* the one in m_lifecycleManagers, or None
    made,           \* how many there have been
    level,          \* of each holder: m_level
    state,          \* its source and chunk: "new", "resolving", "missing", "done"
    asked,          \* whether m_waiters is not empty
    waiting,        \* whether m_waitingNeighbours is not empty
    refs,           \* m_neighboursUsingThisChunk
    task,           \* m_generationTask: "none", "queued", "revoked" (told to stop), "running"
    reading,        \* the tasks of chunks around that read the chunk
    jobs,           \* the manager's jobs in the pool
    work,           \* per worker: the holder whose chunk it generates, or None
    published,      \* per worker: whether that chunk is in m_chunks already
    lock,           \* the worker inside the scheduling area, or None
    check,          \* per thread: an answer not yet stored
    queued,         \* m_inUnloadQueue holds the position
    armed,          \* m_idleHaloReclaimArmed
    unloading,      \* m_unloadSaveInProgress holds the position
    saving,         \* the chunks stage 1 has handed to the storage
    finish,         \* m_pendingUnloadFinishes
    cooldown,       \* m_unloadCooldownChunks holds the position
    coolTicket,     \* an UNLOAD_COOLDOWN ticket is registered
    chunk,          \* in m_chunks: last edit, dirty, whose it is; or None
    disk,           \* the stored chunk, or None
    load,           \* the entry of m_pendingLoadTasks, or None
    autosaving,     \* the main thread is in saveDirtyChunks
    batch,          \* what saveDirtyChunks has gathered of this position
    latest,         \* the last edit ever made (no code: for the properties)
    excused,        \* the code has lost an edit in a way it is known to (no code)
    moves, calls

holderVars == <<holder, made, level, state, asked, waiting, refs, task>>
poolVars == <<reading, jobs, work, published>>
candidateVars == <<lock, check, queued>>
unloadVars == <<armed, unloading, saving, finish, cooldown, coolTicket>>
dataVars == <<chunk, disk, load, autosaving, batch, latest, excused>>
vars == <<wanted, deferred, holderVars, poolVars, candidateVars, unloadVars, dataVars, moves, calls>>

-----------------------------------------------------------------------------
(* The records.                                                            *)

Chunk(content, dirty, of) == [content |-> content, dirty |-> dirty, of |-> of]
Load(owner, attached, read, content) == [owner |-> owner, attached |-> attached, read |-> read, content |-> content]
Job(kind, h) == [kind |-> kind, of |-> h]

ASSUME NoRecordAssumption ==
    /\ \A c \in 0 .. MaxEdits + 1, d \in BOOLEAN, h \in Holders : Chunk(c, d, h) # None
    /\ \A o \in Holders, a \in SUBSET Holders, r \in BOOLEAN, c \in (0 .. MaxEdits + 1) \cup {None} :
           Load(o, a, r, c) # None

-----------------------------------------------------------------------------
(* Candidates.                                                             *)

Suppressed(h) == cooldown \/ level[h] = "near" \/ (level[h] = "halo" /\ ~armed)

SafeToUnload(h) == refs[h] = 0 /\ task[h] = "none" /\ ~waiting[h] /\ ~asked[h]

CandidateAgain(h) == ~Suppressed(h) /\ SafeToUnload(h)
Candidate(h) == ~Suppressed(h) /\ SafeToUnload(h) /\ ~unloading

(* The two halves of _updateUnloadCandidate after the other changes of an  *)
(* action by t, h being the holder meant before them (so it is bound).     *)
Ask(t, h) == \E g \in {h} : check' = [check EXCEPT ![t] = IF Candidate(g)' THEN "yes" ELSE "no"]

Store(t) ==
    /\ check[t] # "none"
    /\ queued' = (check[t] = "yes")
    /\ check' = [check EXCEPT ![t] = "none"]
    /\ UNCHANGED <<wanted, deferred, holderVars, poolVars, lock, unloadVars, dataVars, moves, calls>>

\* Both under the mutex of the holder: whoever has to look at it waits.
Tell(h) == \E g \in {h} : queued' = Candidate(g)'

MainFree == check[Main] = "none" /\ ~autosaving

-----------------------------------------------------------------------------
(* Holders and how they advance.                                           *)

\* _getOrCreateLifecycleManager: h is the holder, made if there is none.
Present(h, levels) ==
    /\ h = IF holder = None THEN made + 1 ELSE holder
    /\ h \in Holders
    /\ holder' = h
    /\ made' = IF holder = None THEN h ELSE made
    /\ level' = IF holder = None THEN [levels EXCEPT ![h] = wanted'] ELSE levels

Demanded(h) == level[h] = "near" \/ asked[h] \/ waiting[h]

\* A load in flight is joined.
Resolve(h) ==
    /\ state' = [state EXCEPT ![h] = "resolving"]
    /\ load' = IF load = None THEN Load(h, {}, FALSE, None)
                              ELSE Load(load.owner, load.attached \cup {h}, load.read, load.content)

\* prepareGeneration and _advanceChunkState of a demanded h
Advance(h) ==
    IF state[h] = "new"
    THEN Resolve(h) /\ UNCHANGED jobs
    ELSE /\ jobs' = IF state[h] = "missing" /\ task[h] = "none" THEN jobs \cup {Job("schedule", h)} ELSE jobs
         /\ UNCHANGED <<state, load>>

NoAdvance == UNCHANGED <<state, load, jobs>>

\* A task that has not started is told to stop when nothing is demanded.
Revoke(h, demanded) ==
    task' = IF task[h] = "queued" /\ ~demanded THEN [task EXCEPT ![h] = "revoked"] ELSE task

-----------------------------------------------------------------------------
(* The main thread: tickets, requests, edits, saves.                       *)

\* The area is held: the level is taken in later.
PutOffNew == deferred' = (holder = None)
PutOff == deferred' = TRUE

\* _onTicketLevelChanged with the level the graph has now.
LevelChanged ==
    \/ /\ holder = None /\ wanted' # "near"
       /\ deferred' = FALSE
       /\ UNCHANGED <<holder, made, level, task, cooldown, check>> /\ NoAdvance
    \/ /\ holder # None \/ wanted' = "near"
       /\ lock # None
       /\ PutOff
       /\ \E h \in Holders : Present(h, level)
       /\ UNCHANGED <<task, cooldown, check>> /\ NoAdvance
    \/ /\ holder # None \/ wanted' = "near"
       /\ lock = None
       /\ deferred' = FALSE
       /\ \E h \in Holders :
             /\ Present(h, [level EXCEPT ![h] = wanted'])
             /\ Revoke(h, wanted' = "near" \/ asked[h] \/ waiting[h])
             /\ IF wanted' = "near" THEN Advance(h) ELSE NoAdvance
             /\ cooldown' = (cooldown \/ coolTicket)
             /\ UNCHANGED <<waiting, asked, refs, armed, unloading>>
             /\ Ask(Main, h)

\* The graph has a new level for the position.
MoveLevel ==
    /\ MainFree
    /\ moves < MaxMoves /\ moves' = moves + 1
    /\ wanted' \in TicketLevels \ {wanted}
    /\ coolTicket => wanted' # "far"
    /\ LevelChanged
    /\ UNCHANGED <<asked, waiting, refs, reading, work, published, lock, queued, armed, unloading, saving, finish,
                   coolTicket, chunk, disk, autosaving, batch, latest, excused, calls>>

DrainDeferred ==
    /\ MainFree
    /\ deferred
    /\ UNCHANGED wanted
    /\ LevelChanged
    /\ UNCHANGED <<asked, waiting, refs, reading, work, published, lock, queued, armed, unloading, saving, finish,
                   coolTicket, chunk, disk, autosaving, batch, latest, excused, moves, calls>>

\* _submitChunkRequest; a chunk in memory is handed over at once.
Request ==
    /\ MainFree
    /\ chunk = None
    /\ calls < MaxCalls /\ calls' = calls + 1
    /\ UNCHANGED wanted
    /\ \E h \in Holders :
          /\ Present(h, level)
          /\ asked' = [asked EXCEPT ![h] = TRUE]
          /\ Advance(h)
    /\ UNCHANGED <<deferred, waiting, refs, task, reading, work, published, candidateVars, unloadVars,
                   chunk, disk, autosaving, batch, latest, excused, moves>>

\* An edit while the chunk is being unloaded may be lost.
EditedClean == Chunk(latest + 1, chunk.dirty, chunk.of)
Edited == Chunk(latest + 1, TRUE, chunk.of)

Edit ==
    /\ MainFree
    /\ chunk # None
    /\ latest < MaxEdits + 1
    /\ latest' = latest + 1
    /\ chunk' = Edited
    /\ excused' = (excused \/ unloading)
    /\ UNCHANGED <<wanted, deferred, holderVars, poolVars, candidateVars, unloadVars,
                   disk, load, autosaving, batch, moves, calls>>

(* saveDirtyChunks gathers the dirty chunks, writes them, and then marks   *)
(* clean whatever is dirty by that time; after a failure, nothing.         *)
GatherDirty ==
    /\ MainFree
    /\ autosaving' = TRUE
    /\ batch' = IF chunk # None /\ chunk.dirty THEN {chunk.content} ELSE {}
    /\ UNCHANGED <<wanted, deferred, holderVars, poolVars, candidateVars, unloadVars,
                   chunk, disk, load, latest, excused, moves, calls>>

Clean == Chunk(chunk.content, FALSE, chunk.of)

SaveGathered(ok) ==
    /\ autosaving
    /\ autosaving' = FALSE
    /\ batch' = {}
    /\ IF ok
       THEN /\ disk' = IF batch # {} THEN CHOOSE c \in batch : TRUE ELSE disk
            /\ chunk' = IF chunk # None THEN Clean ELSE None
       ELSE UNCHANGED <<disk, chunk>>
    /\ UNCHANGED <<wanted, deferred, holderVars, poolVars, candidateVars, unloadVars, load, latest, excused, moves, calls>>

-----------------------------------------------------------------------------
(* Loads.                                                                  *)

\* The storage reads.
Read ==
    /\ load # None /\ ~load.read
    /\ load' = Load(load.owner, load.attached, TRUE, disk)
    /\ UNCHANGED <<wanted, deferred, holderVars, poolVars, candidateVars, unloadVars,
                   chunk, disk, autosaving, batch, latest, excused, moves, calls>>

LoadedHere == load # None /\ load.read /\ MainFree

\* _onChunkLoadComplete of a stored chunk whose owner is still the holder
LoadHit ==
    /\ LoadedHere /\ load.owner = holder
    /\ load.content # None
    /\ chunk' = Chunk(load.content, FALSE, holder)
    /\ state' = [state EXCEPT ![holder] = "done"]
    /\ asked' = [asked EXCEPT ![holder] = FALSE]
    /\ jobs' = jobs \cup {Job("notify", holder)}
    /\ load' = None
    /\ UNCHANGED <<holder, level, waiting, refs, task, armed, unloading, cooldown>>
    /\ Tell(holder)
    /\ UNCHANGED <<wanted, deferred, made, reading, work, published, lock, check,
                   saving, finish, coolTicket, disk, autosaving, batch, latest, excused, moves, calls>>

\* The holder that is told there is nothing: the owner of a load without a
\* record, or, whatever was read, the one attached to a load whose owner is gone.
MissingForOwner == IF load.owner = holder /\ load.content = None THEN {holder} ELSE {}
MissingFor == IF load.owner = holder /\ load.content # None THEN {} ELSE {holder} \cap (load.attached \cup {load.owner})

LoadMissing ==
    /\ LoadedHere
    /\ ~(load.owner = holder /\ load.content # None)
    /\ state' = [h \in Holders |-> IF h \in MissingFor THEN "missing" ELSE state[h]]
    /\ jobs' = jobs \cup {Job("schedule", h) : h \in {m \in MissingFor : Demanded(m) /\ task[m] = "none"}}
    /\ load' = None
    /\ excused' = (excused \/ (MissingFor # {} /\ disk # None))
    /\ UNCHANGED <<wanted, deferred, holder, made, level, asked, waiting, refs, task, reading, work, published,
                   candidateVars, unloadVars, chunk, disk, autosaving, batch, latest, moves, calls>>

-----------------------------------------------------------------------------
(* Workers, inside the scheduling area.                                    *)

Enter(w) == lock = None /\ check[w] = "none" /\ work[w] = None /\ lock' = w

Leave(w) ==
    /\ lock = w /\ check[w] = "none"
    /\ lock' = None
    /\ UNCHANGED <<wanted, deferred, holderVars, poolVars, check, queued, unloadVars, dataVars, moves, calls>>

\* A task of a chunk around takes a reference of the chunk, which is there.
Use(w, h) ==
    /\ Enter(w)
    /\ calls < MaxCalls /\ calls' = calls + 1
    /\ holder = h /\ state[h] = "done"
    /\ refs' = [refs EXCEPT ![h] = @ + 1]
    /\ reading' = reading + 1
    /\ UNCHANGED <<holder, made, level, state, asked, waiting, task, armed, unloading, cooldown>>
    /\ IF refs[h] = 0 THEN Ask(w, h) ELSE UNCHANGED check
    /\ UNCHANGED <<wanted, deferred, jobs, work, published, queued, saving, finish, coolTicket, dataVars, moves>>

\* Such a task ends: releaseNeighbourRefCounts, which looks the holder up.
Release(w) ==
    /\ Enter(w)
    /\ reading > 0
    /\ reading' = reading - 1
    /\ refs' = IF holder = None THEN refs ELSE [refs EXCEPT ![holder] = @ - 1]
    /\ UNCHANGED <<holder, made, level, state, asked, waiting, task, armed, unloading, cooldown>>
    /\ IF holder # None /\ refs[holder] = 1 THEN Ask(w, holder) ELSE UNCHANGED check
    /\ UNCHANGED <<wanted, deferred, jobs, work, published, queued, saving, finish, coolTicket, dataVars, moves, calls>>

\* A chunk around needs the chunk, waits for it and sees to it (checkNeighbour).
AwaitIt(w, h) ==
    /\ Enter(w)
    /\ calls < MaxCalls /\ calls' = calls + 1
    /\ UNCHANGED wanted
    /\ Present(h, level)
    /\ state[h] # "done"
    /\ waiting' = [waiting EXCEPT ![h] = TRUE]
    /\ IF state[h] = "new" THEN Resolve(h) ELSE UNCHANGED <<state, load>>
    /\ task' = IF state[h] = "missing" /\ task[h] = "none" THEN [task EXCEPT ![h] = "queued"] ELSE task
    /\ UNCHANGED <<asked, refs, armed, unloading, cooldown>>
    /\ Tell(h)
    /\ UNCHANGED <<deferred, reading, jobs, work, published, check, saving, finish, coolTicket,
                   chunk, disk, autosaving, batch, latest, excused, moves>>

\* It no longer does (reconcileGenerationDemand).
Forgo(w) ==
    /\ Enter(w)
    /\ holder # None
    /\ waiting[holder]
    /\ waiting' = [waiting EXCEPT ![holder] = FALSE]
    /\ Revoke(holder, level[holder] = "near" \/ asked[holder])
    /\ UNCHANGED <<holder, level, asked, refs, armed, unloading, cooldown>>
    /\ Tell(holder)
    /\ UNCHANGED <<wanted, deferred, made, state, poolVars, check, saving, finish, coolTicket, dataVars, moves, calls>>

\* The job of _scheduleGeneration; a holder that has been replaced is left alone.
Schedulable(h) == h = holder /\ state[h] = "missing" /\ task[h] = "none" /\ Demanded(h)

ScheduleJob(w, h) ==
    /\ Enter(w)
    /\ Job("schedule", h) \in jobs
    /\ jobs' = jobs \ {Job("schedule", h)}
    /\ task' = IF Schedulable(h) THEN [task EXCEPT ![h] = "queued"] ELSE task
    /\ UNCHANGED <<holder, level, waiting, asked, refs, armed, unloading, cooldown>>
    /\ IF Schedulable(h) THEN Tell(h) ELSE UNCHANGED queued
    /\ UNCHANGED <<wanted, deferred, made, state, reading, work, published, check,
                   saving, finish, coolTicket, dataVars, moves, calls>>

\* The job of _notifyStorageReady
NotifyJob(w, h) ==
    /\ Enter(w)
    /\ Job("notify", h) \in jobs
    /\ jobs' = jobs \ {Job("notify", h)}
    /\ waiting' = IF h = holder THEN [waiting EXCEPT ![h] = FALSE] ELSE waiting
    /\ UNCHANGED <<holder, level, asked, refs, task, armed, unloading, cooldown>>
    /\ IF h = holder /\ waiting[h] THEN Tell(h) ELSE UNCHANGED queued
    /\ UNCHANGED <<wanted, deferred, made, state, reading, work, published, check,
                   saving, finish, coolTicket, dataVars, moves, calls>>

\* The executor has dropped a task told to stop; demanded again, it is made again.
CancelTask(w, h) ==
    /\ Enter(w)
    /\ task[h] = "revoked"
    /\ task' = [task EXCEPT ![h] = IF Demanded(h) THEN "queued" ELSE "none"]
    /\ UNCHANGED <<holder, level, waiting, asked, refs, armed, unloading, cooldown>>
    /\ Tell(h)
    /\ UNCHANGED <<wanted, deferred, made, state, poolVars, check, saving, finish, coolTicket, dataVars, moves, calls>>

-----------------------------------------------------------------------------
(* Generation.                                                             *)

Start(w, h) ==
    /\ lock = None /\ work[w] = None /\ check[w] = "none"
    /\ task[h] = "queued"
    /\ task' = [task EXCEPT ![h] = "running"]
    /\ work' = [work EXCEPT ![w] = h]
    /\ published' = [published EXCEPT ![w] = FALSE]
    /\ UNCHANGED <<wanted, deferred, holder, made, level, state, asked, waiting, refs, reading, jobs,
                   candidateVars, unloadVars, dataVars, moves, calls>>

\* _finalizeGeneratedChunkSync, outside the area: the chunk goes to its
\* position, its holder is told if it is still the one there.
Publish(w, h) ==
    /\ work[w] = h /\ ~published[w]
    /\ published' = [published EXCEPT ![w] = TRUE]
    /\ chunk' = IF chunk # None /\ chunk.of = h THEN chunk ELSE Chunk(0, TRUE, h)
    /\ excused' = (excused \/ h # holder)
    /\ state' = IF h = holder THEN [state EXCEPT ![h] = "done"] ELSE state
    /\ asked' = IF h = holder THEN [asked EXCEPT ![h] = FALSE] ELSE asked
    /\ UNCHANGED <<holder, level, waiting, refs, task, armed, unloading, cooldown>>
    /\ IF h = holder THEN Tell(h) ELSE UNCHANGED queued
    /\ UNCHANGED <<wanted, deferred, made, reading, jobs, work, lock, check, saving, finish, coolTicket,
                   disk, load, autosaving, batch, latest, moves, calls>>

\* onChunkGenComplete; a task cleared meanwhile has nothing to tell.
Complete(w, h) ==
    /\ work[w] = h /\ published[w]
    /\ lock = None /\ lock' = w
    /\ work' = [work EXCEPT ![w] = None]
    /\ task' = [task EXCEPT ![h] = "none"]
    /\ waiting' = IF task[h] # "none" THEN [waiting EXCEPT ![h] = FALSE] ELSE waiting
    /\ UNCHANGED <<holder, level, asked, refs, armed, unloading, cooldown>>
    /\ IF task[h] # "none" THEN Tell(h) ELSE UNCHANGED queued
    /\ UNCHANGED <<wanted, deferred, made, state, reading, jobs, published, check,
                   saving, finish, coolTicket, dataVars, moves, calls>>

-----------------------------------------------------------------------------
(* The main thread: unloading.                                             *)

\* The head of _processChunkUnloads: generation is idle, or not.  When it
\* becomes so, the halo is looked through.
Arm(idle) ==
    /\ MainFree
    /\ idle # armed
    /\ idle => finish = <<>> /\ ~(load # None /\ load.read)
    /\ armed' = idle
    /\ UNCHANGED <<holderVars, unloading, cooldown>>
    /\ IF idle /\ holder # None /\ level[holder] = "halo" THEN Ask(Main, holder) ELSE UNCHANGED check
    /\ UNCHANGED <<wanted, deferred, poolVars, lock, queued, saving, finish, coolTicket, dataVars, moves, calls>>

\* What stage 1 hands to the storage.
ToSave == chunk # None /\ chunk.dirty

\* _tryPopUnloadCandidate, the second look, and stage 1 (unloadChunkSync)
PopCandidate ==
    /\ MainFree
    /\ queued
    /\ queued' = FALSE
    /\ IF holder # None /\ Candidate(holder) /\ ~deferred
       THEN /\ unloading' = TRUE
            /\ IF ToSave
               THEN /\ saving' = Append(saving, [content |-> chunk.content, of |-> holder])
                    /\ chunk' = Clean
                    /\ UNCHANGED finish
               ELSE finish' = Append(finish, holder) /\ UNCHANGED <<saving, chunk>>
       ELSE UNCHANGED <<unloading, saving, finish, chunk>>
    /\ UNCHANGED <<wanted, deferred, holderVars, poolVars, lock, check, armed, cooldown, coolTicket,
                   disk, load, autosaving, batch, latest, excused, moves, calls>>

\* Stage 2: the storage has saved, or failed to, and calls back.
Saved(ok) ==
    /\ saving # <<>>
    /\ saving' = Tail(saving)
    /\ disk' = IF ok THEN Head(saving).content ELSE disk
    /\ finish' = Append(finish, Head(saving).of)
    /\ excused' = (excused \/ ~ok)
    /\ UNCHANGED <<wanted, deferred, holderVars, poolVars, candidateVars, armed, unloading, cooldown, coolTicket,
                   chunk, load, autosaving, batch, latest, moves, calls>>

\* Stage 3 (_finalizeUnloadAfterSave) of h; put off while a level is deferred.
Finishing(h) == MainFree /\ finish # <<>> /\ h = Head(finish) /\ ~deferred
EndFinishKept == finish' = Tail(finish) /\ UNCHANGED unloading
EndFinish == finish' = Tail(finish) /\ unloading' = FALSE

\* The chunk is wanted again.
AbortUnload(h) ==
    /\ Finishing(h)
    /\ Suppressed(h)
    /\ EndFinish
    /\ UNCHANGED <<wanted, deferred, holderVars, poolVars, candidateVars, armed, saving, cooldown, coolTicket,
                   dataVars, moves, calls>>

\* cancelGeneration and cancelActiveWork, whatever the holder does.  A chunk
\* around that waited is scheduled again at once and may be back.
CancelWork(h, back) ==
    /\ back => waiting[h]
    /\ waiting' = [waiting EXCEPT ![h] = back /\ state[h] # "done"]
    /\ task' = [task EXCEPT ![h] = "none"]
    /\ asked' = [asked EXCEPT ![h] = FALSE]
    /\ refs' = IF back /\ state[h] = "done" THEN [refs EXCEPT ![h] = @ + 1] ELSE refs
    /\ reading' = IF back /\ state[h] = "done" THEN reading + 1 ELSE reading

InUseWaiting(h) == waiting'[h]
InUse(h) == refs'[h] > 0 \/ waiting'[h]

\* Still used: it is kept for the time of a ticket.
CoolDown(h, back) ==
    /\ Finishing(h)
    /\ ~Suppressed(h)
    /\ lock = None
    /\ CancelWork(h, back)
    /\ InUse(h)
    /\ EndFinish
    /\ queued' = FALSE
    /\ cooldown' = TRUE
    /\ coolTicket' = TRUE
    /\ UNCHANGED <<wanted, deferred, holder, made, level, state, jobs, work, published, lock, check,
                   armed, saving, dataVars, moves, calls>>

\* It goes.
Remove(h) ==
    /\ Finishing(h)
    /\ ~Suppressed(h)
    /\ lock = None
    /\ CancelWork(h, FALSE)
    /\ ~InUse(h)
    /\ EndFinish
    /\ queued' = FALSE
    /\ holder' = IF holder = h THEN None ELSE holder
    /\ chunk' = None
    /\ load' = IF load = None THEN None ELSE Load(load.owner, load.attached \ {h}, load.read, load.content)
    /\ UNCHANGED <<wanted, deferred, made, level, state, jobs, work, published, lock, check,
                   armed, saving, cooldown, coolTicket, disk, autosaving, batch, latest, excused, moves, calls>>

\* The ticket has run out; _expireUnloadCooldowns.
CoolEnds ==
    /\ MainFree
    /\ cooldown
    /\ coolTicket' = FALSE
    /\ cooldown' = FALSE
    /\ UNCHANGED <<holderVars, armed, unloading>>
    /\ IF holder # None THEN Ask(Main, holder) ELSE UNCHANGED check
    /\ UNCHANGED <<wanted, deferred, poolVars, lock, queued, saving, finish, dataVars, moves, calls>>

-----------------------------------------------------------------------------
Init ==
    /\ wanted = "far" /\ deferred = FALSE
    /\ holder = None /\ made = 0
    /\ level = [h \in Holders |-> "far"]
    /\ state = [h \in Holders |-> "new"]
    /\ asked = [h \in Holders |-> FALSE]
    /\ waiting = [h \in Holders |-> FALSE]
    /\ refs = [h \in Holders |-> 0]
    /\ task = [h \in Holders |-> "none"]
    /\ reading = 0 /\ jobs = {}
    /\ work = [w \in Workers |-> None]
    /\ published = [w \in Workers |-> FALSE]
    /\ lock = None
    /\ check = [t \in Threads |-> "none"]
    /\ queued = FALSE
    /\ armed = FALSE /\ unloading = FALSE
    /\ saving = <<>> /\ finish = <<>>
    /\ cooldown = FALSE /\ coolTicket = FALSE
    /\ chunk = None
    /\ disk \in {None, 1}
    /\ load = None
    /\ autosaving = FALSE /\ batch = {}
    /\ latest = (IF disk = None THEN 0 ELSE 1)
    /\ excused = FALSE
    /\ moves = 0 /\ calls = 0

Finish == \E h \in Holders :
    AbortUnload(h) \/ Remove(h) \/ \E back \in BOOLEAN : CoolDown(h, back)

MainStep ==
    \/ MoveLevel \/ Request \/ Edit \/ GatherDirty
    \/ \E ok \in BOOLEAN : SaveGathered(ok)
    \/ DrainDeferred \/ LoadHit \/ LoadMissing
    \/ PopCandidate \/ Finish \/ CoolEnds
    \/ \E idle \in BOOLEAN : Arm(idle)

Storage == Read \/ \E ok \in BOOLEAN : Saved(ok)

PoolStep(w) ==
    \/ \E h \in Holders :
          ScheduleJob(w, h) \/ NotifyJob(w, h) \/ CancelTask(w, h) \/ Start(w, h) \/ Publish(w, h) \/ Complete(w, h)
    \/ Leave(w)

Around(w) == Release(w) \/ Forgo(w) \/ \E h \in Holders : Use(w, h) \/ AwaitIt(w, h)

Next ==
    \/ MainStep \/ Storage
    \/ \E t \in Threads : Store(t)
    \/ \E w \in Workers : PoolStep(w) \/ Around(w)

(* Every tick tries every queue, and is not unlucky for ever in finding    *)
(* the area held; the storage answers, workers go on with what the pool    *)
(* holds, and neither a save nor storing an answer takes for ever.         *)
Fairness ==
    /\ SF_vars(DrainDeferred)
    /\ SF_vars(LoadHit) /\ SF_vars(LoadMissing)
    /\ SF_vars(Finish)
    /\ WF_vars(Storage)
    /\ WF_vars(\E ok \in BOOLEAN : SaveGathered(ok))
    /\ \A t \in Threads : WF_vars(Store(t))
    /\ \A w \in Workers : WF_vars(PoolStep(w))

Spec == Init /\ [][Next]_vars /\ Fairness
=============================================================================
