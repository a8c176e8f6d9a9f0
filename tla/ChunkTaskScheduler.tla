------------------------ MODULE ChunkTaskScheduler ------------------------
(***************************************************************************)
(* Stepwise chunk generation: the holders (SingleChunkLifecycleManager),   *)
(* the scheduler that drives them (ChunkTaskScheduler, ChunkProgression-   *)
(* Task) and the part of ServerChunkManager that feeds them with requests, *)
(* tickets and results of loading.                                         *)
(*                                                                         *)
(* A chunk climbs from status 0 (EMPTY) to Top (FULL) one task at a time;  *)
(* status -1 is a holder without a chunk.  A step to s needs neighbours at *)
(* some lower status: those that are not there are asked to climb and the  *)
(* centre waits on a pair of edges, blocking/waiting.  The demand on a     *)
(* chunk is the highest of its ticket, its requests and the edges.         *)
(*                                                                         *)
(* The main thread requests chunks, moves tickets and receives loads; the  *)
(* workers run what it posts and the tasks.  One action is one critical    *)
(* section, or the code between two; what a worker has still to do is its  *)
(* stack of frames.  The scheduling area lock is one lock here: the chunks *)
(* modelled lie within its radius of each other.  A worker holds it over   *)
(* several actions only while it schedules.                                *)
(*                                                                         *)
(* Left out: unloading, shutdown, running without a pool or storage.       *)
(* A definition named like the one after it with a suffix is a slip of     *)
(* that code which the properties must notice; nothing uses it.            *)
(***************************************************************************)
EXTENDS Integers, Sequences, FiniteSets, FiniteSetsExt

CONSTANTS
    Chunks,
    Top,        \* FULL
    Border,     \* a ticket for this status or more prepares the chunk (MAX_LOADED_LEVEL)
    Required,   \* Required[s][c, n]: the status of n that the step of c to s reads, or -1
    Area,       \* Area[s][c]: the chunks that the step of c to s may write
    Requests,   \* the calls of requestChunkAsync ever made
    Wanted,     \* Wanted[r]: chunk and status
    Path,       \* Path[c]: the statuses the ticket of c asks for, one after the other
    Outcomes,   \* what loading may find: "hit", "missing", "unreadable"
    Workers,
    None

Statuses == 0 .. Top

ASSUME ChunkAssumption ==
    /\ Top \in Nat \ {0} /\ Border \in Statuses
    /\ Required \in [1 .. Top -> [Chunks \X Chunks -> {-1} \cup 1 .. Top - 1]]
    /\ \A s \in 1 .. Top, c, n \in Chunks : Required[s][c, n] < s
    /\ Area \in [Statuses -> [Chunks -> SUBSET Chunks]]
    /\ \A s \in Statuses, c \in Chunks : c \in Area[s][c]
    /\ Wanted \in [Requests -> [chunk : Chunks, status : 1 .. Top]]
    /\ Path \in [Chunks -> Seq({-1} \cup Statuses)]
    /\ Outcomes \subseteq {"hit", "missing", "unreadable"}
    /\ None \notin [chunk : Chunks, to : Statuses, id : Nat]

VARIABLES
    moves,      \* how far each chunk's ticket has moved along its path
    asked,      \* per request: "new", "waiting", "answered" or "failed" (answered with null)
    status, source, failed, task,   \* of each holder; task is its generation task or None
    blocking,   \* blocking[c]: the neighbours c waits for
    waiting,    \* waiting[n][c]: the status c waits for n to reach, or -1
    using,      \* m_neighboursUsingThisChunk
    tasks,      \* progression tasks in the area scheduler, in the order of submission
    cut,        \* tasks whose abort token is raised
    started,    \* tasks past the check at the head of execute
    jobs,       \* how often each job is posted to the pool
    stack       \* what each worker has still to do

holderVars == <<status, source, failed, task>>
edgeVars == <<blocking, waiting>>
taskVars == <<tasks, cut, started, using>>
vars == <<moves, asked, holderVars, edgeVars, taskVars, jobs, stack>>

Jobs == {"schedule", "reconcile", "notify"} \X Chunks

-----------------------------------------------------------------------------
(* Demand.                                                                 *)

TicketAfter(c, n) == IF n = 0 THEN -1 ELSE Path[c][n]
Ticket(c) == TicketAfter(c, moves[c])
Waiters(c) == {r \in Requests : asked[r] = "waiting" /\ Wanted[r].chunk = c}

\* _refreshGenerationTargetLocked
Highest(ticket, waiters, edges) ==
    Max({ticket} \cup {Wanted[r].status : r \in waiters} \cup {edges[m] : m \in Chunks})
Target(c) == Highest(Ticket(c), Waiters(c), waiting[c])

Reached(c) == status[c] >= Target(c)
Satisfied(c, waiters, level) == {r \in waiters : level >= Wanted[r].status}
Loading(c) == source[c] = "resolving" /\ ~failed[c]

\* The task that falling demand takes back: only one that has not started.
CuttableStarted(c) == {task[c]} \ {None}
Cuttable(c) == {task[c]} \ ({None} \cup started)

Tell(rs, how) == [r \in Requests |-> IF r \in rs THEN how ELSE asked[r]]
Post(js) == jobs' = [j \in Jobs |-> jobs[j] + IF j \in js THEN 1 ELSE 0]

-----------------------------------------------------------------------------
(* Frames of a worker.                                                     *)

At(w, place) == stack[w] # <<>> /\ Head(stack[w]).at = place
Doing(w) == Head(stack[w])
Below(w) == Tail(stack[w])
Idle(w) == stack[w] = <<>>
Become(w, frames) == stack' = [stack EXCEPT ![w] = frames]

ForTask(place, t) == [at |-> place, task |-> t]
Scheduling(c) == [at |-> "schedule", chunk |-> c]
Scanning(c, to, left, unready) ==
    [at |-> "scan", chunk |-> c, to |-> to, left |-> left, unready |-> unready]
Failing(t, seen) == [at |-> "failing", task |-> t, seen |-> seen]

\* Work through a set of chunks, then go on below.
Through(place, left, below) ==
    IF left = {} THEN below ELSE <<[at |-> place, left |-> left]>> \o below

\* The scheduling lock is held between actions only by a worker in schedule().
Locked == \E w \in Workers : At(w, "schedule") \/ At(w, "scan")

-----------------------------------------------------------------------------
(* Edges and references.                                                   *)

Reads(c, s) == IF s = 0 THEN {} ELSE {n \in Chunks \ {c} : Required[s][c, n] # -1}

\* A task holds a reference to every neighbour it reads.
Count(S, by) == using' = [n \in Chunks |-> using[n] + IF n \in S THEN by ELSE 0]
Acquire(t) == Count(Reads(t.chunk, t.to), 1)
ReleaseOfNextStep(t) == Count(Reads(t.chunk, IF t.to < Top THEN t.to + 1 ELSE Top), -1)
Release(t) == Count(Reads(t.chunk, t.to), -1)

\* notifyWaitingNeighbours: the waiters that level satisfies lose their edge to c ...
FreedStrictly(c, level) == {m \in Chunks : waiting[c][m] \in 0 .. level - 1}
Freed(c, level) == {m \in Chunks : waiting[c][m] \in 0 .. level}
Unblock(c, ms) ==
    /\ blocking' = [m \in Chunks |-> IF m \in ms THEN blocking[m] \ {c} ELSE blocking[m]]
    /\ waiting' = [waiting EXCEPT ![c] = [m \in Chunks |-> IF m \in ms THEN -1 ELSE @[m]]]
\* ... and those it was the last neighbour of are scheduled again.
Woken(c, level) == {m \in Freed(c, level) : blocking[m] \ {c} = {}}

\* clearAllDependencyEdges
ClearEdgesOneWay(c) ==
    /\ blocking' = [blocking EXCEPT ![c] = {}]
    /\ waiting' = [n \in Chunks |->
            [m \in Chunks |-> IF n = c \/ (m = c /\ n \in blocking[c]) THEN -1 ELSE waiting[n][m]]]
ClearEdges(c) ==
    /\ blocking' = [m \in Chunks |->
            IF m = c THEN {} ELSE IF waiting[c][m] # -1 THEN blocking[m] \ {c} ELSE blocking[m]]
    /\ waiting' = [n \in Chunks |->
            [m \in Chunks |-> IF n = c \/ (m = c /\ n \in blocking[c]) THEN -1 ELSE waiting[n][m]]]

\* markFailed, clearGenerationTask, _releaseDependencyEdgesOnFailure, _failWaiters
Abandon(c) ==
    /\ failed' = [failed EXCEPT ![c] = TRUE]
    /\ task' = [task EXCEPT ![c] = None]
    /\ ClearEdges(c)
    /\ asked' = Tell(Waiters(c), "failed")

-----------------------------------------------------------------------------
(* The main thread.                                                        *)

\* prepareGeneration and _advanceChunkState, with the requests and the target given.
Advance(c, asks, waiters, target) ==
    LET ready == IF target # -1 /\ (task[c] = None \/ source[c] = "ready")
                 THEN Satisfied(c, waiters, status[c]) ELSE {}
    IN  /\ asked' = [r \in Requests |-> IF r \in ready THEN "answered" ELSE asks[r]]
        /\ source' = IF target # -1 /\ source[c] = "unknown"
                     THEN [source EXCEPT ![c] = "resolving"] ELSE source
MustScheduleFresh(c, target) == source[c] = "missing" /\ task[c] = None /\ status[c] = -1
MustSchedule(c, target) == source[c] = "missing" /\ task[c] = None /\ status[c] < target

\* _submitChunkRequest
RequestChunk(r) ==
    LET c == Wanted[r].chunk
        waiters == Waiters(c) \cup {r}
        target == Highest(Ticket(c), waiters, waiting[c])
    IN  /\ asked[r] = "new"
        /\ IF source[c] = "ready"
           THEN /\ asked' = Tell({r}, "answered")
                /\ UNCHANGED <<source, jobs>>
           ELSE /\ Advance(c, Tell({r}, "waiting"), waiters, target)
                /\ Post({j \in {<<"schedule", c>>} : MustSchedule(c, target)})
        /\ UNCHANGED <<moves, status, failed, task, edgeVars, taskVars, stack>>

\* _onTicketLevelChanged; while the lock is taken the change is deferred to a later tick.
\* A chunk without a holder gets one only from a ticket that loads it.
SetTicket(c) ==
    LET old == Ticket(c)
        new == TicketAfter(c, moves[c] + 1)
        target == Highest(new, Waiters(c), waiting[c])
        prepared == new >= Border
        known == prepared \/ source[c] # "unknown"
    IN  /\ moves[c] < Len(Path[c]) /\ ~Locked
        /\ moves' = [moves EXCEPT ![c] = @ + 1]
        /\ cut' = cut \cup {t \in Cuttable(c) : status[c] >= target}
        /\ Post({j \in {<<"reconcile", c>>} : known /\ new < old} \cup
                {j \in {<<"schedule", c>>} : prepared /\ MustSchedule(c, target)})
        /\ IF prepared THEN Advance(c, asked, Waiters(c), target) ELSE UNCHANGED <<asked, source>>
        /\ UNCHANGED <<status, failed, task, edgeVars, tasks, started, using, stack>>

\* _onChunkLoadComplete: the stored chunk is complete, everybody asking for it is served,
\* and a job tells the neighbours that wait for it.
LoadHit(c) ==
    /\ Loading(c) /\ "hit" \in Outcomes
    /\ status' = [status EXCEPT ![c] = Top]
    /\ source' = [source EXCEPT ![c] = "ready"]
    /\ asked' = Tell(Waiters(c), "answered")
    /\ Post({<<"notify", c>>})
    /\ UNCHANGED <<moves, failed, task, edgeVars, taskVars, stack>>

LoadMissing(c) ==
    /\ Loading(c) /\ "missing" \in Outcomes
    /\ source' = [source EXCEPT ![c] = "missing"]
    /\ Post({j \in {<<"schedule", c>>} : task[c] = None /\ status[c] < Target(c)})
    /\ UNCHANGED <<moves, asked, status, failed, task, edgeVars, taskVars, stack>>

\* onChunkGenFailed(holder): a chunk that is stored but unreadable must not be generated.
LoadUnreadable(c) ==
    /\ Loading(c) /\ "unreadable" \in Outcomes /\ ~Locked
    /\ Abandon(c)
    /\ UNCHANGED <<moves, status, source, taskVars, jobs, stack>>

-----------------------------------------------------------------------------
(* schedule().                                                             *)

TakeJob(w, j) ==
    /\ Idle(w) /\ jobs[j] > 0
    /\ jobs' = [jobs EXCEPT ![j] = @ - 1]

\* A posted job takes the lock and enters schedule().
ScheduleJob(w, c) ==
    /\ TakeJob(w, <<"schedule", c>>) /\ ~Locked
    /\ Become(w, <<Scheduling(c)>>)
    /\ UNCHANGED <<moves, asked, holderVars, edgeVars, taskVars>>

\* rescheduleChunk, for each of the chunks collected.
Reschedule(w) ==
    /\ At(w, "reschedule") /\ ~Locked
    /\ \E c \in Doing(w).left :
          Become(w, <<Scheduling(c)>> \o Through("reschedule", Doing(w).left \ {c}, Below(w)))
    /\ UNCHANGED <<moves, asked, holderVars, edgeVars, taskVars, jobs>>

SchedulableAgain(c) == ~failed[c] /\ Target(c) # -1 /\ ~Reached(c)
Schedulable(c) == ~failed[c] /\ Target(c) # -1 /\ task[c] = None /\ ~Reached(c)

\* A new task of c: setGenerationTask and submitTask.  A token is never raised for it,
\* reviveForScheduling has just replaced a raised one.
NewTask(c, to) ==
    LET used == {i \in 1 .. Len(tasks) + 1 : \E k \in DOMAIN tasks : tasks[k].chunk = c /\ tasks[k].id = i}
    IN  [chunk |-> c, to |-> to, id |-> Min((1 .. Len(tasks) + 1) \ used)]

Submit(c, to) ==
    /\ task' = [task EXCEPT ![c] = NewTask(c, to)]
    /\ tasks' = Append(tasks, NewTask(c, to))
    /\ Acquire(NewTask(c, to))
    /\ UNCHANGED <<cut, started>>

NothingToSchedule(w) ==
    LET c == Doing(w).chunk
    IN  /\ At(w, "schedule")
        /\ ~Schedulable(c) \/ source[c] = "resolving"
        /\ Become(w, Below(w))
        /\ UNCHANGED <<moves, asked, holderVars, edgeVars, taskVars, jobs>>

\* _resolveStorageForScheduling: a chunk only its neighbours want is loaded first.
ResolveStorage(w) ==
    LET c == Doing(w).chunk
    IN  /\ At(w, "schedule") /\ Schedulable(c) /\ source[c] = "unknown"
        /\ source' = [source EXCEPT ![c] = "resolving"]
        /\ Become(w, Below(w))
        /\ UNCHANGED <<moves, asked, status, failed, task, edgeVars, taskVars, jobs>>

\* scheduleEmptyLoad
LoadEmpty(w) ==
    LET c == Doing(w).chunk
    IN  /\ At(w, "schedule") /\ Schedulable(c) /\ status[c] = -1 /\ source[c] = "missing"
        /\ Submit(c, 0)
        /\ Become(w, Below(w))
        /\ UNCHANGED <<moves, asked, status, source, failed, edgeVars, jobs>>

\* scheduleStatusStep: look at every neighbour the next step reads ...
StartScan(w) ==
    LET c == Doing(w).chunk
        to == status[c] + 1
    IN  /\ At(w, "schedule") /\ Schedulable(c) /\ status[c] # -1
        /\ Become(w, <<Scanning(c, to, Reads(c, to), FALSE)>> \o Below(w))
        /\ UNCHANGED <<moves, asked, holderVars, edgeVars, taskVars, jobs>>

\* ... checkNeighbour: one that is not there yet gets the edges and is scheduled itself;
\* a failed one blocks without an edge ...
CheckNeighbour(w) ==
    LET f == Doing(w)
        c == f.chunk
        Later(n, unready) == <<Scanning(c, f.to, f.left \ {n}, unready)>> \o Below(w)
    IN  /\ At(w, "scan")
        /\ \E n \in f.left :
            LET need == Required[f.to][c, n] IN
            \/ /\ status[n] >= need
               /\ Become(w, Later(n, f.unready))
               /\ UNCHANGED edgeVars
            \/ /\ status[n] < need /\ failed[n]
               /\ Become(w, Later(n, TRUE))
               /\ UNCHANGED edgeVars
            \/ /\ status[n] < need /\ ~failed[n]
               /\ blocking' = [blocking EXCEPT ![c] = @ \cup {n}]
               /\ waiting' = [waiting EXCEPT ![n][c] = need]
               /\ Become(w, IF task[n] # None THEN Later(n, TRUE)
                            ELSE <<Scheduling(n)>> \o Later(n, TRUE))
        /\ UNCHANGED <<moves, asked, holderVars, taskVars, jobs>>

\* ... and if all are there, submit the task.
Scanned(w) ==
    LET f == Doing(w)
    IN  /\ At(w, "scan") /\ f.left = {}
        /\ IF f.unready THEN UNCHANGED <<task, taskVars>> ELSE Submit(f.chunk, f.to)
        /\ Become(w, Below(w))
        /\ UNCHANGED <<moves, asked, status, source, failed, edgeVars, jobs>>

-----------------------------------------------------------------------------
(* Progression tasks, run by the area scheduler once nothing submitted      *)
(* earlier touches their area.                                             *)

PositionFirst(t) == 1
Position(t) == CHOOSE k \in DOMAIN tasks : tasks[k] = t
Touches(t, u) == Area[t.to][t.chunk] \cap Area[u.to][u.chunk] # {}
Claimed(t) == \E w \in Workers : \E i \in DOMAIN stack[w] :
                  "task" \in DOMAIN stack[w][i] /\ stack[w][i].task = t
Leads(k) == ~Claimed(tasks[k]) /\ \A i \in 1 .. k - 1 : ~Touches(tasks[i], tasks[k])

\* The pool looks at the token before it executes the task or cancels it.
TakeTask(w) ==
    /\ Idle(w)
    /\ \E k \in DOMAIN tasks :
          /\ Leads(k)
          /\ Become(w, <<ForTask(IF tasks[k] \in cut THEN "cancel" ELSE "execute", tasks[k])>>)
    /\ UNCHANGED <<moves, asked, holderVars, edgeVars, taskVars, jobs>>

\* The head of execute decides under the lock whether the task starts.  An abort seen
\* here ends the task without onCancel: its permit is already claimed.
Execute(w) ==
    LET t == Doing(w).task
    IN  /\ At(w, "execute") /\ ~Locked
        /\ IF t \in cut
           THEN Become(w, <<ForTask("undone", t)>>) /\ UNCHANGED started
           ELSE /\ started' = started \cup {t}
                /\ Become(w, <<ForTask(IF t.to \in {0, Top} THEN "body" ELSE "complete", t)>>)
        /\ UNCHANGED <<moves, asked, holderVars, edgeVars, tasks, cut, using, jobs>>

\* executeEmptyLoad installs the chunk, _finalizeGeneratedChunkSync publishes a finished
\* one and serves everybody; the steps between write only into the chunk.
Body(w) ==
    LET t == Doing(w).task
        c == t.chunk
    IN  /\ At(w, "body")
        /\ status' = [status EXCEPT ![c] = t.to]
        /\ IF t.to = Top
           THEN /\ source' = [source EXCEPT ![c] = "ready"]
                /\ asked' = Tell(Waiters(c), "answered")
           ELSE UNCHANGED <<source, asked>>
        /\ Become(w, <<ForTask("complete", t)>>)
        /\ UNCHANGED <<moves, failed, task, edgeVars, taskVars, jobs>>

\* onChunkGenComplete
Complete(w) ==
    LET t == Doing(w).task
        c == t.chunk
        now == Max({status[c], t.to})
        done == <<ForTask("done", t)>>
        freed == Freed(c, t.to)
        demand == Highest(Ticket(c), Waiters(c), [m \in Chunks |-> IF m \in freed THEN -1 ELSE waiting[c][m]])
        again == {x \in {c} : ~failed[c] /\ now < demand}
    IN  /\ At(w, "complete") /\ ~Locked
        /\ status' = [status EXCEPT ![c] = now]
        /\ task' = [task EXCEPT ![c] = None]
        /\ IF task[c] = None
           THEN /\ Become(w, done)
                /\ UNCHANGED <<asked, edgeVars, using>>
           ELSE /\ Unblock(c, freed)
                /\ Release(t)
                /\ asked' = IF failed[c] \/ t.to = Top THEN asked
                            ELSE Tell(Satisfied(c, Waiters(c), now), "answered")
                /\ Become(w, Through("reschedule", Woken(c, t.to) \cup again, done))
        /\ UNCHANGED <<moves, source, failed, tasks, cut, started, jobs>>

\* onLoadedFromStorageReady
NotifyStored(w, c) ==
    /\ TakeJob(w, <<"notify", c>>) /\ ~Locked
    /\ Unblock(c, Freed(c, Top))
    /\ Become(w, Through("reschedule", Woken(c, Top), <<>>))
    /\ UNCHANGED <<moves, asked, holderVars, taskVars>>

\* onCancel: cancelGeneration(holder, task) if the task is still the holder's.
Cancel(w) ==
    LET t == Doing(w).task
        c == t.chunk
        undone == <<ForTask("undone", t)>>
    IN  /\ At(w, "cancel") /\ ~Locked
        /\ IF task[c] = t
           THEN /\ Release(t)
                /\ task' = [task EXCEPT ![c] = None]
                /\ Become(w, Through("reconcile", {c}, Through("reschedule", {c}, undone)))
           ELSE Become(w, undone) /\ UNCHANGED <<task, using>>
        /\ UNCHANGED <<moves, asked, status, source, failed, edgeVars, tasks, cut, started, jobs>>

\* The area scheduler forgets a task after its callback.
Forget(t) ==
    /\ tasks' = SubSeq(tasks, 1, Position(t) - 1) \o SubSeq(tasks, Position(t) + 1, Len(tasks))
    /\ cut' = cut \ {t}
    /\ started' = started \ {t}
    /\ UNCHANGED using

CallbackDone(w) ==
    /\ At(w, "done")
    /\ Forget(Doing(w).task)
    /\ Become(w, <<>>)
    /\ UNCHANGED <<moves, asked, holderVars, edgeVars, jobs>>

\* The callback of a task that returned false, or was cancelled, reads the holder's task ...
CallbackUndone(w) ==
    LET t == Doing(w).task
    IN  /\ At(w, "undone")
        /\ Become(w, <<Failing(t, task[t.chunk])>>)
        /\ UNCHANGED <<moves, asked, holderVars, edgeVars, taskVars, jobs>>

\* ... and onChunkGenFailed(holder, task) compares it with the holder's task.
Fail(w) ==
    LET f == Doing(w)
        c == f.task.chunk
    IN  /\ At(w, "failing") /\ ~Locked
        /\ IF task[c] # f.seen
           THEN UNCHANGED <<failed, task, edgeVars, asked>>
           ELSE IF source[c] = "resolving"
                THEN task' = [task EXCEPT ![c] = None] /\ UNCHANGED <<failed, edgeVars, asked>>
                ELSE Abandon(c)
        /\ Forget(f.task)
        /\ Become(w, <<>>)
        /\ UNCHANGED <<moves, status, source, jobs>>

-----------------------------------------------------------------------------
(* reconcileGenerationDemand, one chunk at a time.                         *)

ReconcileJob(w, c) ==
    /\ TakeJob(w, <<"reconcile", c>>)
    /\ Become(w, Through("reconcile", {c}, <<>>))
    /\ UNCHANGED <<moves, asked, holderVars, edgeVars, taskVars>>

Reconcile(w) ==
    /\ At(w, "reconcile") /\ ~Locked
    /\ \E c \in Doing(w).left :
        LET left == Doing(w).left \ {c} IN
        IF task[c] = None /\ Reached(c)
        THEN /\ waiting' = [n \in Chunks |->
                    IF n \in blocking[c] THEN [waiting[n] EXCEPT ![c] = -1] ELSE waiting[n]]
             /\ blocking' = [blocking EXCEPT ![c] = {}]
             /\ Become(w, Through("reconcile", left \cup blocking[c], Below(w)))
             /\ UNCHANGED cut
        ELSE /\ cut' = cut \cup {t \in Cuttable(c) : Reached(c)}
             /\ Become(w, Through("reconcile", left, Below(w)))
             /\ UNCHANGED edgeVars
    /\ UNCHANGED <<moves, asked, holderVars, tasks, started, using, jobs>>

-----------------------------------------------------------------------------

Init ==
    /\ moves = [c \in Chunks |-> 0]
    /\ asked = [r \in Requests |-> "new"]
    /\ status = [c \in Chunks |-> -1]
    /\ source = [c \in Chunks |-> "unknown"]
    /\ failed = [c \in Chunks |-> FALSE]
    /\ task = [c \in Chunks |-> None]
    /\ blocking = [c \in Chunks |-> {}]
    /\ waiting = [n \in Chunks |-> [c \in Chunks |-> -1]]
    /\ using = [c \in Chunks |-> 0]
    /\ tasks = <<>> /\ cut = {} /\ started = {}
    /\ jobs = [j \in Jobs |-> 0]
    /\ stack = [w \in Workers |-> <<>>]

Loaded(c) == LoadHit(c) \/ LoadMissing(c) \/ LoadUnreadable(c)

Proceed(w) ==
    \/ \E c \in Chunks : ScheduleJob(w, c) \/ NotifyStored(w, c) \/ ReconcileJob(w, c)
    \/ Reschedule(w) \/ NothingToSchedule(w) \/ ResolveStorage(w) \/ LoadEmpty(w)
    \/ StartScan(w) \/ CheckNeighbour(w) \/ Scanned(w)
    \/ TakeTask(w) \/ Execute(w) \/ Body(w) \/ Complete(w) \/ Cancel(w)
    \/ CallbackDone(w) \/ CallbackUndone(w) \/ Fail(w) \/ Reconcile(w)

Next ==
    \/ \E r \in Requests : RequestChunk(r)
    \/ \E c \in Chunks : SetTicket(c) \/ Loaded(c)
    \/ \E w \in Workers : Proceed(w)

Spec == Init /\ [][Next]_vars

(* The pool schedules every worker, and storage answers every load; nobody  *)
(* has to request a chunk or to move a ticket.                              *)
FairSpec ==
    /\ Spec
    /\ \A w \in Workers : WF_vars(Proceed(w))
    /\ \A c \in Chunks : WF_vars(Loaded(c))
=============================================================================
