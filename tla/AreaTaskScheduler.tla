------------------------- MODULE AreaTaskScheduler -------------------------
(***************************************************************************)
(* The per-world area task scheduler (AreaTaskScheduler::State).  A task   *)
(* covers a set of chunk positions.  Every position keeps its tasks        *)
(* ordered by (priority, id); a task that leads all its positions is       *)
(* Scheduled and a permit <<task, generation>> for it goes to the worker   *)
(* pool.  A task of higher priority may take the lead and so revoke the    *)
(* permit of a task that has not started.                                  *)
(*                                                                         *)
(* One action stands for the code between two moments at which another     *)
(* thread can act: a critical section of the scheduler's mutex or of the   *)
(* pool's queue mutex, or a call of user code.  The calls a thread is in   *)
(* are the frames of its stack, the innermost first: user code (a task     *)
(* body, a callback) may call the scheduler again, and a refused hand-over *)
(* to the pool cancels from inside a dispatch.                             *)
(*                                                                         *)
(* A definition named like the one after it with a suffix (ValidIgnores-   *)
(* Generation, SettledUncounted, ...) is a slip of that code which the     *)
(* properties must notice; nothing uses it.                                *)
(***************************************************************************)
EXTENDS Integers, Sequences, FiniteSets

CONSTANTS
    Tasks,      \* the tasks callers ever submit
    Keys,       \* chunk positions
    Region,     \* the positions within a task's radius
    Priority,   \* util::TaskPriority, a smaller number is served first
    Throwing,   \* tasks whose body throws
    Clients,    \* threads that call the scheduler from outside
    Workers,    \* threads of the worker pool
    Abortable,  \* bound: the tasks whose abort signal may be raised
    Api,        \* which of "cancel", "abort", "prune", "shutdown", "stopPool" occur
    None

Threads == Clients \cup Workers

ASSUME SchedulerAssumption ==
    /\ IsFiniteSet(Tasks) /\ IsFiniteSet(Keys)
    /\ Region \in [Tasks -> SUBSET Keys]
    /\ Priority \in [Tasks -> Nat]
    /\ Throwing \subseteq Tasks
    /\ None \notin Tasks

\* A pool has a worker, and what stops it is not one of its workers.
ASSUME ThreadsAssumption == Workers # {} /\ Clients \cap Workers = {}

VARIABLES
    stopped, nextId, outstanding,           \* State
    id, keys, waiting, generation, phase,   \* State::Task, id 0 before submission
    positions, running,                     \* State::Position
    body,           \* "unborn", "held" or "released": Task::body
    pendingBodies,  \* bodies of claimed tasks not yet released
    abort,          \* Task::abortSignal
    queue,          \* permits in the worker pool's queue
    poolRunning,    \* UniversalWorkerPool::isRunning
    stack,          \* the calls each thread is in
    crashed,        \* "no", "body" (a released body is used) or "assert"
    closed,         \* shutdown() has returned
    executes, cancels, callbacks    \* history: calls each task has received

taskVars == <<id, keys, waiting, generation, phase>>
lockVars == <<stopped, nextId, outstanding, taskVars, positions, running>>
poolVars == <<queue, poolRunning>>
told == <<executes, cancels, callbacks>>
bodyVars == <<body, pendingBodies>>
restVars == <<abort, poolVars, crashed, closed>>
vars == <<lockVars, bodyVars, restVars, stack, told>>

-----------------------------------------------------------------------------
(* Call frames.                                                            *)

Permits == Tasks \X Nat

Frame(at, task, gen, batch, ready) ==
    [at |-> at, task |-> task, gen |-> gen, batch |-> batch, ready |-> ready]

At(th, place) == stack[th] # <<>> /\ Head(stack[th]).at = place
Top(th) == Head(stack[th])

Push(th, f) == stack' = [stack EXCEPT ![th] = <<f>> \o @]
Goto(th, f) == stack' = [stack EXCEPT ![th] = <<f>> \o Tail(@)]
Return(th) == stack' = [stack EXCEPT ![th] = Tail(@)]

Dispatching(ready) == Frame("dispatch", None, 0, {}, ready)
Settling(batch, ready) == Frame("settle", None, 0, batch, ready)
ForPermit(at, d, ready) == Frame(at, d[1], d[2], {}, ready)
Permit(f) == <<f.task, f.gen>>

\* The thread runs code of the scheduler's users: an idle client, a task body or a
\* completion callback.  All of them may call the scheduler.
InUserCode(th) ==
    \/ th \in Clients /\ stack[th] = <<>>
    \/ At(th, "body") \/ At(th, "callback") \/ At(th, "settled")

-----------------------------------------------------------------------------
(* The queues of the positions.                                            *)

Registered(t) == id[t] # 0 /\ phase[t] # "Finished"

PrecedesReversed(pa, ia, pb, ib) == pa > pb \/ (pa = pb /\ ia < ib)
PrecedesLifo(pa, ia, pb, ib) == pa < pb \/ (pa = pb /\ ia > ib)
Precedes(pa, ia, pb, ib) == pa < pb \/ (pa = pb /\ ia < ib)
Before(a, b) == Precedes(Priority[a], id[a], Priority[b], id[b])

First(t, S) == t \in S /\ \A u \in S \ {t} : Before(t, u)

\* The task that holds position k: the running one, else the first one queued.
Leads(t, k) ==
    IF running[k] # None THEN running[k] = t ELSE First(t, positions[k])

ValidIgnoresGeneration(d) == phase[d[1]] = "Scheduled"
Valid(d) == phase[d[1]] = "Scheduled" /\ generation[d[1]] = d[2]

\* _addLocked: the new task t takes the positions nobody runs on and where it goes
\* before every queued task; a task it overtakes loses its permit.
Taken(t, own) ==
    {k \in own : running[k] = None /\
        \A u \in positions[k] : Precedes(Priority[t], nextId, Priority[u], id[u])}

LostNothing(p, taken) == {}
Lost(p, taken) == {k \in taken : Leads(p, k)}

AddLocked(t, own) ==
    LET taken == Taken(t, own)
        ready == taken = own
        Revoked(p) == p # t /\ waiting[p] = 0 /\ Lost(p, taken) # {}
    IN /\ positions' = [k \in Keys |-> IF k \in own THEN positions[k] \cup {t}
                                                    ELSE positions[k]]
       /\ waiting' = [p \in Tasks |-> IF p = t THEN Cardinality(own \ taken)
                                      ELSE waiting[p] + Cardinality(Lost(p, taken))]
       /\ phase' = [p \in Tasks |-> IF Revoked(p) THEN "Waiting"
                                    ELSE IF p = t /\ ready THEN "Scheduled"
                                    ELSE phase[p]]
       /\ generation' = [p \in Tasks |-> IF Revoked(p) \/ (p = t /\ ready)
                                         THEN generation[p] + 1 ELSE generation[p]]
       /\ UNCHANGED running

IssuedNothing == {}

\* The permits _scheduleLocked has just issued.
Issued == {<<p, generation'[p]>> : p \in
              {q \in Tasks : phase'[q] = "Scheduled" /\ generation'[q] # generation[q]}}

GainedTwice(p, gone) == {k \in keys[p] : First(p, positions[k] \ gone)}

\* _removeLocked for every task of the set gone: where one of them led (nobody else runs
\* there, and the first of the remaining tasks did not lead), that first task has one
\* position less to wait for.
Gained(p, gone) ==
    {k \in keys[p] : /\ running[k] \in gone \cup {None} /\ ~Leads(p, k)
                     /\ First(p, positions[k] \ gone)}

RemoveLocked(gone) ==
    LET Scheduled(p) == /\ p \notin gone /\ ~stopped' /\ phase[p] = "Waiting"
                        /\ Gained(p, gone) # {}
                        /\ waiting[p] = Cardinality(Gained(p, gone))
    IN /\ positions' = [k \in Keys |-> positions[k] \ gone]
       /\ running' = [k \in Keys |-> IF running[k] \in gone THEN None ELSE running[k]]
       /\ waiting' = [p \in Tasks |-> IF p \in gone THEN waiting[p]
                                      ELSE waiting[p] - Cardinality(Gained(p, gone))]
       /\ phase' = [p \in Tasks |-> IF p \in gone THEN "Finished"
                                    ELSE IF Scheduled(p) THEN "Scheduled" ELSE phase[p]]
       /\ generation' = [p \in Tasks |-> IF Scheduled(p) THEN generation[p] + 1
                                                         ELSE generation[p]]

\* The assertions of _removeLocked.
RemoveAsserts(gone) ==
    /\ \A t \in gone : \A k \in keys[t] : t \in positions[k]
    /\ \A p \in Tasks \ gone : Cardinality(Gained(p, gone)) <= waiting[p]

\* What _claim makes of the running marks when t starts.
Occupy(t) == [k \in Keys |-> IF k \in keys[t] THEN t ELSE running[k]]

\* The assertions of _claim.
ClaimAsserts(t) ==
    waiting[t] = 0 /\ \A k \in keys[t] : running[k] = None /\ First(t, positions[k])

-----------------------------------------------------------------------------
(* User code on a body, and what using a released body does.               *)

OnlyStack == UNCHANGED <<lockVars, bodyVars, restVars, told>>

\* MC_ASSERT_RELEASE ends in std::abort, a call on a null body in a signal.
Crash(how) ==
    crashed' = how /\ UNCHANGED <<lockVars, bodyVars, abort, poolVars, stack, closed, told>>

Count(calls, t) == [calls EXCEPT ![t] = @ + 1]

ReleaseBody(t) ==
    /\ body' = [body EXCEPT ![t] = "released"]
    /\ pendingBodies' = pendingBodies \ {t}

-----------------------------------------------------------------------------
(* Calls of the public interface.                                          *)

\* submit(), accepted: the task enters its queues and the permit it may have got is
\* to be dispatched by the caller, outside the lock.
Submit(th, t) ==
    /\ InUserCode(th) /\ body[t] = "unborn" /\ ~stopped /\ poolRunning
    /\ LET own == IF abort[t] THEN {} ELSE Region[t] IN
          /\ AddLocked(t, own)
          /\ keys' = [keys EXCEPT ![t] = own]
    /\ Push(th, Dispatching(Issued))
    /\ id' = [id EXCEPT ![t] = nextId] /\ nextId' = nextId + 1
    /\ outstanding' = outstanding + 1
    /\ body' = [body EXCEPT ![t] = "held"]
    /\ UNCHANGED <<stopped, pendingBodies, restVars, told>>

\* submit(), refused: the caller's task is cancelled and told so on the spot.
SubmitRefused(th, t) ==
    /\ InUserCode(th) /\ body[t] = "unborn" /\ (stopped \/ ~poolRunning)
    /\ body' = [body EXCEPT ![t] = "released"]
    /\ cancels' = Count(cancels, t) /\ callbacks' = Count(callbacks, t)
    /\ UNCHANGED <<lockVars, pendingBodies, abort, poolVars, stack, crashed, closed, executes>>

CancellableRunning(t) == Registered(t)

\* A cancellation leaves running tasks alone.
Cancellable(t) == Registered(t) /\ phase[t] # "Running"

\* _cancelPending up to the end of its critical section: the selected tasks that do
\* not run leave their queues.  below is what the thread goes on with.
CancelLocked(th, selected, stop, below) ==
    LET gone == {t \in selected : Cancellable(t)} IN
    /\ stopped' = (stopped \/ stop)
    /\ IF ~RemoveAsserts(gone)
       THEN /\ crashed' = "assert"
            /\ UNCHANGED <<taskVars, positions, running, abort, stack>>
       ELSE /\ RemoveLocked(gone)
            /\ abort' = [t \in Tasks |-> abort[t] \/ t \in gone]
            /\ stack' = [stack EXCEPT ![th] = <<Settling(gone, Issued)>> \o below]
            /\ UNCHANGED <<id, keys, crashed>>
    /\ UNCHANGED <<nextId, outstanding, bodyVars, poolVars, closed, told>>

\* cancel(taskId)
Cancel(th, t) ==
    /\ "cancel" \in Api /\ InUserCode(th)
    /\ Cancellable(t)
    /\ CancelLocked(th, {t}, FALSE, stack[th])

\* The owner of the abort signal gives the task up, at any moment.
Abort(t) ==
    /\ "abort" \in Api /\ t \in Abortable /\ ~abort[t]
    /\ abort' = [abort EXCEPT ![t] = TRUE]
    /\ UNCHANGED <<lockVars, bodyVars, poolVars, stack, crashed, closed, told>>

\* pruneCancelledTasks()
Prune(th) ==
    /\ "prune" \in Api /\ InUserCode(th)
    /\ \E t \in Tasks : abort[t] /\ Cancellable(t)
    /\ CancelLocked(th, {t \in Tasks : abort[t]}, FALSE, stack[th])

\* shutdown(), called once, by a client: cancel everything, then wait.
Shutdown(th) ==
    /\ "shutdown" \in Api /\ th \in Clients /\ stack[th] = <<>> /\ ~closed
    /\ \A c \in Clients : \A i \in 1..Len(stack[c]) : stack[c][i].at # "closing"
    /\ CancelLocked(th, Tasks, TRUE, <<Frame("closing", None, 0, {}, {})>>)

ClosedTooEarly(th) ==
    /\ At(th, "closing") /\ closed' = TRUE /\ Return(th)
    /\ UNCHANGED <<lockVars, bodyVars, abort, poolVars, crashed, told>>

\* waitForCompletion() returns and releaseRemainingBodies() runs.
Closed(th) ==
    /\ At(th, "closing") /\ outstanding = 0
    /\ body' = [t \in Tasks |-> IF t \in pendingBodies THEN "released" ELSE body[t]]
    /\ pendingBodies' = {}
    /\ closed' = TRUE
    /\ Return(th)
    /\ UNCHANGED <<lockVars, abort, poolVars, crashed, told>>

-----------------------------------------------------------------------------
(* _cancelPending after its critical section.                              *)

\* _cancelBody, then the callback begins.
SettleCancelBody(th) ==
    /\ At(th, "settle")
    /\ \E t \in Top(th).batch :
          IF body[t] = "released" THEN Crash("body") ELSE
          /\ cancels' = Count(cancels, t) /\ callbacks' = Count(callbacks, t)
          /\ Goto(th, Frame("settled", t, 0, Top(th).batch \ {t}, Top(th).ready))
          /\ UNCHANGED <<lockVars, bodyVars, restVars, executes>>

SettledUncounted(th) ==
    /\ At(th, "settled")
    /\ body' = [body EXCEPT ![Top(th).task] = "released"]
    /\ Goto(th, Settling(Top(th).batch, Top(th).ready))
    /\ UNCHANGED <<lockVars, pendingBodies, restVars, told>>

\* The callback returns: the body goes, the task is no longer outstanding.
Settled(th) ==
    /\ At(th, "settled")
    /\ IF outstanding = 0 THEN Crash("assert") ELSE
          /\ body' = [body EXCEPT ![Top(th).task] = "released"]
          /\ outstanding' = outstanding - 1
          /\ Goto(th, Settling(Top(th).batch, Top(th).ready))
          /\ UNCHANGED <<stopped, nextId, taskVars, positions, running, pendingBodies, restVars,
                         told>>

SettleDoneEarly(th) ==
    /\ At(th, "settle") /\ Goto(th, Dispatching(Top(th).ready)) /\ OnlyStack

SettleDone(th) ==
    /\ At(th, "settle") /\ Top(th).batch = {}
    /\ Goto(th, Dispatching(Top(th).ready)) /\ OnlyStack

-----------------------------------------------------------------------------
(* _dispatch.                                                              *)

\* One permit is looked at under the lock: has it been revoked since?
DispatchCheck(th) ==
    /\ At(th, "dispatch")
    /\ \E d \in Top(th).ready :
          Goto(th, ForPermit(IF Valid(d) THEN "checked" ELSE "revoke", d, Top(th).ready \ {d}))
    /\ OnlyStack

\* A valid permit goes to the pool; a pool that has stopped has everything cancelled.
PoolCheck(th) ==
    /\ At(th, "checked")
    /\ LET f == Top(th) IN
          IF poolRunning THEN Goto(th, ForPermit("submit", Permit(f), f.ready)) /\ OnlyStack
                         ELSE CancelLocked(th, Tasks, TRUE, Tail(stack[th]))

DispatchDone(th) ==
    /\ At(th, "dispatch") /\ Top(th).ready = {}
    /\ Return(th) /\ OnlyStack

\* The body of a task with a stale permit is reset, whatever became of the task since.
\* Under a thread that executes or cancels it this is a use after free: it may crash or not.
Revoke(th) ==
    /\ At(th, "revoke")
    /\ LET f == Top(th) IN
          /\ body' = [body EXCEPT ![f.task] = "released"]
          /\ Goto(th, Dispatching(f.ready))
          /\ \/ UNCHANGED crashed
             \/ /\ \E w \in Threads : /\ At(w, "body") \/ At(w, "cancelled") \/ At(w, "settled")
                                     /\ Top(w).task = f.task
                /\ crashed' = "body"
    /\ UNCHANGED <<lockVars, pendingBodies, abort, poolVars, closed, told>>

\* UniversalWorkerPool::submit, which refuses once the pool has stopped: its callback
\* then cancels everything, from inside the dispatch.
HandOver(th) ==
    /\ At(th, "submit") /\ poolRunning
    /\ queue' = queue \cup {Permit(Top(th))}
    /\ Goto(th, Dispatching(Top(th).ready))
    /\ UNCHANGED <<lockVars, bodyVars, abort, poolRunning, crashed, closed, told>>

HandOverRefused(th) ==
    /\ At(th, "submit") /\ ~poolRunning
    /\ CancelLocked(th, Tasks, TRUE, <<Dispatching(Top(th).ready)>> \o Tail(stack[th]))

-----------------------------------------------------------------------------
(* The worker pool and DispatchTask.                                       *)

\* _workerThread takes a permit; an aborted one goes to onCancel, else to execute.
Take(w) ==
    /\ w \in Workers /\ stack[w] = <<>>
    /\ poolRunning \/ \E c \in Clients : At(c, "stopping")
    /\ \E d \in queue :
          /\ queue' = queue \ {d}
          /\ Push(w, ForPermit(IF abort[d[1]] THEN "onCancel" ELSE "execute", d, {}))
    /\ UNCHANGED <<lockVars, bodyVars, abort, poolRunning, crashed, closed, told>>

ClaimAnyPermit(th, place) ==
    LET f == Top(th) IN
    /\ phase' = [phase EXCEPT ![f.task] = "Running"]
    /\ running' = Occupy(f.task)
    /\ pendingBodies' = pendingBodies \cup {f.task}
    /\ Goto(th, ForPermit(place, Permit(f), {}))
    /\ UNCHANGED <<stopped, nextId, outstanding, id, keys, waiting, generation, positions, body, restVars>>

\* _claim succeeds and the frame goes to place.
Claim(th, place) ==
    LET f == Top(th) IN
    /\ Valid(Permit(f))
    /\ IF ~ClaimAsserts(f.task) THEN Crash("assert")
       ELSE IF body[f.task] = "released" THEN Crash("body") ELSE
       /\ phase' = [phase EXCEPT ![f.task] = "Running"]
       /\ running' = Occupy(f.task)
       /\ pendingBodies' = pendingBodies \cup {f.task}
       /\ Goto(th, ForPermit(place, Permit(f), {}))
       /\ UNCHANGED <<stopped, nextId, outstanding, id, keys, waiting, generation, positions, body, restVars>>

\* DispatchTask::execute with a valid permit: the body starts.
Execute(th) ==
    /\ At(th, "execute")
    /\ Claim(th, "body")
    /\ executes' = IF crashed' = "no" THEN Count(executes, Top(th).task) ELSE executes
    /\ UNCHANGED <<cancels, callbacks>>

\* DispatchTask::onCancel with a valid permit: the body is told to cancel.
OnCancel(th) ==
    /\ At(th, "onCancel")
    /\ Claim(th, "cancelled")
    /\ cancels' = IF crashed' = "no" THEN Count(cancels, Top(th).task) ELSE cancels
    /\ UNCHANGED <<executes, callbacks>>

\* A stale permit: nothing is claimed.  The pool asks onCancel once more when the
\* task has been aborted meanwhile, and its callback does nothing.
ClaimFails(th) ==
    /\ At(th, "execute") \/ At(th, "onCancel")
    /\ LET d == Permit(Top(th)) IN
          /\ ~Valid(d)
          /\ IF At(th, "execute") /\ abort[d[1]] THEN Goto(th, ForPermit("onCancel", d, {}))
                                                 ELSE Return(th)
    /\ OnlyStack

\* The body returns, or its onCancel does: releaseBody, then the callback begins.
BodyReturns(th) ==
    /\ At(th, "body") \/ At(th, "cancelled")
    /\ At(th, "body") => Top(th).task \notin Throwing
    /\ ReleaseBody(Top(th).task)
    /\ callbacks' = Count(callbacks, Top(th).task)
    /\ Goto(th, ForPermit("callback", Permit(Top(th)), {}))
    /\ UNCHANGED <<lockVars, restVars, executes, cancels>>

\* The body throws: DispatchTask::execute is left before releaseBody, the pool catches
\* the exception and calls back.
BodyThrows(th) ==
    /\ At(th, "body") /\ Top(th).task \in Throwing
    /\ callbacks' = Count(callbacks, Top(th).task)
    /\ Goto(th, ForPermit("callback", Permit(Top(th)), {}))
    /\ UNCHANGED <<lockVars, bodyVars, restVars, executes, cancels>>

\* _finish after the callback: the region is given up and successors are scheduled.
Finish(th) ==
    /\ At(th, "callback")
    /\ LET t == Top(th).task IN
          IF body[t] # "released" \/ phase[t] # "Running" \/ ~RemoveAsserts({t})
             \/ outstanding = 0
          THEN Crash("assert")
          ELSE /\ UNCHANGED stopped
               /\ RemoveLocked({t})
               /\ outstanding' = outstanding - 1
               /\ Goto(th, Dispatching(Issued))
               /\ UNCHANGED <<nextId, id, keys, bodyVars, restVars, told>>

\* UniversalWorkerPool::shutdown: no permit is accepted any more, then none is taken,
\* and the caller cancels what is queued and joins the workers.
StopPool(th) ==
    /\ "stopPool" \in Api /\ th \in Clients /\ stack[th] = <<>> /\ poolRunning
    /\ poolRunning' = FALSE
    /\ Push(th, Frame("stopping", None, 0, {}, {}))
    /\ UNCHANGED <<lockVars, bodyVars, abort, queue, crashed, closed, told>>

StopWorkers(th) ==
    /\ At(th, "stopping")
    /\ Goto(th, Frame("draining", None, 0, {}, {})) /\ OnlyStack

DrainAborted(th) ==
    /\ At(th, "draining")
    /\ \E d \in queue : /\ abort[d[1]] /\ queue' = queue \ {d}
                       /\ Push(th, ForPermit("onCancel", d, {}))
    /\ UNCHANGED <<lockVars, bodyVars, abort, poolRunning, crashed, closed, told>>

Drain(th) ==
    /\ At(th, "draining")
    /\ \E d \in queue : queue' = queue \ {d} /\ Push(th, ForPermit("onCancel", d, {}))
    /\ UNCHANGED <<lockVars, bodyVars, abort, poolRunning, crashed, closed, told>>

Joined(th) ==
    /\ At(th, "draining") /\ queue = {} /\ \A w \in Workers : stack[w] = <<>>
    /\ Return(th) /\ OnlyStack

-----------------------------------------------------------------------------
Init ==
    /\ stopped = FALSE /\ nextId = 1 /\ outstanding = 0
    /\ id = [t \in Tasks |-> 0]
    /\ keys = [t \in Tasks |-> {}]
    /\ waiting = [t \in Tasks |-> 0]
    /\ generation = [t \in Tasks |-> 0]
    /\ phase = [t \in Tasks |-> "Waiting"]
    /\ positions = [k \in Keys |-> {}]
    /\ running = [k \in Keys |-> None]
    /\ body = [t \in Tasks |-> "unborn"]
    /\ pendingBodies = {}
    /\ abort = [t \in Tasks |-> FALSE]
    /\ queue = {} /\ poolRunning = TRUE
    /\ stack = [th \in Threads |-> <<>>]
    /\ crashed = "no" /\ closed = FALSE
    /\ executes = [t \in Tasks |-> 0]
    /\ cancels = [t \in Tasks |-> 0]
    /\ callbacks = [t \in Tasks |-> 0]

\* What a thread that is inside a call does next: it is never up to its caller.
Proceed(th) ==
    \/ SettleCancelBody(th) \/ Settled(th) \/ SettleDone(th)
    \/ DispatchCheck(th) \/ PoolCheck(th) \/ DispatchDone(th) \/ Revoke(th)
    \/ HandOver(th) \/ HandOverRefused(th)
    \/ Take(th) \/ Execute(th) \/ OnCancel(th) \/ ClaimFails(th)
    \/ BodyReturns(th) \/ BodyThrows(th) \/ Finish(th)
    \/ StopWorkers(th) \/ Drain(th) \/ Joined(th) \/ Closed(th)

\* What callers decide to do.
Call(th) ==
    \/ \E t \in Tasks : Submit(th, t) \/ SubmitRefused(th, t) \/ Cancel(th, t)
    \/ Prune(th) \/ Shutdown(th) \/ StopPool(th)

Next ==
    /\ crashed = "no"
    /\ \/ \E th \in Threads : Proceed(th) \/ Call(th)
       \/ \E t \in Tasks : Abort(t)

Spec == Init /\ [][Next]_vars

\* Every thread runs: a call in progress goes on and user code returns.  Nobody is
\* obliged to call the scheduler.
FairSpec == Spec /\ \A th \in Threads : WF_vars(crashed = "no" /\ Proceed(th))
=============================================================================
