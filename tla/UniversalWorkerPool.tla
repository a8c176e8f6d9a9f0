------------------------ MODULE UniversalWorkerPool ------------------------
(***************************************************************************)
(* The worker pool (UniversalWorkerPool): a queue ordered by (priority,    *)
(* id), workers that sleep on one condition variable, clients that wait    *)
(* for the pool to become idle on another, and an atomic count of the      *)
(* tasks accepted and not yet settled.                                     *)
(*                                                                         *)
(* One action stands for the code between two moments at which another     *)
(* thread can act: a critical section of the queue mutex or of the         *)
(* completion mutex, an access to an atomic, a call of user code.  The     *)
(* calls a thread is in are the frames of its stack, the innermost first;  *)
(* a task body, its onCancel and its callback may call the pool again.     *)
(*                                                                         *)
(* A definition named like the one after it with a suffix is a slip of     *)
(* that code which the properties must notice; nothing uses it.            *)
(***************************************************************************)
EXTENDS Integers, Sequences, FiniteSets

CONSTANTS
    Tasks,      \* the tasks callers ever submit
    Priority,   \* util::TaskPriority, a smaller number is served first
    Clients,    \* threads that call the pool from outside
    Owner,      \* the one of them that starts the pool and shuts it down
    Workers,    \* m_workers
    Api,        \* which of "abort", "cancel", "prune", "wait", "shutdown" occur
    None

Threads == Clients \cup Workers

ASSUME PoolAssumption ==
    /\ IsFiniteSet(Tasks) /\ Priority \in [Tasks -> Nat]
    /\ Owner \in Clients /\ Clients \cap Workers = {} /\ Workers # {}
    /\ None \notin Tasks

VARIABLES
    running, stop,          \* m_running, m_stop
    nextId, id,             \* m_nextTaskId, InternalTask::id, 0 before it has one
    queue,                  \* m_taskQueue
    outstanding,            \* m_outstandingTaskCount
    abort,                  \* InternalTask::abortSignal
    alive,                  \* workers whose loop has not returned
    asleep,                 \* workers blocked on m_condition
    waiting,                \* clients blocked on m_completionCondition
    stack,                  \* the calls each thread is in
    crashed,                \* the assertion of _releaseOutstandingTask has failed
    executes, cancels, callbacks, refused   \* history: what each task has been told

told == <<executes, cancels, callbacks, refused>>
flags == <<running, stop>>
ids == <<nextId, id>>
sleepers == <<asleep, waiting>>
vars == <<flags, ids, queue, outstanding, abort, alive, sleepers, stack, crashed, told>>

-----------------------------------------------------------------------------
Frame(at, task, batch) == [at |-> at, task |-> task, batch |-> batch]
Plain(at) == Frame(at, None, {})

At(th, place) == stack[th] # <<>> /\ Head(stack[th]).at = place
Top(th) == Head(stack[th])

Calls(th, frames) == stack' = [stack EXCEPT ![th] = frames \o @]
Goto(th, f) == stack' = [stack EXCEPT ![th] = <<f>> \o Tail(@)]
Return(th) == stack' = [stack EXCEPT ![th] = Tail(@)]

OnlyStack ==
    UNCHANGED <<flags, ids, queue, outstanding, abort, alive, sleepers, crashed, told>>

InUserCode(th) ==
    \/ th \in Clients /\ stack[th] = <<>>
    \/ At(th, "body") \/ At(th, "onCancel") \/ At(th, "callback")

Count(calls, t) == [calls EXCEPT ![t] = @ + 1]

ForemostReversed(t) ==
    /\ t \in queue
    /\ \A u \in queue \ {t} :
          Priority[t] > Priority[u] \/ (Priority[t] = Priority[u] /\ id[t] > id[u])

\* TaskComparator: t is the one the priority queue gives out.
Foremost(t) ==
    /\ t \in queue
    /\ \A u \in queue \ {t} :
          Priority[t] < Priority[u] \/ (Priority[t] = Priority[u] /\ id[t] < id[u])

\* notify_one wakes one worker, if any sleeps.
NotifyNobody == UNCHANGED asleep
NotifyOne ==
    \/ asleep = {} /\ UNCHANGED asleep
    \/ \E w \in asleep : asleep' = asleep \ {w}

-----------------------------------------------------------------------------
(* Life of the pool.                                                       *)

\* start(): the running flag first, the stop flag and the threads after it.
Start(th) ==
    /\ th = Owner /\ stack[th] = <<>> /\ ~running
    /\ running' = TRUE
    /\ Calls(th, <<Plain("starting")>>)
    /\ UNCHANGED <<stop, ids, queue, outstanding, abort, alive, sleepers, crashed, told>>

StartWorkers(th) ==
    /\ At(th, "starting")
    /\ stop' = FALSE /\ alive' = Workers
    /\ Return(th)
    /\ UNCHANGED <<running, ids, queue, outstanding, abort, sleepers, crashed, told>>

\* shutdown(): the running flag, then what is queued is taken out under the lock.
Shutdown(th) ==
    /\ "shutdown" \in Api /\ th = Owner /\ stack[th] = <<>> /\ running
    /\ running' = FALSE
    /\ Calls(th, <<Plain("stopping")>>)
    /\ UNCHANGED <<stop, ids, queue, outstanding, abort, alive, sleepers, crashed, told>>

ShutdownLocked(th) ==
    /\ At(th, "stopping")
    /\ stop' = TRUE /\ queue' = {}
    /\ Goto(th, Frame("wakeAll", None, queue))
    /\ UNCHANGED <<running, ids, outstanding, abort, alive, sleepers, crashed, told>>

WakeOne(th) ==
    /\ At(th, "wakeAll")
    /\ \E w \in Workers : asleep' = asleep \ {w}
    /\ stack' = [stack EXCEPT
                    ![th] = <<Frame("drop", None, Top(th).batch), Plain("join")>> \o Tail(@)]
    /\ UNCHANGED <<flags, ids, queue, outstanding, abort, alive, waiting, crashed, told>>

\* The workers are woken, the dropped tasks are cancelled, then the workers are joined.
WakeAll(th) ==
    /\ At(th, "wakeAll")
    /\ asleep' = {}
    /\ stack' = [stack EXCEPT
                    ![th] = <<Frame("drop", None, Top(th).batch), Plain("join")>> \o Tail(@)]
    /\ UNCHANGED <<flags, ids, queue, outstanding, abort, alive, waiting, crashed, told>>

Join(th) ==
    /\ At(th, "join") /\ alive = {}
    /\ Return(th) /\ OnlyStack

-----------------------------------------------------------------------------
(* Calls.                                                                  *)

\* submit(), accepted and refused.  A refused task only has its callback called.
Submit(th, t) ==
    /\ InUserCode(th) /\ id[t] = 0 /\ refused[t] = 0
    /\ running /\ ~stop
    /\ id' = [id EXCEPT ![t] = nextId] /\ nextId' = nextId + 1
    /\ outstanding' = outstanding + 1
    /\ queue' = queue \cup {t}
    /\ NotifyOne
    /\ UNCHANGED <<flags, abort, alive, waiting, stack, crashed, told>>

SubmitRefused(th, t) ==
    /\ InUserCode(th) /\ id[t] = 0 /\ refused[t] = 0
    /\ ~running \/ stop
    /\ refused' = Count(refused, t)
    /\ UNCHANGED <<flags, ids, queue, outstanding, abort, alive, sleepers, stack, crashed,
                   executes, cancels, callbacks>>

\* The owner of the abort signal gives the task up, at any moment.
Abort(t) ==
    /\ "abort" \in Api /\ ~abort[t]
    /\ abort' = [abort EXCEPT ![t] = TRUE]
    /\ UNCHANGED <<flags, ids, queue, outstanding, alive, sleepers, stack, crashed, told>>

CancelKeepsQueued(th, t) ==
    /\ "cancel" \in Api /\ InUserCode(th) /\ t \in queue
    /\ abort' = [abort EXCEPT ![t] = TRUE]
    /\ Calls(th, <<Frame("drop", None, {t})>>)
    /\ UNCHANGED <<flags, ids, queue, outstanding, alive, sleepers, crashed, told>>

\* cancel(taskId): the task leaves the queue and its abort signal is set.
Cancel(th, t) ==
    /\ "cancel" \in Api /\ InUserCode(th) /\ t \in queue
    /\ queue' = queue \ {t}
    /\ abort' = [abort EXCEPT ![t] = TRUE]
    /\ Calls(th, <<Frame("drop", None, {t})>>)
    /\ UNCHANGED <<flags, ids, outstanding, alive, sleepers, crashed, told>>

\* pruneCancelledTasks(): every aborted task leaves the queue.
Prune(th) ==
    /\ "prune" \in Api /\ InUserCode(th)
    /\ LET gone == {t \in queue : abort[t]} IN
          /\ gone # {}
          /\ queue' = queue \ gone
          /\ Calls(th, <<Frame("drop", None, gone)>>)
    /\ UNCHANGED <<flags, ids, outstanding, abort, alive, sleepers, crashed, told>>

WaitCheckQueue(th) ==
    /\ At(th, "wait") /\ th \notin waiting
    /\ IF queue = {} THEN Return(th) /\ UNCHANGED waiting
                     ELSE waiting' = waiting \cup {th} /\ UNCHANGED stack
    /\ UNCHANGED <<flags, ids, queue, outstanding, abort, alive, asleep, crashed, told>>

\* waitForCompletion(): the predicate is read and the thread put to sleep under the
\* completion mutex.
Wait(th) ==
    /\ "wait" \in Api /\ th \in Clients /\ stack[th] = <<>>
    /\ Calls(th, <<Plain("wait")>>) /\ OnlyStack

WaitCheck(th) ==
    /\ At(th, "wait") /\ th \notin waiting
    /\ IF outstanding = 0 THEN Return(th) /\ UNCHANGED waiting
                          ELSE waiting' = waiting \cup {th} /\ UNCHANGED stack
    /\ UNCHANGED <<flags, ids, queue, outstanding, abort, alive, asleep, crashed, told>>

-----------------------------------------------------------------------------
(* Settling a task.                                                        *)

\* The tasks taken out of the queue are cancelled one after the other; then the waiting
\* clients may have to be told.
DropOne(th) ==
    /\ At(th, "drop")
    /\ \E t \in Top(th).batch :
          /\ cancels' = Count(cancels, t)
          /\ stack' = [stack EXCEPT ![th] =
                <<Frame("onCancel", t, {}), Frame("drop", None, Top(th).batch \ {t})>> \o Tail(@)]
    /\ UNCHANGED <<flags, ids, queue, outstanding, abort, alive, sleepers, crashed, executes,
                   callbacks, refused>>

DropDoneSilently(th) == At(th, "drop") /\ Top(th).batch = {} /\ Return(th) /\ OnlyStack

DropDone(th) ==
    /\ At(th, "drop") /\ Top(th).batch = {}
    /\ Goto(th, Plain("notify")) /\ OnlyStack

\* _cancelTask: onCancel returns or throws, then the callback is called.
CancelReturns(th) ==
    /\ At(th, "onCancel")
    /\ callbacks' = Count(callbacks, Top(th).task)
    /\ Goto(th, Frame("callback", Top(th).task, {}))
    /\ UNCHANGED <<flags, ids, queue, outstanding, abort, alive, sleepers, crashed, executes,
                   cancels, refused>>

CallbackReturns(th) ==
    /\ At(th, "callback")
    /\ Goto(th, Frame("release", Top(th).task, {})) /\ OnlyStack

\* _releaseOutstandingTask
Release(th) ==
    /\ At(th, "release")
    /\ IF outstanding = 0
       THEN crashed' = TRUE /\ UNCHANGED <<outstanding, stack>>
       ELSE outstanding' = outstanding - 1 /\ Return(th) /\ UNCHANGED crashed
    /\ UNCHANGED <<flags, ids, queue, abort, alive, sleepers, told>>

\* _notifyIfIdle: the count is read without the completion mutex, and again with it.
NotifyCheck(th) ==
    /\ At(th, "notify")
    /\ IF outstanding # 0 THEN Return(th) ELSE Goto(th, Plain("notifyLocked"))
    /\ OnlyStack

NotifyLocked(th) ==
    /\ At(th, "notifyLocked")
    /\ waiting' = IF outstanding = 0 THEN {} ELSE waiting
    /\ Return(th)
    /\ UNCHANGED <<flags, ids, queue, outstanding, abort, alive, asleep, crashed, told>>

-----------------------------------------------------------------------------
(* Workers.                                                                *)

AtLoop(w) == w \in alive /\ w \notin asleep /\ stack[w] = <<>>

Sleep(w) ==
    /\ AtLoop(w) /\ queue = {} /\ ~stop
    /\ asleep' = asleep \cup {w}
    /\ UNCHANGED <<flags, ids, queue, outstanding, abort, alive, waiting, stack, crashed, told>>

Exit(w) ==
    /\ AtLoop(w) /\ stop
    /\ alive' = alive \ {w}
    /\ UNCHANGED <<flags, ids, queue, outstanding, abort, sleepers, stack, crashed, told>>

Take(w) ==
    /\ AtLoop(w) /\ ~stop
    /\ \E t \in queue :
          /\ Foremost(t)
          /\ queue' = queue \ {t}
          /\ Calls(w, <<Frame("taken", t, {}), Plain("notify")>>)
    /\ UNCHANGED <<flags, ids, outstanding, abort, alive, sleepers, crashed, told>>

\* _executeTask: a task aborted before it runs is only cancelled.
Execute(w) ==
    /\ At(w, "taken")
    /\ LET t == Top(w).task IN
          IF abort[t]
          THEN /\ cancels' = Count(cancels, t) /\ UNCHANGED executes
               /\ Goto(w, Frame("onCancel", t, {}))
          ELSE /\ executes' = Count(executes, t) /\ UNCHANGED cancels
               /\ Goto(w, Frame("body", t, {}))
    /\ UNCHANGED <<flags, ids, queue, outstanding, abort, alive, sleepers, crashed, callbacks,
                   refused>>

\* The body returns or throws.  One that failed and was aborted meanwhile is cancelled.
BodyReturns(w) ==
    /\ At(w, "body")
    /\ LET t == Top(w).task IN
          \/ /\ callbacks' = Count(callbacks, t) /\ UNCHANGED cancels
             /\ Goto(w, Frame("callback", t, {}))
          \/ /\ abort[t]
             /\ cancels' = Count(cancels, t) /\ UNCHANGED callbacks
             /\ Goto(w, Frame("onCancel", t, {}))
    /\ UNCHANGED <<flags, ids, queue, outstanding, abort, alive, sleepers, crashed, executes,
                   refused>>

-----------------------------------------------------------------------------
Init ==
    /\ running = FALSE /\ stop = FALSE
    /\ nextId = 1 /\ id = [t \in Tasks |-> 0]
    /\ queue = {} /\ outstanding = 0
    /\ abort = [t \in Tasks |-> FALSE]
    /\ alive = {} /\ asleep = {} /\ waiting = {}
    /\ stack = [th \in Threads |-> <<>>]
    /\ crashed = FALSE
    /\ executes = [t \in Tasks |-> 0]
    /\ cancels = [t \in Tasks |-> 0]
    /\ callbacks = [t \in Tasks |-> 0]
    /\ refused = [t \in Tasks |-> 0]

\* What a thread that is inside a call, or a worker, does next.
Proceed(th) ==
    \/ StartWorkers(th) \/ ShutdownLocked(th) \/ WakeAll(th) \/ Join(th) \/ WaitCheck(th)
    \/ DropOne(th) \/ DropDone(th) \/ CancelReturns(th) \/ CallbackReturns(th)
    \/ Release(th) \/ NotifyCheck(th) \/ NotifyLocked(th)
    \/ Sleep(th) \/ Exit(th) \/ Take(th) \/ Execute(th) \/ BodyReturns(th)

\* What callers decide to do.
Call(th) ==
    \/ Start(th) \/ Shutdown(th) \/ Prune(th) \/ Wait(th)
    \/ \E t \in Tasks : Submit(th, t) \/ SubmitRefused(th, t) \/ Cancel(th, t)

Next ==
    /\ ~crashed
    /\ \/ \E th \in Threads : Proceed(th) \/ Call(th)
       \/ \E t \in Tasks : Abort(t)

Spec == Init /\ [][Next]_vars

\* Every thread runs and user code returns.  Nobody is obliged to call the pool.
FairSpec == Spec /\ \A th \in Threads : WF_vars(~crashed /\ Proceed(th))
=============================================================================
