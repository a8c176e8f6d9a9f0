---------------------- MODULE UniversalWorkerPoolProps ----------------------
(***************************************************************************)
(* What UniversalWorkerPool must satisfy.                                  *)
(***************************************************************************)
EXTENDS UniversalWorkerPool

-----------------------------------------------------------------------------
(* Safety.                                                                 *)

\* A thread has t in hand: it took t out of the queue and has not released it yet.
InHand(t) ==
    \E th \in Threads : \E i \in 1..Len(stack[th]) :
        stack[th][i].task = t \/ t \in stack[th][i].batch

\* The count waitForCompletion trusts: the tasks queued, executed, cancelled or being
\* called back, and no other, at every moment between a worker's pop and its decrement,
\* and through a cancellation, a pruning or a shutdown that empties the queue.
OutstandingIsExact ==
    outstanding = Cardinality({t \in Tasks : t \in queue \/ InHand(t)})

\* A task is executed at most once, cancelled at most once and called back exactly once
\* when the pool is through with it; the callback of a refused task is its only one.
ToldOnce ==
    \A t \in Tasks :
        /\ executes[t] <= 1 /\ cancels[t] <= 1 /\ callbacks[t] + refused[t] <= 1
        /\ id[t] # 0 /\ t \notin queue /\ ~InHand(t) =>
              callbacks[t] = 1 /\ executes[t] + cancels[t] > 0

\* Once shutdown() has returned no worker runs and nothing is queued: the members the
\* tasks refer to may go.
StoppedMeansQuiet ==
    ~running /\ stack[Owner] = <<>> => queue = {} /\ \A w \in Workers : stack[w] = <<>>

\* No wakeup is lost.  While something is queued a worker is awake to look for it, or
\* will be started; and a client that sleeps in waitForCompletion() though everything is
\* settled has a thread on its way to tell it.
NoWakeupLost ==
    /\ queue # {} /\ ~stop => Workers \ asleep # {}
    /\ waiting # {} /\ outstanding = 0 =>
          \E th \in Threads : \E i \in DOMAIN stack[th] :
              stack[th][i].at \in {"drop", "notify", "notifyLocked"}

\* Nothing moves any more unless somebody calls: the workers sleep, and whoever is in a
\* call is asleep in waitForCompletion() or waits for workers that have not returned.
AtRest ==
    \A th \in Threads :
        \/ stack[th] = <<>> /\ (th \in alive => th \in asleep)
        \/ th \in waiting
        \/ At(th, "join") /\ alive # {}

\* The pool comes to rest only when every accepted task has been called back, nobody
\* waits for completion and no shutdown is under way.
RestsOnlyIdle ==
    AtRest => /\ waiting = {} /\ stack[Owner] = <<>>
              /\ \A t \in Tasks : id[t] # 0 => callbacks[t] = 1

-----------------------------------------------------------------------------
(* Steps.                                                                  *)

\* When waitForCompletion() returns, every task accepted so far has been called back,
\* those of them included that a worker had popped and not begun, or whose callback a
\* cancelling client was still running.
WaitMeansIdle ==
    [][\A c \in Clients : At(c, "wait") /\ stack'[c] # stack[c] =>
          \A t \in Tasks : id[t] # 0 => callbacks[t] = 1 /\ ~InHand(t)]_vars

-----------------------------------------------------------------------------
(* Refinement.                                                             *)

Hand(th) == {t \in Tasks : \E i \in DOMAIN stack[th] :
                stack[th][i].task = t \/ t \in stack[th][i].batch}

\* A worker has taken t out of the queue and done nothing with it yet.
Popped(t) == \E th \in Threads : \E i \in DOMAIN stack[th] :
                stack[th][i].at = "taken" /\ stack[th][i].task = t

StageOf(t) ==
    IF refused[t] # 0 THEN "refused"
    ELSE IF id[t] = 0 THEN "new"
    ELSE IF t \in queue THEN "queued"
    ELSE IF callbacks[t] # 0 THEN "called"
    ELSE IF cancels[t] # 0 THEN "dropped"
    ELSE IF executes[t] # 0 THEN "running"
    ELSE IF Popped(t) THEN "served" ELSE "withdrawn"

\* shutdown() is what its owner is in at the outermost.
Closing ==
    /\ stack[Owner] # <<>>
    /\ stack[Owner][Len(stack[Owner])].at \in {"stopping", "wakeAll", "join"}
LifeOf ==
    IF running THEN IF stop THEN "closed" ELSE "open"
               ELSE IF Closing THEN "closing" ELSE "closed"

StageMap == [t \in Tasks |-> StageOf(t)]
HandMap == [th \in Threads |-> Hand(th)]

Promised == INSTANCE TaskPool WITH
    stage <- StageMap, ticket <- id, accepted <- nextId - 1, aborted <- abort,
    hands <- HandMap, life <- LifeOf

\* Whatever clients, workers and the owner do at once, the pool behaves as TaskPool:
\* workers take the most urgent task, nobody but the thread that has a task in hand
\* tells it anything, no task is dropped that nobody gave up, and shutdown() returns
\* with all it has taken out told and no worker left with a task.
ImplementsTaskPool == Promised!Spec

-----------------------------------------------------------------------------
(* Liveness.                                                               *)

\* No wakeup is lost: a task accepted while workers fall asleep, and a task dropped by a
\* cancellation or a shutdown, gets its callback.
AcceptedTasksEnd == \A t \in Tasks : id[t] # 0 ~> callbacks[t] = 1

\* Whoever waits for completion is woken, though the last task may be settled between
\* the waiter's check and its sleep, or by a thread that is not a worker.
WaitReturns == \A c \in Clients : At(c, "wait") ~> ~At(c, "wait")

\* shutdown() returns: every worker leaves its loop, asleep or busy.
ShutdownReturns == At(Owner, "stopping") ~> stack[Owner] = <<>>
=============================================================================
