---------------------- MODULE AreaTaskSchedulerProps ----------------------
(***************************************************************************)
(* What AreaTaskScheduler must satisfy.                                    *)
(***************************************************************************)
EXTENDS AreaTaskScheduler

\* A frame that is about one task names it; the others do not.
Frames ==
    [at : {"dispatch", "settle", "closing", "stopping", "draining"}, task : {None}, gen : {0},
     batch : SUBSET Tasks, ready : SUBSET Permits]
    \cup
    [at : {"revoke", "checked", "submit", "settled", "execute", "onCancel", "body", "cancelled",
           "callback"},
     task : Tasks, gen : Nat, batch : SUBSET Tasks, ready : SUBSET Permits]

\* The types of all state: State, its tasks and positions, the pool and the threads.
TypeOK ==
    /\ stopped \in BOOLEAN /\ nextId \in Nat /\ outstanding \in Nat
    /\ id \in [Tasks -> Nat]
    /\ keys \in [Tasks -> SUBSET Keys]
    /\ waiting \in [Tasks -> Nat]
    /\ generation \in [Tasks -> Nat]
    /\ phase \in [Tasks -> {"Waiting", "Scheduled", "Running", "Finished"}]
    /\ positions \in [Keys -> SUBSET Tasks]
    /\ running \in [Keys -> Tasks \cup {None}]
    /\ body \in [Tasks -> {"unborn", "held", "released"}]
    /\ pendingBodies \subseteq Tasks
    /\ abort \in [Tasks -> BOOLEAN]
    /\ queue \subseteq Permits /\ poolRunning \in BOOLEAN
    /\ stack \in [Threads -> Seq(Frames)]
    /\ crashed \in {"no", "body", "assert"} /\ closed \in BOOLEAN
    /\ executes \in [Tasks -> Nat]
    /\ cancels \in [Tasks -> Nat]
    /\ callbacks \in [Tasks -> Nat]

-----------------------------------------------------------------------------
(* Safety.                                                                 *)

\* Two tasks whose regions share a position are never both between their claim and
\* the end of their callback, however permits are revoked, cancelled and reissued.
RegionsDisjoint ==
    \A t, u \in Tasks : t # u /\ phase[t] = "Running" /\ phase[u] = "Running"
                        => keys[t] \cap keys[u] = {}

\* The positions of a task that another task leads.
BlockedKeys(t) == {k \in keys[t] : ~Leads(t, k)}

\* Task::waiting is the number of positions of the task that another task leads, through
\* every insertion, overtaking and removal: none is counted twice or forgotten.
WaitingCountsBlockers ==
    \A t \in Tasks : Registered(t) => waiting[t] = Cardinality(BlockedKeys(t))

\* Where the permits are: handed to a thread or in the pool's queue.
FramePermits(f) ==
    f.ready \cup (IF f.at \in {"checked", "submit", "execute", "onCancel"} THEN {Permit(f)} ELSE {})

Holders(d) ==
    UNION {{<<th, i>> : i \in {j \in 1..Len(stack[th]) : d \in FramePermits(stack[th][j])}} :
              th \in Threads}

\* No task is forgotten: a Scheduled task has exactly one valid permit under way, and a
\* task waits only for positions another task leads (after shutdown nothing waits).
NoPermitLost ==
    \A t \in Tasks : Registered(t) /\ crashed = "no" =>
        /\ phase[t] = "Scheduled" =>
              LET d == <<t, generation[t]>> IN
              Cardinality(Holders(d)) + (IF d \in queue THEN 1 ELSE 0) = 1
        /\ phase[t] = "Waiting" => waiting[t] > 0 /\ ~stopped

\* Nothing moves any more unless somebody calls: the workers have nothing to take, and
\* whoever is in a call waits in a shutdown for others.
AtRest ==
    \A th \in Threads :
        \/ /\ stack[th] = <<>>
           /\ \/ th \notin Workers \/ queue = {}
              \/ ~poolRunning /\ ~\E client \in Clients : At(client, "stopping")
        \/ At(th, "closing") /\ outstanding # 0
        \/ At(th, "draining") /\ queue = {} /\ \E w \in Workers : stack[w] # <<>>

\* The scheduler comes to rest only when no shutdown is under way and every accepted task
\* has been settled and called back: no chain of tasks that wait for one another, no
\* permit lost between the dispatch and a pool that stops, no count that stays above zero.
RestsOnlySettled ==
    AtRest => /\ \A th \in Threads : stack[th] = <<>>
              /\ \A t \in Tasks : id[t] # 0 => phase[t] = "Finished" /\ callbacks[t] = 1

\* A task is told once: its body is executed or cancelled, never both or twice, and its
\* callback is called once.
ToldOnce ==
    \A t \in Tasks : executes[t] + cancels[t] <= 1 /\ callbacks[t] <= 1

\* outstanding counts the tasks accepted and not yet settled, those taken out of the
\* queues by a cancellation whose callbacks are still running included.
BeingSettled(t) ==
    \E th \in Threads : \E i \in 1..Len(stack[th]) :
        \/ t \in stack[th][i].batch
        \/ stack[th][i].at = "settled" /\ stack[th][i].task = t

OutstandingIsExact ==
    outstanding = Cardinality({t \in Tasks : Registered(t) \/ BeingSettled(t)})

\* When shutdown() returns, every accepted task has had its callback and its body is
\* destroyed: none outlives the world it refers to.
ShutdownLeavesNothing ==
    closed => \A t \in Tasks : id[t] # 0 => body[t] = "released" /\ callbacks[t] = 1

\* None of the MC_ASSERT_RELEASE of the scheduler fires.
AssertionsHold == crashed # "assert"

\* The scheduler's comment on DispatchTask: a revoked permit does not touch the body.
\* A task that has not been executed or cancelled still has its body.
PendingKeepsBody ==
    \A t \in Tasks : Registered(t) /\ phase[t] # "Running" => body[t] = "held"

\* No released body is ever executed, cancelled or destroyed under its executor.
NoNullBody == crashed # "body"

-----------------------------------------------------------------------------
(* The inductive invariant behind RegionsDisjoint and WaitingCountsBlockers. *)

\* Submission numbers are handed out once and only to tasks that have a body.
IdsUnique ==
    /\ \A t \in Tasks : id[t] < nextId
    /\ \A t, u \in Tasks : id[t] = id[u] /\ id[t] # 0 => t = u
    /\ \A t \in Tasks : id[t] = 0 => phase[t] = "Waiting"
    /\ \A t \in Tasks : body[t] = "unborn" => id[t] = 0

\* The queue of a position holds the registered tasks that cover it.
QueuesMatchKeys ==
    \A k \in Keys, t \in Tasks : t \in positions[k] <=> Registered(t) /\ k \in keys[t]

\* A position names a running task exactly when that task runs and covers it.
RunningMatchesPhase ==
    /\ \A k \in Keys : running[k] # None =>
          phase[running[k]] = "Running" /\ k \in keys[running[k]]
    /\ \A t \in Tasks : phase[t] = "Running" => \A k \in keys[t] : running[k] = t

\* A permit is only given to a task nothing blocks.
PermitMeansUnblocked ==
    \A t \in Tasks : phase[t] \in {"Scheduled", "Running"} => waiting[t] = 0

RegionInv ==
    IdsUnique /\ QueuesMatchKeys /\ RunningMatchesPhase /\ PermitMeansUnblocked
              /\ WaitingCountsBlockers

\* A permit that is valid when a worker brings it back passes every assertion of _claim,
\* and tasks found in the table pass every assertion of _removeLocked.
ClaimAndRemovalSafe ==
    /\ \A t \in Tasks : phase[t] = "Scheduled" => ClaimAsserts(t)
    /\ \A gone \in SUBSET Tasks : (\A t \in gone : Registered(t)) => RemoveAsserts(gone)

-----------------------------------------------------------------------------
(* Steps.                                                                  *)

\* A permit that is not valid never becomes valid again, though the task may be
\* Scheduled anew: what the pool still holds of it stays harmless.
StalePermitStaysStale ==
    [][\A t \in Tasks : \A g \in 1..generation[t] : ~Valid(<<t, g>>) => ~Valid(<<t, g>>)']_vars

-----------------------------------------------------------------------------
(* Liveness, unless the program crashes.                                   *)

Crashed == crashed # "no"

\* Every accepted task ends: it is executed or cancelled and its callback returns.
AcceptedTasksEnd ==
    \A t \in Tasks : id[t] # 0 ~> (Crashed \/ (phase[t] = "Finished" /\ callbacks[t] = 1))

\* shutdown() returns, whatever is queued or runs and whenever the pool is stopped.
ShutdownReturns ==
    (\E c \in Clients : \E i \in 1..Len(stack[c]) : stack[c][i].at = "closing")
        ~> (Crashed \/ closed)

\* The pool can be shut down in the middle of everything: its shutdown returns.
PoolShutdownReturns ==
    (\E c \in Clients : At(c, "stopping")) ~> (Crashed \/ \A c \in Clients : stack[c] = <<>>)

-----------------------------------------------------------------------------
(* The scheduler implements the region tasks.                              *)

Status(t) ==
    IF id[t] = 0 THEN "new"
    ELSE IF phase[t] = "Finished" THEN "settled"
    ELSE IF phase[t] = "Running" THEN "running" ELSE "pending"

\* A closed scheduler holds nothing that has not started.
StoppedHoldsNothing == stopped => \A t \in Tasks : Status(t) # "pending"

Regions == INSTANCE RegionTasks WITH
    status <- [t \in Tasks |-> Status(t)], ticket <- id, accepted <- nextId - 1,
    area <- keys, open <- ~stopped

\* Every step of the scheduler is a step of the region tasks or changes nothing there:
\* tasks start in (priority, submission) order among those that intersect, whatever the
\* order in which the pool serves the permits.
ImplementsRegionTasks == Regions!Spec
=============================================================================
