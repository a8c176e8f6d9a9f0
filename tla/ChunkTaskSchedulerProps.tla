---------------------- MODULE ChunkTaskSchedulerProps ----------------------
(* What stepwise chunk generation promises.                                *)
EXTENDS ChunkTaskScheduler

ProgressionTasks == [chunk : Chunks, to : Statuses, id : Nat \ {0}]
Frames ==
    [at : {"schedule"}, chunk : Chunks] \cup
    [at : {"scan"}, chunk : Chunks, to : 1 .. Top, left : SUBSET Chunks, unready : BOOLEAN] \cup
    [at : {"reschedule", "reconcile"}, left : SUBSET Chunks \ {{}}] \cup
    [at : {"execute", "body", "complete", "cancel", "done", "undone"}, task : ProgressionTasks] \cup
    [at : {"failing"}, task : ProgressionTasks, seen : ProgressionTasks \cup {None}]

(* Types; in particular a holder has at most one current task and only     *)
(* tasks still in the area scheduler are current, cut or started.          *)
TypeOK ==
    /\ \A c \in Chunks : moves[c] \in 0 .. Len(Path[c])
    /\ asked \in [Requests -> {"new", "waiting", "answered", "failed"}]
    /\ status \in [Chunks -> -1 .. Top]
    /\ source \in [Chunks -> {"unknown", "resolving", "missing", "ready"}]
    /\ failed \in [Chunks -> BOOLEAN]
    /\ blocking \in [Chunks -> SUBSET Chunks]
    /\ waiting \in [Chunks -> [Chunks -> -1 .. Top - 1]]
    /\ using \in [Chunks -> Nat]
    /\ \A k \in DOMAIN tasks : tasks[k] \in ProgressionTasks
    /\ \A c \in Chunks : task[c] # None => task[c].chunk = c
    /\ ({task[c] : c \in Chunks} \ {None}) \cup cut \cup started \subseteq {tasks[k] : k \in DOMAIN tasks}
    /\ \A j \in Jobs : jobs[j] \in Nat
    /\ \A w \in Workers : \A i \in DOMAIN stack[w] : stack[w][i] \in Frames

(* The two ends of a dependency agree: c is blocked by n exactly when n    *)
(* knows that c waits.  Scanning, completion, loading, failure and         *)
(* reconciliation each update both ends; one end alone pins a chunk in     *)
(* memory or loses its wakeup (_releaseDependencyEdgesOnFailure).          *)
EdgesMatch == \A c, n \in Chunks : n \in blocking[c] <=> waiting[n][c] # -1

(* A neighbour counts one reference for each current task that reads it.   *)
(* scheduleStatusStep takes them, completion and cancellation give them    *)
(* back; a chunk with a reference too few is unloaded under its reader,    *)
(* one with a reference too many is never unloaded.                        *)
ReferencesExact ==
    \A n \in Chunks : using[n] =
        Cardinality({c \in Chunks : task[c] # None /\ n \in Reads(c, task[c].to)})

(* The work of a step: between execute and the publication of its result.  *)
Works(w, t) ==
    /\ At(w, "body") \/ (At(w, "complete") /\ t.to \notin {0, Top})
    /\ Doing(w).task = t

(* A step starts from the status before it, with every neighbour it reads  *)
(* at the status it needs, and an empty chunk is installed only into a     *)
(* holder without one whose storage is known to be empty: the assertions   *)
(* of buildNeighbourCache and setCurrentChunk.  It must survive every      *)
(* ticket move, cancellation and failure between the check and the work.   *)
StepsFitHolder ==
    \A w \in Workers : \A k \in DOMAIN tasks :
        LET t == tasks[k] IN
        Works(w, t) =>
            /\ status[t.chunk] = t.to - 1
            /\ t.to = 0 => source[t.chunk] = "missing"
            /\ \A n \in Reads(t.chunk, t.to) : status[n] >= Required[t.to][t.chunk, n]

(* A stage that has started is executed to its end: SetTicket and          *)
(* reconciliation decide under the scheduling lock (execute,               *)
(* reconcileGenerationDemand).                                             *)
StartedNeverCut == started \cap cut = {}

Quiet ==
    /\ tasks = <<>>
    /\ \A j \in Jobs : jobs[j] = 0
    /\ \A w \in Workers : Idle(w)
    /\ \A c \in Chunks : ~Loading(c)

\* What a chunk is owed: a ticket below the border prepares nothing by itself.
Due(c) == Highest(IF Ticket(c) >= Border THEN Ticket(c) ELSE -1, Waiters(c), waiting[c])

(* When nothing is going on, nothing is forgotten: unless its holder has   *)
(* failed, no request waits for a status its chunk has, and a chunk that   *)
(* is owed more than its status is there because a neighbour it reads has  *)
(* failed or is itself held up so.                                         *)
NothingForgotten ==
    Quiet => \A c \in Chunks : ~failed[c] =>
        /\ \A r \in Waiters(c) : status[c] < Wanted[r].status
        /\ status[c] < Due(c) =>
              \E n \in Reads(c, status[c] + 1) :
                  \/ failed[n]
                  \/ n \in blocking[c] /\ status[n] < Required[status[c] + 1][c, n]

(* Every request is answered with its chunk, and every loading ticket gets *)
(* its status, as long as tickets only rise and storage is readable.       *)
RequestsAnswered == \A r \in Requests : asked[r] = "waiting" ~> asked[r] = "answered"
TicketsHonoured ==
    \A c \in Chunks : \A s \in Border .. Top : Ticket(c) = s ~> status[c] >= s

(* A failing callback fails its holder only while its own task is still the *)
(* holder's: cancelling is not failing, and a task that took over is not    *)
(* failed for its predecessor (ChunkTaskScheduler.cpp:277-303, :534-542).   *)
OnlyOwnTaskFails ==
    [][\A w \in Workers : At(w, "failing") /\ Doing(w).seen # Doing(w).task =>
            failed'[Doing(w).task.chunk] = failed[Doing(w).task.chunk]]_vars

(* A request is told something in the end                                  *)
(* (SingleChunkLifecycleManager.cpp:322-326).                              *)
RequestsSettled == \A r \in Requests : asked[r] = "waiting" ~> asked[r] # "waiting"
=============================================================================
