--------------------- MODULE ChunkTaskSchedulerProofs ---------------------
(***************************************************************************)
(* That the two ends of every dependency agree, that no progression task   *)
(* is run twice, that a task which has started is not taken back, that     *)
(* every step fits the holder it works on, and that no demand is forgotten *)
(* when all is quiet, for any chunks, pyramid of steps, requests, ticket   *)
(* movements and workers.                                                  *)
(*                                                                         *)
(* Agreement is kept by every change of the edges, but only because what   *)
(* scanning sets is never the mark for "no edge": that is what a scan      *)
(* frame promises of the neighbours it has still to look at, and only      *)
(* because the chunks and tasks in frames are chunks and tasks.  So the    *)
(* invariant EdgeInv follows the frames of all workers, and the tasks they *)
(* hold; StepInv adds what the frames and tasks promise about holders, and *)
(* WakeInv who sees to a chunk that is owed more than it has.              *)
(***************************************************************************)
EXTENDS ChunkTaskSchedulerProps, FiniteSetTheorems, WellFoundedInduction, TLAPS

TaskPlaces == {"execute", "body", "complete", "cancel", "done", "undone", "failing"}

(* What a frame promises, when the tasks in H are held. *)
FrameOK(f, H) ==
    /\ "task" \in DOMAIN f <=> f.at \in TaskPlaces
    /\ f.at = "schedule" => f.chunk \in Chunks
    /\ f.at = "scan" => f.chunk \in Chunks /\ f.left \subseteq Reads(f.chunk, f.to)
    /\ f.at \in {"reschedule", "reconcile"} => f.left \subseteq Chunks
    /\ f.at \in TaskPlaces => f.task \in H /\ f.task.chunk \in Chunks

FramesOK(s, H) == \E F : s \in Seq(F) /\ \A f \in F : FrameOK(f, H)

TasksIn(s) == {s[i].task : i \in {j \in DOMAIN s : "task" \in DOMAIN s[j]}}
Held(w) == TasksIn(stack[w])
Known == {tasks[k] : k \in DOMAIN tasks}

StacksOK ==
    /\ stack = [w \in Workers |-> stack[w]]
    /\ \A w \in Workers : FramesOK(stack[w], Held(w))

ClaimsOK ==
    /\ \A w \in Workers : Held(w) \subseteq Known
    /\ \A v, w \in Workers : v # w => Held(v) \cap Held(w) = {}

TasksOK == \E T : tasks \in Seq(T) /\ \A t \in T : t.chunk \in Chunks

EdgeShape ==
    /\ blocking \in [Chunks -> SUBSET Chunks]
    /\ waiting = [n \in Chunks |-> [c \in Chunks |-> waiting[n][c]]]

EdgeInv == EdgeShape /\ EdgesMatch /\ TasksOK /\ StacksOK /\ ClaimsOK

-----------------------------------------------------------------------------
(* Stacks of frames.                                                       *)

(* Frames from a good set. *)
LEMMA FromOK ==
    ASSUME NEW F, NEW s \in Seq(F), NEW H, \A f \in F : FrameOK(f, H)
    PROVE  FramesOK(s, H)
BY DEF FramesOK

(* An idle worker's stack. *)
LEMMA EmptyOK ==
    ASSUME NEW H
    PROVE  FramesOK(<<>>, H)
<1> DEFINE Nothing == {}
<1>1. <<>> \in Seq(Nothing)
  OBVIOUS
<1>2. \A f \in Nothing : FrameOK(f, H)
  OBVIOUS
<1> HIDE DEF Nothing
<1> QED
  BY <1>1, <1>2, FromOK

(* Pushing a frame. *)
LEMMA PushOK ==
    ASSUME NEW s, NEW f, NEW H, FramesOK(s, H), FrameOK(f, H)
    PROVE  FramesOK(<<f>> \o s, H)
<1>1. PICK F : s \in Seq(F) /\ \A g \in F : FrameOK(g, H)
  BY DEF FramesOK
<1> DEFINE G == F \cup {f}
<1>2. <<f>> \in Seq(G)
  OBVIOUS
<1>3. s \in Seq(G)
  BY <1>1
<1>4. <<f>> \o s \in Seq(G)
  BY <1>2, <1>3
<1>5. \A g \in G : FrameOK(g, H)
  BY <1>1
<1> HIDE DEF G
<1> QED
  BY <1>4, <1>5, FromOK

(* The frame on top and those below. *)
LEMMA PopOK ==
    ASSUME NEW s, NEW H, FramesOK(s, H), s # <<>>
    PROVE  FrameOK(Head(s), H) /\ FramesOK(Tail(s), H)
<1>1. PICK F : s \in Seq(F) /\ \A g \in F : FrameOK(g, H)
  BY DEF FramesOK
<1>2. Head(s) \in F /\ Tail(s) \in Seq(F)
  BY <1>1
<1> QED
  BY <1>1, <1>2 DEF FramesOK

(* Good frames name no task but those held ... *)
LEMMA TasksWithin ==
    ASSUME NEW s, NEW H, FramesOK(s, H)
    PROVE  TasksIn(s) \subseteq H
<1>1. PICK F : s \in Seq(F) /\ \A g \in F : FrameOK(g, H)
  BY DEF FramesOK
<1>2. \A i \in DOMAIN s : FrameOK(s[i], H)
  BY <1>1
<1> QED
  BY <1>2 DEF TasksIn, FrameOK

(* ... and are as good when just the tasks they name are held. *)
LEMMA TightOK ==
    ASSUME NEW s, NEW H, FramesOK(s, H)
    PROVE  FramesOK(s, TasksIn(s))
<1>1. PICK F : s \in Seq(F) /\ \A g \in F : FrameOK(g, H)
  BY DEF FramesOK
<1> DEFINE G == {g \in F : FrameOK(g, TasksIn(s))}
<1>2. ASSUME NEW i \in DOMAIN s
      PROVE  s[i] \in G
  <2>1. s[i] \in F /\ FrameOK(s[i], H)
    BY <1>1
  <2>2. "task" \in DOMAIN s[i] => s[i].task \in TasksIn(s)
    BY DEF TasksIn
  <2> QED
    BY <2>1, <2>2 DEF FrameOK
<1>3. \A g \in G : FrameOK(g, TasksIn(s))
  OBVIOUS
<1> HIDE DEF G
<1>4. s \in Seq(G)
  BY <1>1, <1>2
<1> QED
  BY <1>3, <1>4, FromOK

(* Pushing the rest of a set of chunks. *)
LEMMA ThroughOK ==
    ASSUME NEW place \in {"reschedule", "reconcile"}, NEW left \in SUBSET Chunks,
           NEW below, NEW H, FramesOK(below, H)
    PROVE  FramesOK(Through(place, left, below), H)
<1>1. FrameOK([at |-> place, left |-> left], H)
  BY DEF FrameOK, TaskPlaces
<1>2. FramesOK(<<[at |-> place, left |-> left]>> \o below, H)
  BY <1>1, PushOK
<1> QED
  BY <1>2 DEF Through

(* A single frame for a task of a chunk ... *)
LEMMA SingleOK ==
    ASSUME NEW g, NEW H, FrameOK(g, H)
    PROVE  FramesOK(<<g>>, H)
<1> DEFINE G == {g}
<1>1. \A f \in G : FrameOK(f, H)
  OBVIOUS
<1>2. <<g>> \in Seq(G)
  OBVIOUS
<1> HIDE DEF G
<1> QED
  BY <1>1, <1>2, FromOK

LEMMA ForTaskOK ==
    ASSUME NEW place \in TaskPlaces, NEW H, NEW t \in H, t.chunk \in Chunks
    PROVE  FramesOK(<<ForTask(place, t)>>, H)
<1>1. FrameOK(ForTask(place, t), H)
  BY DEF FrameOK, TaskPlaces, ForTask
<1> QED
  BY <1>1, SingleOK

(* ... one that fails it ... *)
LEMMA FailingOK ==
    ASSUME NEW H, NEW t \in H, t.chunk \in Chunks, NEW seen
    PROVE  FramesOK(<<Failing(t, seen)>>, H)
<1>1. FrameOK(Failing(t, seen), H)
  BY DEF FrameOK, TaskPlaces, Failing
<1> QED
  BY <1>1, SingleOK

(* ... that schedules a chunk ... *)
LEMMA SchedulingOK ==
    ASSUME NEW c \in Chunks, NEW s, NEW H, FramesOK(s, H)
    PROVE  FramesOK(<<Scheduling(c)>> \o s, H)
<1>1. FrameOK(Scheduling(c), H)
  BY DEF FrameOK, Scheduling, TaskPlaces
<1> QED
  BY <1>1, PushOK

(* ... that scans its neighbours. *)
LEMMA ScanningOK ==
    ASSUME NEW c \in Chunks, NEW to, NEW left, left \subseteq Reads(c, to), NEW unready,
           NEW s, NEW H, FramesOK(s, H)
    PROVE  FramesOK(<<Scanning(c, to, left, unready)>> \o s, H)
<1>1. FrameOK(Scanning(c, to, left, unready), H)
  BY DEF FrameOK, Scanning, TaskPlaces
<1> QED
  BY <1>1, PushOK

(* What a worker finds on its stack. *)
LEMMA DoingOK ==
    ASSUME StacksOK, NEW w \in Workers, NEW place, At(w, place)
    PROVE  FrameOK(Doing(w), Held(w)) /\ Doing(w).at = place /\ FramesOK(Below(w), Held(w))
<1>1. FramesOK(stack[w], Held(w)) /\ stack[w] # <<>> /\ Head(stack[w]).at = place
  BY DEF StacksOK, At
<1>2. FrameOK(Head(stack[w]), Held(w)) /\ FramesOK(Tail(stack[w]), Held(w))
  BY <1>1, PopOK
<1> QED
  BY <1>1, <1>2 DEF Doing, Below

(* The task of a frame is held and belongs to a chunk. *)
LEMMA DoingTask ==
    ASSUME StacksOK, NEW w \in Workers, NEW place \in TaskPlaces, At(w, place)
    PROVE  Doing(w).task \in Held(w) /\ Doing(w).task.chunk \in Chunks
BY DoingOK DEF FrameOK

(* A worker's new stack, and the others'. *)
LEMMA BecomeStack ==
    ASSUME StacksOK, NEW w \in Workers, NEW frames, Become(w, frames)
    PROVE  /\ stack' = [v \in Workers |-> stack'[v]]
           /\ stack'[w] = frames
           /\ \A v \in Workers : v # w => stack'[v] = stack[v]
BY DEF StacksOK, Become

(* A worker that goes on with good frames leaves all stacks good. *)
LEMMA BecomeOK ==
    ASSUME StacksOK, NEW w \in Workers, NEW frames, NEW H, FramesOK(frames, H), Become(w, frames)
    PROVE  StacksOK' /\ Held(w)' \subseteq H /\ \A v \in Workers : v # w => Held(v)' = Held(v)
<1>1. stack' = [v \in Workers |-> stack'[v]] /\ stack'[w] = frames
  BY BecomeStack
<1>2. ASSUME NEW v \in Workers, v # w
      PROVE  stack'[v] = stack[v]
  BY <1>2, BecomeStack
<1>3. TasksIn(frames) \subseteq H /\ FramesOK(frames, TasksIn(frames))
  BY TasksWithin, TightOK
<1>4. Held(w)' = TasksIn(frames)
  BY <1>1 DEF Held, TasksIn
<1>5. ASSUME NEW v \in Workers, v # w
      PROVE  Held(v)' = Held(v)
  BY <1>2, <1>5 DEF Held, TasksIn
<1>6. ASSUME NEW v \in Workers
      PROVE  FramesOK(stack'[v], Held(v)')
  <2>1. CASE v = w
    BY <1>1, <1>3, <1>4, <2>1
  <2>2. CASE v # w
    <3>1. stack'[v] = stack[v] /\ Held(v)' = Held(v)
      BY <1>2, <1>5, <2>2
    <3>2. FramesOK(stack[v], Held(v))
      BY DEF StacksOK
    <3> QED
      BY <3>1, <3>2
  <2> QED
    BY <2>1, <2>2
<1> QED
  BY <1>1, <1>3, <1>4, <1>5, <1>6 DEF StacksOK

(* A worker that goes on and names only tasks it held. *)
LEMMA ProceedOK ==
    ASSUME StacksOK, ClaimsOK, Known \subseteq Known',
           NEW w \in Workers, NEW frames, FramesOK(frames, Held(w)), Become(w, frames)
    PROVE  StacksOK' /\ ClaimsOK'
<1>1. StacksOK' /\ Held(w)' \subseteq Held(w) /\ \A v \in Workers : v # w => Held(v)' = Held(v)
  BY BecomeOK
<1> QED
  BY <1>1 DEF ClaimsOK

(* A worker that took a job holds nothing. *)
LEMMA JobOK ==
    ASSUME StacksOK, NEW w \in Workers, Idle(w), NEW H
    PROVE  Held(w) = {} /\ FramesOK(stack[w], H)
<1>1. stack[w] = <<>>
  BY DEF Idle
<1>2. FramesOK(<<>>, {}) /\ FramesOK(<<>>, H)
  BY EmptyOK
<1> QED
  BY <1>1, <1>2, TasksWithin DEF Held

(* The tasks of the area scheduler stay.  *)
LEMMA SameTasks ==
    ASSUME TasksOK, UNCHANGED tasks
    PROVE  TasksOK' /\ Known' = Known
BY DEF TasksOK, Known

(* Nothing a worker holds is at stake when only other things change. *)
LEMMA StillOK ==
    ASSUME StacksOK, ClaimsOK, TasksOK, UNCHANGED <<stack, tasks>>
    PROVE  StacksOK' /\ ClaimsOK' /\ TasksOK'
<1>1. \A w \in Workers : Held(w)' = Held(w)
  BY DEF Held, TasksIn
<1>2. TasksOK' /\ Known' = Known
  BY SameTasks
<1>3. ASSUME NEW w \in Workers
      PROVE  FramesOK(stack'[w], Held(w)')
  <2>1. FramesOK(stack[w], Held(w)) /\ stack' = stack /\ Held(w)' = Held(w)
    BY <1>1 DEF StacksOK
  <2> QED
    BY <2>1
<1> QED
  BY <1>1, <1>2, <1>3 DEF StacksOK, ClaimsOK

(* A worker that goes on while no task comes or goes. *)
LEMMA GoOn ==
    ASSUME StacksOK, ClaimsOK, TasksOK, UNCHANGED tasks,
           NEW w \in Workers, NEW frames, FramesOK(frames, Held(w)), Become(w, frames)
    PROVE  StacksOK' /\ ClaimsOK' /\ TasksOK'
BY SameTasks, ProceedOK

-----------------------------------------------------------------------------
(* Tasks come and go.                                                      *)

(* A submitted task belongs to a chunk, and the others stay. *)
LEMMA SubmitOK ==
    ASSUME TasksOK, NEW c \in Chunks, NEW to, Submit(c, to)
    PROVE  TasksOK' /\ Known \subseteq Known'
<1> DEFINE t == NewTask(c, to)
<1>1. PICK T : tasks \in Seq(T) /\ \A u \in T : u.chunk \in Chunks
  BY DEF TasksOK
<1>2. t.chunk = c
  BY DEF NewTask
<1>3. tasks' = Append(tasks, t)
  BY DEF Submit
<1> HIDE DEF t
<1> DEFINE S == T \cup {t}
<1>4. \A u \in S : u.chunk \in Chunks
  BY <1>1, <1>2
<1>5. tasks \in Seq(S) /\ t \in S
  BY <1>1
<1> HIDE DEF S
<1>6. tasks' \in Seq(S)
  BY <1>3, <1>5
<1>7. \A k \in DOMAIN tasks : k \in DOMAIN tasks' /\ tasks'[k] = tasks[k]
  BY <1>3, <1>5
<1> QED
  BY <1>4, <1>6, <1>7 DEF TasksOK, Known

(* Where a known task is. *)
LEMMA PositionOK ==
    ASSUME NEW t \in Known
    PROVE  Position(t) \in DOMAIN tasks /\ tasks[Position(t)] = t
<1>1. \E k \in DOMAIN tasks : tasks[k] = t
  BY DEF Known
<1> QED
  BY <1>1 DEF Position

(* Forgetting a task leaves the others. *)
LEMMA ForgetOK ==
    ASSUME TasksOK, NEW t \in Known, Forget(t)
    PROVE  TasksOK' /\ Known \ {t} \subseteq Known'
<1> DEFINE p == Position(t)
           a == SubSeq(tasks, 1, p - 1)
           b == SubSeq(tasks, p + 1, Len(tasks))
<1>1. PICK T : tasks \in Seq(T) /\ \A u \in T : u.chunk \in Chunks
  BY DEF TasksOK
<1>2. p \in 1 .. Len(tasks) /\ tasks[p] = t
  BY <1>1, PositionOK
<1>3. tasks' = a \o b
  BY DEF Forget
<1> HIDE DEF p
<1>4. /\ a \in Seq(T) /\ Len(a) = p - 1
      /\ \A i \in 1 .. p - 1 : a[i] = tasks[i]
  BY <1>1, <1>2
<1>5. /\ b \in Seq(T) /\ Len(b) = Len(tasks) - p
      /\ \A i \in 1 .. Len(tasks) - p : b[i] = tasks[p + i]
  BY <1>1, <1>2
<1> HIDE DEF a, b
<1>6. tasks' \in Seq(T)
  BY <1>3, <1>4, <1>5
<1>7. ASSUME NEW k \in DOMAIN tasks, tasks[k] # t
      PROVE  \E i \in DOMAIN tasks' : tasks'[i] = tasks[k]
  <2>0. k \in 1 .. Len(tasks) /\ k # p /\ Len(tasks') = Len(tasks) - 1 /\ Len(tasks) \in Nat
    BY <1>1, <1>2, <1>3, <1>4, <1>5, <1>7
  <2>1. CASE k < p
    <3>1. k \in DOMAIN tasks' /\ tasks'[k] = a[k]
      BY <1>2, <1>3, <1>4, <1>5, <2>0, <2>1
    <3> QED
      BY <1>2, <1>4, <2>0, <2>1, <3>1
  <2>2. CASE k > p
    <3>1. k - 1 \in DOMAIN tasks' /\ tasks'[k - 1] = b[k - p]
      BY <1>2, <1>3, <1>4, <1>5, <2>0, <2>2
    <3>2. b[k - p] = tasks[k]
      BY <1>2, <1>5, <2>0, <2>2
    <3> QED
      BY <3>1, <3>2
  <2> QED
    BY <1>2, <2>0, <2>1, <2>2
<1> QED
  BY <1>1, <1>6, <1>7 DEF TasksOK, Known

-----------------------------------------------------------------------------
(* Edges: every change keeps the two ends in agreement.                    *)

LEMMA KeepEdges ==
    ASSUME EdgeShape, EdgesMatch, UNCHANGED edgeVars
    PROVE  EdgeShape' /\ EdgesMatch'
BY DEF EdgeShape, EdgesMatch, edgeVars

(* One new edge, for a status that is not the mark for none. *)
LEMMA BlockOK ==
    ASSUME EdgeShape, EdgesMatch, NEW c \in Chunks, NEW n \in Chunks, NEW need, need # -1,
           blocking' = [blocking EXCEPT ![c] = @ \cup {n}],
           waiting' = [waiting EXCEPT ![n][c] = need]
    PROVE  EdgeShape' /\ EdgesMatch'
<1>1. EdgeShape'
  BY DEF EdgeShape
<1>2. ASSUME NEW m \in Chunks, NEW k \in Chunks
      PROVE  k \in blocking'[m] <=> waiting'[k][m] # -1
  BY DEF EdgeShape, EdgesMatch
<1> QED
  BY <1>1, <1>2 DEF EdgesMatch

(* The edges to a chunk that completed. *)
LEMMA UnblockOK ==
    ASSUME EdgeShape, EdgesMatch, NEW c \in Chunks, NEW ms, Unblock(c, ms)
    PROVE  EdgeShape' /\ EdgesMatch'
<1>1. EdgeShape'
  BY DEF EdgeShape, Unblock
<1>2. ASSUME NEW m \in Chunks, NEW k \in Chunks
      PROVE  k \in blocking'[m] <=> waiting'[k][m] # -1
  BY DEF EdgeShape, EdgesMatch, Unblock
<1> QED
  BY <1>1, <1>2 DEF EdgesMatch

(* All edges of a chunk that failed. *)
LEMMA ClearEdgesOK ==
    ASSUME EdgeShape, EdgesMatch, NEW c \in Chunks, ClearEdges(c)
    PROVE  EdgeShape' /\ EdgesMatch'
<1>1. EdgeShape'
  BY DEF EdgeShape, ClearEdges
<1>2. ASSUME NEW m \in Chunks, NEW k \in Chunks
      PROVE  k \in blocking'[m] <=> waiting'[k][m] # -1
  BY DEF EdgeShape, EdgesMatch, ClearEdges
<1> QED
  BY <1>1, <1>2 DEF EdgesMatch

(* The edges from a chunk nobody wants any more. *)
LEMMA DropOK ==
    ASSUME EdgeShape, EdgesMatch, NEW c \in Chunks,
           waiting' = [n \in Chunks |->
                IF n \in blocking[c] THEN [waiting[n] EXCEPT ![c] = -1] ELSE waiting[n]],
           blocking' = [blocking EXCEPT ![c] = {}]
    PROVE  EdgeShape' /\ EdgesMatch'
<1>1. EdgeShape'
  BY DEF EdgeShape
<1>2. ASSUME NEW m \in Chunks, NEW k \in Chunks
      PROVE  k \in blocking'[m] <=> waiting'[k][m] # -1
  BY DEF EdgeShape, EdgesMatch
<1> QED
  BY <1>1, <1>2 DEF EdgesMatch

-----------------------------------------------------------------------------
(* The main thread.                                                        *)

LEMMA RequestChunkStep ==
    ASSUME EdgeInv, NEW r \in Requests, RequestChunk(r)
    PROVE  EdgeInv'
<1>1. UNCHANGED <<stack, tasks>> /\ UNCHANGED edgeVars
  BY DEF RequestChunk, taskVars
<1> QED
  BY <1>1, StillOK, KeepEdges DEF EdgeInv

LEMMA SetTicketStep ==
    ASSUME EdgeInv, NEW c \in Chunks, SetTicket(c)
    PROVE  EdgeInv'
<1>1. UNCHANGED <<stack, tasks>> /\ UNCHANGED edgeVars
  BY DEF SetTicket
<1> QED
  BY <1>1, StillOK, KeepEdges DEF EdgeInv

LEMMA LoadedStep ==
    ASSUME EdgeInv, NEW c \in Chunks, Loaded(c)
    PROVE  EdgeInv'
<1>1. UNCHANGED <<stack, tasks>>
  BY DEF Loaded, LoadHit, LoadMissing, LoadUnreadable, taskVars
<1>2. StacksOK' /\ ClaimsOK' /\ TasksOK'
  BY <1>1, StillOK DEF EdgeInv
<1>3. UNCHANGED edgeVars \/ ClearEdges(c)
  BY DEF Loaded, LoadHit, LoadMissing, LoadUnreadable, Abandon
<1> QED
  BY <1>2, <1>3, KeepEdges, ClearEdgesOK DEF EdgeInv

-----------------------------------------------------------------------------
(* Jobs.                                                                   *)

LEMMA ScheduleJobStep ==
    ASSUME EdgeInv, NEW w \in Workers, NEW c \in Chunks, ScheduleJob(w, c)
    PROVE  EdgeInv'
<1>1. /\ Become(w, <<Scheduling(c)>>) /\ UNCHANGED tasks /\ UNCHANGED edgeVars
  BY DEF ScheduleJob, taskVars
<1>2. FrameOK(Scheduling(c), Held(w))
  BY DEF FrameOK, Scheduling, TaskPlaces
<1>3. FramesOK(<<Scheduling(c)>>, Held(w))
  BY <1>2, SingleOK
<1> QED
  BY <1>1, <1>3, GoOn, KeepEdges DEF EdgeInv

LEMMA NotifyStoredStep ==
    ASSUME EdgeInv, NEW w \in Workers, NEW c \in Chunks, NotifyStored(w, c)
    PROVE  EdgeInv'
<1>1. /\ Become(w, Through("reschedule", Woken(c, Top), <<>>))
      /\ UNCHANGED tasks /\ Unblock(c, Freed(c, Top))
  BY DEF NotifyStored, taskVars
<1>2. Woken(c, Top) \in SUBSET Chunks
  BY DEF Woken, Freed
<1>3. FramesOK(Through("reschedule", Woken(c, Top), <<>>), Held(w))
  BY <1>2, EmptyOK, ThroughOK
<1> QED
  BY <1>1, <1>3, GoOn, UnblockOK DEF EdgeInv

LEMMA ReconcileJobStep ==
    ASSUME EdgeInv, NEW w \in Workers, NEW c \in Chunks, ReconcileJob(w, c)
    PROVE  EdgeInv'
<1>1. /\ Become(w, Through("reconcile", {c}, <<>>)) /\ UNCHANGED tasks /\ UNCHANGED edgeVars
  BY DEF ReconcileJob, taskVars
<1>2. FramesOK(Through("reconcile", {c}, <<>>), Held(w))
  BY EmptyOK, ThroughOK
<1> QED
  BY <1>1, <1>2, GoOn, KeepEdges DEF EdgeInv

-----------------------------------------------------------------------------
(* Scheduling.                                                             *)

(* What the frame of a scheduling worker says. *)
LEMMA SchedulingFrame ==
    ASSUME StacksOK, NEW w \in Workers, At(w, "schedule")
    PROVE  Doing(w).chunk \in Chunks /\ FramesOK(Below(w), Held(w))
BY DoingOK DEF FrameOK

(* What the frame of a scanning worker says. *)
LEMMA ScanningFrame ==
    ASSUME StacksOK, NEW w \in Workers, At(w, "scan")
    PROVE  /\ Doing(w).chunk \in Chunks
           /\ Doing(w).left \subseteq Reads(Doing(w).chunk, Doing(w).to)
           /\ FramesOK(Below(w), Held(w))
BY DoingOK DEF FrameOK

(* What a frame with chunks to work through says. *)
LEMMA LeftFrame ==
    ASSUME StacksOK, NEW w \in Workers, NEW place \in {"reschedule", "reconcile"}, At(w, place)
    PROVE  Doing(w).left \subseteq Chunks /\ FramesOK(Below(w), Held(w))
BY DoingOK DEF FrameOK

LEMMA RescheduleStep ==
    ASSUME EdgeInv, NEW w \in Workers, Reschedule(w)
    PROVE  EdgeInv'
<1>1. /\ At(w, "reschedule") /\ UNCHANGED tasks /\ UNCHANGED edgeVars
  BY DEF Reschedule, taskVars
<1>2. PICK c \in Doing(w).left :
        Become(w, <<Scheduling(c)>> \o Through("reschedule", Doing(w).left \ {c}, Below(w)))
  BY DEF Reschedule
<1>3. Doing(w).left \subseteq Chunks /\ FramesOK(Below(w), Held(w))
  BY <1>1, LeftFrame DEF EdgeInv
<1> DEFINE rest == Through("reschedule", Doing(w).left \ {c}, Below(w))
<1>4. FramesOK(rest, Held(w))
  <2>1. Doing(w).left \ {c} \in SUBSET Chunks
    BY <1>3
  <2> QED
    BY <1>3, <2>1, ThroughOK
<1> HIDE DEF rest
<1>5. FramesOK(<<Scheduling(c)>> \o rest, Held(w))
  BY <1>2, <1>3, <1>4, SchedulingOK
<1>6. Become(w, <<Scheduling(c)>> \o rest)
  BY <1>2 DEF rest
<1> QED
  BY <1>1, <1>5, <1>6, GoOn, KeepEdges DEF EdgeInv

LEMMA NothingToScheduleStep ==
    ASSUME EdgeInv, NEW w \in Workers, NothingToSchedule(w)
    PROVE  EdgeInv'
<1>1. At(w, "schedule") /\ Become(w, Below(w)) /\ UNCHANGED tasks /\ UNCHANGED edgeVars
  BY DEF NothingToSchedule, taskVars
<1>2. FramesOK(Below(w), Held(w))
  BY <1>1, SchedulingFrame DEF EdgeInv
<1> QED
  BY <1>1, <1>2, GoOn, KeepEdges DEF EdgeInv

LEMMA ResolveStorageStep ==
    ASSUME EdgeInv, NEW w \in Workers, ResolveStorage(w)
    PROVE  EdgeInv'
<1>1. At(w, "schedule") /\ Become(w, Below(w)) /\ UNCHANGED tasks /\ UNCHANGED edgeVars
  BY DEF ResolveStorage, taskVars
<1>2. FramesOK(Below(w), Held(w))
  BY <1>1, SchedulingFrame DEF EdgeInv
<1> QED
  BY <1>1, <1>2, GoOn, KeepEdges DEF EdgeInv

LEMMA LoadEmptyStep ==
    ASSUME EdgeInv, NEW w \in Workers, LoadEmpty(w)
    PROVE  EdgeInv'
<1>1. /\ At(w, "schedule") /\ Become(w, Below(w)) /\ Submit(Doing(w).chunk, 0)
      /\ UNCHANGED edgeVars
  BY DEF LoadEmpty
<1>2. Doing(w).chunk \in Chunks /\ FramesOK(Below(w), Held(w))
  BY <1>1, SchedulingFrame DEF EdgeInv
<1>3. TasksOK' /\ Known \subseteq Known'
  BY <1>1, <1>2, SubmitOK DEF EdgeInv
<1> QED
  BY <1>1, <1>2, <1>3, ProceedOK, KeepEdges DEF EdgeInv

LEMMA StartScanStep ==
    ASSUME EdgeInv, NEW w \in Workers, StartScan(w)
    PROVE  EdgeInv'
<1> DEFINE c == Doing(w).chunk
           to == status[c] + 1
           frames == <<Scanning(c, to, Reads(c, to), FALSE)>> \o Below(w)
<1>1. At(w, "schedule") /\ Become(w, frames) /\ UNCHANGED tasks /\ UNCHANGED edgeVars
  BY DEF StartScan, taskVars
<1>2. c \in Chunks /\ FramesOK(Below(w), Held(w))
  BY <1>1, SchedulingFrame DEF EdgeInv
<1>3. FramesOK(frames, Held(w))
  BY <1>2, ScanningOK
<1> HIDE DEF frames
<1> QED
  BY <1>1, <1>3, GoOn, KeepEdges DEF EdgeInv

LEMMA CheckNeighbourStep ==
    ASSUME EdgeInv, NEW w \in Workers, CheckNeighbour(w)
    PROVE  EdgeInv'
<1> DEFINE f == Doing(w)
           c == f.chunk
           Later(n, unready) == <<Scanning(c, f.to, f.left \ {n}, unready)>> \o Below(w)
<1>1. At(w, "scan") /\ UNCHANGED tasks
  BY DEF CheckNeighbour, taskVars
<1>2. c \in Chunks /\ f.left \subseteq Reads(c, f.to) /\ FramesOK(Below(w), Held(w))
  BY <1>1, ScanningFrame DEF EdgeInv
<1>3. PICK n \in f.left :
        \/ UNCHANGED edgeVars /\ \E unready : Become(w, Later(n, unready))
        \/ /\ blocking' = [blocking EXCEPT ![c] = @ \cup {n}]
           /\ waiting' = [waiting EXCEPT ![n][c] = Required[f.to][c, n]]
           /\ Become(w, Later(n, TRUE)) \/ Become(w, <<Scheduling(n)>> \o Later(n, TRUE))
  BY DEF CheckNeighbour
<1>4. n \in Chunks /\ Required[f.to][c, n] # -1
  BY <1>2, <1>3, Zenon DEF Reads
<1>5. ASSUME NEW unready
      PROVE  FramesOK(Later(n, unready), Held(w))
  <2>1. f.left \ {n} \subseteq Reads(c, f.to)
    BY <1>2
  <2> QED
    BY <1>2, <2>1, ScanningOK
<1> HIDE DEF Later
<1>6. FramesOK(<<Scheduling(n)>> \o Later(n, TRUE), Held(w))
  BY <1>4, <1>5, SchedulingOK
<1>7. StacksOK' /\ ClaimsOK' /\ TasksOK'
  BY <1>1, <1>3, <1>5, <1>6, GoOn DEF EdgeInv
<1> DEFINE need == Required[f.to][c, n]
<1>8. /\ need # -1
      /\ \/ UNCHANGED edgeVars
         \/ /\ blocking' = [blocking EXCEPT ![c] = @ \cup {n}]
            /\ waiting' = [waiting EXCEPT ![n][c] = need]
  BY <1>3, <1>4, Zenon
<1> HIDE DEF need
<1>9. EdgeShape' /\ EdgesMatch'
  <2>1. CASE UNCHANGED edgeVars
    BY <2>1, KeepEdges DEF EdgeInv
  <2>2. CASE /\ blocking' = [blocking EXCEPT ![c] = @ \cup {n}]
             /\ waiting' = [waiting EXCEPT ![n][c] = need]
    BY <1>2, <1>4, <1>8, <2>2, BlockOK DEF EdgeInv
  <2> QED
    BY <1>8, <2>1, <2>2
<1> QED
  BY <1>7, <1>9 DEF EdgeInv

LEMMA ScannedStep ==
    ASSUME EdgeInv, NEW w \in Workers, Scanned(w)
    PROVE  EdgeInv'
<1>1. /\ At(w, "scan") /\ Become(w, Below(w)) /\ UNCHANGED edgeVars
      /\ UNCHANGED tasks \/ Submit(Doing(w).chunk, Doing(w).to)
  BY DEF Scanned, taskVars
<1>2. Doing(w).chunk \in Chunks /\ FramesOK(Below(w), Held(w))
  BY <1>1, ScanningFrame DEF EdgeInv
<1>3. TasksOK' /\ Known \subseteq Known'
  BY <1>1, <1>2, SubmitOK, SameTasks DEF EdgeInv
<1> QED
  BY <1>1, <1>2, <1>3, ProceedOK, KeepEdges DEF EdgeInv

-----------------------------------------------------------------------------
(* Tasks.                                                                  *)

(* A task a worker takes is nobody else's, and nobody holds it already. *)
LEMMA TakeTaskStep ==
    ASSUME EdgeInv, NEW w \in Workers, TakeTask(w)
    PROVE  EdgeInv'
<1>1. UNCHANGED tasks /\ UNCHANGED edgeVars
  BY DEF TakeTask, taskVars
<1>2. PICK k \in DOMAIN tasks :
        /\ Leads(k)
        /\ Become(w, <<ForTask(IF tasks[k] \in cut THEN "cancel" ELSE "execute", tasks[k])>>)
  BY DEF TakeTask
<1> DEFINE t == tasks[k]
           place == IF t \in cut THEN "cancel" ELSE "execute"
           H == {t}
<1>3. t \in Known /\ t.chunk \in Chunks
  BY DEF Known, TasksOK, EdgeInv
<1>4. ASSUME NEW v \in Workers
      PROVE  t \notin Held(v)
  BY <1>2 DEF Leads, Claimed, Held, TasksIn
<1>5. Become(w, <<ForTask(place, t)>>)
  BY <1>2
<1>6. place \in TaskPlaces /\ t \in H
  BY DEF TaskPlaces
<1> HIDE DEF place, t, H
<1>7. FramesOK(<<ForTask(place, t)>>, H)
  BY <1>3, <1>6, ForTaskOK
<1>8. /\ StacksOK' /\ Held(w)' \subseteq H
      /\ \A v \in Workers : v # w => Held(v)' = Held(v)
  BY <1>5, <1>7, BecomeOK DEF EdgeInv
<1>9. TasksOK' /\ Known' = Known
  BY <1>1, SameTasks DEF EdgeInv
<1>10. ClaimsOK'
  BY <1>3, <1>4, <1>8, <1>9 DEF H, ClaimsOK, EdgeInv
<1> QED
  BY <1>1, <1>8, <1>9, <1>10, KeepEdges DEF EdgeInv

LEMMA ExecuteStep ==
    ASSUME EdgeInv, NEW w \in Workers, Execute(w)
    PROVE  EdgeInv'
<1> DEFINE t == Doing(w).task
<1>1. At(w, "execute") /\ UNCHANGED tasks /\ UNCHANGED edgeVars
  BY DEF Execute
<1>2. \E place \in {"undone", "body", "complete"} : Become(w, <<ForTask(place, t)>>)
  BY DEF Execute
<1>3. t \in Held(w) /\ t.chunk \in Chunks
  BY <1>1, DoingTask DEF EdgeInv, TaskPlaces
<1>4. ASSUME NEW place \in {"undone", "body", "complete"}
      PROVE  FramesOK(<<ForTask(place, t)>>, Held(w))
  BY <1>3, ForTaskOK DEF TaskPlaces
<1> QED
  BY <1>1, <1>2, <1>4, GoOn, KeepEdges DEF EdgeInv

LEMMA BodyStep ==
    ASSUME EdgeInv, NEW w \in Workers, Body(w)
    PROVE  EdgeInv'
<1> DEFINE t == Doing(w).task
<1>1. /\ At(w, "body") /\ UNCHANGED tasks /\ UNCHANGED edgeVars
      /\ Become(w, <<ForTask("complete", t)>>)
  BY DEF Body, taskVars
<1>2. t \in Held(w) /\ t.chunk \in Chunks
  BY <1>1, DoingTask DEF EdgeInv, TaskPlaces
<1>3. FramesOK(<<ForTask("complete", t)>>, Held(w))
  BY <1>2, ForTaskOK DEF TaskPlaces
<1> QED
  BY <1>1, <1>3, GoOn, KeepEdges DEF EdgeInv

LEMMA CompleteStep ==
    ASSUME EdgeInv, NEW w \in Workers, Complete(w)
    PROVE  EdgeInv'
<1> DEFINE t == Doing(w).task
           c == t.chunk
           done == <<ForTask("done", t)>>
<1>1. At(w, "complete") /\ UNCHANGED tasks
  BY DEF Complete
<1>2. \/ Become(w, done) /\ UNCHANGED edgeVars
      \/ /\ Unblock(c, Freed(c, t.to))
         /\ \E again \in SUBSET {c} :
              Become(w, Through("reschedule", Woken(c, t.to) \cup again, done))
  <2>1. CASE task[c] = None
    BY <2>1 DEF Complete
  <2>2. CASE task[c] # None
    <3> DEFINE demand == Highest(Ticket(c), Waiters(c),
                            [m \in Chunks |-> IF m \in Freed(c, t.to) THEN -1 ELSE waiting[c][m]])
               again == {x \in {c} : ~failed[c] /\ Max({status[c], t.to}) < demand}
    <3>1. /\ Unblock(c, Freed(c, t.to))
          /\ Become(w, Through("reschedule", Woken(c, t.to) \cup again, done))
      BY <2>2 DEF Complete
    <3>2. again \in SUBSET {c}
      OBVIOUS
    <3> QED
      BY <3>1, <3>2
  <2> QED
    BY <2>1, <2>2
<1>3. t \in Held(w) /\ c \in Chunks
  BY <1>1, DoingTask DEF EdgeInv, TaskPlaces
<1>4. FramesOK(done, Held(w))
  BY <1>3, ForTaskOK DEF TaskPlaces
<1> HIDE DEF done
<1>5. ASSUME NEW again \in SUBSET {c}
      PROVE  FramesOK(Through("reschedule", Woken(c, t.to) \cup again, done), Held(w))
  <2>1. Woken(c, t.to) \cup again \in SUBSET Chunks
    BY <1>3 DEF Woken, Freed
  <2> QED
    BY <1>4, <2>1, ThroughOK
<1>6. StacksOK' /\ ClaimsOK' /\ TasksOK'
  BY <1>1, <1>2, <1>4, <1>5, GoOn DEF EdgeInv
<1>7. EdgeShape' /\ EdgesMatch'
  BY <1>2, <1>3, KeepEdges, UnblockOK DEF EdgeInv
<1> QED
  BY <1>6, <1>7 DEF EdgeInv

LEMMA CancelStep ==
    ASSUME EdgeInv, NEW w \in Workers, Cancel(w)
    PROVE  EdgeInv'
<1> DEFINE t == Doing(w).task
           c == t.chunk
           undone == <<ForTask("undone", t)>>
           again == Through("reschedule", {c}, undone)
           reconciled == Through("reconcile", {c}, again)
<1>1. /\ At(w, "cancel") /\ UNCHANGED tasks /\ UNCHANGED edgeVars
      /\ Become(w, reconciled) \/ Become(w, undone)
  BY DEF Cancel
<1>2. t \in Held(w) /\ c \in Chunks
  BY <1>1, DoingTask DEF EdgeInv, TaskPlaces
<1>3. FramesOK(undone, Held(w))
  BY <1>2, ForTaskOK DEF TaskPlaces
<1> HIDE DEF undone
<1>4. {c} \in SUBSET Chunks
  BY <1>2
<1>5. FramesOK(again, Held(w))
  BY <1>3, <1>4, ThroughOK
<1> HIDE DEF again
<1>6. FramesOK(reconciled, Held(w))
  BY <1>4, <1>5, ThroughOK
<1> HIDE DEF reconciled
<1> QED
  BY <1>1, <1>3, <1>6, GoOn, KeepEdges DEF EdgeInv

(* A worker that is done with its task forgets it: it held no other. *)
LEMMA DoneOK ==
    ASSUME StacksOK, ClaimsOK, TasksOK, NEW w \in Workers, NEW t \in Held(w), Forget(t),
           Become(w, <<>>)
    PROVE  StacksOK' /\ ClaimsOK' /\ TasksOK'
<1> DEFINE H == {}
<1>1. FramesOK(<<>>, H)
  BY EmptyOK
<1>2. H = {}
  OBVIOUS
<1> HIDE DEF H
<1>3. /\ StacksOK' /\ Held(w)' \subseteq H
      /\ \A v \in Workers : v # w => Held(v)' = Held(v)
  BY <1>1, BecomeOK
<1>4. t \in Known
  BY DEF ClaimsOK
<1>5. TasksOK' /\ Known \ {t} \subseteq Known'
  BY <1>4, ForgetOK
<1>6. \A v \in Workers : v # w => t \notin Held(v)
  BY DEF ClaimsOK
<1>7. ClaimsOK'
  BY <1>2, <1>3, <1>5, <1>6 DEF ClaimsOK
<1> QED
  BY <1>3, <1>5, <1>7

LEMMA CallbackDoneStep ==
    ASSUME EdgeInv, NEW w \in Workers, CallbackDone(w)
    PROVE  EdgeInv'
<1>1. /\ At(w, "done") /\ Forget(Doing(w).task) /\ Become(w, <<>>) /\ UNCHANGED edgeVars
  BY DEF CallbackDone
<1>2. Doing(w).task \in Held(w)
  BY <1>1, DoingTask DEF EdgeInv, TaskPlaces
<1> QED
  BY <1>1, <1>2, DoneOK, KeepEdges DEF EdgeInv

LEMMA CallbackUndoneStep ==
    ASSUME EdgeInv, NEW w \in Workers, CallbackUndone(w)
    PROVE  EdgeInv'
<1> DEFINE t == Doing(w).task
<1>1. /\ At(w, "undone") /\ UNCHANGED tasks /\ UNCHANGED edgeVars
      /\ Become(w, <<Failing(t, task[t.chunk])>>)
  BY DEF CallbackUndone, taskVars
<1>2. t \in Held(w) /\ t.chunk \in Chunks
  BY <1>1, DoingTask DEF EdgeInv, TaskPlaces
<1>3. FramesOK(<<Failing(t, task[t.chunk])>>, Held(w))
  BY <1>2, FailingOK
<1> QED
  BY <1>1, <1>3, GoOn, KeepEdges DEF EdgeInv

LEMMA FailStep ==
    ASSUME EdgeInv, NEW w \in Workers, Fail(w)
    PROVE  EdgeInv'
<1> DEFINE t == Doing(w).task
<1>1. At(w, "failing") /\ Forget(t) /\ Become(w, <<>>)
  BY DEF Fail
<1>2. UNCHANGED edgeVars \/ ClearEdges(t.chunk)
  BY DEF Fail, Abandon
<1>3. t \in Held(w) /\ t.chunk \in Chunks
  BY <1>1, DoingTask DEF EdgeInv, TaskPlaces
<1>4. EdgeShape' /\ EdgesMatch'
  BY <1>2, <1>3, KeepEdges, ClearEdgesOK DEF EdgeInv
<1> QED
  BY <1>1, <1>3, <1>4, DoneOK DEF EdgeInv

LEMMA ReconcileStep ==
    ASSUME EdgeInv, NEW w \in Workers, Reconcile(w)
    PROVE  EdgeInv'
<1>1. At(w, "reconcile") /\ UNCHANGED tasks
  BY DEF Reconcile
<1>2. Doing(w).left \subseteq Chunks /\ FramesOK(Below(w), Held(w))
  BY <1>1, LeftFrame DEF EdgeInv
<1>3. PICK c \in Doing(w).left :
        \/ /\ waiting' = [n \in Chunks |->
                    IF n \in blocking[c] THEN [waiting[n] EXCEPT ![c] = -1] ELSE waiting[n]]
           /\ blocking' = [blocking EXCEPT ![c] = {}]
           /\ Become(w, Through("reconcile", (Doing(w).left \ {c}) \cup blocking[c], Below(w)))
        \/ /\ UNCHANGED edgeVars
           /\ Become(w, Through("reconcile", Doing(w).left \ {c}, Below(w)))
  BY DEF Reconcile
<1>4. c \in Chunks /\ blocking[c] \subseteq Chunks
  BY <1>2 DEF EdgeInv, EdgeShape
<1>5. ASSUME NEW left \in SUBSET Chunks
      PROVE  FramesOK(Through("reconcile", left, Below(w)), Held(w))
  BY <1>2, <1>5, ThroughOK
<1>6. \E left \in SUBSET Chunks : Become(w, Through("reconcile", left, Below(w)))
  <2>1. Doing(w).left \ {c} \in SUBSET Chunks /\ (Doing(w).left \ {c}) \cup blocking[c] \in SUBSET Chunks
    BY <1>2, <1>4
  <2> QED
    BY <1>3, <2>1
<1>7. StacksOK' /\ ClaimsOK' /\ TasksOK'
  BY <1>1, <1>5, <1>6, GoOn DEF EdgeInv
<1>8. EdgeShape' /\ EdgesMatch'
  BY <1>3, <1>4, KeepEdges, DropOK DEF EdgeInv
<1> QED
  BY <1>7, <1>8 DEF EdgeInv

-----------------------------------------------------------------------------
(* The theorems.                                                           *)

LEMMA EdgeInit ==
    ASSUME Init
    PROVE  EdgeInv
<1>1. EdgeShape /\ EdgesMatch
  BY DEF Init, EdgeShape, EdgesMatch
<1>2. TasksOK
  <2> DEFINE T == {}
  <2>1. tasks \in Seq(T) /\ \A t \in T : t.chunk \in Chunks
    BY DEF Init
  <2> HIDE DEF T
  <2> QED
    BY <2>1 DEF TasksOK
<1>3. \A w \in Workers : stack[w] = <<>> /\ Held(w) = {}
  BY DEF Init, Held, TasksIn
<1>4. StacksOK
  BY <1>3, EmptyOK DEF Init, StacksOK
<1>5. ClaimsOK
  BY <1>3 DEF ClaimsOK
<1> QED
  BY <1>1, <1>2, <1>4, <1>5 DEF EdgeInv

LEMMA ProceedStep ==
    ASSUME EdgeInv, NEW w \in Workers, Proceed(w)
    PROVE  EdgeInv'
BY ScheduleJobStep, NotifyStoredStep, ReconcileJobStep, RescheduleStep, NothingToScheduleStep,
   ResolveStorageStep, LoadEmptyStep, StartScanStep, CheckNeighbourStep, ScannedStep,
   TakeTaskStep, ExecuteStep, BodyStep, CompleteStep, CancelStep, CallbackDoneStep,
   CallbackUndoneStep, FailStep, ReconcileStep
   DEF Proceed

LEMMA EdgeNext ==
    ASSUME EdgeInv, [Next]_vars
    PROVE  EdgeInv'
<1>1. CASE Next
  BY <1>1, RequestChunkStep, SetTicketStep, LoadedStep, ProceedStep DEF Next
<1>2. CASE UNCHANGED vars
  <2>1. UNCHANGED <<stack, tasks>> /\ UNCHANGED edgeVars
    BY <1>2 DEF vars, taskVars
  <2> QED
    BY <2>1, StillOK, KeepEdges DEF EdgeInv
<1> QED
  BY <1>1, <1>2

(* Agreement of the edges, the shape of the stacks and who holds which     *)
(* task, together: what every step of the main thread and of the workers   *)
(* preserves.                                                              *)
THEOREM EdgeInvariant == Spec => []EdgeInv
<1>1. Init => EdgeInv
  BY EdgeInit
<1>2. EdgeInv /\ [Next]_vars => EdgeInv'
  BY EdgeNext
<1> QED
  BY <1>1, <1>2, PTL DEF Spec

(* A chunk is blocked by a neighbour exactly when that neighbour knows     *)
(* that it waits: no update of the edges in SingleChunkLifecycleManager    *)
(* and ChunkTaskScheduler leaves one end behind.                           *)
THEOREM EdgesAgree == Spec => []EdgesMatch
<1>1. EdgeInv => EdgesMatch
  BY DEF EdgeInv
<1> QED
  BY <1>1, EdgeInvariant, PTL

(* No progression task is in the hands of two workers, and every task in   *)
(* the hands of one is still in the area scheduler, which therefore keeps  *)
(* its area closed to later ones.                                          *)
THEOREM TasksHeldOnce == Spec => []ClaimsOK
<1>1. EdgeInv => ClaimsOK
  BY DEF EdgeInv
<1> QED
  BY <1>1, EdgeInvariant, PTL

-----------------------------------------------------------------------------
(* Raising an abort token and starting a task exclude each other in both   *)
(* orders, so their sets stay apart step by step.                          *)
LEMMA CutNext ==
    ASSUME StartedNeverCut, [Next]_vars
    PROVE  StartedNeverCut'
<1>1. ASSUME NEW c \in Chunks, SetTicket(c)
      PROVE  StartedNeverCut'
  BY <1>1 DEF SetTicket, Cuttable, StartedNeverCut
<1>2. ASSUME NEW w \in Workers, Execute(w)
      PROVE  StartedNeverCut'
  BY <1>2 DEF Execute, StartedNeverCut
<1>3. ASSUME NEW w \in Workers, Reconcile(w)
      PROVE  StartedNeverCut'
  <2>1. started' = started /\ \A t \in cut' : t \in cut \/ t \notin started
    BY <1>3 DEF Reconcile, Cuttable
  <2> QED
    BY <2>1 DEF StartedNeverCut
<1>4. ASSUME NEW w \in Workers, CallbackDone(w) \/ Fail(w)
      PROVE  StartedNeverCut'
  BY <1>4 DEF CallbackDone, Fail, Forget, StartedNeverCut
<1>5. ASSUME NEW w \in Workers, LoadEmpty(w) \/ Scanned(w)
      PROVE  StartedNeverCut'
  BY <1>5 DEF LoadEmpty, Scanned, Submit, taskVars, StartedNeverCut
<1>6. ASSUME UNCHANGED <<cut, started>>
      PROVE  StartedNeverCut'
  BY <1>6 DEF StartedNeverCut
<1>7. CASE UNCHANGED vars
  BY <1>6, <1>7 DEF vars, taskVars
<1>8. ASSUME NEW r \in Requests, RequestChunk(r)
      PROVE  StartedNeverCut'
  BY <1>6, <1>8 DEF RequestChunk, taskVars
<1>9. ASSUME NEW c \in Chunks, Loaded(c)
      PROVE  StartedNeverCut'
  BY <1>6, <1>9 DEF Loaded, LoadHit, LoadMissing, LoadUnreadable, taskVars
<1>10. ASSUME NEW w \in Workers, Proceed(w)
       PROVE  StartedNeverCut'
  <2>1. CASE \E c \in Chunks : ScheduleJob(w, c) \/ NotifyStored(w, c) \/ ReconcileJob(w, c)
    BY <1>6, <2>1 DEF ScheduleJob, NotifyStored, ReconcileJob, taskVars
  <2>2. CASE Reschedule(w) \/ NothingToSchedule(w) \/ ResolveStorage(w) \/ StartScan(w)
    BY <1>6, <2>2 DEF Reschedule, NothingToSchedule, ResolveStorage, StartScan, taskVars
  <2>3. CASE CheckNeighbour(w)
    BY <1>6, <2>3, Zenon DEF CheckNeighbour, taskVars
  <2>4. CASE TakeTask(w) \/ Body(w) \/ CallbackUndone(w)
    BY <1>6, <2>4 DEF TakeTask, Body, CallbackUndone, taskVars
  <2>5. CASE Complete(w)
    BY <1>6, <2>5 DEF Complete
  <2>6. CASE Cancel(w)
    BY <1>6, <2>6 DEF Cancel
  <2> QED
    BY <1>2, <1>3, <1>4, <1>5, <1>10, <2>1, <2>2, <2>3, <2>4, <2>5, <2>6 DEF Proceed
<1> QED
  BY <1>1, <1>7, <1>8, <1>9, <1>10 DEF Next

(* A stage that has started is never cancelled: falling demand looks at    *)
(* the task under the same lock that execute starts it under.              *)
THEOREM StagesRunToEnd == Spec => []StartedNeverCut
<1>1. Init => StartedNeverCut
  BY DEF Init, StartedNeverCut
<1>2. StartedNeverCut /\ [Next]_vars => StartedNeverCut'
  BY CutNext
<1> QED
  BY <1>1, <1>2, PTL DEF Spec

-----------------------------------------------------------------------------
(***************************************************************************)
(* Steps fit their holders.  A step is checked when its task is submitted  *)
(* and runs much later, so the argument is about what happens between:     *)
(* statuses only rise, and a holder's status rises only by the one task    *)
(* that the holder has.  That there is one task only is the area           *)
(* scheduler's order (of two tasks of a chunk the earlier is finished      *)
(* first) and the check of schedule() that a holder has no task.  The      *)
(* check lies some steps before the submission, while neighbours are       *)
(* scheduled: they are always at a lower status than those that wait for   *)
(* them, so schedule() never comes back to a chunk being scanned.          *)
(***************************************************************************)

Inside(s) == {s[i] : i \in DOMAIN s}
TaskFrames(s) == {f \in Inside(s) : f.at \in TaskPlaces}

\* The frames with a task, of all workers.
Hands == UNION {TaskFrames(stack[w]) : w \in Workers}

\* A task is at the bottom of a stack, schedule() at the top, and each scan was caused by the
\* one below it, for a lower status.
Rests(f, g) ==
    /\ g.at # "schedule"
    /\ g.at = "scan" => f.at = "schedule" \/ (f.at = "scan" /\ f.to < g.to)
Ordered(s) ==
    /\ \A i \in DOMAIN s : s[i].at \in TaskPlaces => i = Len(s)
    /\ \A i, j \in DOMAIN s : i < j => Rests(s[i], s[j])

Locking(s) == s # <<>> /\ Head(s).at \in {"schedule", "scan"}

ShapesOK ==
    /\ \A w \in Workers : Ordered(stack[w])
    /\ \A v, w \in Workers : Locking(stack[v]) /\ Locking(stack[w]) => v = w

Heights == -1 .. Top
HoldersOK ==
    /\ status \in [Chunks -> Heights]
    /\ source \in [Chunks -> {"unknown", "resolving", "missing", "ready"}]
    /\ failed \in [Chunks -> BOOLEAN]
    /\ task = [c \in Chunks |-> task[c]]
    /\ \A c \in Chunks : source[c] \in {"unknown", "resolving"} => status[c] = -1

DemandOK ==
    /\ moves = [c \in Chunks |-> moves[c]] /\ \A c \in Chunks : moves[c] \in 0 .. Len(Path[c])
    /\ \A n, c \in Chunks : waiting[n][c] \in Heights

\* No task is submitted twice, and none for a chunk that could be loaded.
Distinct(list) == \A i, j \in DOMAIN list : i # j => list[i] # list[j]
ListOK ==
    /\ Distinct(tasks)
    /\ \A t \in Known : t \in ProgressionTasks /\ source[t.chunk] \in {"missing", "ready"}

\* Workers have the first tasks of chunks, one of each.
FirstIn(list, t) == \A i, j \in DOMAIN list : list[j] = t /\ i < j => list[i].chunk # t.chunk
HandsOK ==
    /\ \A f \in Hands : FirstIn(tasks, f.task)
    /\ \A f, g \in Hands : f.task.chunk = g.task.chunk => f = g
    /\ \A f \in Hands : f.at = "body" => f.task.to \in {0, Top}

\* A task that has still to bring its chunk to its status, and one that has just done so.
EndedIn(hands, t) == \E f \in hands : f.at \in {"done", "undone", "failing"} /\ f.task = t
PublishedIn(hands, t) == t.to \in {0, Top} /\ \E f \in hands : f.at = "complete" /\ f.task = t
Open == {t \in Known : ~EndedIn(Hands, t)}

Need(s, c, n) == Required[s][c, n]

OpenOK(t) ==
    /\ task[t.chunk] = t \/ failed[t.chunk]
    /\ status[t.chunk] = IF PublishedIn(Hands, t) THEN t.to ELSE t.to - 1
    /\ t.to = 0 => source[t.chunk] = "missing"
    /\ \A n \in Reads(t.chunk, t.to) : status[n] >= Need(t.to, t.chunk, n)
OpensOK ==
    /\ \A t \in Open : OpenOK(t)
    /\ \A t, u \in Open : t.chunk = u.chunk => t = u

\* What a scan has found so far holds until it ends; what is scheduled on its behalf is
\* another chunk, below the one scanned.
ScanOK(f) ==
    /\ f.to \in 1 .. Top /\ status[f.chunk] = f.to - 1
    /\ task[f.chunk] = None /\ ~failed[f.chunk]
    /\ f.unready \/ \A n \in Reads(f.chunk, f.to) \ f.left : status[n] >= Need(f.to, f.chunk, n)
LowerThan(c, f) ==
    /\ c # f.chunk
    /\ task[c] = None /\ ~failed[c] /\ status[c] # Top => status[c] + 1 < f.to
Upcoming(s, c) == s # <<>> /\ Head(s).at = "schedule" /\ Head(s).chunk = c
ScansOK ==
    \A w \in Workers : \A f \in Inside(stack[w]) : f.at = "scan" =>
        /\ ScanOK(f)
        /\ \A c \in Chunks : Upcoming(stack[w], c) => LowerThan(c, f)

WorkInv == HoldersOK /\ ListOK /\ HandsOK /\ OpensOK
StepInv == EdgeInv /\ DemandOK /\ ShapesOK /\ WorkInv /\ ScansOK

-----------------------------------------------------------------------------
(* The parameters, one by one. *)
LEMMA AssumptionParts ==
    /\ Top \in Nat \ {0} /\ Border \in Statuses
    /\ Required \in [1 .. Top -> [Chunks \X Chunks -> {-1} \cup 1 .. Top - 1]]
    /\ \A s \in 1 .. Top, c, n \in Chunks : Required[s][c, n] < s
    /\ \A s \in Statuses, c \in Chunks : c \in Area[s][c]
    /\ Wanted \in [Requests -> [chunk : Chunks, status : 1 .. Top]]
    /\ Path \in [Chunks -> Seq({-1} \cup Statuses)]
    /\ None \notin [chunk : Chunks, to : Statuses, id : Nat]
BY ChunkAssumption, Zenon

LEMMA TopOK == Top \in Nat /\ Top \in Statuses /\ 0 \in Statuses /\ Top # 0
<1>1. Top \in Nat \ {0}
  BY AssumptionParts, Zenon
<1> QED
  BY <1>1 DEF Statuses

-----------------------------------------------------------------------------
(* The highest of some statuses.                                           *)

(* A set of naturals has a least member. *)
LEMMA LeastExists ==
    ASSUME NEW S, S \subseteq Nat, S # {}
    PROVE  \E x \in S : \A y \in S : x <= y
<1> DEFINE R == OpToRel(<, Nat)
<1>1. IsWellFoundedOn(R, Nat)
  BY NatLessThanWellFounded
<1>2. \E x \in S : \A y \in S : ~ (<<y, x>> \in R)
  <2> HIDE DEF R
  <2> QED
    BY <1>1, WFMin, Zenon
<1>3. ASSUME NEW x \in Nat, NEW y \in Nat, ~(<<y, x>> \in R)
      PROVE  x <= y
  <2>1. ~(y < x)
    BY <1>3, Zenon DEF OpToRel
  <2> QED
    BY <2>1
<1> HIDE DEF R
<1> QED
  BY <1>2, <1>3

(* The least identifier that is not in use. *)
LEMMA LeastOK ==
    ASSUME NEW S, S \subseteq Nat, S # {}
    PROVE  Min(S) \in S
<1>1. \E x \in S : \A y \in S : x <= y
  BY LeastExists
<1> QED
  BY <1>1 DEF Min

(* Statuses have a highest. *)
LEMMA HighestOK ==
    ASSUME NEW S, S \subseteq Heights, S # {}
    PROVE  Max(S) \in S /\ \A x \in S : Max(S) >= x
<1> DEFINE D == {Top - x : x \in S}
<1>1. Top \in Nat /\ \A x \in S : x \in Int /\ x <= Top
  <2>1. Top \in Nat
    BY TopOK
  <2> QED
    BY <2>1 DEF Heights
<1>2. D \subseteq Nat /\ D # {}
  BY <1>1
<1>3. PICK d \in D : \A e \in D : d <= e
  <2> HIDE DEF D
  <2> QED
    BY <1>2, LeastExists
<1>4. PICK x \in S : d = Top - x
  BY <1>3
<1>5. ASSUME NEW y \in S
      PROVE  x >= y
  <2>1. d <= Top - y
    BY <1>3
  <2> QED
    BY <2>1, <1>1, <1>4
<1> QED
  BY <1>5 DEF Max

(* No demand is above the full status. *)
LEMMA TargetOK ==
    ASSUME DemandOK, NEW c \in Chunks
    PROVE  Target(c) \in Heights
<1> DEFINE S == {Ticket(c)} \cup {Wanted[r].status : r \in Waiters(c)} \cup {waiting[c][m] : m \in Chunks}
<1>1. Ticket(c) \in Heights
  <2>1. moves[c] \in 0 .. Len(Path[c]) /\ Path[c] \in Seq({-1} \cup Statuses) /\ Top \in Nat
    BY AssumptionParts DEF DemandOK
  <2> QED
    BY <2>1 DEF Ticket, TicketAfter, Heights, Statuses
<1>2. ASSUME NEW r \in Requests
      PROVE  Wanted[r].status \in Heights
  <2>1. Wanted[r] \in [chunk : Chunks, status : 1 .. Top]
    BY AssumptionParts
  <2> QED
    BY <2>1, TopOK DEF Heights
<1>3. S \subseteq Heights /\ S # {}
  BY <1>1, <1>2 DEF Waiters, DemandOK
<1>4. Max(S) \in S
  <2> HIDE DEF S
  <2> QED
    BY <1>3, HighestOK
<1>5. Target(c) = Max(S)
  BY DEF Target, Highest
<1> HIDE DEF S
<1> QED
  BY <1>3, <1>4, <1>5

-----------------------------------------------------------------------------
(* The shape of stacks.                                                    *)

\* Nothing to do with schedule().
Plain(s) == \A g \in Inside(s) : g.at \notin {"schedule", "scan"}

(* A frame on top of others. *)
LEMMA OnTop ==
    ASSUME NEW s, NEW H, FramesOK(s, H), NEW f
    PROVE  /\ Inside(<<f>> \o s) = {f} \cup Inside(s)
           /\ Head(<<f>> \o s) = f /\ Tail(<<f>> \o s) = s /\ <<f>> \o s # <<>>
           /\ Ordered(<<f>> \o s) <=>
                /\ Ordered(s) /\ (f.at \in TaskPlaces => s = <<>>)
                /\ \A g \in Inside(s) : Rests(f, g)
<1>1. PICK F : s \in Seq(F)
  BY DEF FramesOK
<1> DEFINE q == <<f>> \o s
           n == Len(s)
<1>2. /\ n \in Nat /\ DOMAIN s = 1 .. n /\ DOMAIN q = 1 .. n + 1 /\ Len(q) = n + 1
      /\ q[1] = f /\ \A i \in 1 .. n : q[i + 1] = s[i]
      /\ \A i \in 2 .. n + 1 : q[i] = s[i - 1]
      /\ Head(q) = f /\ Tail(q) = s /\ q # <<>>
      /\ s = <<>> <=> n = 0
  BY <1>1
<1> HIDE DEF q, n
<1>3. Inside(q) = {f} \cup Inside(s)
  <2>1. ASSUME NEW g \in Inside(q)
        PROVE  g \in {f} \cup Inside(s)
    <3>1. PICK i \in 1 .. n + 1 : g = q[i]
      BY <1>2 DEF Inside
    <3>2. CASE i = 1
      BY <1>2, <3>1, <3>2
    <3>3. CASE i # 1
      <4>1. i \in 2 .. n + 1 /\ i - 1 \in 1 .. n
        BY <1>2, <3>3
      <4> QED
        BY <1>2, <3>1, <4>1 DEF Inside
    <3> QED
      BY <3>2, <3>3
  <2>2. f \in Inside(q)
    BY <1>2 DEF Inside
  <2>3. ASSUME NEW g \in Inside(s)
        PROVE  g \in Inside(q)
    <3>1. PICK i \in 1 .. n : g = s[i]
      BY <1>2 DEF Inside
    <3>2. i + 1 \in DOMAIN q /\ q[i + 1] = g
      BY <1>2, <3>1
    <3> QED
      BY <3>2 DEF Inside
  <2> QED
    BY <2>1, <2>2, <2>3
<1>4. ASSUME Ordered(q)
      PROVE  /\ Ordered(s) /\ (f.at \in TaskPlaces => s = <<>>)
             /\ \A g \in Inside(s) : Rests(f, g)
  <2>1. ASSUME NEW i \in DOMAIN s
        PROVE  i + 1 \in DOMAIN q /\ q[i + 1] = s[i] /\ 1 < i + 1 /\ i \in Nat
    BY <1>2
  <2>2. ASSUME NEW i \in DOMAIN s, s[i].at \in TaskPlaces
        PROVE  i = Len(s)
    <3>1. i + 1 = Len(q)
      BY <1>4, <2>1, <2>2 DEF Ordered
    <3> QED
      BY <1>2, <2>1, <3>1 DEF n
  <2>3. ASSUME NEW i \in DOMAIN s, NEW j \in DOMAIN s, i < j
        PROVE  Rests(s[i], s[j])
    <3>1. i + 1 < j + 1
      BY <2>1, <2>3
    <3> QED
      BY <1>4, <2>1, <3>1 DEF Ordered
  <2>4. ASSUME f.at \in TaskPlaces
        PROVE  s = <<>>
    <3>1. 1 = Len(q)
      BY <1>2, <1>4, <2>4 DEF Ordered
    <3> QED
      BY <1>2, <3>1
  <2>5. ASSUME NEW g \in Inside(s)
        PROVE  Rests(f, g)
    <3>1. PICK i \in DOMAIN s : g = s[i]
      BY DEF Inside
    <3>2. 1 \in DOMAIN q /\ q[1] = f
      BY <1>2
    <3> QED
      BY <1>4, <2>1, <3>1, <3>2 DEF Ordered
  <2> QED
    BY <2>2, <2>3, <2>4, <2>5 DEF Ordered
<1>5. ASSUME Ordered(s), f.at \in TaskPlaces => s = <<>>, \A g \in Inside(s) : Rests(f, g)
      PROVE  Ordered(q)
  <2>1. ASSUME NEW i \in DOMAIN q, i # 1
        PROVE  i - 1 \in DOMAIN s /\ q[i] = s[i - 1] /\ i \in Nat /\ s[i - 1] \in Inside(s)
    BY <1>2, <2>1 DEF Inside
  <2>2. ASSUME NEW i \in DOMAIN q, q[i].at \in TaskPlaces
        PROVE  i = Len(q)
    <3>1. CASE i = 1
      BY <1>2, <1>5, <2>2, <3>1
    <3>2. CASE i # 1
      <4>1. i - 1 = Len(s)
        BY <1>5, <2>1, <2>2, <3>2 DEF Ordered
      <4> QED
        BY <1>2, <2>1, <3>2, <4>1 DEF n
    <3> QED
      BY <3>1, <3>2
  <2>3. ASSUME NEW i \in DOMAIN q, NEW j \in DOMAIN q, i < j
        PROVE  Rests(q[i], q[j])
    <3>0. j # 1 /\ i \in Nat /\ j \in Nat
      BY <1>2, <2>3
    <3>1. CASE i = 1
      BY <1>2, <1>5, <2>1, <3>0, <3>1
    <3>2. CASE i # 1
      <4>1. i - 1 < j - 1
        BY <2>3, <3>0
      <4> QED
        BY <1>5, <2>1, <3>0, <3>2, <4>1 DEF Ordered
    <3> QED
      BY <3>1, <3>2
  <2> QED
    BY <2>2, <2>3 DEF Ordered
<1> QED
  BY <1>2, <1>3, <1>4, <1>5 DEF q

(* What is on top and what below. *)
LEMMA Topmost ==
    ASSUME NEW s, NEW H, FramesOK(s, H), s # <<>>
    PROVE  /\ Inside(s) = {Head(s)} \cup Inside(Tail(s))
           /\ Ordered(s) => /\ Ordered(Tail(s)) /\ (Head(s).at \in TaskPlaces => Tail(s) = <<>>)
                            /\ \A g \in Inside(Tail(s)) : Rests(Head(s), g)
<1> DEFINE f == Head(s)
           r == Tail(s)
<1>1. s = <<f>> \o r
  <2>1. PICK F : s \in Seq(F)
    BY DEF FramesOK
  <2> QED
    BY <2>1
<1>2. FramesOK(r, H)
  BY PopOK
<1> HIDE DEF f, r
<1>3. /\ Inside(<<f>> \o r) = {f} \cup Inside(r)
      /\ Ordered(<<f>> \o r) =>
            /\ Ordered(r) /\ (f.at \in TaskPlaces => r = <<>>) /\ \A g \in Inside(r) : Rests(f, g)
  BY <1>2, OnTop
<1>4. /\ Inside(s) = {f} \cup Inside(r)
      /\ Ordered(s) => /\ Ordered(r) /\ (f.at \in TaskPlaces => r = <<>>)
                       /\ \A g \in Inside(r) : Rests(f, g)
  BY <1>1, <1>3
<1> QED
  BY <1>4 DEF f, r

(* No frame, and one. *)
LEMMA FewShape ==
    /\ Inside(<<>>) = {} /\ Ordered(<<>>) /\ Plain(<<>>) /\ TaskFrames(<<>>) = {}
    /\ \A f : Inside(<<f>>) = {f} /\ Ordered(<<f>>) /\ Head(<<f>>) = f
    /\ ~Locking(<<>>)
<1>1. Inside(<<>>) = {} /\ Ordered(<<>>) /\ ~Locking(<<>>)
  BY DEF Inside, Ordered, Locking
<1>2. ASSUME NEW f
      PROVE  Inside(<<f>>) = {f} /\ Ordered(<<f>>) /\ Head(<<f>>) = f
  <2>1. DOMAIN <<f>> = {1} /\ <<f>>[1] = f /\ Len(<<f>>) = 1 /\ Head(<<f>>) = f
    OBVIOUS
  <2>2. \A i, j \in {1} : ~(i < j)
    OBVIOUS
  <2> QED
    BY <2>1, <2>2 DEF Inside, Ordered
<1> QED
  BY <1>1, <1>2 DEF Plain, TaskFrames

(* The rest of a set of chunks lies on what has nothing to do with schedule(). *)
LEMMA ThroughShape ==
    ASSUME NEW place \in {"reschedule", "reconcile"}, NEW left,
           NEW below, NEW H, FramesOK(below, H), Ordered(below), Plain(below)
    PROVE  LET s == Through(place, left, below)
           IN  Ordered(s) /\ Plain(s) /\ TaskFrames(s) = TaskFrames(below)
<1> DEFINE f == [at |-> place, left |-> left]
           s == Through(place, left, below)
<1>1. CASE left = {}
  BY <1>1 DEF Through
<1>2. CASE left # {}
  <2>1. s = <<f>> \o below /\ f.at = place
    BY <1>2 DEF Through
  <2>2. f.at \notin TaskPlaces /\ f.at \notin {"schedule", "scan"}
    BY <2>1 DEF TaskPlaces
  <2> HIDE DEF f, s
  <2>3. /\ Inside(<<f>> \o below) = {f} \cup Inside(below)
        /\ Ordered(<<f>> \o below) <=>
             /\ Ordered(below) /\ (f.at \in TaskPlaces => below = <<>>)
             /\ \A g \in Inside(below) : Rests(f, g)
    BY OnTop
  <2>4. \A g \in Inside(below) : Rests(f, g)
    BY DEF Plain, Rests
  <2>5. Inside(s) = {f} \cup Inside(below) /\ Ordered(s)
    BY <2>1, <2>2, <2>3, <2>4
  <2>6. Plain(s) /\ TaskFrames(s) = TaskFrames(below)
    BY <2>2, <2>5 DEF Plain, TaskFrames
  <2> QED
    BY <2>5, <2>6 DEF s
<1> QED
  BY <1>1, <1>2

(* A stack whose top has nothing to do with schedule() has nothing to do with it. *)
LEMMA PlainBelow ==
    ASSUME StacksOK, ShapesOK, NEW w \in Workers, stack[w] # <<>>
    PROVE  /\ Ordered(Below(w)) /\ Inside(stack[w]) = {Doing(w)} \cup Inside(Below(w))
           /\ Doing(w).at \in TaskPlaces => Below(w) = <<>>
           /\ \A g \in Inside(Below(w)) : Rests(Doing(w), g)
           /\ Doing(w).at \notin {"schedule", "scan"} => Plain(Below(w)) /\ Plain(stack[w])
<1>1. FramesOK(stack[w], Held(w)) /\ Ordered(stack[w])
  BY DEF StacksOK, ShapesOK
<1>2. /\ Inside(stack[w]) = {Head(stack[w])} \cup Inside(Tail(stack[w]))
      /\ Ordered(Tail(stack[w])) /\ (Head(stack[w]).at \in TaskPlaces => Tail(stack[w]) = <<>>)
      /\ \A g \in Inside(Tail(stack[w])) : Rests(Head(stack[w]), g)
  BY <1>1, Topmost
<1>3. ASSUME Head(stack[w]).at \notin {"schedule", "scan"}
      PROVE  Plain(Tail(stack[w])) /\ Plain(stack[w])
  BY <1>2, <1>3 DEF Rests, Plain
<1> QED
  BY <1>2, <1>3 DEF Below, Doing

(* While the lock is free there is no scan. *)
LEMMA LockedOK ==
    ASSUME StacksOK, ShapesOK
    PROVE  /\ Locked <=> \E w \in Workers : Locking(stack[w])
           /\ \A w \in Workers : ~Locking(stack[w]) => Plain(stack[w])
<1>1. Locked <=> \E w \in Workers : Locking(stack[w])
  BY DEF Locked, Locking, At
<1>2. ASSUME NEW w \in Workers, ~Locking(stack[w])
      PROVE  Plain(stack[w])
  <2>1. CASE stack[w] = <<>>
    BY <2>1, FewShape
  <2>2. CASE stack[w] # <<>>
    BY <1>2, <2>2, PlainBelow DEF Locking, Doing
  <2> QED
    BY <2>1, <2>2
<1> QED
  BY <1>1, <1>2

(* A worker that goes on in order, and locks only what was free or its own. *)
LEMMA ShapeOK ==
    ASSUME StacksOK, ShapesOK, NEW w \in Workers, NEW frames, Become(w, frames),
           Ordered(frames), Locking(frames) => Locking(stack[w]) \/ ~Locked
    PROVE  ShapesOK'
<1>1. stack'[w] = frames /\ \A v \in Workers : v # w => stack'[v] = stack[v]
  BY BecomeStack
<1>2. Locked <=> \E v \in Workers : Locking(stack[v])
  BY LockedOK
<1>3. ASSUME NEW v \in Workers
      PROVE  Ordered(stack'[v])
  BY <1>1 DEF ShapesOK
<1>4. ASSUME NEW u \in Workers, NEW v \in Workers, Locking(stack'[u]), Locking(stack'[v])
      PROVE  u = v
  BY <1>1, <1>2, <1>4 DEF ShapesOK
<1> QED
  BY <1>3, <1>4 DEF ShapesOK

-----------------------------------------------------------------------------
(* The tasks workers have.                                                 *)

(* The frames of a stack are good ones. *)
LEMMA InsideOK ==
    ASSUME NEW s, NEW H, FramesOK(s, H), NEW f \in Inside(s)
    PROVE  FrameOK(f, H)
<1>1. PICK F : s \in Seq(F) /\ \A g \in F : FrameOK(g, H)
  BY DEF FramesOK
<1>2. PICK i \in DOMAIN s : f = s[i]
  BY DEF Inside
<1> QED
  BY <1>1, <1>2

(* A task in hand is held, and still in the area scheduler. *)
LEMMA HandsKnown ==
    ASSUME StacksOK, ClaimsOK, NEW f \in Hands
    PROVE  f.at \in TaskPlaces /\ f.task \in Known /\ f.task.chunk \in Chunks
<1>1. PICK w \in Workers : f \in Inside(stack[w]) /\ f.at \in TaskPlaces
  BY DEF Hands, TaskFrames
<1>2. FrameOK(f, Held(w))
  BY <1>1, InsideOK DEF StacksOK
<1>3. f.task \in Held(w) /\ f.task.chunk \in Chunks
  BY <1>1, <1>2 DEF FrameOK
<1> QED
  BY <1>1, <1>3 DEF ClaimsOK

(* A worker with a task on top of its stack has nothing else. *)
LEMMA AtTask ==
    ASSUME StacksOK, ClaimsOK, ShapesOK, NEW w \in Workers, NEW place \in TaskPlaces, At(w, place)
    PROVE  /\ Doing(w).at = place /\ Doing(w) \in Hands
           /\ Doing(w).task \in Known /\ Doing(w).task.chunk \in Chunks
           /\ TaskFrames(stack[w]) = {Doing(w)} /\ Below(w) = <<>>
           /\ ~Locking(stack[w]) /\ ~Idle(w)
<1>1. stack[w] # <<>> /\ Doing(w).at = place
  BY DEF At, Doing
<1>2. Below(w) = <<>> /\ Inside(stack[w]) = {Doing(w)} \cup Inside(Below(w))
  BY <1>1, PlainBelow
<1>3. Inside(stack[w]) = {Doing(w)}
  BY <1>2, FewShape
<1>4. TaskFrames(stack[w]) = {Doing(w)} /\ Doing(w) \in Hands
  BY <1>1, <1>3 DEF TaskFrames, Hands
<1>5. Doing(w).task \in Known /\ Doing(w).task.chunk \in Chunks
  BY <1>4, HandsKnown
<1>6. ~Locking(stack[w]) /\ ~Idle(w)
  BY <1>1 DEF Locking, Idle, Doing, TaskPlaces
<1> QED
  BY <1>1, <1>2, <1>4, <1>5, <1>6

(* What workers have after one of them went on: nothing new ... *)
LEMMA HandsSame ==
    ASSUME StacksOK, NEW w \in Workers, NEW frames, Become(w, frames),
           TaskFrames(frames) = TaskFrames(stack[w])
    PROVE  Hands' = Hands
<1>1. stack'[w] = frames /\ \A v \in Workers : v # w => stack'[v] = stack[v]
  BY BecomeStack
<1>2. \A v \in Workers : TaskFrames(stack'[v]) = TaskFrames(stack[v])
  BY <1>1
<1> QED
  BY <1>2 DEF Hands

(* ... a task just taken ... *)
LEMMA HandsGained ==
    ASSUME StacksOK, NEW w \in Workers, NEW frames, Become(w, frames), Idle(w)
    PROVE  Hands' = Hands \cup TaskFrames(frames)
<1>1. stack'[w] = frames /\ \A v \in Workers : v # w => stack'[v] = stack[v]
  BY BecomeStack
<1>2. TaskFrames(stack[w]) = {}
  BY FewShape DEF Idle
<1>3. ASSUME NEW f
      PROVE  f \in Hands' <=> f \in Hands \cup TaskFrames(frames)
  <2>1. f \in Hands' <=> \E v \in Workers : f \in TaskFrames(stack'[v])
    BY DEF Hands
  <2>2. f \in Hands <=> \E v \in Workers : f \in TaskFrames(stack[v])
    BY DEF Hands
  <2> QED
    BY <1>1, <1>2, <2>1, <2>2
<1> QED
  BY <1>3

(* ... or another frame for the task it had, or none. *)
LEMMA HandsExchanged ==
    ASSUME StacksOK, ClaimsOK, ShapesOK, NEW w \in Workers, NEW place \in TaskPlaces, At(w, place),
           NEW frames, Become(w, frames)
    PROVE  Hands' = (Hands \ {Doing(w)}) \cup TaskFrames(frames)
<1>1. stack'[w] = frames /\ \A v \in Workers : v # w => stack'[v] = stack[v]
  BY BecomeStack
<1>2. TaskFrames(stack[w]) = {Doing(w)}
  BY AtTask
<1>3. ASSUME NEW v \in Workers, v # w
      PROVE  Doing(w) \notin TaskFrames(stack[v])
  <2>1. SUFFICES ASSUME Doing(w) \in TaskFrames(stack[v])
                 PROVE  FALSE
    OBVIOUS
  <2>2. FrameOK(Doing(w), Held(v)) /\ Doing(w).at \in TaskPlaces
    BY <2>1, InsideOK DEF TaskFrames, StacksOK
  <2>3. Doing(w).task \in Held(v) /\ Doing(w).task \in Held(w)
    BY <2>2, DoingTask DEF FrameOK
  <2> QED
    BY <1>3, <2>3 DEF ClaimsOK
<1>4. ASSUME NEW f
      PROVE  f \in Hands' <=> f \in (Hands \ {Doing(w)}) \cup TaskFrames(frames)
  <2>1. f \in Hands' <=> \E v \in Workers : f \in TaskFrames(stack'[v])
    BY DEF Hands
  <2>2. f \in Hands <=> \E v \in Workers : f \in TaskFrames(stack[v])
    BY DEF Hands
  <2> QED
    BY <1>1, <1>2, <1>3, <2>1, <2>2
<1> QED
  BY <1>4

-----------------------------------------------------------------------------
(* Demand stays within the statuses there are.                             *)

(* What a step asks of a neighbour is below the step. *)
LEMMA RequiredOK ==
    ASSUME NEW s \in 1 .. Top, NEW c \in Chunks, NEW n \in Reads(c, s)
    PROVE  /\ n \in Chunks /\ n # c
           /\ Need(s, c, n) \in 0 .. Top /\ 0 < Need(s, c, n) /\ Need(s, c, n) < s
<1>1. s # 0 /\ s \in Int /\ Top \in Nat
  BY TopOK
<1>2. n \in Chunks \ {c} /\ Need(s, c, n) # -1
  BY <1>1, Zenon DEF Reads, Need
<1>3. <<c, n>> \in Chunks \X Chunks
  BY <1>2
<1>4. Required[s] \in [Chunks \X Chunks -> {-1} \cup 1 .. Top - 1]
  BY AssumptionParts, Zenon
<1>5. Need(s, c, n) \in {-1} \cup 1 .. Top - 1
  <2>1. Required[s][<<c, n>>] \in {-1} \cup 1 .. Top - 1
    BY <1>3, <1>4
  <2> QED
    BY <2>1, Zenon DEF Need
<1>6. Need(s, c, n) < s
  BY <1>2, AssumptionParts, Zenon DEF Need
<1> DEFINE need == Need(s, c, n)
<1>7. need # -1 /\ need \in {-1} \cup 1 .. Top - 1
  BY <1>2, <1>5
<1> HIDE DEF need
<1>8. need \in 0 .. Top /\ 0 < need
  BY <1>1, <1>7
<1> QED
  BY <1>2, <1>6, <1>8 DEF need

(* Edges that go do not matter. *)
LEMMA DemandKept ==
    ASSUME DemandOK, UNCHANGED moves,
           \A n, c \in Chunks : waiting'[n][c] \in {waiting[n][c], -1}
    PROVE  DemandOK'
<1>1. -1 \in Heights
  BY TopOK DEF Heights
<1> QED
  BY <1>1 DEF DemandOK

LEMMA DemandUnblock ==
    ASSUME EdgeShape, NEW c \in Chunks, NEW ms, Unblock(c, ms), NEW n \in Chunks, NEW m \in Chunks
    PROVE  waiting'[n][m] \in {waiting[n][m], -1}
BY DEF EdgeShape, Unblock

LEMMA DemandClear ==
    ASSUME EdgeShape, NEW c \in Chunks, ClearEdges(c), NEW n \in Chunks, NEW m \in Chunks
    PROVE  waiting'[n][m] \in {waiting[n][m], -1}
BY DEF EdgeShape, ClearEdges

(* A neighbour is asked for less than the full status. *)
LEMMA DemandScan ==
    ASSUME EdgeInv, DemandOK, ScansOK, NEW w \in Workers, CheckNeighbour(w)
    PROVE  DemandOK'
<1> DEFINE f == Doing(w)
           c == f.chunk
<1>1. At(w, "scan") /\ UNCHANGED moves
  BY DEF CheckNeighbour
<1>2. c \in Chunks /\ f.left \subseteq Reads(c, f.to)
  BY <1>1, ScanningFrame DEF EdgeInv
<1>3. f.to \in 1 .. Top
  <2>1. stack[w] # <<>> /\ FramesOK(stack[w], Held(w)) /\ f.at = "scan"
    BY <1>1 DEF At, Doing, EdgeInv, StacksOK
  <2>2. f \in Inside(stack[w])
    BY <2>1, Topmost DEF Doing
  <2> QED
    BY <2>1, <2>2 DEF ScansOK, ScanOK
<1>4. PICK n \in f.left :
        \/ UNCHANGED waiting
        \/ waiting' = [waiting EXCEPT ![n][c] = Need(f.to, c, n)]
  BY Zenon DEF CheckNeighbour, edgeVars, Need
<1> DEFINE need == Need(f.to, c, n)
<1>5. n \in Chunks /\ need \in Heights
  <2>1. n \in Reads(c, f.to)
    BY <1>2
  <2>2. n \in Chunks /\ need \in 0 .. Top
    BY <1>2, <1>3, <2>1, RequiredOK
  <2> HIDE DEF need
  <2>3. 0 .. Top \subseteq Heights
    BY TopOK DEF Heights
  <2> QED
    BY <2>2, <2>3
<1>6. UNCHANGED waiting \/ waiting' = [waiting EXCEPT ![n][c] = need]
  BY <1>4
<1> HIDE DEF need, f
<1>7. \A m, d \in Chunks : waiting'[m][d] \in {waiting[m][d], need}
  BY <1>2, <1>5, <1>6 DEF EdgeInv, EdgeShape
<1> QED
  BY <1>1, <1>5, <1>7 DEF DemandOK

LEMMA DemandNext ==
    ASSUME EdgeInv, DemandOK, ScansOK, [Next]_vars
    PROVE  DemandOK'
<1> USE DEF EdgeInv
<1>1. ASSUME UNCHANGED <<moves, waiting>>
      PROVE  DemandOK'
  BY <1>1 DEF DemandOK
<1>2. CASE UNCHANGED vars
  BY <1>1, <1>2 DEF vars, edgeVars
<1>3. ASSUME NEW r \in Requests, RequestChunk(r)
      PROVE  DemandOK'
  BY <1>1, <1>3 DEF RequestChunk, edgeVars
<1>4. ASSUME NEW c \in Chunks, SetTicket(c)
      PROVE  DemandOK'
  <2>1. moves[c] < Len(Path[c]) /\ moves' = [moves EXCEPT ![c] = @ + 1] /\ UNCHANGED waiting
    BY <1>4 DEF SetTicket, edgeVars
  <2>2. Len(Path[c]) \in Nat
    <3>1. Path[c] \in Seq({-1} \cup Statuses)
      BY AssumptionParts, Zenon
    <3> QED
      BY <3>1
  <2>3. moves[c] + 1 \in 0 .. Len(Path[c])
    BY <2>1, <2>2 DEF DemandOK
  <2>4. /\ moves' = [d \in Chunks |-> moves'[d]] /\ moves'[c] = moves[c] + 1
        /\ \A d \in Chunks : d # c => moves'[d] = moves[d]
    BY <2>1 DEF DemandOK
  <2> QED
    BY <2>1, <2>3, <2>4 DEF DemandOK
<1>5. ASSUME NEW c \in Chunks, Loaded(c)
      PROVE  DemandOK'
  <2>1. UNCHANGED moves /\ (UNCHANGED waiting \/ ClearEdges(c))
    BY <1>5 DEF Loaded, LoadHit, LoadMissing, LoadUnreadable, Abandon, edgeVars
  <2> QED
    BY <1>1, <2>1, DemandClear, DemandKept
<1>6. ASSUME NEW w \in Workers, Complete(w)
      PROVE  DemandOK'
  <2>1. At(w, "complete") /\ UNCHANGED moves
    BY <1>6 DEF Complete
  <2>2. Doing(w).task.chunk \in Chunks
    BY <2>1, DoingTask DEF TaskPlaces
  <2>3. UNCHANGED waiting \/ Unblock(Doing(w).task.chunk, Freed(Doing(w).task.chunk, Doing(w).task.to))
    BY <1>6 DEF Complete, edgeVars
  <2> QED
    BY <1>1, <2>1, <2>2, <2>3, DemandUnblock, DemandKept
<1>7. ASSUME NEW w \in Workers, Fail(w)
      PROVE  DemandOK'
  <2>1. At(w, "failing") /\ UNCHANGED moves
    BY <1>7 DEF Fail
  <2>2. Doing(w).task.chunk \in Chunks
    BY <2>1, DoingTask DEF TaskPlaces
  <2>3. UNCHANGED waiting \/ ClearEdges(Doing(w).task.chunk)
    BY <1>7 DEF Fail, Abandon, edgeVars
  <2> QED
    BY <1>1, <2>1, <2>2, <2>3, DemandClear, DemandKept
<1>8. ASSUME NEW w \in Workers, NEW c \in Chunks, NotifyStored(w, c)
      PROVE  DemandOK'
  <2>1. UNCHANGED moves /\ Unblock(c, Freed(c, Top))
    BY <1>8 DEF NotifyStored
  <2> QED
    BY <2>1, DemandUnblock, DemandKept
<1>9. ASSUME NEW w \in Workers, Reconcile(w)
      PROVE  DemandOK'
  <2>1. UNCHANGED moves
    BY <1>9 DEF Reconcile
  <2>2. \/ UNCHANGED waiting
        \/ \E c \in Doing(w).left : waiting' = [n \in Chunks |->
                IF n \in blocking[c] THEN [waiting[n] EXCEPT ![c] = -1] ELSE waiting[n]]
    BY <1>9 DEF Reconcile, edgeVars
  <2>3. \A n, m \in Chunks : waiting'[n][m] \in {waiting[n][m], -1}
    BY <2>2 DEF EdgeShape
  <2> QED
    BY <2>1, <2>3, DemandKept
<1>10. ASSUME NEW w \in Workers, Proceed(w)
       PROVE  DemandOK'
  <2>1. CASE \E c \in Chunks : ScheduleJob(w, c) \/ ReconcileJob(w, c)
    BY <1>1, <2>1 DEF ScheduleJob, ReconcileJob, edgeVars
  <2>2. CASE Reschedule(w) \/ NothingToSchedule(w) \/ ResolveStorage(w) \/ StartScan(w)
    BY <1>1, <2>2 DEF Reschedule, NothingToSchedule, ResolveStorage, StartScan, edgeVars
  <2>3. CASE LoadEmpty(w) \/ Scanned(w) \/ TakeTask(w) \/ Body(w)
    BY <1>1, <2>3 DEF LoadEmpty, Scanned, TakeTask, Body, edgeVars
  <2>4. CASE Execute(w) \/ Cancel(w) \/ CallbackDone(w) \/ CallbackUndone(w)
    BY <1>1, <2>4 DEF Execute, Cancel, CallbackDone, CallbackUndone, edgeVars
  <2> QED
    BY <1>6, <1>7, <1>8, <1>9, <1>10, <2>1, <2>2, <2>3, <2>4, DemandScan DEF Proceed
<1> QED
  BY <1>2, <1>3, <1>4, <1>5, <1>10 DEF Next

-----------------------------------------------------------------------------
(* How stacks and hands change.                                            *)

(* A stack with nothing to do with schedule() does not have the lock. *)
LEMMA PlainFree ==
    ASSUME NEW s, NEW H, FramesOK(s, H), Plain(s)
    PROVE  ~Locking(s) /\ \A f \in Inside(s) : f.at # "scan"
<1>1. s # <<>> => Head(s) \in Inside(s)
  BY Topmost
<1> QED
  BY <1>1 DEF Plain, Locking

LEMMA SingleShape ==
    ASSUME NEW g, g.at \in TaskPlaces
    PROVE  Ordered(<<g>>) /\ Plain(<<g>>) /\ TaskFrames(<<g>>) = {g}
<1>1. g.at \notin {"schedule", "scan"}
  BY DEF TaskPlaces
<1>2. Inside(<<g>>) = {g} /\ Ordered(<<g>>)
  BY FewShape
<1> QED
  BY <1>1, <1>2 DEF Plain, TaskFrames

LEMMA SchedulingShape ==
    ASSUME NEW c, NEW s, NEW H, FramesOK(s, H), Ordered(s), \A g \in Inside(s) : g.at # "schedule"
    PROVE  LET q == <<Scheduling(c)>> \o s
           IN  /\ Ordered(q) /\ TaskFrames(q) = TaskFrames(s)
               /\ Inside(q) = {Scheduling(c)} \cup Inside(s)
               /\ Head(q) = Scheduling(c) /\ q # <<>>
<1> DEFINE f == Scheduling(c)
<1>1. f.at = "schedule" /\ f.at \notin TaskPlaces
  BY DEF Scheduling, TaskPlaces
<1>2. \A g \in Inside(s) : Rests(f, g)
  BY <1>1 DEF Rests
<1> HIDE DEF f
<1>3. /\ Inside(<<f>> \o s) = {f} \cup Inside(s) /\ Head(<<f>> \o s) = f /\ <<f>> \o s # <<>>
      /\ Ordered(<<f>> \o s)
  BY <1>1, <1>2, OnTop
<1>4. TaskFrames(<<f>> \o s) = TaskFrames(s)
  BY <1>1, <1>3 DEF TaskFrames
<1> QED
  BY <1>3, <1>4 DEF f

(* A worker goes on with nothing to do with schedule(), and has no other task. *)
LEMMA PlainStep ==
    ASSUME StacksOK, ShapesOK, NEW w \in Workers, NEW frames, NEW H, FramesOK(frames, H),
           Become(w, frames), Ordered(frames), Plain(frames)
    PROVE  ShapesOK' /\ \A f \in Inside(frames) : f.at # "scan"
<1>1. ~Locking(frames) /\ \A f \in Inside(frames) : f.at # "scan"
  BY PlainFree
<1> QED
  BY <1>1, ShapeOK

(* Jobs. *)
LEMMA ScheduleJobShape ==
    ASSUME EdgeInv, ShapesOK, NEW w \in Workers, NEW c \in Chunks, ScheduleJob(w, c)
    PROVE  ShapesOK' /\ Hands' = Hands
<1> DEFINE f == Scheduling(c)
<1>1. Idle(w) /\ ~Locked /\ Become(w, <<f>>)
  BY DEF ScheduleJob, TakeJob
<1>2. f.at = "schedule" /\ f.at \notin TaskPlaces
  BY DEF Scheduling, TaskPlaces
<1> HIDE DEF f
<1>3. Ordered(<<f>>) /\ Inside(<<f>>) = {f}
  BY FewShape
<1>4. TaskFrames(<<f>>) = {}
  BY <1>2, <1>3 DEF TaskFrames
<1>5. Hands' = Hands
  BY <1>1, <1>4, HandsGained DEF EdgeInv
<1> QED
  BY <1>1, <1>3, <1>5, ShapeOK DEF EdgeInv

LEMMA PlainJobShape ==
    ASSUME EdgeInv, ShapesOK, NEW w \in Workers, NEW c \in Chunks, NotifyStored(w, c) \/ ReconcileJob(w, c)
    PROVE  /\ ShapesOK' /\ Hands' = Hands
           /\ \A v \in Workers : stack'[v] = stack[v] \/ \A f \in Inside(stack'[v]) : f.at # "scan"
<1>1. PICK place \in {"reschedule", "reconcile"}, left \in SUBSET Chunks :
        Idle(w) /\ Become(w, Through(place, left, <<>>))
  <2>1. CASE NotifyStored(w, c)
    <3>1. Woken(c, Top) \in SUBSET Chunks
      BY DEF Woken, Freed
    <3> QED
      BY <2>1, <3>1 DEF NotifyStored, TakeJob
  <2>2. CASE ReconcileJob(w, c)
    BY <2>2 DEF ReconcileJob, TakeJob
  <2> QED
    BY <2>1, <2>2
<1> DEFINE frames == Through(place, left, <<>>)
<1>2. /\ FramesOK(frames, {}) /\ Ordered(frames) /\ Plain(frames) /\ TaskFrames(frames) = {}
  BY EmptyOK, ThroughOK, FewShape, ThroughShape
<1> HIDE DEF frames
<1>3. Become(w, frames)
  BY <1>1 DEF frames
<1>4. ShapesOK' /\ \A f \in Inside(frames) : f.at # "scan"
  BY <1>2, <1>3, PlainStep DEF EdgeInv
<1>5. Hands' = Hands
  BY <1>1, <1>2, <1>3, HandsGained DEF EdgeInv
<1>6. stack'[w] = frames /\ \A v \in Workers : v # w => stack'[v] = stack[v]
  BY <1>3, BecomeStack DEF EdgeInv
<1> QED
  BY <1>4, <1>5, <1>6

(* Scheduling. *)
LEMMA RescheduleShape ==
    ASSUME EdgeInv, ShapesOK, NEW w \in Workers, Reschedule(w)
    PROVE  /\ ShapesOK' /\ Hands' = Hands
           /\ \A f \in Inside(stack'[w]) : f.at # "scan"
<1>1. At(w, "reschedule") /\ ~Locked
  BY DEF Reschedule
<1>2. PICK c \in Doing(w).left :
        Become(w, <<Scheduling(c)>> \o Through("reschedule", Doing(w).left \ {c}, Below(w)))
  BY DEF Reschedule
<1>3. Doing(w).left \subseteq Chunks /\ FramesOK(Below(w), Held(w))
  BY <1>1, LeftFrame DEF EdgeInv
<1>4. /\ Ordered(Below(w)) /\ Plain(Below(w)) /\ Inside(stack[w]) = {Doing(w)} \cup Inside(Below(w))
      /\ Doing(w).at = "reschedule"
  BY <1>1, PlainBelow DEF EdgeInv, At, Doing
<1>5. TaskFrames(stack[w]) = TaskFrames(Below(w))
  BY <1>4 DEF TaskFrames, TaskPlaces
<1> DEFINE rest == Through("reschedule", Doing(w).left \ {c}, Below(w))
           frames == <<Scheduling(c)>> \o rest
<1>6. /\ FramesOK(rest, Held(w)) /\ Ordered(rest) /\ Plain(rest) /\ TaskFrames(rest) = TaskFrames(stack[w])
  BY <1>3, <1>4, <1>5, ThroughOK, ThroughShape
<1> HIDE DEF rest
<1>7. \A g \in Inside(rest) : g.at # "schedule" /\ g.at # "scan"
  BY <1>6 DEF Plain
<1>8. /\ Ordered(frames) /\ TaskFrames(frames) = TaskFrames(stack[w])
      /\ Inside(frames) = {Scheduling(c)} \cup Inside(rest)
  BY <1>6, <1>7, SchedulingShape
<1>9. Become(w, frames)
  BY <1>2 DEF rest
<1> HIDE DEF frames
<1>10. ShapesOK'
  BY <1>1, <1>8, <1>9, ShapeOK DEF EdgeInv
<1>11. Hands' = Hands
  BY <1>8, <1>9, HandsSame DEF EdgeInv
<1>12. stack'[w] = frames
  BY <1>9, BecomeStack DEF EdgeInv
<1>13. \A f \in Inside(frames) : f.at # "scan"
  BY <1>7, <1>8 DEF Scheduling
<1> QED
  BY <1>10, <1>11, <1>12, <1>13

(* schedule() returns. *)
LEMMA ReturnShape ==
    ASSUME EdgeInv, ShapesOK, NEW w \in Workers, At(w, "schedule") \/ At(w, "scan"), Become(w, Below(w))
    PROVE  /\ ShapesOK' /\ Hands' = Hands
           /\ Locking(stack[w])
           /\ Inside(stack'[w]) \subseteq Inside(stack[w])
           /\ \A c : ~Upcoming(stack'[w], c)
<1>1. stack[w] # <<>> /\ Doing(w).at \in {"schedule", "scan"} /\ Locking(stack[w])
  BY DEF At, Doing, Locking
<1>2. /\ Ordered(Below(w)) /\ Inside(stack[w]) = {Doing(w)} \cup Inside(Below(w))
      /\ \A g \in Inside(Below(w)) : Rests(Doing(w), g)
  BY <1>1, PlainBelow DEF EdgeInv
<1>3. FramesOK(Below(w), Held(w))
  BY DoingOK DEF EdgeInv
<1>4. TaskFrames(Below(w)) = TaskFrames(stack[w])
  BY <1>1, <1>2 DEF TaskFrames, TaskPlaces
<1> DEFINE frames == Below(w)
<1>5. Become(w, frames)
  OBVIOUS
<1> HIDE DEF frames
<1>6. ShapesOK'
  BY <1>1, <1>2, <1>5, ShapeOK DEF EdgeInv, frames
<1>7. Hands' = Hands
  BY <1>4, <1>5, HandsSame DEF EdgeInv, frames
<1>8. stack'[w] = frames
  BY <1>5, BecomeStack DEF EdgeInv
<1>9. ASSUME NEW c
      PROVE  ~Upcoming(frames, c)
  <2>1. frames # <<>> => Head(frames) \in Inside(frames)
    BY <1>3, Topmost DEF frames
  <2> QED
    BY <1>2, <2>1 DEF Upcoming, Rests, frames
<1> QED
  BY <1>1, <1>2, <1>6, <1>7, <1>8, <1>9 DEF frames

(* A scan is put on what may lie below it. *)
LEMMA ScanShape ==
    ASSUME NEW f, f.at = "scan", NEW s, NEW H, FramesOK(s, H), Ordered(s), \A g \in Inside(s) : Rests(f, g)
    PROVE  LET q == <<f>> \o s
           IN  /\ Ordered(q) /\ TaskFrames(q) = TaskFrames(s) /\ Inside(q) = {f} \cup Inside(s)
               /\ \A g \in Inside(q) : g.at # "schedule"
               /\ Head(q) = f /\ q # <<>>
<1>1. f.at \notin TaskPlaces
  BY DEF TaskPlaces
<1>2. /\ Inside(<<f>> \o s) = {f} \cup Inside(s) /\ Head(<<f>> \o s) = f /\ <<f>> \o s # <<>>
      /\ Ordered(<<f>> \o s)
  BY <1>1, OnTop
<1>3. TaskFrames(<<f>> \o s) = TaskFrames(s)
  BY <1>1, <1>2 DEF TaskFrames
<1>4. \A g \in Inside(<<f>> \o s) : g.at # "schedule"
  BY <1>2 DEF Rests
<1> QED
  BY <1>2, <1>3, <1>4

(* The chunk to be scanned is below those that wait for it. *)
LEMMA StartScanShape ==
    ASSUME EdgeInv, DemandOK, HoldersOK, ShapesOK, ScansOK, NEW w \in Workers, StartScan(w)
    PROVE  LET c == Doing(w).chunk
               f == Scanning(c, status[c] + 1, Reads(c, status[c] + 1), FALSE)
           IN  /\ c \in Chunks /\ status[c] \in 0 .. Top - 1 /\ task[c] = None /\ ~failed[c]
               /\ ShapesOK' /\ Hands' = Hands /\ Locking(stack[w])
               /\ stack'[w] = <<f>> \o Below(w)
               /\ Inside(stack'[w]) \subseteq {f} \cup Inside(stack[w])
               /\ \A x : ~Upcoming(stack'[w], x)
<1> DEFINE c == Doing(w).chunk
           f == Scanning(c, status[c] + 1, Reads(c, status[c] + 1), FALSE)
           frames == <<f>> \o Below(w)
<1>1. At(w, "schedule") /\ Schedulable(c) /\ status[c] # -1 /\ Become(w, frames)
  BY DEF StartScan
<1>2. c \in Chunks /\ FramesOK(Below(w), Held(w)) /\ stack[w] # <<>> /\ Doing(w).at = "schedule"
  BY <1>1, SchedulingFrame DEF EdgeInv, At, Doing
<1>3. task[c] = None /\ ~failed[c] /\ status[c] < Target(c)
  <2>1. ~(status[c] >= Target(c)) /\ task[c] = None /\ ~failed[c]
    BY <1>1 DEF Schedulable, Reached
  <2>2. status[c] \in Heights /\ Target(c) \in Heights
    BY <1>2, TargetOK DEF HoldersOK
  <2>3. \A x, y \in Heights : ~(x >= y) => x < y
    BY TopOK DEF Heights
  <2> QED
    BY <2>1, <2>2, <2>3
<1>4. status[c] \in 0 .. Top - 1
  <2>1. status[c] \in Heights /\ Target(c) \in Heights
    BY <1>2, TargetOK DEF HoldersOK
  <2> QED
    BY <1>1, <1>3, <2>1, TopOK DEF Heights
<1>5. /\ Ordered(Below(w)) /\ Inside(stack[w]) = {Doing(w)} \cup Inside(Below(w))
      /\ \A g \in Inside(Below(w)) : Rests(Doing(w), g)
  BY <1>2, PlainBelow DEF EdgeInv
<1>6. f.at = "scan" /\ f.to = status[c] + 1
  BY DEF Scanning
<1>7. ASSUME NEW g \in Inside(Below(w))
      PROVE  Rests(f, g)
  <2>1. g.at # "schedule"
    BY <1>5 DEF Rests
  <2>2. ASSUME g.at = "scan"
        PROVE  f.to < g.to
    <3>1. Upcoming(stack[w], c)
      BY <1>2 DEF Upcoming, Doing
    <3>2. LowerThan(c, g)
      BY <1>2, <1>5, <2>2, <3>1 DEF ScansOK
    <3>3. status[c] # Top
      BY <1>4, TopOK
    <3> QED
      BY <1>3, <1>6, <3>2, <3>3 DEF LowerThan
  <2> QED
    BY <1>6, <2>1, <2>2 DEF Rests
<1>8. TaskFrames(Below(w)) = TaskFrames(stack[w])
  BY <1>2, <1>5 DEF TaskFrames, TaskPlaces
<1> HIDE DEF f
<1>9. /\ Ordered(frames) /\ TaskFrames(frames) = TaskFrames(Below(w))
      /\ Inside(frames) = {f} \cup Inside(Below(w))
      /\ \A g \in Inside(frames) : g.at # "schedule"
      /\ Head(frames) = f
  BY <1>2, <1>5, <1>6, <1>7, ScanShape
<1> HIDE DEF frames
<1>10. Locking(stack[w])
  BY <1>2 DEF Locking, Doing
<1>11. ShapesOK' /\ Hands' = Hands
  BY <1>1, <1>8, <1>9, <1>10, ShapeOK, HandsSame DEF EdgeInv
<1>12. stack'[w] = frames
  BY <1>1, BecomeStack DEF EdgeInv
<1>13. \A x : ~Upcoming(frames, x)
  BY <1>6, <1>9 DEF Upcoming
<1> QED
  BY <1>2, <1>3, <1>4, <1>5, <1>9, <1>10, <1>11, <1>12, <1>13 DEF f, frames

(* A scan goes on, and may let its neighbour be scheduled first. *)
LEMMA CheckShape ==
    ASSUME EdgeInv, ShapesOK, NEW w \in Workers, CheckNeighbour(w)
    PROVE  \E n \in Doing(w).left : \E unready :
            LET f == Doing(w)
                g == Scanning(f.chunk, f.to, f.left \ {n}, unready)
            IN  /\ f.at = "scan" /\ f \in Inside(stack[w]) /\ f.chunk \in Chunks
                /\ f.left \subseteq Reads(f.chunk, f.to)
                /\ ShapesOK' /\ Hands' = Hands /\ Locking(stack[w])
                /\ unready \/ (~f.unready /\ status[n] >= Need(f.to, f.chunk, n))
                /\ \/ /\ Inside(stack'[w]) = {g} \cup Inside(Below(w))
                      /\ \A x : ~Upcoming(stack'[w], x)
                   \/ /\ Inside(stack'[w]) = {Scheduling(n), g} \cup Inside(Below(w))
                      /\ status[n] < Need(f.to, f.chunk, n)
                      /\ \A x : Upcoming(stack'[w], x) => x = n
<1> DEFINE f == Doing(w)
           c == f.chunk
           G(n, unready) == Scanning(c, f.to, f.left \ {n}, unready)
           Later(n, unready) == <<G(n, unready)>> \o Below(w)
<1>1. At(w, "scan")
  BY DEF CheckNeighbour
<1>2. PICK n \in f.left :
        \/ status[n] >= Need(f.to, c, n) /\ Become(w, Later(n, f.unready))
        \/ Become(w, Later(n, TRUE))
        \/ /\ status[n] < Need(f.to, c, n)
           /\ Become(w, Later(n, TRUE)) \/ Become(w, <<Scheduling(n)>> \o Later(n, TRUE))
  BY Zenon DEF CheckNeighbour, Need
<1>2a. PICK unready :
        /\ \/ Become(w, Later(n, unready))
           \/ status[n] < Need(f.to, c, n) /\ Become(w, <<Scheduling(n)>> \o Later(n, unready))
        /\ unready = TRUE \/ (unready = f.unready /\ status[n] >= Need(f.to, c, n))
  <2> HIDE DEF Later
  <2> QED
    BY <1>2
<1>3. /\ c \in Chunks /\ f.left \subseteq Reads(c, f.to) /\ FramesOK(Below(w), Held(w))
      /\ stack[w] # <<>> /\ f.at = "scan"
  BY <1>1, ScanningFrame DEF EdgeInv, At, Doing
<1>4. /\ Ordered(Below(w)) /\ Inside(stack[w]) = {f} \cup Inside(Below(w))
      /\ \A h \in Inside(Below(w)) : Rests(f, h)
  BY <1>3, PlainBelow DEF EdgeInv
<1> DEFINE g == G(n, unready)
           later == <<g>> \o Below(w)
<1>5. g.at = "scan" /\ g.to = f.to
  BY DEF Scanning
<1>6. \A h \in Inside(Below(w)) : Rests(g, h)
  BY <1>3, <1>4, <1>5 DEF Rests
<1>7. TaskFrames(Below(w)) = TaskFrames(stack[w])
  BY <1>3, <1>4 DEF TaskFrames, TaskPlaces
<1>8. FramesOK(later, Held(w))
  <2>1. f.left \ {n} \subseteq Reads(c, f.to)
    BY <1>3
  <2> QED
    BY <1>3, <2>1, ScanningOK
<1>9. \/ Become(w, later)
      \/ status[n] < Need(f.to, c, n) /\ Become(w, <<Scheduling(n)>> \o later)
  BY <1>2a
<1> HIDE DEF g
<1>10. /\ Ordered(later) /\ TaskFrames(later) = TaskFrames(Below(w))
       /\ Inside(later) = {g} \cup Inside(Below(w))
       /\ \A h \in Inside(later) : h.at # "schedule"
       /\ Head(later) = g
  BY <1>3, <1>4, <1>5, <1>6, ScanShape
<1> HIDE DEF later
<1> DEFINE twice == <<Scheduling(n)>> \o later
<1>11. /\ Ordered(twice) /\ TaskFrames(twice) = TaskFrames(later)
       /\ Inside(twice) = {Scheduling(n)} \cup Inside(later)
       /\ Head(twice) = Scheduling(n)
  BY <1>8, <1>10, SchedulingShape
<1> HIDE DEF twice
<1>12. Locking(stack[w])
  BY <1>3 DEF Locking, Doing
<1>13. PICK frames : /\ Become(w, frames)
                     /\ frames = later \/ (frames = twice /\ status[n] < Need(f.to, c, n))
  BY <1>9 DEF twice
<1>14. Ordered(frames) /\ TaskFrames(frames) = TaskFrames(stack[w])
  BY <1>7, <1>10, <1>11, <1>13
<1>15. ShapesOK' /\ Hands' = Hands
  BY <1>12, <1>13, <1>14, ShapeOK, HandsSame DEF EdgeInv
<1>16. stack'[w] = frames
  BY <1>13, BecomeStack DEF EdgeInv
<1>17. unready \/ (~f.unready /\ status[n] >= Need(f.to, c, n))
  BY <1>2a
<1>18. \A x : ~Upcoming(later, x)
  BY <1>5, <1>10 DEF Upcoming
<1>19. \A x : Upcoming(twice, x) => x = n
  BY <1>11 DEF Upcoming, Scheduling
<1>20. f \in Inside(stack[w])
  BY <1>4
<1> QED
  BY <1>2, <1>3, <1>10, <1>11, <1>12, <1>13, <1>15, <1>16, <1>17, <1>18, <1>19, <1>20 DEF g

(* A worker takes a task that leads. *)
LEMMA TakeTaskShape ==
    ASSUME EdgeInv, ShapesOK, NEW w \in Workers, TakeTask(w)
    PROVE  /\ ShapesOK'
           /\ \A v \in Workers : stack'[v] = stack[v] \/ \A f \in Inside(stack'[v]) : f.at # "scan"
           /\ \E k \in DOMAIN tasks : \E place \in {"cancel", "execute"} :
                Leads(k) /\ Hands' = Hands \cup {ForTask(place, tasks[k])}
<1>1. PICK k \in DOMAIN tasks, place \in {"cancel", "execute"} :
        Leads(k) /\ Become(w, <<ForTask(place, tasks[k])>>)
  BY DEF TakeTask
<1>2. Idle(w)
  BY DEF TakeTask
<1> DEFINE t == tasks[k]
           g == ForTask(place, t)
<1>3. g.at \in TaskPlaces /\ t.chunk \in Chunks
  BY DEF TaskPlaces, ForTask, EdgeInv, TasksOK
<1>4. FramesOK(<<g>>, {t})
  BY <1>3, ForTaskOK DEF ForTask, TaskPlaces
<1>5. Become(w, <<g>>)
  BY <1>1
<1> HIDE DEF g
<1>6. Ordered(<<g>>) /\ Plain(<<g>>) /\ TaskFrames(<<g>>) = {g}
  BY <1>3, SingleShape
<1>7. ShapesOK' /\ \A f \in Inside(<<g>>) : f.at # "scan"
  BY <1>4, <1>5, <1>6, PlainStep DEF EdgeInv
<1>8. Hands' = Hands \cup {g}
  BY <1>2, <1>5, <1>6, HandsGained DEF EdgeInv
<1>9. stack'[w] = <<g>> /\ \A v \in Workers : v # w => stack'[v] = stack[v]
  BY <1>5, BecomeStack DEF EdgeInv
<1>10. \A v \in Workers : stack'[v] = stack[v] \/ \A f \in Inside(stack'[v]) : f.at # "scan"
  BY <1>7, <1>9
<1> QED
  BY <1>1, <1>7, <1>8, <1>10 DEF g

(* A worker with a task goes on with it, or is done with it. *)
LEMMA TaskShape ==
    ASSUME EdgeInv, ShapesOK, NEW w \in Workers, NEW place \in TaskPlaces, At(w, place),
           NEW frames, NEW H, FramesOK(frames, H), Become(w, frames), Ordered(frames), Plain(frames)
    PROVE  /\ ShapesOK' /\ Hands' = (Hands \ {Doing(w)}) \cup TaskFrames(frames)
           /\ \A v \in Workers : stack'[v] = stack[v] \/ \A f \in Inside(stack'[v]) : f.at # "scan"
<1>1. ShapesOK' /\ \A f \in Inside(frames) : f.at # "scan"
  BY PlainStep DEF EdgeInv
<1>2. Hands' = (Hands \ {Doing(w)}) \cup TaskFrames(frames)
  BY HandsExchanged DEF EdgeInv
<1>3. stack'[w] = frames /\ \A v \in Workers : v # w => stack'[v] = stack[v]
  BY BecomeStack DEF EdgeInv
<1> QED
  BY <1>1, <1>2, <1>3

LEMMA TaskGoesOn ==
    ASSUME EdgeInv, ShapesOK, NEW w \in Workers, NEW place \in TaskPlaces, At(w, place),
           NEW g, FrameOK(g, Held(w)), g.at \in TaskPlaces, Become(w, <<g>>)
    PROVE  /\ ShapesOK' /\ Hands' = (Hands \ {Doing(w)}) \cup {g}
           /\ \A v \in Workers : stack'[v] = stack[v] \/ \A f \in Inside(stack'[v]) : f.at # "scan"
<1>1. FramesOK(<<g>>, Held(w))
  BY SingleOK
<1>2. Ordered(<<g>>) /\ Plain(<<g>>) /\ TaskFrames(<<g>>) = {g}
  BY SingleShape
<1> QED
  BY <1>1, <1>2, TaskShape

(* A frame for the task in hand. *)
LEMMA SameTaskFrame ==
    ASSUME StacksOK, NEW w \in Workers, NEW place \in TaskPlaces, At(w, place), NEW next \in TaskPlaces
    PROVE  LET g == ForTask(next, Doing(w).task)
           IN  /\ g.at = next /\ g.task = Doing(w).task
               /\ FrameOK(g, Held(w)) /\ FramesOK(<<g>>, Held(w))
               /\ Ordered(<<g>>) /\ Plain(<<g>>) /\ TaskFrames(<<g>>) = {g}
<1> DEFINE g == ForTask(next, Doing(w).task)
<1>1. Doing(w).task \in Held(w) /\ Doing(w).task.chunk \in Chunks
  BY DoingTask
<1>2. g.at = next /\ g.task = Doing(w).task /\ FrameOK(g, Held(w))
  BY <1>1 DEF ForTask, FrameOK, TaskPlaces
<1> HIDE DEF g
<1>3. FramesOK(<<g>>, Held(w)) /\ Ordered(<<g>>) /\ Plain(<<g>>) /\ TaskFrames(<<g>>) = {g}
  BY <1>2, SingleOK, SingleShape
<1> QED
  BY <1>2, <1>3 DEF g

LEMMA ExecuteShape ==
    ASSUME EdgeInv, ShapesOK, NEW w \in Workers, Execute(w)
    PROVE  /\ ShapesOK'
           /\ \A v \in Workers : stack'[v] = stack[v] \/ \A f \in Inside(stack'[v]) : f.at # "scan"
           /\ At(w, "execute") /\ ~Locked
           /\ \E next \in {"undone", "body", "complete"} :
                /\ next # "undone" => (next = "body" <=> Doing(w).task.to \in {0, Top})
                /\ Hands' = (Hands \ {Doing(w)}) \cup {ForTask(next, Doing(w).task)}
<1> DEFINE t == Doing(w).task
<1>1. At(w, "execute") /\ ~Locked
  BY DEF Execute
<1>2. PICK next \in {"undone", "body", "complete"} :
        /\ next # "undone" => (next = "body" <=> t.to \in {0, Top})
        /\ Become(w, <<ForTask(next, t)>>)
  BY DEF Execute
<1> DEFINE g == ForTask(next, t)
<1>3. g.at = next /\ FrameOK(g, Held(w)) /\ g.at \in TaskPlaces
  BY <1>1, SameTaskFrame DEF EdgeInv, TaskPlaces
<1>4. Become(w, <<g>>)
  BY <1>2
<1> HIDE DEF g
<1>5. /\ ShapesOK' /\ Hands' = (Hands \ {Doing(w)}) \cup {g}
      /\ \A v \in Workers : stack'[v] = stack[v] \/ \A f \in Inside(stack'[v]) : f.at # "scan"
  BY <1>1, <1>3, <1>4, TaskGoesOn DEF TaskPlaces
<1> QED
  BY <1>1, <1>2, <1>5 DEF g

LEMMA BodyShape ==
    ASSUME EdgeInv, ShapesOK, NEW w \in Workers, Body(w)
    PROVE  /\ ShapesOK'
           /\ \A v \in Workers : stack'[v] = stack[v] \/ \A f \in Inside(stack'[v]) : f.at # "scan"
           /\ At(w, "body")
           /\ Hands' = (Hands \ {Doing(w)}) \cup {ForTask("complete", Doing(w).task)}
<1> DEFINE g == ForTask("complete", Doing(w).task)
<1>1. At(w, "body") /\ Become(w, <<g>>)
  BY DEF Body
<1>2. FrameOK(g, Held(w)) /\ g.at \in TaskPlaces
  BY <1>1, SameTaskFrame DEF EdgeInv, TaskPlaces
<1> HIDE DEF g
<1>3. /\ ShapesOK' /\ Hands' = (Hands \ {Doing(w)}) \cup {g}
      /\ \A v \in Workers : stack'[v] = stack[v] \/ \A f \in Inside(stack'[v]) : f.at # "scan"
  BY <1>1, <1>2, TaskGoesOn DEF TaskPlaces
<1> QED
  BY <1>1, <1>3 DEF g

LEMMA CompleteShape ==
    ASSUME EdgeInv, ShapesOK, NEW w \in Workers, Complete(w)
    PROVE  /\ ShapesOK' /\ At(w, "complete") /\ ~Locked
           /\ \A v \in Workers : stack'[v] = stack[v] \/ \A f \in Inside(stack'[v]) : f.at # "scan"
           /\ Hands' = (Hands \ {Doing(w)}) \cup {ForTask("done", Doing(w).task)}
<1> DEFINE t == Doing(w).task
           c == t.chunk
           g == ForTask("done", t)
           done == <<g>>
<1>1. At(w, "complete") /\ ~Locked
  BY DEF Complete
<1>2. \E left : left \subseteq {c} \cup Woken(c, t.to) /\ Become(w, Through("reschedule", left, done))
  <2>1. CASE task[c] = None
    <3>1. Become(w, Through("reschedule", {}, done))
      BY <2>1 DEF Complete, Through
    <3> QED
      BY <3>1
  <2>2. CASE task[c] # None
    <3> DEFINE demand == Highest(Ticket(c), Waiters(c),
                            [m \in Chunks |-> IF m \in Freed(c, t.to) THEN -1 ELSE waiting[c][m]])
               again == {x \in {c} : ~failed[c] /\ Max({status[c], t.to}) < demand}
    <3>1. Become(w, Through("reschedule", Woken(c, t.to) \cup again, done))
      BY <2>2 DEF Complete
    <3>2. Woken(c, t.to) \cup again \subseteq {c} \cup Woken(c, t.to)
      OBVIOUS
    <3> QED
      BY <3>1, <3>2
  <2> QED
    BY <2>1, <2>2
<1>3. /\ c \in Chunks /\ FramesOK(done, Held(w))
      /\ Ordered(done) /\ Plain(done) /\ TaskFrames(done) = {g}
  BY <1>1, DoingTask, SameTaskFrame DEF EdgeInv, TaskPlaces
<1> HIDE DEF done
<1>4. PICK left \in SUBSET Chunks : Become(w, Through("reschedule", left, done))
  <2>1. {c} \cup Woken(c, t.to) \subseteq Chunks
    BY <1>3 DEF Woken, Freed
  <2> QED
    BY <1>2, <2>1
<1> DEFINE frames == Through("reschedule", left, done)
<1>5. FramesOK(frames, Held(w)) /\ Ordered(frames) /\ Plain(frames) /\ TaskFrames(frames) = {g}
  BY <1>3, <1>4, ThroughOK, ThroughShape
<1>6. Become(w, frames)
  BY <1>4
<1> HIDE DEF frames, g
<1>7. /\ ShapesOK' /\ Hands' = (Hands \ {Doing(w)}) \cup {g}
      /\ \A v \in Workers : stack'[v] = stack[v] \/ \A f \in Inside(stack'[v]) : f.at # "scan"
  BY <1>1, <1>5, <1>6, TaskShape DEF TaskPlaces
<1> QED
  BY <1>1, <1>7 DEF g

LEMMA CancelShape ==
    ASSUME EdgeInv, ShapesOK, NEW w \in Workers, Cancel(w)
    PROVE  /\ ShapesOK' /\ At(w, "cancel") /\ ~Locked
           /\ \A v \in Workers : stack'[v] = stack[v] \/ \A f \in Inside(stack'[v]) : f.at # "scan"
           /\ Hands' = (Hands \ {Doing(w)}) \cup {ForTask("undone", Doing(w).task)}
<1> DEFINE t == Doing(w).task
           c == t.chunk
           g == ForTask("undone", t)
           undone == <<g>>
           again == Through("reschedule", {c}, undone)
           reconciled == Through("reconcile", {c}, again)
<1>1. /\ At(w, "cancel") /\ ~Locked /\ (Become(w, reconciled) \/ Become(w, undone))
  BY DEF Cancel
<1>2. /\ c \in Chunks /\ FramesOK(undone, Held(w))
      /\ Ordered(undone) /\ Plain(undone) /\ TaskFrames(undone) = {g}
  BY <1>1, DoingTask, SameTaskFrame DEF EdgeInv, TaskPlaces
<1> HIDE DEF undone
<1>3. {c} \in SUBSET Chunks
  BY <1>2
<1>4. FramesOK(again, Held(w)) /\ Ordered(again) /\ Plain(again) /\ TaskFrames(again) = {g}
  BY <1>2, <1>3, ThroughOK, ThroughShape
<1> HIDE DEF again
<1>5. FramesOK(reconciled, Held(w)) /\ Ordered(reconciled) /\ Plain(reconciled) /\ TaskFrames(reconciled) = {g}
  BY <1>3, <1>4, ThroughOK, ThroughShape
<1> HIDE DEF reconciled, g
<1>6. PICK frames : Become(w, frames) /\ frames \in {reconciled, undone}
  BY <1>1
<1>7. FramesOK(frames, Held(w)) /\ Ordered(frames) /\ Plain(frames) /\ TaskFrames(frames) = {g}
  BY <1>2, <1>5, <1>6
<1>8. /\ ShapesOK' /\ Hands' = (Hands \ {Doing(w)}) \cup {g}
      /\ \A v \in Workers : stack'[v] = stack[v] \/ \A f \in Inside(stack'[v]) : f.at # "scan"
  BY <1>1, <1>6, <1>7, TaskShape DEF TaskPlaces
<1> QED
  BY <1>1, <1>8 DEF g

LEMMA UndoneShape ==
    ASSUME EdgeInv, ShapesOK, NEW w \in Workers, CallbackUndone(w)
    PROVE  /\ ShapesOK' /\ At(w, "undone")
           /\ \A v \in Workers : stack'[v] = stack[v] \/ \A f \in Inside(stack'[v]) : f.at # "scan"
           /\ \E seen : Hands' = (Hands \ {Doing(w)}) \cup {Failing(Doing(w).task, seen)}
<1> DEFINE t == Doing(w).task
           seen == task[t.chunk]
           g == Failing(t, seen)
<1>1. At(w, "undone") /\ Become(w, <<g>>)
  BY DEF CallbackUndone
<1>2. t \in Held(w) /\ t.chunk \in Chunks
  BY <1>1, DoingTask DEF EdgeInv, TaskPlaces
<1>3. FrameOK(g, Held(w)) /\ g.at \in TaskPlaces
  BY <1>2 DEF FrameOK, Failing, TaskPlaces
<1> HIDE DEF g
<1>4. /\ ShapesOK' /\ Hands' = (Hands \ {Doing(w)}) \cup {g}
      /\ \A v \in Workers : stack'[v] = stack[v] \/ \A f \in Inside(stack'[v]) : f.at # "scan"
  BY <1>1, <1>3, TaskGoesOn DEF TaskPlaces
<1> QED
  BY <1>1, <1>4 DEF g

LEMMA DropShape ==
    ASSUME EdgeInv, ShapesOK, NEW w \in Workers, NEW place \in TaskPlaces, At(w, place), Become(w, <<>>)
    PROVE  /\ ShapesOK' /\ Hands' = Hands \ {Doing(w)}
           /\ \A v \in Workers : stack'[v] = stack[v] \/ \A f \in Inside(stack'[v]) : f.at # "scan"
<1> DEFINE none == <<>>
<1>1. FramesOK(none, {}) /\ Ordered(none) /\ Plain(none) /\ TaskFrames(none) = {} /\ Become(w, none)
  BY EmptyOK, FewShape
<1> HIDE DEF none
<1>2. /\ ShapesOK' /\ Hands' = (Hands \ {Doing(w)}) \cup {}
      /\ \A v \in Workers : stack'[v] = stack[v] \/ \A f \in Inside(stack'[v]) : f.at # "scan"
  BY <1>1, TaskShape
<1> QED
  BY <1>2

LEMMA ReconcileShape ==
    ASSUME EdgeInv, ShapesOK, NEW w \in Workers, Reconcile(w)
    PROVE  /\ ShapesOK' /\ Hands' = Hands
           /\ \A v \in Workers : stack'[v] = stack[v] \/ \A f \in Inside(stack'[v]) : f.at # "scan"
<1>1. At(w, "reconcile")
  BY DEF Reconcile
<1>2. Doing(w).left \subseteq Chunks /\ FramesOK(Below(w), Held(w))
  BY <1>1, LeftFrame DEF EdgeInv
<1>3. PICK c \in Doing(w).left :
        \/ Become(w, Through("reconcile", (Doing(w).left \ {c}) \cup blocking[c], Below(w)))
        \/ Become(w, Through("reconcile", Doing(w).left \ {c}, Below(w)))
  BY DEF Reconcile
<1>4. PICK left \in SUBSET Chunks : Become(w, Through("reconcile", left, Below(w)))
  <2>1. c \in Chunks /\ blocking[c] \subseteq Chunks
    BY <1>2 DEF EdgeInv, EdgeShape
  <2>2. Doing(w).left \ {c} \in SUBSET Chunks /\ (Doing(w).left \ {c}) \cup blocking[c] \in SUBSET Chunks
    BY <1>2, <2>1
  <2> QED
    BY <1>3, <2>2
<1>5. /\ Ordered(Below(w)) /\ Plain(Below(w)) /\ Inside(stack[w]) = {Doing(w)} \cup Inside(Below(w))
      /\ Doing(w).at = "reconcile"
  BY <1>1, PlainBelow DEF EdgeInv, At, Doing
<1>6. TaskFrames(stack[w]) = TaskFrames(Below(w))
  BY <1>5 DEF TaskFrames, TaskPlaces
<1> DEFINE frames == Through("reconcile", left, Below(w))
<1>7. FramesOK(frames, Held(w)) /\ Ordered(frames) /\ Plain(frames) /\ TaskFrames(frames) = TaskFrames(stack[w])
  BY <1>2, <1>4, <1>5, <1>6, ThroughOK, ThroughShape
<1>8. Become(w, frames)
  BY <1>4
<1> HIDE DEF frames
<1>9. ShapesOK' /\ \A f \in Inside(frames) : f.at # "scan"
  BY <1>7, <1>8, PlainStep DEF EdgeInv
<1>10. Hands' = Hands
  BY <1>7, <1>8, HandsSame DEF EdgeInv
<1>11. stack'[w] = frames /\ \A v \in Workers : v # w => stack'[v] = stack[v]
  BY <1>8, BecomeStack DEF EdgeInv
<1> QED
  BY <1>9, <1>10, <1>11

-----------------------------------------------------------------------------
(* Tasks and their holders.                                                *)

LEMMA KnownOK ==
    ASSUME ListOK, NEW t \in Known
    PROVE  /\ t.chunk \in Chunks /\ t.to \in Statuses /\ t # None
           /\ source[t.chunk] \in {"missing", "ready"}
<1>1. t \in ProgressionTasks /\ source[t.chunk] \in {"missing", "ready"}
  BY DEF ListOK
<1>2. t \in [chunk : Chunks, to : Statuses, id : Nat]
  BY <1>1 DEF ProgressionTasks
<1> QED
  BY <1>1, <1>2, AssumptionParts, Zenon DEF ProgressionTasks

(* What a step has found of its neighbours stays true. *)
LEMMA ReadsKept ==
    ASSUME HoldersOK, HoldersOK', NEW c \in Chunks, NEW s \in Statuses,
           \A d \in Chunks : status[d] <= status'[d],
           NEW left, \A n \in Reads(c, s) \ left : status[n] >= Need(s, c, n)
    PROVE  \A n \in Reads(c, s) \ left : status'[n] >= Need(s, c, n)
<1> SUFFICES ASSUME NEW n \in Reads(c, s) \ left
             PROVE  status'[n] >= Need(s, c, n)
  OBVIOUS
<1>1. s \in 1 .. Top
  <2>1. s # 0
    BY DEF Reads
  <2> QED
    BY <2>1, TopOK DEF Statuses
<1> DEFINE need == Need(s, c, n)
<1>2. n \in Chunks /\ need \in 0 .. Top
  BY <1>1, RequiredOK
<1>3. status[n] >= need
  OBVIOUS
<1> HIDE DEF need
<1>4. need \in Int /\ status[n] \in Int /\ status'[n] \in Int
  BY <1>2, TopOK DEF HoldersOK, Heights
<1>5. status'[n] >= need
  BY <1>2, <1>3, <1>4
<1> QED
  BY <1>5 DEF need

(* A step that has to do with one task leaves the others as they are. *)
LEMMA Elsewhere ==
    ASSUME WorkInv, HoldersOK', NEW t, Known' \subseteq Known,
           \A f : f.task # t => (f \in Hands' <=> f \in Hands),
           \A d \in Chunks : status[d] <= status'[d],
           \A u \in Open : u # t =>
                /\ status'[u.chunk] = status[u.chunk] /\ source'[u.chunk] = source[u.chunk]
                /\ task'[u.chunk] = u \/ failed'[u.chunk]
    PROVE  \A u \in Known' : u # t => (u \in Open' <=> u \in Open) /\ (u \in Open' => OpenOK(u)')
<1> SUFFICES ASSUME NEW u \in Known', u # t
             PROVE  (u \in Open' <=> u \in Open) /\ (u \in Open' => OpenOK(u)')
  OBVIOUS
<1>1. u \in Known /\ u.chunk \in Chunks /\ u.to \in Statuses
  BY KnownOK DEF WorkInv
<1>2. EndedIn(Hands', u) <=> EndedIn(Hands, u)
  BY DEF EndedIn
<1>3. PublishedIn(Hands', u) <=> PublishedIn(Hands, u)
  BY DEF PublishedIn
<1>4. u \in Open' <=> u \in Open
  BY <1>1, <1>2 DEF Open
<1>5. ASSUME u \in Open
      PROVE  OpenOK(u)'
  <2>1. OpenOK(u)
    BY <1>5 DEF WorkInv, OpensOK
  <2>2. \A n \in Reads(u.chunk, u.to) \ {} : status[n] >= Need(u.to, u.chunk, n)
    BY <2>1 DEF OpenOK
  <2>3. \A n \in Reads(u.chunk, u.to) \ {} : status'[n] >= Need(u.to, u.chunk, n)
    BY <1>1, <2>2, ReadsKept DEF WorkInv
  <2>4. /\ task'[u.chunk] = u \/ failed'[u.chunk]
        /\ status'[u.chunk] = status[u.chunk] /\ source'[u.chunk] = source[u.chunk]
    BY <1>5
  <2> QED
    BY <1>3, <2>1, <2>3, <2>4 DEF OpenOK
<1> QED
  BY <1>4, <1>5

(* Nothing happens to tasks or holders. *)
LEMMA SameWork ==
    ASSUME WorkInv, UNCHANGED holderVars, UNCHANGED tasks, Hands' = Hands
    PROVE  WorkInv'
<1>1. Known' = Known
  BY DEF Known
<1>2. UNCHANGED <<status, source, failed, task>>
  BY DEF holderVars
<1>3. HoldersOK'
  BY <1>2 DEF WorkInv, HoldersOK
<1>4. ListOK' /\ HandsOK'
  BY <1>1, <1>2 DEF WorkInv, ListOK, HandsOK, Distinct, FirstIn
<1>5. Open' = Open
  BY <1>1 DEF Open
<1>6. \A t \in Open : OpenOK(t) => OpenOK(t)'
  BY <1>2 DEF OpenOK
<1>7. OpensOK'
  BY <1>5, <1>6 DEF WorkInv, OpensOK
<1> QED
  BY <1>3, <1>4, <1>7 DEF WorkInv

(* Something happens to a holder for which there is no task. *)
LEMMA UntaskedWork ==
    ASSUME WorkInv, HoldersOK', NEW c \in Chunks, source[c] \notin {"missing", "ready"},
           UNCHANGED tasks, Hands' = Hands, status[c] <= status'[c],
           \A d \in Chunks : d # c =>
                /\ status'[d] = status[d] /\ source'[d] = source[d]
                /\ task'[d] = task[d] /\ failed'[d] = failed[d]
    PROVE  WorkInv'
<1>1. Known' = Known
  BY DEF Known
<1>2. ASSUME NEW t \in Known
      PROVE  t.chunk \in Chunks /\ t.chunk # c /\ t # None
  BY KnownOK DEF WorkInv
<1>3. ListOK' /\ HandsOK'
  BY <1>1, <1>2 DEF WorkInv, ListOK, HandsOK, Distinct, FirstIn
<1>4. \A d \in Chunks : status[d] <= status'[d]
  <2>1. \A d \in Chunks : status[d] \in Int
    BY TopOK DEF WorkInv, HoldersOK, Heights
  <2> QED
    BY <2>1
<1>5. ASSUME NEW u \in Open
      PROVE  /\ status'[u.chunk] = status[u.chunk] /\ source'[u.chunk] = source[u.chunk]
             /\ task'[u.chunk] = u \/ failed'[u.chunk]
  <2>1. u \in Known /\ OpenOK(u)
    BY DEF Open, WorkInv, OpensOK
  <2> QED
    BY <1>2, <2>1 DEF OpenOK
<1>6. \A u \in Known' : u # None => (u \in Open' <=> u \in Open) /\ (u \in Open' => OpenOK(u)')
  <2>1. Known' \subseteq Known /\ \A f : f.task # None => (f \in Hands' <=> f \in Hands)
    BY <1>1
  <2> QED
    BY <1>4, <1>5, <2>1, Elsewhere
<1>7. Open' \subseteq Known'
  BY DEF Open
<1>8. OpensOK'
  BY <1>1, <1>2, <1>6, <1>7 DEF WorkInv, OpensOK
<1> QED
  BY <1>3, <1>8 DEF WorkInv

(* The name of a new task is not in use: more names are tried than there are tasks. *)
LEMMA NewTaskOK ==
    ASSUME TasksOK, NEW c \in Chunks, NEW to \in Statuses
    PROVE  LET t == NewTask(c, to)
           IN  t.chunk = c /\ t.to = to /\ t \in ProgressionTasks /\ t \notin Known
<1> DEFINE n == Len(tasks)
           Of(i) == {k \in DOMAIN tasks : tasks[k].chunk = c /\ tasks[k].id = i}
           used == {i \in 1 .. n + 1 : \E k \in DOMAIN tasks : tasks[k].chunk = c /\ tasks[k].id = i}
           free == (1 .. n + 1) \ used
<1>1. n \in Nat /\ DOMAIN tasks = 1 .. n
  BY DEF TasksOK
<1>2. free # {}
  <2>1. SUFFICES ASSUME free = {}
                 PROVE  FALSE
    OBVIOUS
  <2> HIDE DEF n
  <2>2. \A i \in 1 .. n + 1 : \E k \in 1 .. n : tasks[k].chunk = c /\ tasks[k].id = i
    BY <1>1, <2>1
  <2> DEFINE f == [i \in 1 .. n + 1 |-> CHOOSE k \in 1 .. n : tasks[k].chunk = c /\ tasks[k].id = i]
  <2>3. \A i \in 1 .. n + 1 : f[i] \in 1 .. n /\ tasks[f[i]].id = i
    BY <2>2
  <2>4. f \in [1 .. n + 1 -> 1 .. n]
    BY <2>3
  <2> HIDE DEF f
  <2>5. /\ IsFiniteSet(1 .. n + 1) /\ Cardinality(1 .. n + 1) = n + 1
        /\ IsFiniteSet(1 .. n) /\ Cardinality(1 .. n) = n
    <3>1. 1 \in Int /\ n \in Int /\ n + 1 \in Int
      BY <1>1
    <3>2. /\ IsFiniteSet(1 .. n) /\ Cardinality(1 .. n) = IF 1 > n THEN 0 ELSE n - 1 + 1
      BY <3>1, FS_Interval
    <3>3. /\ IsFiniteSet(1 .. n + 1)
          /\ Cardinality(1 .. n + 1) = IF 1 > n + 1 THEN 0 ELSE (n + 1) - 1 + 1
      BY <3>1, FS_Interval
    <3> QED
      BY <1>1, <3>2, <3>3
  <2>6. \E x, y \in 1 .. n + 1 : x # y /\ f[x] = f[y]
    <3>1. Cardinality(1 .. n) < Cardinality(1 .. n + 1)
      BY <1>1, <2>5
    <3> QED
      BY <2>4, <2>5, <3>1, FS_PigeonHole
  <2> QED
    BY <2>3, <2>6
<1>3. free \subseteq Nat
  BY <1>1
<1> DEFINE id == Min(free)
<1>4. id \in free
  <2> HIDE DEF free
  <2> QED
    BY <1>2, <1>3, LeastOK
<1>5. NewTask(c, to) = [chunk |-> c, to |-> to, id |-> id]
  BY DEF NewTask
<1> HIDE DEF id
<1>6. id \in Nat \ {0} /\ \A k \in DOMAIN tasks : ~(tasks[k].chunk = c /\ tasks[k].id = id)
  BY <1>1, <1>4
<1> DEFINE t == NewTask(c, to)
<1>7. t.chunk = c /\ t.to = to /\ t.id = id
  BY <1>5
<1>8. t \in ProgressionTasks
  BY <1>5, <1>6 DEF ProgressionTasks
<1> HIDE DEF t
<1>9. t \notin Known
  BY <1>6, <1>7 DEF Known
<1> QED
  BY <1>7, <1>8, <1>9 DEF t

(* A task is submitted for a holder without one, for the status after its own. *)
LEMMA SubmitWork ==
    ASSUME EdgeInv, WorkInv, NEW c \in Chunks, NEW to \in Statuses, Submit(c, to),
           UNCHANGED <<status, source, failed>>, Hands' = Hands,
           task[c] = None, ~failed[c], status[c] = to - 1, source[c] \in {"missing", "ready"},
           to = 0 => source[c] = "missing",
           \A n \in Reads(c, to) : status[n] >= Need(to, c, n)
    PROVE  WorkInv'
<1> DEFINE n == Len(tasks)
<1>0. PICK t : t = NewTask(c, to)
  OBVIOUS
<1>1. t.chunk = c /\ t.to = to /\ t \in ProgressionTasks /\ t \notin Known
  BY <1>0, NewTaskOK DEF EdgeInv
<1>2. tasks' = Append(tasks, t) /\ task' = [task EXCEPT ![c] = t]
  BY <1>0 DEF Submit
<1>3. /\ n \in Nat /\ DOMAIN tasks = 1 .. n /\ DOMAIN tasks' = 1 .. n + 1 /\ tasks'[n + 1] = t
      /\ \A i \in 1 .. n : tasks'[i] = tasks[i]
  BY <1>2 DEF EdgeInv, TasksOK
<1> HIDE DEF n
<1>4. Known' = Known \cup {t}
  <2>1. Known' \subseteq Known \cup {t}
    <3> SUFFICES ASSUME NEW i \in 1 .. n + 1
                 PROVE  tasks'[i] \in Known \cup {t}
      BY <1>3 DEF Known
    <3>1. i = n + 1 \/ i \in 1 .. n
      BY <1>3
    <3> QED
      BY <1>3, <3>1 DEF Known
  <2>2. Known \cup {t} \subseteq Known'
    <3>1. \A i \in 1 .. n : i \in 1 .. n + 1
      BY <1>3
    <3>2. n + 1 \in 1 .. n + 1
      BY <1>3
    <3> QED
      BY <1>3, <3>1, <3>2 DEF Known
  <2> QED
    BY <2>1, <2>2
<1>5. HoldersOK'
  BY <1>2 DEF WorkInv, HoldersOK
<1>6. \A i \in 1 .. n : tasks[i] # t
  BY <1>1, <1>3 DEF Known
<1>7. ListOK'
  <2>1. Distinct(tasks')
    <3> SUFFICES ASSUME NEW i \in 1 .. n + 1, NEW j \in 1 .. n + 1, i # j
                 PROVE  tasks'[i] # tasks'[j]
      BY <1>3 DEF Distinct
    <3>1. i = n + 1 \/ i \in 1 .. n
      BY <1>3
    <3>2. j = n + 1 \/ j \in 1 .. n
      BY <1>3
    <3>3. \A x, y \in 1 .. n : x # y => tasks[x] # tasks[y]
      BY <1>3 DEF WorkInv, ListOK, Distinct
    <3> QED
      BY <1>3, <1>6, <3>1, <3>2, <3>3
  <2>2. \A u \in Known' : u \in ProgressionTasks /\ source'[u.chunk] \in {"missing", "ready"}
    BY <1>1, <1>4 DEF WorkInv, ListOK
  <2> QED
    BY <2>1, <2>2 DEF ListOK
<1>8. \A f \in Hands : f.task \in Known
  BY HandsKnown DEF EdgeInv
<1>9. HandsOK'
  <2>1. ASSUME NEW f \in Hands
        PROVE  FirstIn(tasks', f.task)
    <3> SUFFICES ASSUME NEW i \in 1 .. n + 1, NEW j \in 1 .. n + 1, tasks'[j] = f.task, i < j
                 PROVE  tasks'[i].chunk # f.task.chunk
      BY <1>3 DEF FirstIn
    <3>1. f.task # t
      BY <1>1, <1>8
    <3>2. j \in 1 .. n
      BY <1>3, <3>1
    <3>3. i \in 1 .. n
      BY <1>3, <3>2
    <3>4. FirstIn(tasks, f.task)
      BY DEF WorkInv, HandsOK
    <3> QED
      BY <1>3, <3>2, <3>3, <3>4 DEF FirstIn
  <2> QED
    BY <2>1 DEF WorkInv, HandsOK
<1>10. ASSUME NEW u \in Open
       PROVE  u.chunk # c
  <2>1. u \in Known /\ OpenOK(u)
    BY DEF Open, WorkInv, OpensOK
  <2>2. u # None
    BY <2>1, KnownOK DEF WorkInv
  <2> QED
    BY <2>1, <2>2 DEF OpenOK
<1>11. ~PublishedIn(Hands, t) /\ ~EndedIn(Hands, t)
  BY <1>1, <1>8 DEF PublishedIn, EndedIn
<1>12. Open' = Open \cup {t}
  BY <1>4, <1>11 DEF Open
<1>13. OpenOK(t)'
  <2>1. task'[c] = t
    BY <1>2 DEF WorkInv, HoldersOK
  <2>2. ~PublishedIn(Hands', t)
    BY <1>11
  <2> QED
    BY <1>1, <2>1, <2>2 DEF OpenOK
<1>14. ASSUME NEW u \in Open
       PROVE  OpenOK(u)'
  <2>1. u \in Known /\ OpenOK(u)
    BY DEF Open, WorkInv, OpensOK
  <2>2. task'[u.chunk] = task[u.chunk]
    <3>1. u.chunk \in Chunks
      BY <2>1, KnownOK DEF WorkInv
    <3> QED
      BY <1>2, <1>10, <3>1 DEF WorkInv, HoldersOK
  <2> QED
    BY <2>1, <2>2 DEF OpenOK
<1>15. OpensOK'
  <2>1. \A u, v \in Open' : u.chunk = v.chunk => u = v
    BY <1>1, <1>10, <1>12 DEF WorkInv, OpensOK
  <2> QED
    BY <1>12, <1>13, <1>14, <2>1 DEF OpensOK
<1> QED
  BY <1>5, <1>7, <1>9, <1>15 DEF WorkInv

(* The task that leads is the first of its chunk, and no worker has another of that chunk: *)
(* it would be the first as well.                                                         *)
LEMMA TakeWork ==
    ASSUME EdgeInv, WorkInv, NEW k \in DOMAIN tasks, Leads(k),
           UNCHANGED holderVars, UNCHANGED tasks,
           NEW place \in {"cancel", "execute"}, Hands' = Hands \cup {ForTask(place, tasks[k])}
    PROVE  WorkInv'
<1>0. PICK t, g : t = tasks[k] /\ g = ForTask(place, t)
  OBVIOUS
<1>1. t \in Known /\ t.chunk \in Chunks /\ t.to \in Statuses /\ g.task = t /\ g.at = place
  BY <1>0, KnownOK DEF Known, WorkInv, ForTask
<1>2. Known' = Known /\ UNCHANGED <<status, source, failed, task>>
  BY DEF Known, holderVars
<1>3. HoldersOK' /\ ListOK'
  BY <1>2 DEF WorkInv, HoldersOK, ListOK, Distinct
<1>4. \A i, j \in DOMAIN tasks : tasks[i] = tasks[j] => i = j
  BY DEF WorkInv, ListOK, Distinct
<1>5. \A u \in Known : u.chunk = t.chunk => Touches(u, t)
  <2>1. ASSUME NEW u \in Known, u.chunk = t.chunk
        PROVE  Touches(u, t)
    <3>1. u.chunk \in Chunks /\ u.to \in Statuses
      BY KnownOK DEF WorkInv
    <3>2. u.chunk \in Area[u.to][u.chunk] /\ t.chunk \in Area[t.to][t.chunk]
      BY <1>1, <3>1, AssumptionParts, Zenon
    <3> QED
      BY <2>1, <3>2 DEF Touches
  <2> QED
    BY <2>1
<1>6. /\ DOMAIN tasks \subseteq Int /\ k \in Int /\ k \in DOMAIN tasks
      /\ \A i \in DOMAIN tasks : i < k => i \in 1 .. k - 1
  BY DEF EdgeInv, TasksOK
<1>7. \A i \in DOMAIN tasks : i < k => tasks[i].chunk # t.chunk
  <2>1. ASSUME NEW i \in DOMAIN tasks, i < k
        PROVE  tasks[i].chunk # t.chunk
    <3>1. ~Touches(tasks[i], t)
      BY <1>0, <1>6, <2>1 DEF Leads
    <3>2. tasks[i] \in Known
      BY DEF Known
    <3> QED
      BY <1>5, <3>1, <3>2
  <2> QED
    BY <2>1
<1>8. FirstIn(tasks, t)
  BY <1>0, <1>4, <1>7 DEF FirstIn
<1>9. ASSUME NEW f \in Hands
      PROVE  f.task.chunk # t.chunk
  <2>1. SUFFICES ASSUME f.task.chunk = t.chunk
                 PROVE  FALSE
    OBVIOUS
  <2>2. f.task \in Known
    BY HandsKnown DEF EdgeInv
  <2>3. PICK j \in DOMAIN tasks : tasks[j] = f.task
    BY <2>2 DEF Known
  <2>4. ~(j < k)
    BY <1>7, <2>1, <2>3
  <2>5. ~(k < j)
    <3>1. FirstIn(tasks, f.task)
      BY DEF WorkInv, HandsOK
    <3> QED
      BY <1>0, <2>1, <2>3, <3>1 DEF FirstIn
  <2>6. j = k
    BY <1>6, <2>4, <2>5
  <2>7. Claimed(t)
    <3>1. PICK w \in Workers : f \in Inside(stack[w]) /\ f.at \in TaskPlaces
      BY DEF Hands, TaskFrames
    <3>2. FrameOK(f, Held(w))
      BY <3>1, InsideOK DEF EdgeInv, StacksOK
    <3>3. "task" \in DOMAIN f /\ f.task = t
      BY <1>0, <2>3, <2>6, <3>1, <3>2 DEF FrameOK
    <3>4. PICK i \in DOMAIN stack[w] : stack[w][i] = f
      BY <3>1 DEF Inside
    <3> QED
      BY <3>3, <3>4 DEF Claimed
  <2> QED
    BY <1>0, <2>7 DEF Leads
<1>10. Hands' = Hands \cup {g}
  BY <1>0
<1>11. HandsOK'
  <2>1. \A f \in Hands' : FirstIn(tasks, f.task)
    BY <1>1, <1>8, <1>10 DEF WorkInv, HandsOK
  <2>2. \A f, h \in Hands' : f.task.chunk = h.task.chunk => f = h
    BY <1>1, <1>9, <1>10 DEF WorkInv, HandsOK
  <2>3. \A f \in Hands' : f.at = "body" => f.task.to \in {0, Top}
    BY <1>1, <1>10 DEF WorkInv, HandsOK
  <2> QED
    BY <2>1, <2>2, <2>3 DEF HandsOK
<1>12. ASSUME NEW u
       PROVE  /\ EndedIn(Hands', u) <=> EndedIn(Hands, u)
              /\ PublishedIn(Hands', u) <=> PublishedIn(Hands, u)
  BY <1>1, <1>10 DEF EndedIn, PublishedIn
<1>13. Open' = Open
  BY <1>2, <1>12 DEF Open
<1>14. \A u \in Open : OpenOK(u) => OpenOK(u)'
  BY <1>2, <1>12 DEF OpenOK
<1>15. OpensOK'
  BY <1>13, <1>14 DEF WorkInv, OpensOK
<1> QED
  BY <1>3, <1>11, <1>15 DEF WorkInv

(* The task in a worker's hands, and no other of its chunk, is what it is said to be. *)
LEMMA InHand ==
    ASSUME EdgeInv, ShapesOK, HandsOK, NEW w \in Workers, NEW place \in TaskPlaces, At(w, place)
    PROVE  LET t == Doing(w).task
           IN  /\ Doing(w).at = place /\ Doing(w) \in Hands /\ t \in Known
               /\ \A f \in Hands : f.task.chunk = t.chunk => f = Doing(w)
               /\ t \in Open <=> place \notin {"done", "undone", "failing"}
               /\ PublishedIn(Hands, t) <=> t.to \in {0, Top} /\ place = "complete"
<1> DEFINE t == Doing(w).task
<1>1. Doing(w).at = place /\ Doing(w) \in Hands /\ t \in Known
  BY AtTask DEF EdgeInv
<1>2. \A f \in Hands : f.task.chunk = t.chunk => f = Doing(w)
  BY <1>1 DEF HandsOK
<1>3. \A f \in Hands : f.task = t => f = Doing(w)
  BY <1>2
<1>4. EndedIn(Hands, t) <=> place \in {"done", "undone", "failing"}
  BY <1>1, <1>3 DEF EndedIn
<1>5. PublishedIn(Hands, t) <=> t.to \in {0, Top} /\ place = "complete"
  BY <1>1, <1>3 DEF PublishedIn
<1> QED
  BY <1>1, <1>2, <1>4, <1>5 DEF Open

(* A worker goes on with its task. *)
LEMMA ExchangeWork ==
    ASSUME EdgeInv, ShapesOK, WorkInv, HoldersOK', UNCHANGED tasks,
           NEW w \in Workers, NEW place \in TaskPlaces, At(w, place),
           NEW t, t = Doing(w).task, NEW g, g.task = t, g.at \in TaskPlaces,
           Hands' = (Hands \ {Doing(w)}) \cup {g},
           g.at = "body" => t.to \in {0, Top},
           \A d \in Chunks : status[d] <= status'[d],
           \A d \in Chunks : source[d] \in {"missing", "ready"} => source'[d] \in {"missing", "ready"},
           \A u \in Open : u # t =>
                /\ status'[u.chunk] = status[u.chunk] /\ source'[u.chunk] = source[u.chunk]
                /\ task'[u.chunk] = u \/ failed'[u.chunk],
           \/ g.at \in {"done", "undone", "failing"}
           \/ /\ place \notin {"done", "undone", "failing"}
              /\ task'[t.chunk] = t \/ failed'[t.chunk]
              /\ status'[t.chunk] = IF t.to \in {0, Top} /\ g.at = "complete" THEN t.to ELSE t.to - 1
              /\ t.to = 0 => source'[t.chunk] = "missing"
    PROVE  WorkInv'
<1>1. /\ Doing(w).at = place /\ Doing(w) \in Hands /\ t \in Known
      /\ \A f \in Hands : f.task.chunk = t.chunk => f = Doing(w)
      /\ t \in Open <=> place \notin {"done", "undone", "failing"}
  BY InHand DEF WorkInv
<1>2. Known' = Known
  BY DEF Known
<1>3. ListOK'
  <2>1. \A u \in Known : u \in ProgressionTasks /\ source'[u.chunk] \in {"missing", "ready"}
    BY KnownOK DEF WorkInv, ListOK
  <2> QED
    BY <1>2, <2>1 DEF WorkInv, ListOK, Distinct
<1>4. \A f \in Hands' : f = g \/ (f \in Hands /\ f.task.chunk # t.chunk)
  BY <1>1
<1>5. HandsOK'
  <2>1. \A f \in Hands' : FirstIn(tasks, f.task)
    BY <1>1, <1>4 DEF WorkInv, HandsOK
  <2>2. \A f, h \in Hands' : f.task.chunk = h.task.chunk => f = h
    BY <1>4 DEF WorkInv, HandsOK
  <2>3. \A f \in Hands' : f.at = "body" => f.task.to \in {0, Top}
    BY <1>4 DEF WorkInv, HandsOK
  <2> QED
    BY <2>1, <2>2, <2>3 DEF HandsOK
<1>6. \A f : f.task # t => (f \in Hands' <=> f \in Hands)
  OBVIOUS
<1>7. \A u \in Known' : u # t => (u \in Open' <=> u \in Open) /\ (u \in Open' => OpenOK(u)')
  <2>1. Known' \subseteq Known
    BY <1>2
  <2> QED
    BY <1>6, <2>1, Elsewhere
<1>8. \A f \in Hands' : f.task = t => f = g
  BY <1>4
<1>9. EndedIn(Hands', t) <=> g.at \in {"done", "undone", "failing"}
  BY <1>8 DEF EndedIn
<1>10. PublishedIn(Hands', t) <=> t.to \in {0, Top} /\ g.at = "complete"
  BY <1>8 DEF PublishedIn
<1>11. t \in Open' => t \in Open
  BY <1>1, <1>2, <1>9 DEF Open
<1>12. ASSUME t \in Open'
       PROVE  OpenOK(t)'
  <2>1. g.at \notin {"done", "undone", "failing"}
    BY <1>9, <1>12 DEF Open
  <2>2. /\ task'[t.chunk] = t \/ failed'[t.chunk]
        /\ status'[t.chunk] = IF PublishedIn(Hands', t) THEN t.to ELSE t.to - 1
        /\ t.to = 0 => source'[t.chunk] = "missing"
    BY <1>10, <2>1
  <2>3. \A n \in Reads(t.chunk, t.to) \ {} : status'[n] >= Need(t.to, t.chunk, n)
    <3>1. t.chunk \in Chunks /\ t.to \in Statuses
      BY <1>1, KnownOK DEF WorkInv
    <3>2. \A n \in Reads(t.chunk, t.to) \ {} : status[n] >= Need(t.to, t.chunk, n)
      BY <1>11, <1>12 DEF WorkInv, OpensOK, OpenOK
    <3> QED
      BY <3>1, <3>2, ReadsKept DEF WorkInv
  <2> QED
    BY <2>2, <2>3 DEF OpenOK
<1>13. OpensOK'
  <2>1. Open' \subseteq Known' /\ Open' \subseteq Open
    BY <1>7, <1>11 DEF Open
  <2>2. \A u \in Open' : OpenOK(u)'
    BY <1>7, <1>12, <2>1
  <2>3. \A u, v \in Open' : u.chunk = v.chunk => u = v
    BY <2>1 DEF WorkInv, OpensOK
  <2> QED
    BY <2>2, <2>3 DEF OpensOK
<1> QED
  BY <1>3, <1>5, <1>13 DEF WorkInv

(* Forgetting a task leaves the others, and their order. *)
LEMMA ForgetOrder ==
    ASSUME TasksOK, Distinct(tasks), NEW t \in Known, Forget(t)
    PROVE  /\ Known' = Known \ {t} /\ Distinct(tasks')
           /\ \A u : FirstIn(tasks, u) => FirstIn(tasks', u)
<1> DEFINE p == Position(t)
           n == Len(tasks)
           a == SubSeq(tasks, 1, p - 1)
           b == SubSeq(tasks, p + 1, n)
           Old(i) == IF i < p THEN i ELSE i + 1
<1>1. PICK T : tasks \in Seq(T)
  BY DEF TasksOK
<1>2. p \in 1 .. n /\ tasks[p] = t /\ n \in Nat /\ DOMAIN tasks = 1 .. n
  BY <1>1, PositionOK
<1>3. tasks' = a \o b
  BY DEF Forget
<1> HIDE DEF p
<1>4. a \in Seq(T) /\ Len(a) = p - 1 /\ \A i \in 1 .. p - 1 : a[i] = tasks[i]
  BY <1>1, <1>2
<1>5. b \in Seq(T) /\ Len(b) = n - p /\ \A i \in 1 .. n - p : b[i] = tasks[p + i]
  <2>1. p \in 1 .. Len(tasks)
    BY <1>2
  <2> QED
    BY <1>1, <2>1
<1> HIDE DEF a, b, n
<1>6. DOMAIN tasks' = 1 .. n - 1
  BY <1>2, <1>3, <1>4, <1>5
<1>7. ASSUME NEW i \in 1 .. n - 1
      PROVE  Old(i) \in 1 .. n /\ Old(i) # p /\ tasks'[i] = tasks[Old(i)]
  <2>1. CASE i < p
    <3>1. i \in 1 .. p - 1 /\ tasks'[i] = a[i]
      BY <1>2, <1>3, <1>4, <1>5, <2>1
    <3> QED
      BY <1>2, <1>4, <2>1, <3>1
  <2>2. CASE ~(i < p)
    <3>1. i - (p - 1) \in 1 .. n - p /\ tasks'[i] = b[i - (p - 1)]
      BY <1>2, <1>3, <1>4, <1>5, <2>2
    <3>2. b[i - (p - 1)] = tasks[p + (i - (p - 1))] /\ p + (i - (p - 1)) = i + 1
      BY <1>2, <1>5, <3>1
    <3> QED
      BY <1>2, <2>2, <3>1, <3>2
  <2> QED
    BY <2>1, <2>2
<1>8. \A i, j \in 1 .. n - 1 : i < j => Old(i) < Old(j)
  BY <1>2
<1>9. \A k \in 1 .. n : k # p => \E i \in 1 .. n - 1 : Old(i) = k
  <2>1. ASSUME NEW k \in 1 .. n, k # p
        PROVE  \E i \in 1 .. n - 1 : Old(i) = k
    <3>1. CASE k < p
      BY <1>2, <3>1
    <3>2. CASE k > p
      <4>1. k - 1 \in 1 .. n - 1 /\ Old(k - 1) = k
        BY <1>2, <3>2
      <4> QED
        BY <4>1
    <3> QED
      BY <1>2, <2>1, <3>1, <3>2
  <2> QED
    BY <2>1
<1> HIDE DEF Old
<1>10. \A k \in 1 .. n : k # p => tasks[k] # t
  BY <1>2 DEF Distinct
<1>11. Known' = Known \ {t}
  <2>1. \A u : u \in Known' <=> \E i \in 1 .. n - 1 : tasks'[i] = u
    BY <1>6 DEF Known
  <2>2. \A u : u \in Known <=> \E k \in 1 .. n : tasks[k] = u
    BY <1>2 DEF Known
  <2>3. ASSUME NEW u \in Known'
        PROVE  u \in Known \ {t}
    <3>1. PICK i \in 1 .. n - 1 : tasks'[i] = u
      BY <2>1
    <3> QED
      BY <1>7, <1>10, <2>2, <3>1
  <2>4. ASSUME NEW u \in Known, u # t
        PROVE  u \in Known'
    <3>1. PICK k \in 1 .. n : tasks[k] = u
      BY <2>2
    <3>2. k # p
      BY <1>2, <2>4, <3>1
    <3>3. PICK i \in 1 .. n - 1 : Old(i) = k
      BY <1>9, <3>2
    <3> QED
      BY <1>7, <2>1, <3>1, <3>3
  <2> QED
    BY <2>3, <2>4
<1>12. Distinct(tasks')
  <2> SUFFICES ASSUME NEW i \in 1 .. n - 1, NEW j \in 1 .. n - 1, i # j
               PROVE  tasks'[i] # tasks'[j]
    BY <1>6 DEF Distinct
  <2>1. Old(i) # Old(j)
    <3>1. i < j \/ j < i
      BY <1>2
    <3>2. Old(i) \in Int /\ Old(j) \in Int
      BY <1>7
    <3> QED
      BY <1>8, <3>1, <3>2
  <2> QED
    BY <1>2, <1>7, <2>1 DEF Distinct
<1>13. ASSUME NEW u, FirstIn(tasks, u)
       PROVE  FirstIn(tasks', u)
  <2> SUFFICES ASSUME NEW i \in 1 .. n - 1, NEW j \in 1 .. n - 1, tasks'[j] = u, i < j
               PROVE  tasks'[i].chunk # u.chunk
    BY <1>6 DEF FirstIn
  <2>1. Old(i) < Old(j)
    BY <1>8
  <2> QED
    BY <1>2, <1>7, <1>13, <2>1 DEF FirstIn
<1> QED
  BY <1>11, <1>12, <1>13

(* A worker is done with its task. *)
LEMMA DropWork ==
    ASSUME EdgeInv, ShapesOK, WorkInv, HoldersOK', UNCHANGED <<status, source>>,
           NEW w \in Workers, NEW place \in {"done", "failing"}, At(w, place),
           NEW t, t = Doing(w).task, Forget(t), Hands' = Hands \ {Doing(w)},
           \A u \in Open : u # t => task'[u.chunk] = u \/ failed'[u.chunk]
    PROVE  WorkInv'
<1>0. place \in TaskPlaces
  BY DEF TaskPlaces
<1>1. /\ Doing(w) \in Hands /\ t \in Known
      /\ \A f \in Hands : f.task.chunk = t.chunk => f = Doing(w)
      /\ t \notin Open
  BY <1>0, InHand DEF WorkInv
<1>2. /\ Known' = Known \ {t} /\ Distinct(tasks')
      /\ \A u : FirstIn(tasks, u) => FirstIn(tasks', u)
  BY <1>1, ForgetOrder DEF EdgeInv, WorkInv, ListOK
<1>3. ListOK'
  BY <1>2 DEF WorkInv, ListOK
<1>4. HandsOK'
  BY <1>2 DEF WorkInv, HandsOK
<1>5. \A u \in Known' : u # t => (u \in Open' <=> u \in Open) /\ (u \in Open' => OpenOK(u)')
  <2>1. Known' \subseteq Known /\ \A f : f.task # t => (f \in Hands' <=> f \in Hands)
    BY <1>2
  <2>2. \A d \in Chunks : status[d] <= status'[d]
    <3>1. \A d \in Chunks : status[d] \in Int
      BY TopOK DEF WorkInv, HoldersOK, Heights
    <3> QED
      BY <3>1
  <2> QED
    BY <2>1, <2>2, Elsewhere
<1>6. Open' \subseteq Known' /\ t \notin Known'
  BY <1>2 DEF Open
<1>7. OpensOK'
  BY <1>5, <1>6 DEF WorkInv, OpensOK
<1> QED
  BY <1>3, <1>4, <1>7 DEF WorkInv

-----------------------------------------------------------------------------
(* Scans.                                                                  *)

(* What a scan frame says of its chunk. *)
LEMMA ScanFrame ==
    ASSUME EdgeInv, ScansOK, NEW w \in Workers, NEW f \in Inside(stack[w]), f.at = "scan"
    PROVE  /\ f.chunk \in Chunks /\ f.left \subseteq Reads(f.chunk, f.to) /\ f.to \in Statuses
           /\ ScanOK(f) /\ \A c \in Chunks : Upcoming(stack[w], c) => LowerThan(c, f)
<1>1. FrameOK(f, Held(w))
  BY InsideOK DEF EdgeInv, StacksOK
<1>2. ScanOK(f) /\ \A c \in Chunks : Upcoming(stack[w], c) => LowerThan(c, f)
  BY DEF ScansOK
<1>3. f.to \in 1 .. Top
  BY <1>2 DEF ScanOK
<1>4. f.to \in Statuses
  BY <1>3, TopOK DEF Statuses
<1> QED
  BY <1>1, <1>2, <1>4 DEF FrameOK

(* While the lock is free there are none. *)
LEMMA FreeScans ==
    ASSUME StacksOK, ShapesOK, ~Locked,
           \A v \in Workers : stack'[v] = stack[v] \/ \A f \in Inside(stack'[v]) : f.at # "scan"
    PROVE  ScansOK'
<1>1. \A v \in Workers : Plain(stack[v])
  BY LockedOK
<1>2. \A v \in Workers : \A f \in Inside(stack'[v]) : f.at # "scan"
  BY <1>1 DEF Plain
<1> QED
  BY <1>2 DEF ScansOK

(* What may happen beside one: chunks with a task rise, and complete chunks are loaded. *)
LEMMA KeepScans ==
    ASSUME EdgeInv, HoldersOK, HoldersOK', ScansOK, UNCHANGED <<task, failed>>,
           \A d \in Chunks : status[d] <= status'[d],
           \A d \in Chunks : task[d] = None /\ ~failed[d] =>
                status'[d] = status[d] \/ (status[d] = -1 /\ status'[d] = Top),
           \A v \in Workers : stack'[v] = stack[v] \/ \A f \in Inside(stack'[v]) : f.at # "scan"
    PROVE  ScansOK'
<1> SUFFICES ASSUME NEW w \in Workers, NEW f \in Inside(stack'[w]), f.at = "scan"
             PROVE  ScanOK(f)' /\ \A c \in Chunks : Upcoming(stack'[w], c) => LowerThan(c, f)'
  BY DEF ScansOK
<1>1. stack'[w] = stack[w]
  OBVIOUS
<1>2. /\ f.chunk \in Chunks /\ f.to \in Statuses
      /\ ScanOK(f) /\ \A c \in Chunks : Upcoming(stack[w], c) => LowerThan(c, f)
  BY <1>1, ScanFrame
<1>3. ScanOK(f)'
  <2>1. f.to \in 1 .. Top /\ status[f.chunk] = f.to - 1 /\ task[f.chunk] = None /\ ~failed[f.chunk]
    BY <1>2 DEF ScanOK
  <2>2. status'[f.chunk] = f.to - 1
    BY <1>2, <2>1, TopOK
  <2>3. f.unready \/ \A n \in Reads(f.chunk, f.to) \ f.left : status'[n] >= Need(f.to, f.chunk, n)
    <3>1. CASE f.unready
      BY <3>1
    <3>2. CASE \A n \in Reads(f.chunk, f.to) \ f.left : status[n] >= Need(f.to, f.chunk, n)
      BY <1>2, <3>2, ReadsKept
    <3> QED
      BY <1>2, <3>1, <3>2 DEF ScanOK
  <2> QED
    BY <2>1, <2>2, <2>3 DEF ScanOK
<1>4. ASSUME NEW c \in Chunks, Upcoming(stack'[w], c)
      PROVE  LowerThan(c, f)'
  <2>1. LowerThan(c, f)
    BY <1>1, <1>2, <1>4
  <2> QED
    BY <2>1 DEF LowerThan
<1> QED
  BY <1>3, <1>4

(* What the worker that schedules does: the others have none. *)
LEMMA LockerScans ==
    ASSUME StacksOK, ShapesOK, NEW w \in Workers, Locking(stack[w]),
           \A v \in Workers : v # w => stack'[v] = stack[v],
           \A f \in Inside(stack'[w]) : f.at = "scan" =>
                ScanOK(f)' /\ \A c \in Chunks : Upcoming(stack'[w], c) => LowerThan(c, f)'
    PROVE  ScansOK'
<1>1. \A v \in Workers : v # w => Plain(stack[v])
  BY LockedOK DEF ShapesOK
<1>2. \A v \in Workers : v # w => \A f \in Inside(stack'[v]) : f.at # "scan"
  BY <1>1 DEF Plain
<1> QED
  BY <1>2 DEF ScansOK

-----------------------------------------------------------------------------
(* The main thread.                                                        *)

(* A step that leaves the workers alone. *)
LEMMA StillShape ==
    ASSUME ShapesOK, UNCHANGED stack
    PROVE  ShapesOK' /\ Hands' = Hands
BY DEF ShapesOK, Hands

LEMMA StatusOrder ==
    ASSUME HoldersOK
    PROVE  \A d \in Chunks : status[d] \in Int /\ status[d] <= status[d] /\ -1 <= status[d] /\ status[d] <= Top
BY TopOK DEF HoldersOK, Heights

(* The source of a chunk becomes known or is being looked for, or nothing changes. *)
LEMMA SourceStep ==
    ASSUME StepInv, NEW c \in Chunks, UNCHANGED <<status, failed, task, tasks, stack>>,
           \/ UNCHANGED source
           \/ /\ source[c] = "unknown" /\ source' = [source EXCEPT ![c] = "resolving"]
           \/ /\ source[c] = "resolving" /\ source' = [source EXCEPT ![c] = "missing"]
    PROVE  ShapesOK' /\ WorkInv' /\ ScansOK'
<1>1. ShapesOK' /\ Hands' = Hands
  BY StillShape DEF StepInv
<1>2. HoldersOK'
  BY DEF StepInv, WorkInv, HoldersOK
<1>3. \A d \in Chunks : status[d] \in Int /\ status[d] <= status[d]
  BY StatusOrder DEF StepInv, WorkInv
<1>4. WorkInv'
  <2>1. CASE UNCHANGED source
    BY <1>1, <2>1, SameWork DEF StepInv, holderVars
  <2>2. CASE source[c] \in {"unknown", "resolving"} /\ \A d \in Chunks : d # c => source'[d] = source[d]
    BY <1>1, <1>2, <1>3, <2>2, UntaskedWork DEF StepInv
  <2>3. UNCHANGED source \/ \A d \in Chunks : d # c => source'[d] = source[d]
    BY DEF StepInv, WorkInv, HoldersOK
  <2> QED
    BY <2>1, <2>2, <2>3
<1>5. ScansOK'
  BY <1>2, <1>3, KeepScans DEF StepInv, WorkInv
<1> QED
  BY <1>1, <1>4, <1>5

LEMMA RequestWork ==
    ASSUME StepInv, NEW r \in Requests, RequestChunk(r)
    PROVE  ShapesOK' /\ WorkInv' /\ ScansOK'
<1>1. Wanted[r].chunk \in Chunks
  <2>1. Wanted[r] \in [chunk : Chunks, status : 1 .. Top]
    BY AssumptionParts
  <2> QED
    BY <2>1
<1>2. UNCHANGED <<status, failed, task, tasks, stack>>
  BY DEF RequestChunk, taskVars
<1>3. \/ UNCHANGED source
      \/ /\ source[Wanted[r].chunk] = "unknown"
         /\ source' = [source EXCEPT ![Wanted[r].chunk] = "resolving"]
  BY DEF RequestChunk, Advance
<1> QED
  BY <1>1, <1>2, <1>3, SourceStep

LEMMA SetTicketWork ==
    ASSUME StepInv, NEW c \in Chunks, SetTicket(c)
    PROVE  ShapesOK' /\ WorkInv' /\ ScansOK'
<1>1. UNCHANGED <<status, failed, task, tasks, stack>>
  BY DEF SetTicket
<1>2. \/ UNCHANGED source
      \/ source[c] = "unknown" /\ source' = [source EXCEPT ![c] = "resolving"]
  BY DEF SetTicket, Advance
<1> QED
  BY <1>1, <1>2, SourceStep

LEMMA LoadHitWork ==
    ASSUME StepInv, NEW c \in Chunks, LoadHit(c)
    PROVE  ShapesOK' /\ WorkInv' /\ ScansOK'
<1>1. /\ source[c] = "resolving" /\ UNCHANGED <<failed, task, tasks, stack>>
      /\ status' = [status EXCEPT ![c] = Top] /\ source' = [source EXCEPT ![c] = "ready"]
  BY DEF LoadHit, Loading, taskVars
<1>2. ShapesOK' /\ Hands' = Hands
  BY <1>1, StillShape DEF StepInv
<1>3. Top \in Heights
  BY TopOK DEF Heights
<1>4. HoldersOK'
  BY <1>1, <1>3 DEF StepInv, WorkInv, HoldersOK
<1>5. /\ status[c] = -1 /\ status'[c] = Top
      /\ \A d \in Chunks : d # c => status'[d] = status[d] /\ source'[d] = source[d]
  BY <1>1 DEF StepInv, WorkInv, HoldersOK
<1>6. \A d \in Chunks : status[d] <= status'[d]
  <2>1. \A d \in Chunks : status[d] \in Int /\ status[d] <= status[d] /\ status[d] <= Top
    BY StatusOrder DEF StepInv, WorkInv
  <2> QED
    BY <1>5, <2>1
<1>7. WorkInv'
  BY <1>1, <1>2, <1>4, <1>5, <1>6, UntaskedWork DEF StepInv
<1>8. ScansOK'
  BY <1>1, <1>4, <1>5, <1>6, KeepScans DEF StepInv, WorkInv
<1> QED
  BY <1>2, <1>7, <1>8

LEMMA LoadMissingWork ==
    ASSUME StepInv, NEW c \in Chunks, LoadMissing(c)
    PROVE  ShapesOK' /\ WorkInv' /\ ScansOK'
<1>1. /\ UNCHANGED <<status, failed, task, tasks, stack>>
      /\ source[c] = "resolving" /\ source' = [source EXCEPT ![c] = "missing"]
  BY DEF LoadMissing, Loading, taskVars
<1> QED
  BY <1>1, SourceStep

LEMMA LoadUnreadableWork ==
    ASSUME StepInv, NEW c \in Chunks, LoadUnreadable(c)
    PROVE  ShapesOK' /\ WorkInv' /\ ScansOK'
<1>1. /\ source[c] = "resolving" /\ ~Locked /\ UNCHANGED <<status, source, tasks, stack>>
      /\ failed' = [failed EXCEPT ![c] = TRUE] /\ task' = [task EXCEPT ![c] = None]
  BY DEF LoadUnreadable, Loading, Abandon, taskVars
<1>2. ShapesOK' /\ Hands' = Hands
  BY <1>1, StillShape DEF StepInv
<1>3. HoldersOK' /\ \A d \in Chunks : d # c => task'[d] = task[d] /\ failed'[d] = failed[d]
  BY <1>1 DEF StepInv, WorkInv, HoldersOK
<1>4. status[c] <= status'[c]
  BY <1>1, StatusOrder DEF StepInv, WorkInv
<1>5. WorkInv'
  BY <1>1, <1>2, <1>3, <1>4, UntaskedWork DEF StepInv
<1>6. ScansOK'
  BY <1>1, FreeScans DEF StepInv, EdgeInv
<1> QED
  BY <1>2, <1>5, <1>6

-----------------------------------------------------------------------------
(* The workers.                                                            *)

(* Steps that only move frames about. *)
LEMMA QuietStep ==
    ASSUME StepInv, UNCHANGED holderVars, UNCHANGED tasks, Hands' = Hands,
           \A v \in Workers : stack'[v] = stack[v] \/ \A f \in Inside(stack'[v]) : f.at # "scan"
    PROVE  WorkInv' /\ ScansOK'
<1>1. WorkInv'
  BY SameWork DEF StepInv
<1>2. HoldersOK /\ HoldersOK' /\ EdgeInv /\ ScansOK /\ UNCHANGED <<status, task, failed>>
  BY <1>1 DEF StepInv, WorkInv, holderVars
<1>3. \A d \in Chunks : status[d] <= status'[d]
  BY <1>2, StatusOrder
<1>4. ScansOK'
  BY <1>2, <1>3, KeepScans
<1> QED
  BY <1>1, <1>4

LEMMA JobWork ==
    ASSUME StepInv, NEW w \in Workers, NEW c \in Chunks,
           ScheduleJob(w, c) \/ NotifyStored(w, c) \/ ReconcileJob(w, c)
    PROVE  ShapesOK' /\ WorkInv' /\ ScansOK'
<1>1. UNCHANGED holderVars /\ UNCHANGED tasks
  BY DEF ScheduleJob, NotifyStored, ReconcileJob, taskVars
<1>2. CASE ScheduleJob(w, c)
  <2>1. ShapesOK' /\ Hands' = Hands
    BY <1>2, ScheduleJobShape DEF StepInv
  <2>2. Become(w, <<Scheduling(c)>>)
    BY <1>2 DEF ScheduleJob
  <2>3. stack'[w] = <<Scheduling(c)>> /\ \A v \in Workers : v # w => stack'[v] = stack[v]
    BY <2>2, BecomeStack DEF StepInv, EdgeInv
  <2>4. \A f \in Inside(stack'[w]) : f.at # "scan"
    BY <2>3, FewShape DEF Scheduling
  <2> QED
    BY <1>1, <2>1, <2>3, <2>4, QuietStep
<1>3. CASE NotifyStored(w, c) \/ ReconcileJob(w, c)
  <2>1. /\ ShapesOK' /\ Hands' = Hands
        /\ \A v \in Workers : stack'[v] = stack[v] \/ \A f \in Inside(stack'[v]) : f.at # "scan"
    BY <1>3, PlainJobShape DEF StepInv
  <2> QED
    BY <1>1, <2>1, QuietStep
<1> QED
  BY <1>2, <1>3

LEMMA RescheduleWork ==
    ASSUME StepInv, NEW w \in Workers, Reschedule(w)
    PROVE  ShapesOK' /\ WorkInv' /\ ScansOK'
<1>1. UNCHANGED holderVars /\ UNCHANGED tasks /\ \E frames : Become(w, frames)
  BY DEF Reschedule, taskVars
<1>2. ShapesOK' /\ Hands' = Hands /\ \A f \in Inside(stack'[w]) : f.at # "scan"
  BY RescheduleShape DEF StepInv
<1>3. \A v \in Workers : v # w => stack'[v] = stack[v]
  BY <1>1, BecomeStack DEF StepInv, EdgeInv
<1> QED
  BY <1>1, <1>2, <1>3, QuietStep

LEMMA ReconcileWork ==
    ASSUME StepInv, NEW w \in Workers, Reconcile(w)
    PROVE  ShapesOK' /\ WorkInv' /\ ScansOK'
<1>1. UNCHANGED holderVars /\ UNCHANGED tasks
  BY DEF Reconcile
<1>2. /\ ShapesOK' /\ Hands' = Hands
      /\ \A v \in Workers : stack'[v] = stack[v] \/ \A f \in Inside(stack'[v]) : f.at # "scan"
  BY ReconcileShape DEF StepInv
<1> QED
  BY <1>1, <1>2, QuietStep

(* What is left of the scans of a worker whose schedule() returns. *)
LEMMA ReturnScans ==
    ASSUME StepInv, NEW w \in Workers, At(w, "schedule") \/ At(w, "scan"), Become(w, Below(w)),
           \A f \in Inside(stack'[w]) : f.at = "scan" => ScanOK(f)'
    PROVE  ScansOK'
<1>1. /\ Locking(stack[w]) /\ \A c : ~Upcoming(stack'[w], c)
  BY ReturnShape DEF StepInv
<1>2. \A v \in Workers : v # w => stack'[v] = stack[v]
  BY BecomeStack DEF StepInv, EdgeInv
<1> QED
  BY <1>1, <1>2, LockerScans DEF StepInv, EdgeInv

LEMMA ReturnWork ==
    ASSUME StepInv, NEW w \in Workers, NothingToSchedule(w) \/ ResolveStorage(w)
    PROVE  ShapesOK' /\ WorkInv' /\ ScansOK'
<1>1. /\ At(w, "schedule") /\ Become(w, Below(w)) /\ UNCHANGED <<status, failed, task, tasks>>
      /\ \/ UNCHANGED source
         \/ /\ source[Doing(w).chunk] = "unknown"
            /\ source' = [source EXCEPT ![Doing(w).chunk] = "resolving"]
  BY DEF NothingToSchedule, ResolveStorage, holderVars, taskVars
<1>2. /\ ShapesOK' /\ Hands' = Hands /\ Inside(stack'[w]) \subseteq Inside(stack[w])
  BY <1>1, ReturnShape DEF StepInv
<1>3. Doing(w).chunk \in Chunks
  BY <1>1, SchedulingFrame DEF StepInv, EdgeInv
<1>4. HoldersOK'
  BY <1>1 DEF StepInv, WorkInv, HoldersOK
<1>5. \A d \in Chunks : status[d] <= status'[d]
  BY <1>1, StatusOrder DEF StepInv, WorkInv
<1>6. WorkInv'
  <2>1. CASE UNCHANGED source
    BY <1>1, <1>2, <2>1, SameWork DEF StepInv, holderVars
  <2>2. CASE /\ source[Doing(w).chunk] = "unknown"
             /\ source' = [source EXCEPT ![Doing(w).chunk] = "resolving"]
    <3>1. \A d \in Chunks : d # Doing(w).chunk => source'[d] = source[d]
      BY <2>2 DEF StepInv, WorkInv, HoldersOK
    <3> QED
      BY <1>1, <1>2, <1>3, <1>4, <1>5, <2>2, <3>1, UntaskedWork DEF StepInv
  <2> QED
    BY <1>1, <2>1, <2>2
<1>7. \A f \in Inside(stack'[w]) : f.at = "scan" => ScanOK(f)'
  <2>1. \A f \in Inside(stack'[w]) : f.at = "scan" => ScanOK(f)
    BY <1>2 DEF StepInv, ScansOK
  <2>2. ASSUME NEW f, ScanOK(f)
        PROVE  ScanOK(f)'
    BY <1>1, <2>2 DEF ScanOK
  <2> QED
    BY <2>1, <2>2
<1> QED
  BY <1>1, <1>2, <1>6, <1>7, ReturnScans

(* scheduleEmptyLoad. *)
LEMMA LoadEmptyWork ==
    ASSUME StepInv, NEW w \in Workers, LoadEmpty(w)
    PROVE  ShapesOK' /\ WorkInv' /\ ScansOK'
<1>0. PICK c : c = Doing(w).chunk
  OBVIOUS
<1>1. /\ At(w, "schedule") /\ Become(w, Below(w)) /\ Submit(c, 0)
      /\ UNCHANGED <<status, source, failed>>
      /\ ~failed[c] /\ task[c] = None /\ status[c] = -1 /\ source[c] = "missing"
  BY <1>0 DEF LoadEmpty, Schedulable
<1>2. /\ ShapesOK' /\ Hands' = Hands /\ Inside(stack'[w]) \subseteq Inside(stack[w])
  BY <1>1, ReturnShape DEF StepInv
<1>3. c \in Chunks
  BY <1>0, <1>1, SchedulingFrame DEF StepInv, EdgeInv
<1>4. WorkInv'
  <2>1. \A n \in Reads(c, 0) : status[n] >= Need(0, c, n)
    BY DEF Reads
  <2>2. 0 \in Statuses /\ status[c] = 0 - 1
    BY <1>1, TopOK
  <2> QED
    BY <1>1, <1>2, <1>3, <2>1, <2>2, SubmitWork DEF StepInv
<1>5. \A d \in Chunks : d # c => task'[d] = task[d]
  <2>1. task' = [task EXCEPT ![c] = NewTask(c, 0)]
    BY <1>1 DEF Submit
  <2> QED
    BY <2>1 DEF StepInv, WorkInv, HoldersOK
<1>6. ASSUME NEW f \in Inside(stack'[w]), f.at = "scan"
      PROVE  ScanOK(f)'
  <2>1. f \in Inside(stack[w])
    BY <1>2
  <2>2. f.chunk \in Chunks /\ ScanOK(f) /\ \A d \in Chunks : Upcoming(stack[w], d) => LowerThan(d, f)
    BY <1>6, <2>1, ScanFrame DEF StepInv
  <2>3. Upcoming(stack[w], c)
    BY <1>0, <1>1 DEF Upcoming, At, Doing
  <2>4. c # f.chunk
    BY <1>3, <2>2, <2>3 DEF LowerThan
  <2>5. task'[f.chunk] = task[f.chunk]
    BY <1>5, <2>2, <2>4
  <2> QED
    BY <1>1, <2>2, <2>5 DEF ScanOK
<1> QED
  BY <1>1, <1>2, <1>4, <1>6, ReturnScans

(* The end of a scan. *)
LEMMA ScannedWork ==
    ASSUME StepInv, NEW w \in Workers, Scanned(w)
    PROVE  ShapesOK' /\ WorkInv' /\ ScansOK'
<1>0. PICK f : f = Doing(w)
  OBVIOUS
<1>1. /\ At(w, "scan") /\ f.at = "scan" /\ f.left = {} /\ Become(w, Below(w))
      /\ UNCHANGED <<status, source, failed>>
      /\ (f.unready /\ UNCHANGED <<task, tasks>>) \/ (~f.unready /\ Submit(f.chunk, f.to))
  BY <1>0 DEF Scanned, At, Doing, taskVars
<1>2. /\ ShapesOK' /\ Hands' = Hands /\ Inside(stack'[w]) \subseteq Inside(stack[w])
  BY <1>1, ReturnShape DEF StepInv
<1>3. /\ f \in Inside(stack[w]) /\ stack'[w] = Below(w)
      /\ \A g \in Inside(Below(w)) : Rests(f, g)
  <2>1. stack[w] # <<>>
    BY <1>1 DEF At
  <2>2. Inside(stack[w]) = {f} \cup Inside(Below(w)) /\ \A g \in Inside(Below(w)) : Rests(f, g)
    BY <1>0, <2>1, PlainBelow DEF StepInv, EdgeInv
  <2>3. stack'[w] = Below(w)
    BY <1>1, BecomeStack DEF StepInv, EdgeInv
  <2> QED
    BY <2>2, <2>3
<1>4. f.chunk \in Chunks /\ f.to \in Statuses /\ ScanOK(f)
  BY <1>1, <1>3, ScanFrame DEF StepInv
<1>5. f.to \in 1 .. Top /\ status[f.chunk] = f.to - 1 /\ task[f.chunk] = None /\ ~failed[f.chunk]
  BY <1>4 DEF ScanOK
<1>6. CASE f.unready /\ UNCHANGED <<task, tasks>>
  <2>1. WorkInv'
    BY <1>1, <1>2, <1>6, SameWork DEF StepInv, holderVars
  <2>2. ASSUME NEW g \in Inside(stack'[w]), g.at = "scan"
        PROVE  ScanOK(g)'
    <3>1. ScanOK(g)
      BY <1>2, <2>2, ScanFrame DEF StepInv
    <3> QED
      BY <1>1, <1>6, <3>1 DEF ScanOK
  <2> QED
    BY <1>1, <1>2, <2>1, <2>2, ReturnScans
<1>7. CASE ~f.unready /\ Submit(f.chunk, f.to)
  <2>1. WorkInv'
    <3>1. source[f.chunk] \in {"missing", "ready"}
      <4>1. status[f.chunk] # -1
        BY <1>5, TopOK
      <4> QED
        BY <1>4, <4>1 DEF StepInv, WorkInv, HoldersOK
    <3>2. \A n \in Reads(f.chunk, f.to) : status[n] >= Need(f.to, f.chunk, n)
      BY <1>1, <1>4, <1>7 DEF ScanOK
    <3>3. f.to # 0
      BY <1>5, TopOK
    <3> QED
      BY <1>1, <1>2, <1>4, <1>5, <1>7, <3>1, <3>2, <3>3, SubmitWork DEF StepInv
  <2>2. \A d \in Chunks : d # f.chunk => task'[d] = task[d]
    <3>1. task' = [task EXCEPT ![f.chunk] = NewTask(f.chunk, f.to)]
      BY <1>7 DEF Submit
    <3> QED
      BY <3>1 DEF StepInv, WorkInv, HoldersOK
  <2>3. ASSUME NEW g \in Inside(stack'[w]), g.at = "scan"
        PROVE  ScanOK(g)'
    <3>1. g.chunk \in Chunks /\ ScanOK(g)
      BY <1>2, <2>3, ScanFrame DEF StepInv
    <3>2. f.to < g.to
      BY <1>1, <1>3, <2>3 DEF Rests
    <3>3. g.to \in 1 .. Top /\ status[g.chunk] = g.to - 1
      BY <3>1 DEF ScanOK
    <3>4. g.chunk # f.chunk
      BY <1>5, <3>2, <3>3, TopOK
    <3>5. task'[g.chunk] = task[g.chunk]
      BY <2>2, <3>1, <3>4
    <3> QED
      BY <1>1, <3>1, <3>5 DEF ScanOK
  <2> QED
    BY <1>1, <1>2, <2>1, <2>3, ReturnScans
<1> QED
  BY <1>1, <1>6, <1>7

(* The start of one: schedule() was called for a chunk without a task. *)
LEMMA StartScanWork ==
    ASSUME StepInv, NEW w \in Workers, StartScan(w)
    PROVE  ShapesOK' /\ WorkInv' /\ ScansOK'
<1>0. PICK c, f : c = Doing(w).chunk /\ f = Scanning(c, status[c] + 1, Reads(c, status[c] + 1), FALSE)
  OBVIOUS
<1>1. /\ c \in Chunks /\ status[c] \in 0 .. Top - 1 /\ task[c] = None /\ ~failed[c]
      /\ ShapesOK' /\ Hands' = Hands /\ Locking(stack[w])
      /\ Inside(stack'[w]) \subseteq {f} \cup Inside(stack[w])
      /\ \A x : ~Upcoming(stack'[w], x)
  BY <1>0, StartScanShape DEF StepInv, WorkInv
<1>2. UNCHANGED holderVars /\ UNCHANGED tasks /\ \E frames : Become(w, frames)
  BY DEF StartScan, taskVars
<1>3. WorkInv'
  BY <1>1, <1>2, SameWork DEF StepInv
<1>4. \A v \in Workers : v # w => stack'[v] = stack[v]
  BY <1>2, BecomeStack DEF StepInv, EdgeInv
<1>5. ScanOK(f)
  <2>1. /\ f.chunk = c /\ f.to = status[c] + 1 /\ f.left = Reads(c, f.to) /\ f.unready = FALSE
    BY <1>0 DEF Scanning
  <2>2. f.to \in 1 .. Top /\ status[c] = f.to - 1
    BY <1>1, <2>1, TopOK
  <2> QED
    BY <1>1, <2>1, <2>2 DEF ScanOK
<1>6. ASSUME NEW g \in Inside(stack'[w]), g.at = "scan"
      PROVE  ScanOK(g)' /\ \A x \in Chunks : Upcoming(stack'[w], x) => LowerThan(x, g)'
  <2>1. CASE g = f
    <3>1. ScanOK(f)'
      BY <1>2, <1>5 DEF ScanOK, holderVars
    <3> QED
      BY <1>1, <2>1, <3>1
  <2>2. CASE g \in Inside(stack[w])
    <3>1. ScanOK(g)
      BY <1>6, <2>2, ScanFrame DEF StepInv
    <3>2. ScanOK(g)'
      BY <1>2, <3>1 DEF ScanOK, holderVars
    <3> QED
      BY <1>1, <3>2
  <2> QED
    BY <1>1, <2>1, <2>2
<1>7. ScansOK'
  BY <1>1, <1>4, <1>6, LockerScans DEF StepInv, EdgeInv
<1> QED
  BY <1>1, <1>3, <1>7

(* A scan goes on.  The neighbour it schedules is lower than what the scan, and every scan *)
(* that led to it, is for: it cannot be a chunk that one of them is about.                  *)
LEMMA CheckWork ==
    ASSUME StepInv, NEW w \in Workers, CheckNeighbour(w)
    PROVE  ShapesOK' /\ WorkInv' /\ ScansOK'
<1>0. PICK f : f = Doing(w)
  OBVIOUS
<1>1. PICK n, unready, g :
        /\ n \in f.left /\ g = Scanning(f.chunk, f.to, f.left \ {n}, unready)
        /\ f.at = "scan" /\ f \in Inside(stack[w]) /\ f.chunk \in Chunks
        /\ f.left \subseteq Reads(f.chunk, f.to)
        /\ ShapesOK' /\ Hands' = Hands /\ Locking(stack[w])
        /\ unready \/ (~f.unready /\ status[n] >= Need(f.to, f.chunk, n))
        /\ \/ /\ Inside(stack'[w]) = {g} \cup Inside(Below(w))
              /\ \A x : ~Upcoming(stack'[w], x)
           \/ /\ Inside(stack'[w]) = {Scheduling(n), g} \cup Inside(Below(w))
              /\ status[n] < Need(f.to, f.chunk, n)
              /\ \A x : Upcoming(stack'[w], x) => x = n
  BY <1>0, CheckShape DEF StepInv
<1>2. UNCHANGED holderVars /\ UNCHANGED tasks /\ \E frames : Become(w, frames)
  BY DEF CheckNeighbour, taskVars
<1>3. WorkInv'
  BY <1>1, <1>2, SameWork DEF StepInv
<1>4. \A v \in Workers : v # w => stack'[v] = stack[v]
  BY <1>2, BecomeStack DEF StepInv, EdgeInv
<1>5. /\ f.to \in 1 .. Top /\ status[f.chunk] = f.to - 1 /\ task[f.chunk] = None /\ ~failed[f.chunk]
      /\ f.unready \/ \A m \in Reads(f.chunk, f.to) \ f.left : status[m] >= Need(f.to, f.chunk, m)
  BY <1>1, ScanFrame DEF StepInv, ScanOK
<1>6. /\ n \in Chunks /\ n # f.chunk /\ Need(f.to, f.chunk, n) \in 0 .. Top
      /\ Need(f.to, f.chunk, n) < f.to
  BY <1>1, <1>5, RequiredOK
<1>7. ScanOK(g)
  <2>1. g.chunk = f.chunk /\ g.to = f.to /\ g.left = f.left \ {n} /\ g.unready = unready
    BY <1>1 DEF Scanning
  <2>2. unready \/ \A m \in Reads(f.chunk, f.to) \ (f.left \ {n}) : status[m] >= Need(f.to, f.chunk, m)
    BY <1>1, <1>5
  <2> QED
    BY <1>5, <2>1, <2>2 DEF ScanOK
<1>8. \A h \in Inside(Below(w)) : h \in Inside(stack[w]) /\ (h.at = "scan" => f.to < h.to)
  <2>1. stack[w] # <<>>
    BY <1>1 DEF Locking
  <2>2. Inside(stack[w]) = {f} \cup Inside(Below(w)) /\ \A h \in Inside(Below(w)) : Rests(f, h)
    BY <1>0, <2>1, PlainBelow DEF StepInv, EdgeInv
  <2> QED
    BY <1>1, <2>2 DEF Rests
<1>9. ASSUME NEW h \in Inside(stack'[w]), h.at = "scan"
      PROVE  h = g \/ (h \in Inside(stack[w]) /\ f.to < h.to)
  <2>1. Scheduling(n).at # "scan"
    BY DEF Scheduling
  <2> QED
    BY <1>1, <1>8, <1>9, <2>1
<1>10. ASSUME NEW h \in Inside(stack'[w]), h.at = "scan"
       PROVE  /\ ScanOK(h) /\ f.to <= h.to
              /\ \A x \in Chunks : Upcoming(stack'[w], x) => LowerThan(x, h)
  <2>1. h.to \in 1 .. Top /\ ScanOK(h) /\ f.to <= h.to
    <3>1. CASE h = g
      <4>1. h.to = f.to
        BY <1>1, <3>1 DEF Scanning
      <4> QED
        BY <1>5, <1>7, <3>1, <4>1, TopOK
    <3>2. CASE h \in Inside(stack[w]) /\ f.to < h.to
      <4>1. ScanOK(h)
        BY <1>10, <3>2, ScanFrame DEF StepInv
      <4>2. h.to \in 1 .. Top
        BY <4>1 DEF ScanOK
      <4> QED
        BY <1>5, <3>2, <4>1, <4>2, TopOK
    <3> QED
      BY <1>9, <1>10, <3>1, <3>2
  <2>2. ASSUME NEW x \in Chunks, Upcoming(stack'[w], x)
        PROVE  LowerThan(x, h)
    <3>1. x = n /\ status[n] < Need(f.to, f.chunk, n)
      BY <1>1, <2>2
    <3>2. status[n] \in Int
      BY <1>6, StatusOrder DEF StepInv, WorkInv
    <3>3. status[n] + 1 < h.to
      BY <1>5, <1>6, <2>1, <3>1, <3>2, TopOK
    <3>4. n # h.chunk
      <4>1. status[h.chunk] = h.to - 1
        BY <2>1 DEF ScanOK
      <4> QED
        BY <2>1, <3>2, <3>3, <4>1, TopOK
    <3> QED
      BY <3>1, <3>3, <3>4 DEF LowerThan
  <2> QED
    BY <2>1, <2>2
<1>11. ASSUME NEW h \in Inside(stack'[w]), h.at = "scan"
       PROVE  ScanOK(h)' /\ \A x \in Chunks : Upcoming(stack'[w], x) => LowerThan(x, h)'
  <2>1. ScanOK(h) /\ \A x \in Chunks : Upcoming(stack'[w], x) => LowerThan(x, h)
    BY <1>10, <1>11
  <2> QED
    BY <1>2, <2>1 DEF ScanOK, LowerThan, holderVars
<1>12. ScansOK'
  BY <1>1, <1>4, <1>11, LockerScans DEF StepInv, EdgeInv
<1> QED
  BY <1>1, <1>3, <1>12

LEMMA TakeTaskWork ==
    ASSUME StepInv, NEW w \in Workers, TakeTask(w)
    PROVE  ShapesOK' /\ WorkInv' /\ ScansOK'
<1>1. UNCHANGED holderVars /\ UNCHANGED tasks
  BY DEF TakeTask, taskVars
<1>2. /\ ShapesOK'
      /\ \A v \in Workers : stack'[v] = stack[v] \/ \A f \in Inside(stack'[v]) : f.at # "scan"
  BY TakeTaskShape DEF StepInv
<1>3. PICK k \in DOMAIN tasks, place \in {"cancel", "execute"} :
        Leads(k) /\ Hands' = Hands \cup {ForTask(place, tasks[k])}
  BY TakeTaskShape DEF StepInv
<1>4. WorkInv'
  BY <1>1, <1>3, TakeWork DEF StepInv
<1>5. HoldersOK /\ HoldersOK' /\ EdgeInv /\ ScansOK /\ UNCHANGED <<status, task, failed>>
  BY <1>1, <1>4 DEF StepInv, WorkInv, holderVars
<1>6. \A d \in Chunks : status[d] <= status'[d]
  BY <1>5, StatusOrder
<1>7. ScansOK'
  BY <1>2, <1>5, <1>6, KeepScans
<1> QED
  BY <1>2, <1>4, <1>7

(* A task that goes on without touching its holder. *)
LEMMA OnwardWork ==
    ASSUME StepInv, UNCHANGED holderVars, UNCHANGED tasks,
           NEW w \in Workers, NEW place \in TaskPlaces, At(w, place), NEW t, t = Doing(w).task,
           NEW g, g.task = t, g.at \in TaskPlaces, Hands' = (Hands \ {Doing(w)}) \cup {g},
           g.at = "body" => t.to \in {0, Top},
           \/ g.at \in {"done", "undone", "failing"}
           \/ place = "execute" /\ (t.to \in {0, Top} => g.at # "complete")
    PROVE  WorkInv'
<1>1. HoldersOK' /\ \A d \in Chunks : status[d] <= status'[d]
  BY StatusOrder DEF StepInv, WorkInv, HoldersOK, holderVars
<1>2. \A u \in Open : u # t =>
        /\ status'[u.chunk] = status[u.chunk] /\ source'[u.chunk] = source[u.chunk]
        /\ task'[u.chunk] = u \/ failed'[u.chunk]
  BY DEF StepInv, WorkInv, OpensOK, OpenOK, holderVars
<1>3. CASE g.at \in {"done", "undone", "failing"}
  BY <1>1, <1>2, <1>3, ExchangeWork DEF StepInv, holderVars
<1>4. CASE place = "execute" /\ (t.to \in {0, Top} => g.at # "complete")
  <2>1. t \in Open /\ ~PublishedIn(Hands, t)
    BY <1>4, InHand DEF StepInv, WorkInv
  <2>2. /\ task[t.chunk] = t \/ failed[t.chunk]
        /\ status[t.chunk] = t.to - 1
        /\ t.to = 0 => source[t.chunk] = "missing"
    BY <2>1 DEF StepInv, WorkInv, OpensOK, OpenOK
  <2> QED
    BY <1>1, <1>2, <1>4, <2>2, ExchangeWork DEF StepInv, holderVars
<1> QED
  BY <1>3, <1>4

LEMMA ExecuteWork ==
    ASSUME StepInv, NEW w \in Workers, Execute(w)
    PROVE  ShapesOK' /\ WorkInv' /\ ScansOK'
<1>0. PICK t : t = Doing(w).task
  OBVIOUS
<1>1. UNCHANGED holderVars /\ UNCHANGED tasks
  BY DEF Execute
<1>2. /\ ShapesOK' /\ At(w, "execute") /\ ~Locked
      /\ \A v \in Workers : stack'[v] = stack[v] \/ \A f \in Inside(stack'[v]) : f.at # "scan"
  BY ExecuteShape DEF StepInv
<1>3. PICK next, g :
        /\ next \in {"undone", "body", "complete"} /\ g = ForTask(next, t)
        /\ next # "undone" => (next = "body" <=> t.to \in {0, Top})
        /\ Hands' = (Hands \ {Doing(w)}) \cup {g}
  BY <1>0, ExecuteShape DEF StepInv
<1>4. g.task = t /\ g.at = next /\ g.at \in TaskPlaces
  BY <1>3 DEF ForTask, TaskPlaces
<1>5. "execute" \in TaskPlaces
  BY DEF TaskPlaces
<1>6. WorkInv'
  BY <1>0, <1>1, <1>2, <1>3, <1>4, <1>5, OnwardWork
<1>7. ScansOK'
  BY <1>2, FreeScans DEF StepInv, EdgeInv
<1> QED
  BY <1>2, <1>6, <1>7

LEMMA UndoneWork ==
    ASSUME StepInv, NEW w \in Workers, CallbackUndone(w)
    PROVE  ShapesOK' /\ WorkInv' /\ ScansOK'
<1>0. PICK t : t = Doing(w).task
  OBVIOUS
<1>1. UNCHANGED holderVars /\ UNCHANGED tasks
  BY DEF CallbackUndone, taskVars
<1>2. /\ ShapesOK' /\ At(w, "undone")
      /\ \A v \in Workers : stack'[v] = stack[v] \/ \A f \in Inside(stack'[v]) : f.at # "scan"
  BY UndoneShape DEF StepInv
<1>3. PICK seen, g : g = Failing(t, seen) /\ Hands' = (Hands \ {Doing(w)}) \cup {g}
  BY <1>0, UndoneShape DEF StepInv
<1>4. g.task = t /\ g.at = "failing" /\ "failing" \in TaskPlaces /\ "undone" \in TaskPlaces
  BY <1>3 DEF Failing, TaskPlaces
<1>5. WorkInv'
  BY <1>0, <1>1, <1>2, <1>3, <1>4, OnwardWork
<1>6. HoldersOK /\ HoldersOK' /\ EdgeInv /\ ScansOK /\ UNCHANGED <<status, task, failed>>
  BY <1>1, <1>5 DEF StepInv, WorkInv, holderVars
<1>7. \A d \in Chunks : status[d] <= status'[d]
  BY <1>6, StatusOrder
<1>8. ScansOK'
  BY <1>2, <1>6, <1>7, KeepScans
<1> QED
  BY <1>2, <1>5, <1>8

(* The open task in hand is the only open one of its chunk: what it does to its holder *)
(* disturbs no other.                                                                  *)
LEMMA OthersOpen ==
    ASSUME StepInv, NEW t \in Open,
           \A d \in Chunks : d # t.chunk =>
                /\ status'[d] = status[d] /\ source'[d] = source[d]
                /\ task'[d] = task[d] /\ failed'[d] = failed[d]
    PROVE  \A u \in Open : u # t =>
                /\ status'[u.chunk] = status[u.chunk] /\ source'[u.chunk] = source[u.chunk]
                /\ task'[u.chunk] = u \/ failed'[u.chunk]
<1> SUFFICES ASSUME NEW u \in Open, u # t
             PROVE  /\ status'[u.chunk] = status[u.chunk] /\ source'[u.chunk] = source[u.chunk]
                    /\ task'[u.chunk] = u \/ failed'[u.chunk]
  OBVIOUS
<1>1. u.chunk # t.chunk /\ (task[u.chunk] = u \/ failed[u.chunk])
  BY DEF StepInv, WorkInv, OpensOK, OpenOK
<1>2. u.chunk \in Chunks
  BY KnownOK DEF Open, StepInv, WorkInv
<1> QED
  BY <1>1, <1>2

LEMMA BodyWork ==
    ASSUME StepInv, NEW w \in Workers, Body(w)
    PROVE  ShapesOK' /\ WorkInv' /\ ScansOK'
<1>0. PICK t, c, g : t = Doing(w).task /\ c = t.chunk /\ g = ForTask("complete", t)
  OBVIOUS
<1>1. /\ status' = [status EXCEPT ![c] = t.to]
      /\ (t.to = Top /\ source' = [source EXCEPT ![c] = "ready"]) \/ (t.to # Top /\ UNCHANGED source)
      /\ UNCHANGED <<failed, task, tasks>>
  BY <1>0 DEF Body, taskVars
<1>2. /\ ShapesOK' /\ At(w, "body")
      /\ \A v \in Workers : stack'[v] = stack[v] \/ \A f \in Inside(stack'[v]) : f.at # "scan"
      /\ Hands' = (Hands \ {Doing(w)}) \cup {g}
  BY <1>0, BodyShape DEF StepInv
<1>3. g.task = t /\ g.at = "complete" /\ "body" \in TaskPlaces /\ g.at \in TaskPlaces
  BY <1>0 DEF ForTask, TaskPlaces
<1>4. t \in Known /\ t \in Open /\ ~PublishedIn(Hands, t) /\ t.to \in {0, Top}
  BY <1>0, <1>2, <1>3, InHand DEF StepInv, WorkInv, HandsOK
<1>5. /\ c \in Chunks /\ t.to \in Statuses /\ t # None /\ source[c] \in {"missing", "ready"}
  BY <1>0, <1>4, KnownOK DEF StepInv, WorkInv
<1>6. /\ task[c] = t \/ failed[c]
      /\ status[c] = t.to - 1 /\ (t.to = 0 => source[c] = "missing")
  BY <1>0, <1>4 DEF StepInv, WorkInv, OpensOK, OpenOK
<1>7. t.to \in Heights /\ t.to \in Int /\ Top # 0
  BY <1>5, TopOK DEF Statuses, Heights
<1>8. /\ status'[c] = t.to /\ source'[c] \in {"missing", "ready"}
      /\ t.to = 0 => source'[c] = "missing"
      /\ \A d \in Chunks : d # c => status'[d] = status[d] /\ source'[d] = source[d]
  BY <1>1, <1>5, <1>6, <1>7 DEF StepInv, WorkInv, HoldersOK
<1>9. HoldersOK'
  <2>1. status' \in [Chunks -> Heights]
    BY <1>1, <1>7 DEF StepInv, WorkInv, HoldersOK
  <2>2. source' \in [Chunks -> {"unknown", "resolving", "missing", "ready"}]
    BY <1>1 DEF StepInv, WorkInv, HoldersOK
  <2>3. \A d \in Chunks : source'[d] \in {"unknown", "resolving"} => status'[d] = -1
    BY <1>8 DEF StepInv, WorkInv, HoldersOK
  <2> QED
    BY <1>1, <2>1, <2>2, <2>3 DEF StepInv, WorkInv, HoldersOK
<1>10. \A d \in Chunks : status[d] <= status'[d]
  <2>1. \A d \in Chunks : status[d] \in Int /\ status[d] <= status[d]
    BY StatusOrder DEF StepInv, WorkInv
  <2> QED
    BY <1>6, <1>7, <1>8, <2>1
<1>11. \A u \in Open : u # t =>
        /\ status'[u.chunk] = status[u.chunk] /\ source'[u.chunk] = source[u.chunk]
        /\ task'[u.chunk] = u \/ failed'[u.chunk]
  BY <1>0, <1>1, <1>4, <1>8, OthersOpen
<1>12. \A d \in Chunks : source[d] \in {"missing", "ready"} => source'[d] \in {"missing", "ready"}
  BY <1>8
<1>13. /\ task'[c] = t \/ failed'[c]
       /\ status'[c] = IF t.to \in {0, Top} /\ g.at = "complete" THEN t.to ELSE t.to - 1
       /\ "body" \notin {"done", "undone", "failing"}
       /\ g.at = "body" => t.to \in {0, Top}
  BY <1>1, <1>3, <1>4, <1>6, <1>8
<1>14. WorkInv'
  <2>1. EdgeInv /\ ShapesOK /\ WorkInv
    BY DEF StepInv
  <2>2. t = Doing(w).task /\ c = t.chunk
    BY <1>0
  <2>3. t.to = 0 => source'[t.chunk] = "missing"
    BY <1>8, <2>2
  <2> QED
    BY <1>1, <1>2, <1>3, <1>9, <1>10, <1>11, <1>12, <1>13, <2>1, <2>2, <2>3, ExchangeWork
<1>15. \A d \in Chunks : task[d] = None /\ ~failed[d] =>
            status'[d] = status[d] \/ (status[d] = -1 /\ status'[d] = Top)
  BY <1>5, <1>6, <1>8
<1>16. ScansOK'
  BY <1>1, <1>2, <1>9, <1>10, <1>15, KeepScans DEF StepInv, WorkInv
<1> QED
  BY <1>2, <1>14, <1>16

(* onChunkGenComplete and cancelGeneration: the task has done, or undone, its work. *)
LEMMA EndWork ==
    ASSUME StepInv, HoldersOK', UNCHANGED <<source, failed, tasks>>,
           NEW w \in Workers, NEW place \in {"complete", "cancel"}, At(w, place),
           NEW t, t = Doing(w).task, NEW g, g.task = t, g.at \in {"done", "undone"},
           Hands' = (Hands \ {Doing(w)}) \cup {g},
           status[t.chunk] <= status'[t.chunk],
           \A d \in Chunks : d # t.chunk => status'[d] = status[d] /\ task'[d] = task[d]
    PROVE  WorkInv'
<1>1. place \in TaskPlaces /\ g.at \in TaskPlaces /\ place \notin {"done", "undone", "failing"}
  BY DEF TaskPlaces
<1>2. t \in Open
  BY <1>1, InHand DEF StepInv, WorkInv
<1>3. \A u \in Open : u # t =>
        /\ status'[u.chunk] = status[u.chunk] /\ source'[u.chunk] = source[u.chunk]
        /\ task'[u.chunk] = u \/ failed'[u.chunk]
  BY <1>2, OthersOpen
<1>4. \A d \in Chunks : status[d] <= status'[d]
  <2>1. \A d \in Chunks : status[d] \in Int /\ status[d] <= status[d]
    BY StatusOrder DEF StepInv, WorkInv
  <2> QED
    BY <2>1
<1>5. g.at = "body" => t.to \in {0, Top}
  OBVIOUS
<1>6. \A d \in Chunks : source[d] \in {"missing", "ready"} => source'[d] \in {"missing", "ready"}
  OBVIOUS
<1>7. g.at \in {"done", "undone", "failing"}
  OBVIOUS
<1> QED
  BY <1>1, <1>3, <1>4, <1>5, <1>6, <1>7, ExchangeWork DEF StepInv

LEMMA CompleteWork ==
    ASSUME StepInv, NEW w \in Workers, Complete(w)
    PROVE  ShapesOK' /\ WorkInv' /\ ScansOK'
<1>0. PICK t, c, now, g : /\ t = Doing(w).task /\ c = t.chunk /\ g = ForTask("done", t)
                          /\ now = Max({status[c], t.to})
  OBVIOUS
<1>1. /\ status' = [status EXCEPT ![c] = now] /\ task' = [task EXCEPT ![c] = None]
      /\ UNCHANGED <<source, failed, tasks>>
  BY <1>0 DEF Complete
<1>2. /\ ShapesOK' /\ At(w, "complete") /\ ~Locked
      /\ \A v \in Workers : stack'[v] = stack[v] \/ \A f \in Inside(stack'[v]) : f.at # "scan"
      /\ Hands' = (Hands \ {Doing(w)}) \cup {g}
  BY <1>0, CompleteShape DEF StepInv
<1>3. g.task = t /\ g.at = "done" /\ "complete" \in TaskPlaces
  BY <1>0 DEF ForTask, TaskPlaces
<1>4. t \in Known
  BY <1>0, <1>2, <1>3, InHand DEF StepInv, WorkInv
<1>5. /\ c \in Chunks /\ t.to \in Statuses /\ source[c] \in {"missing", "ready"}
  BY <1>0, <1>4, KnownOK DEF StepInv, WorkInv
<1>6. now \in Heights /\ status[c] <= now
  <2>1. t.to \in Heights /\ status[c] \in Heights
    BY <1>5, TopOK DEF Statuses, Heights, StepInv, WorkInv, HoldersOK
  <2> DEFINE S == {status[c], t.to}
  <2>2. S \subseteq Heights /\ S # {} /\ status[c] \in S
    BY <2>1
  <2> HIDE DEF S
  <2>3. Max(S) \in S /\ Max(S) >= status[c]
    BY <2>2, HighestOK
  <2>4. now = Max(S)
    BY <1>0 DEF S
  <2>5. Max(S) \in Heights
    BY <2>2, <2>3
  <2> QED
    BY <2>1, <2>3, <2>4, <2>5, TopOK DEF Heights
<1>7. /\ status'[c] = now
      /\ \A d \in Chunks : d # c => status'[d] = status[d] /\ task'[d] = task[d]
  BY <1>1, <1>5 DEF StepInv, WorkInv, HoldersOK
<1>8. HoldersOK'
  BY <1>1, <1>5, <1>6 DEF StepInv, WorkInv, HoldersOK
<1>9. WorkInv'
  BY <1>0, <1>1, <1>2, <1>3, <1>6, <1>7, <1>8, EndWork
<1>10. ScansOK'
  BY <1>2, FreeScans DEF StepInv, EdgeInv
<1> QED
  BY <1>2, <1>9, <1>10

LEMMA CancelWork ==
    ASSUME StepInv, NEW w \in Workers, Cancel(w)
    PROVE  ShapesOK' /\ WorkInv' /\ ScansOK'
<1>0. PICK t, c, g : t = Doing(w).task /\ c = t.chunk /\ g = ForTask("undone", t)
  OBVIOUS
<1>1. /\ UNCHANGED <<status, source, failed, tasks>>
      /\ task' = [task EXCEPT ![c] = None] \/ UNCHANGED task
  BY <1>0 DEF Cancel
<1>2. /\ ShapesOK' /\ At(w, "cancel") /\ ~Locked
      /\ \A v \in Workers : stack'[v] = stack[v] \/ \A f \in Inside(stack'[v]) : f.at # "scan"
      /\ Hands' = (Hands \ {Doing(w)}) \cup {g}
  BY <1>0, CancelShape DEF StepInv
<1>3. g.task = t /\ g.at = "undone" /\ "cancel" \in TaskPlaces
  BY <1>0 DEF ForTask, TaskPlaces
<1>4. t \in Known
  BY <1>0, <1>2, <1>3, InHand DEF StepInv, WorkInv
<1>5. c \in Chunks
  BY <1>0, <1>4, KnownOK DEF StepInv, WorkInv
<1>6. /\ status[c] <= status'[c]
      /\ \A d \in Chunks : d # c => status'[d] = status[d] /\ task'[d] = task[d]
  <2>1. status[c] <= status[c]
    BY <1>5, StatusOrder DEF StepInv, WorkInv
  <2> QED
    BY <1>1, <2>1 DEF StepInv, WorkInv, HoldersOK
<1>7. HoldersOK'
  BY <1>1 DEF StepInv, WorkInv, HoldersOK
<1>8. WorkInv'
  BY <1>0, <1>1, <1>2, <1>3, <1>6, <1>7, EndWork
<1>9. ScansOK'
  BY <1>2, FreeScans DEF StepInv, EdgeInv
<1> QED
  BY <1>2, <1>8, <1>9

LEMMA CallbackDoneWork ==
    ASSUME StepInv, NEW w \in Workers, CallbackDone(w)
    PROVE  ShapesOK' /\ WorkInv' /\ ScansOK'
<1>0. PICK t : t = Doing(w).task
  OBVIOUS
<1>1. At(w, "done") /\ Forget(t) /\ Become(w, <<>>) /\ UNCHANGED holderVars
  BY <1>0 DEF CallbackDone
<1>2. "done" \in TaskPlaces
  BY DEF TaskPlaces
<1>3. /\ ShapesOK' /\ Hands' = Hands \ {Doing(w)}
      /\ \A v \in Workers : stack'[v] = stack[v] \/ \A f \in Inside(stack'[v]) : f.at # "scan"
  BY <1>1, <1>2, DropShape DEF StepInv
<1>4. HoldersOK' /\ UNCHANGED <<status, source, task, failed>>
  BY <1>1 DEF StepInv, WorkInv, HoldersOK, holderVars
<1>5. \A u \in Open : u # t => task'[u.chunk] = u \/ failed'[u.chunk]
  BY <1>4 DEF StepInv, WorkInv, OpensOK, OpenOK
<1>6. WorkInv'
  BY <1>0, <1>1, <1>3, <1>4, <1>5, DropWork DEF StepInv
<1>7. \A d \in Chunks : status[d] <= status'[d]
  BY <1>4, StatusOrder DEF StepInv, WorkInv
<1>8. ScansOK'
  BY <1>3, <1>4, <1>7, KeepScans DEF StepInv, WorkInv
<1> QED
  BY <1>3, <1>6, <1>8

LEMMA FailWork ==
    ASSUME StepInv, NEW w \in Workers, Fail(w)
    PROVE  ShapesOK' /\ WorkInv' /\ ScansOK'
<1>0. PICK t, c : t = Doing(w).task /\ c = t.chunk
  OBVIOUS
<1>1. At(w, "failing") /\ ~Locked /\ Forget(t) /\ Become(w, <<>>) /\ UNCHANGED <<status, source>>
  BY <1>0 DEF Fail
<1>2. "failing" \in TaskPlaces
  BY DEF TaskPlaces
<1>3. /\ ShapesOK' /\ Hands' = Hands \ {Doing(w)}
      /\ \A v \in Workers : stack'[v] = stack[v] \/ \A f \in Inside(stack'[v]) : f.at # "scan"
  BY <1>1, <1>2, DropShape DEF StepInv
<1>4. t \in Known
  BY <1>0, <1>1, <1>2, InHand DEF StepInv, WorkInv
<1>5. c \in Chunks /\ source[c] \in {"missing", "ready"}
  BY <1>0, <1>4, KnownOK DEF StepInv, WorkInv
<1>6. \/ UNCHANGED <<failed, task>>
      \/ failed' = [failed EXCEPT ![c] = TRUE] /\ task' = [task EXCEPT ![c] = None]
  BY <1>0, <1>5 DEF Fail, Abandon
<1>7. HoldersOK'
  BY <1>1, <1>6 DEF StepInv, WorkInv, HoldersOK
<1>8. \A u \in Open : u # t => task'[u.chunk] = u \/ failed'[u.chunk]
  <2>1. \A u \in Open : u.chunk \in Chunks /\ (task[u.chunk] = u \/ failed[u.chunk])
    BY KnownOK DEF Open, StepInv, WorkInv, OpensOK, OpenOK
  <2>2. \A d \in Chunks : (task'[d] = task[d] /\ failed'[d] = failed[d]) \/ failed'[d]
    BY <1>6 DEF StepInv, WorkInv, HoldersOK
  <2> QED
    BY <2>1, <2>2
<1>9. WorkInv'
  BY <1>0, <1>1, <1>3, <1>7, <1>8, DropWork DEF StepInv
<1>10. ScansOK'
  BY <1>1, <1>3, FreeScans DEF StepInv, EdgeInv
<1> QED
  BY <1>3, <1>9, <1>10

-----------------------------------------------------------------------------
(* The theorems about steps.                                               *)

LEMMA StepInit ==
    ASSUME Init
    PROVE  StepInv
<1>1. EdgeInv
  BY EdgeInit
<1>2. \A w \in Workers : stack[w] = <<>> /\ Inside(stack[w]) = {}
  BY DEF Init, Inside
<1>3. Hands = {} /\ Known = {} /\ Open = {} /\ DOMAIN tasks = {}
  BY <1>2 DEF Hands, TaskFrames, Known, Open, Init
<1>4. DemandOK
  <2>1. \A c \in Chunks : Len(Path[c]) \in Nat
    <3>1. ASSUME NEW c \in Chunks
          PROVE  Len(Path[c]) \in Nat
      <4>1. Path[c] \in Seq({-1} \cup Statuses)
        BY AssumptionParts
      <4> QED
        BY <4>1
    <3> QED
      BY <3>1
  <2> QED
    BY <2>1, TopOK DEF Init, DemandOK, Heights
<1>5. ShapesOK
  <2>1. \A w \in Workers : DOMAIN stack[w] = {} /\ ~Locking(stack[w])
    BY <1>2 DEF Locking
  <2> QED
    BY <2>1 DEF ShapesOK, Ordered
<1>6. HoldersOK
  BY TopOK DEF Init, HoldersOK, Heights
<1>7. ListOK /\ HandsOK /\ OpensOK
  BY <1>3 DEF ListOK, Distinct, HandsOK, OpensOK
<1>8. ScansOK
  BY <1>2 DEF ScansOK
<1> QED
  BY <1>1, <1>4, <1>5, <1>6, <1>7, <1>8 DEF StepInv, WorkInv

LEMMA ProceedWork ==
    ASSUME StepInv, NEW w \in Workers, Proceed(w)
    PROVE  ShapesOK' /\ WorkInv' /\ ScansOK'
BY JobWork, RescheduleWork, ReturnWork, LoadEmptyWork, StartScanWork, CheckWork, ScannedWork,
   TakeTaskWork, ExecuteWork, BodyWork, CompleteWork, CancelWork, CallbackDoneWork, UndoneWork,
   FailWork, ReconcileWork
   DEF Proceed

LEMMA StepNext ==
    ASSUME StepInv, [Next]_vars
    PROVE  StepInv'
<1>1. EdgeInv' /\ DemandOK'
  BY EdgeNext, DemandNext DEF StepInv
<1>2. CASE Next
  BY <1>1, <1>2, RequestWork, SetTicketWork, LoadHitWork, LoadMissingWork, LoadUnreadableWork,
     ProceedWork DEF Next, Loaded, StepInv
<1>3. CASE UNCHANGED vars
  <2>1. UNCHANGED holderVars /\ UNCHANGED tasks /\ UNCHANGED stack
    BY <1>3 DEF vars, taskVars
  <2>2. ShapesOK' /\ Hands' = Hands
    BY <2>1, StillShape DEF StepInv
  <2>3. WorkInv' /\ ScansOK'
    BY <2>1, <2>2, QuietStep
  <2> QED
    BY <1>1, <2>2, <2>3 DEF StepInv
<1> QED
  BY <1>2, <1>3

(* The order of tasks and scans, and what each promises about its holder:  *)
(* every step of the main thread and of the workers preserves it.          *)
THEOREM StepInvariant == Spec => []StepInv
<1>1. Init => StepInv
  BY StepInit
<1>2. StepInv /\ [Next]_vars => StepInv'
  BY StepNext
<1> QED
  BY <1>1, <1>2, PTL DEF Spec

(* A step works on a holder at the status before it, with every neighbour  *)
(* at the status it reads, and an empty chunk goes into a holder known to  *)
(* have none stored: the assertions of buildNeighbourCache and             *)
(* setCurrentChunk hold, whatever tickets, cancellations and failures      *)
(* come between scheduleStatusStep and the work.                           *)
THEOREM StepsFit == Spec => []StepsFitHolder
<1>1. ASSUME StepInv, NEW w \in Workers, NEW k \in DOMAIN tasks, NEW t, t = tasks[k], Works(w, t)
      PROVE  /\ status[t.chunk] = t.to - 1
             /\ t.to = 0 => source[t.chunk] = "missing"
             /\ \A n \in Reads(t.chunk, t.to) : status[n] >= Need(t.to, t.chunk, n)
  <2>1. PICK place \in {"body", "complete"} :
            At(w, place) /\ (place = "complete" => t.to \notin {0, Top})
    BY <1>1 DEF Works
  <2>2. t = Doing(w).task /\ place \in TaskPlaces
    BY <1>1 DEF Works, TaskPlaces
  <2>3. t \in Open /\ ~PublishedIn(Hands, t)
    BY <1>1, <2>1, <2>2, InHand DEF StepInv, WorkInv
  <2> QED
    BY <1>1, <2>3 DEF StepInv, WorkInv, OpensOK, OpenOK
<1>2. ASSUME StepInv
      PROVE  StepsFitHolder
  BY <1>1, <1>2, Zenon DEF StepsFitHolder, Need
<1>3. StepInv => StepsFitHolder
  BY <1>2
<1> QED
  BY <1>3, StepInvariant, PTL

-----------------------------------------------------------------------------
(***************************************************************************)
(* References.  Submission, completion and cancellation keep the count of  *)
(* a neighbour in balance with the tasks that read it: the task that ends  *)
(* is the one the holder has.  Only failure lets go of a task without      *)
(* giving its references back.  So no task is ever without a reference to  *)
(* what it reads; and where tasks are never taken back, the counts are     *)
(* exact.                                                                  *)
(***************************************************************************)

Readers(n) == {c \in Chunks : task[c] # None /\ n \in Reads(c, task[c].to)}
Spare(n) == using[n] - Cardinality(Readers(n))

RefsShape ==
    /\ using = [n \in Chunks |-> using[n]]
    /\ \A n \in Chunks : using[n] \in Int /\ IsFiniteSet(Readers(n))
FailedIdle == \A c \in Chunks : failed[c] => task[c] = None

CoverInv == StepInv /\ RefsShape /\ FailedIdle /\ \A n \in Chunks : Spare(n) >= 0

\* What a step does to the counts.
Balanced == RefsShape' /\ \A n \in Chunks : Spare(n)' = Spare(n)
Growing == RefsShape' /\ \A n \in Chunks : Spare(n)' \in Int /\ Spare(n)' >= Spare(n)

(* The number of readers is a number. *)
LEMMA SpareOK ==
    ASSUME RefsShape, NEW n \in Chunks
    PROVE  Cardinality(Readers(n)) \in Nat /\ Spare(n) \in Int
<1>1. IsFiniteSet(Readers(n)) /\ using[n] \in Int
  BY DEF RefsShape
<1>2. Cardinality(Readers(n)) \in Nat
  BY <1>1, FS_CardinalityType
<1> QED
  BY <1>1, <1>2 DEF Spare

(* What Count does to each chunk. *)
LEMMA CountOK ==
    ASSUME RefsShape, NEW S, NEW by \in {1, -1}, Count(S, by)
    PROVE  /\ using' = [n \in Chunks |-> using'[n]]
           /\ \A n \in Chunks : using'[n] = using[n] + IF n \in S THEN by ELSE 0
BY DEF Count, RefsShape

LEMMA SameReaders ==
    ASSUME RefsShape, UNCHANGED using, \A c \in Chunks : task'[c] = task[c]
    PROVE  Balanced
<1>1. \A n \in Chunks : Readers(n)' = Readers(n)
  BY DEF Readers
<1> QED
  BY <1>1 DEF RefsShape, Balanced, Spare

(* A chunk gets a task ... *)
LEMMA OneReaderMore ==
    ASSUME RefsShape, NEW c \in Chunks, NEW t, t # None, task[c] = None, task'[c] = t,
           \A d \in Chunks : d # c => task'[d] = task[d], Count(Reads(c, t.to), 1)
    PROVE  Balanced
<1> SUFFICES ASSUME NEW n \in Chunks
             PROVE  /\ using'[n] \in Int /\ IsFiniteSet(Readers(n)')
                    /\ Spare(n)' = Spare(n)
  BY CountOK DEF Balanced, RefsShape
<1>1. using'[n] = using[n] + IF n \in Reads(c, t.to) THEN 1 ELSE 0
  BY CountOK
<1>2. /\ using[n] \in Int /\ IsFiniteSet(Readers(n)) /\ Cardinality(Readers(n)) \in Nat
      /\ c \notin Readers(n)
  BY SpareOK DEF RefsShape, Readers
<1>3. CASE n \in Reads(c, t.to)
  <2>1. Readers(n)' = Readers(n) \cup {c}
    BY <1>3 DEF Readers
  <2>2. IsFiniteSet(Readers(n)') /\ Cardinality(Readers(n)') = Cardinality(Readers(n)) + 1
    BY <1>2, <2>1, FS_AddElement
  <2> QED
    BY <1>1, <1>2, <1>3, <2>2 DEF Spare
<1>4. CASE n \notin Reads(c, t.to)
  <2>1. Readers(n)' = Readers(n)
    BY <1>4 DEF Readers
  <2> QED
    BY <1>1, <1>2, <1>4, <2>1 DEF Spare
<1> QED
  BY <1>3, <1>4

(* ... or is rid of it, its references given back ... *)
LEMMA OneReaderLess ==
    ASSUME RefsShape, NEW c \in Chunks, NEW t, t # None, task[c] = t, task'[c] = None,
           \A d \in Chunks : d # c => task'[d] = task[d], Count(Reads(c, t.to), -1)
    PROVE  Balanced
<1> SUFFICES ASSUME NEW n \in Chunks
             PROVE  /\ using'[n] \in Int /\ IsFiniteSet(Readers(n)')
                    /\ Spare(n)' = Spare(n)
  BY CountOK DEF Balanced, RefsShape
<1>1. using'[n] = using[n] + IF n \in Reads(c, t.to) THEN -1 ELSE 0
  BY CountOK
<1>2. using[n] \in Int /\ IsFiniteSet(Readers(n)) /\ Cardinality(Readers(n)) \in Nat
  BY SpareOK DEF RefsShape
<1>3. Readers(n)' = Readers(n) \ {c} /\ (c \in Readers(n) <=> n \in Reads(c, t.to))
  BY DEF Readers
<1>4. /\ IsFiniteSet(Readers(n)')
      /\ Cardinality(Readers(n)') =
            IF c \in Readers(n) THEN Cardinality(Readers(n)) - 1 ELSE Cardinality(Readers(n))
  BY <1>2, <1>3, FS_RemoveElement
<1> QED
  BY <1>1, <1>2, <1>3, <1>4 DEF Spare

(* ... or just forgets it. *)
LEMMA ReaderLost ==
    ASSUME RefsShape, UNCHANGED using, \A c \in Chunks : task'[c] \in {task[c], None}
    PROVE  Growing
<1> SUFFICES ASSUME NEW n \in Chunks
             PROVE  IsFiniteSet(Readers(n)') /\ Spare(n)' \in Int /\ Spare(n)' >= Spare(n)
  BY DEF Growing, RefsShape
<1>1. using[n] \in Int /\ IsFiniteSet(Readers(n)) /\ Cardinality(Readers(n)) \in Nat
  BY SpareOK DEF RefsShape
<1>2. Readers(n)' \in SUBSET Readers(n)
  BY DEF Readers
<1>3. IsFiniteSet(Readers(n)') /\ Cardinality(Readers(n)') <= Cardinality(Readers(n))
  BY <1>1, <1>2, FS_Subset
<1>4. Cardinality(Readers(n)') \in Nat
  BY <1>3, FS_CardinalityType
<1> QED
  BY <1>1, <1>3, <1>4 DEF Spare

LEMMA BalancedGrows ==
    ASSUME RefsShape, Balanced
    PROVE  Growing
<1>1. \A n \in Chunks : Spare(n) \in Int
  BY SpareOK
<1> QED
  BY <1>1 DEF Balanced, Growing

-----------------------------------------------------------------------------
(* Each step that changes a holder's task.                                 *)

LEMMA SubmitRefs ==
    ASSUME StepInv, RefsShape, NEW c \in Chunks, NEW to \in Statuses, task[c] = None, Submit(c, to)
    PROVE  Balanced /\ \A d \in Chunks : d # c => task'[d] = task[d]
<1>1. PICK t : t = NewTask(c, to)
  OBVIOUS
<1>2. t.chunk = c /\ t.to = to /\ t \in ProgressionTasks
  BY <1>1, NewTaskOK DEF StepInv, EdgeInv
<1>3. t # None
  <2>1. t \in [chunk : Chunks, to : Statuses, id : Nat]
    BY <1>2 DEF ProgressionTasks
  <2> QED
    BY <2>1, AssumptionParts
<1>4. task' = [task EXCEPT ![c] = t] /\ Acquire(t)
  BY <1>1 DEF Submit
<1>5. Count(Reads(c, t.to), 1)
  BY <1>2, <1>4 DEF Acquire
<1>6. task'[c] = t /\ \A d \in Chunks : d # c => task'[d] = task[d]
  BY <1>4 DEF StepInv, WorkInv, HoldersOK
<1> QED
  BY <1>3, <1>5, <1>6, OneReaderMore

LEMMA ScheduledRefs ==
    ASSUME StepInv, RefsShape, FailedIdle, NEW w \in Workers, LoadEmpty(w) \/ Scanned(w)
    PROVE  Balanced /\ FailedIdle'
<1>1. CASE LoadEmpty(w)
  <2>0. PICK c : c = Doing(w).chunk
    OBVIOUS
  <2>1. /\ At(w, "schedule") /\ Submit(c, 0) /\ UNCHANGED failed
        /\ ~failed[c] /\ task[c] = None
    BY <1>1, <2>0 DEF LoadEmpty, Schedulable
  <2>2. c \in Chunks
    BY <2>0, <2>1, SchedulingFrame DEF StepInv, EdgeInv
  <2>3. Balanced /\ \A d \in Chunks : d # c => task'[d] = task[d]
    BY <2>1, <2>2, TopOK, SubmitRefs
  <2> QED
    BY <2>1, <2>3 DEF FailedIdle
<1>2. CASE Scanned(w)
  <2>0. PICK f : f = Doing(w)
    OBVIOUS
  <2>1. /\ At(w, "scan") /\ UNCHANGED failed
        /\ UNCHANGED <<task, using>> \/ Submit(f.chunk, f.to)
    BY <1>2, <2>0 DEF Scanned, taskVars
  <2>2. f \in Inside(stack[w]) /\ f.at = "scan"
    <3>1. stack[w] # <<>> /\ f.at = "scan"
      BY <2>0, <2>1 DEF At, Doing
    <3> QED
      BY <2>0, <3>1, PlainBelow DEF StepInv, EdgeInv
  <2>3. f.chunk \in Chunks /\ f.to \in Statuses /\ ScanOK(f)
    BY <2>2, ScanFrame DEF StepInv
  <2>4. task[f.chunk] = None /\ ~failed[f.chunk]
    BY <2>3 DEF ScanOK
  <2>5. CASE UNCHANGED <<task, using>>
    BY <2>1, <2>5, SameReaders DEF FailedIdle
  <2>6. CASE Submit(f.chunk, f.to)
    <3>1. Balanced /\ \A d \in Chunks : d # f.chunk => task'[d] = task[d]
      BY <2>3, <2>4, <2>6, SubmitRefs
    <3> QED
      BY <2>1, <2>4, <3>1 DEF FailedIdle
  <2> QED
    BY <2>1, <2>5, <2>6
<1> QED
  BY <1>1, <1>2

(* The task that completes is the one its holder has, if it has one. *)
LEMMA CompleteRefs ==
    ASSUME StepInv, RefsShape, FailedIdle, NEW w \in Workers, Complete(w)
    PROVE  Balanced /\ FailedIdle'
<1>0. PICK t, c : t = Doing(w).task /\ c = t.chunk
  OBVIOUS
<1>1. /\ At(w, "complete") /\ task' = [task EXCEPT ![c] = None] /\ UNCHANGED failed
      /\ (task[c] = None /\ UNCHANGED using) \/ (task[c] # None /\ Release(t))
  BY <1>0 DEF Complete
<1>2. t \in Open
  <2>1. "complete" \in TaskPlaces
    BY DEF TaskPlaces
  <2> QED
    BY <1>0, <1>1, <2>1, InHand DEF StepInv, WorkInv
<1>3. c \in Chunks /\ (task[c] = t \/ failed[c]) /\ t # None
  BY <1>0, <1>2, KnownOK DEF Open, StepInv, WorkInv, OpensOK, OpenOK
<1>4. task'[c] = None /\ \A d \in Chunks : d # c => task'[d] = task[d]
  BY <1>1, <1>3 DEF StepInv, WorkInv, HoldersOK
<1>5. FailedIdle'
  BY <1>1, <1>4 DEF FailedIdle
<1>6. CASE task[c] = None /\ UNCHANGED using
  <2>1. \A d \in Chunks : task'[d] = task[d]
    BY <1>4, <1>6
  <2> QED
    BY <1>5, <1>6, <2>1, SameReaders
<1>7. CASE task[c] # None /\ Release(t)
  <2>1. task[c] = t
    BY <1>3, <1>7 DEF FailedIdle
  <2>2. Count(Reads(c, t.to), -1)
    BY <1>0, <1>7 DEF Release
  <2> QED
    BY <1>3, <1>4, <1>5, <2>1, <2>2, OneReaderLess
<1> QED
  BY <1>1, <1>6, <1>7

LEMMA CancelRefs ==
    ASSUME StepInv, RefsShape, FailedIdle, NEW w \in Workers, Cancel(w)
    PROVE  Balanced /\ FailedIdle'
<1>0. PICK t, c : t = Doing(w).task /\ c = t.chunk
  OBVIOUS
<1>1. /\ At(w, "cancel") /\ UNCHANGED failed
      /\ \/ task[c] = t /\ Release(t) /\ task' = [task EXCEPT ![c] = None]
         \/ UNCHANGED <<task, using>>
  BY <1>0 DEF Cancel
<1>2. t \in Known
  <2>1. "cancel" \in TaskPlaces
    BY DEF TaskPlaces
  <2> QED
    BY <1>0, <1>1, <2>1, InHand DEF StepInv, WorkInv
<1>3. c \in Chunks /\ t # None
  BY <1>0, <1>2, KnownOK DEF StepInv, WorkInv
<1>4. CASE task[c] = t /\ Release(t) /\ task' = [task EXCEPT ![c] = None]
  <2>1. task'[c] = None /\ \A d \in Chunks : d # c => task'[d] = task[d]
    BY <1>3, <1>4 DEF StepInv, WorkInv, HoldersOK
  <2>2. Count(Reads(c, t.to), -1)
    BY <1>0, <1>4 DEF Release
  <2> QED
    BY <1>1, <1>3, <1>4, <2>1, <2>2, OneReaderLess DEF FailedIdle
<1>5. CASE UNCHANGED <<task, using>>
  BY <1>1, <1>5, SameReaders DEF FailedIdle
<1> QED
  BY <1>1, <1>4, <1>5

(* Failure. *)
LEMMA LostRefs ==
    ASSUME StepInv, RefsShape, FailedIdle, NEW c, UNCHANGED using,
           \/ UNCHANGED <<task, failed>>
           \/ task' = [task EXCEPT ![c] = None] /\ UNCHANGED failed
           \/ task' = [task EXCEPT ![c] = None] /\ failed' = [failed EXCEPT ![c] = TRUE]
    PROVE  Growing /\ FailedIdle'
<1>1. \A d \in Chunks : task'[d] \in {task[d], None}
  BY DEF StepInv, WorkInv, HoldersOK
<1>2. FailedIdle'
  BY DEF FailedIdle, StepInv, WorkInv, HoldersOK
<1> QED
  BY <1>1, <1>2, ReaderLost

LEMMA CoverStep ==
    ASSUME StepInv, RefsShape, FailedIdle, [Next]_vars
    PROVE  Growing /\ FailedIdle'
<1>1. ASSUME UNCHANGED <<task, failed, using>>
      PROVE  Growing /\ FailedIdle'
  BY <1>1, SameReaders, BalancedGrows DEF FailedIdle
<1>2. CASE UNCHANGED vars
  BY <1>1, <1>2 DEF vars, holderVars, taskVars
<1>3. ASSUME NEW r \in Requests, RequestChunk(r)
      PROVE  Growing /\ FailedIdle'
  BY <1>1, <1>3 DEF RequestChunk, taskVars
<1>4. ASSUME NEW c \in Chunks, SetTicket(c)
      PROVE  Growing /\ FailedIdle'
  BY <1>1, <1>4 DEF SetTicket
<1>5. ASSUME NEW c \in Chunks, Loaded(c)
      PROVE  Growing /\ FailedIdle'
  <2>1. CASE LoadHit(c) \/ LoadMissing(c)
    BY <1>1, <2>1 DEF LoadHit, LoadMissing, taskVars
  <2>2. CASE LoadUnreadable(c)
    BY <2>2, LostRefs DEF LoadUnreadable, Abandon, taskVars
  <2> QED
    BY <1>5, <2>1, <2>2 DEF Loaded
<1>6. ASSUME NEW w \in Workers, Fail(w)
      PROVE  Growing /\ FailedIdle'
  BY <1>6, LostRefs DEF Fail, Abandon, Forget
<1>7. ASSUME NEW w \in Workers, Proceed(w)
      PROVE  Growing /\ FailedIdle'
  <2>1. CASE \E c \in Chunks : ScheduleJob(w, c) \/ ReconcileJob(w, c) \/ NotifyStored(w, c)
    BY <1>1, <2>1 DEF ScheduleJob, ReconcileJob, NotifyStored, holderVars, taskVars
  <2>2. CASE Reschedule(w) \/ NothingToSchedule(w) \/ ResolveStorage(w) \/ StartScan(w)
    BY <1>1, <2>2 DEF Reschedule, NothingToSchedule, ResolveStorage, StartScan, holderVars, taskVars
  <2>3. CASE CheckNeighbour(w)
    <3>1. UNCHANGED <<task, failed, using>>
      BY <2>3, Zenon DEF CheckNeighbour, holderVars, taskVars
    <3> QED
      BY <1>1, <3>1
  <2>4. CASE TakeTask(w) \/ Body(w) \/ CallbackUndone(w) \/ Execute(w) \/ Reconcile(w)
    BY <1>1, <2>4 DEF TakeTask, Body, CallbackUndone, Execute, Reconcile, holderVars, taskVars
  <2>5. CASE CallbackDone(w)
    BY <1>1, <2>5 DEF CallbackDone, Forget, holderVars
  <2>6. CASE LoadEmpty(w) \/ Scanned(w) \/ Complete(w) \/ Cancel(w)
    BY <2>6, ScheduledRefs, CompleteRefs, CancelRefs, BalancedGrows
  <2> QED
    BY <1>6, <1>7, <2>1, <2>2, <2>3, <2>4, <2>5, <2>6 DEF Proceed
<1> QED
  BY <1>2, <1>3, <1>4, <1>5, <1>7 DEF Next

LEMMA RefsInit ==
    ASSUME Init
    PROVE  RefsShape /\ FailedIdle /\ \A n \in Chunks : Spare(n) = 0
<1>1. \A n \in Chunks : Readers(n) = {} /\ using[n] = 0
  BY DEF Init, Readers
<1>2. \A n \in Chunks : IsFiniteSet(Readers(n)) /\ Spare(n) = 0
  BY <1>1, FS_EmptySet DEF Spare
<1> QED
  BY <1>1, <1>2 DEF Init, RefsShape, FailedIdle

(* A chunk that a task reads is always counted as used, once at least for  *)
(* every task that reads it, through cancellation and failure too: it is   *)
(* not unloaded under a generation step (isSafeToUnload,                   *)
(* m_neighboursUsingThisChunk).                                            *)
THEOREM ReferencesSuffice == Spec => [](\A n \in Chunks : using[n] >= Cardinality(Readers(n)))
<1>1. Init => CoverInv
  <2>1. ASSUME Init
        PROVE  CoverInv
    <3>1. RefsShape /\ FailedIdle /\ \A n \in Chunks : Spare(n) = 0
      BY <2>1, RefsInit
    <3> QED
      BY <2>1, <3>1, StepInit DEF CoverInv
  <2> QED
    BY <2>1
<1>2. CoverInv /\ [Next]_vars => CoverInv'
  <2>1. ASSUME CoverInv, [Next]_vars
        PROVE  CoverInv'
    <3>1. StepInv'
      BY <2>1, StepNext DEF CoverInv
    <3>2. Growing /\ FailedIdle'
      BY <2>1, CoverStep DEF CoverInv
    <3>3. \A n \in Chunks : Spare(n) \in Int /\ Spare(n) >= 0
      BY <2>1, SpareOK DEF CoverInv
    <3>4. \A n \in Chunks : Spare(n)' >= 0
      BY <3>2, <3>3 DEF Growing
    <3> QED
      BY <3>1, <3>2, <3>4 DEF CoverInv, Growing
  <2> QED
    BY <2>1
<1>3. CoverInv => \A n \in Chunks : using[n] >= Cardinality(Readers(n))
  <2>1. ASSUME CoverInv, NEW n \in Chunks
        PROVE  using[n] >= Cardinality(Readers(n))
    <3>1. using[n] \in Int /\ Cardinality(Readers(n)) \in Nat /\ Spare(n) >= 0
      BY <2>1, SpareOK DEF CoverInv, RefsShape
    <3> QED
      BY <3>1 DEF Spare
  <2> QED
    BY <2>1
<1> QED
  BY <1>1, <1>2, <1>3, PTL DEF Spec

-----------------------------------------------------------------------------
(***************************************************************************)
(* Where tickets only rise and storage can be read, no task is taken back. *)
(* The demand that a task was submitted for then stays until the task has  *)
(* started: what asks for more than a chunk's status is not withdrawn, and *)
(* nothing is answered or freed above the status that was reached.         *)
(***************************************************************************)

TicketsRise == \A c \in Chunks : \A i, j \in DOMAIN Path[c] : i <= j => Path[c][i] <= Path[c][j]
Undisturbed == TicketsRise /\ "unreadable" \notin Outcomes

\* Somebody asks for more than the chunk has.
Sought(c) ==
    \/ Ticket(c) > status[c]
    \/ \E r \in Waiters(c) : Wanted[r].status > status[c]
    \/ \E m \in Chunks : waiting[c][m] > status[c]

Regrets == {"cancel", "undone", "failing", "reconcile"}
NoRegrets ==
    /\ cut = {}
    /\ \A w \in Workers : \A f \in Inside(stack[w]) : f.at \notin Regrets
    /\ \A c \in Chunks : jobs[<<"reconcile", c>>] = 0

JobsOK ==
    /\ jobs = [j \in Jobs |-> jobs[j]] /\ \A j \in Jobs : jobs[j] \in Nat
    /\ \A c \in Chunks : jobs[<<"notify", c>>] # 0 => status[c] = Top

StartedOK == \A f \in Hands : f.at \in {"body", "complete"} => f.task \in started
CurrentOK ==
    \A c \in Chunks : task[c] # None =>
        /\ task[c] \in Known /\ task[c].chunk = c
        /\ \A f \in Hands : f.task = task[c] => f.at # "done"
SoughtOK ==
    /\ \A c \in Chunks : task[c] # None /\ task[c] \notin started => Sought(c)
    /\ \A w \in Workers : \A f \in Inside(stack[w]) : f.at = "scan" => Sought(f.chunk)

RiseInv ==
    /\ StepInv /\ NoRegrets /\ JobsOK /\ StartedOK /\ CurrentOK /\ SoughtOK
    /\ RefsShape /\ FailedIdle /\ \A n \in Chunks : Spare(n) = 0

(* The highest demand is above a status when some demand is. *)
LEMMA HighestAbove ==
    ASSUME NEW x \in Heights, NEW W \in SUBSET Requests, NEW e, \A m \in Chunks : e[m] \in Heights,
           NEW l \in Int
    PROVE  Highest(x, W, e) > l <=>
            x > l \/ (\E r \in W : Wanted[r].status > l) \/ \E m \in Chunks : e[m] > l
<1> DEFINE S == {x} \cup {Wanted[r].status : r \in W} \cup {e[m] : m \in Chunks}
<1>1. ASSUME NEW r \in Requests
      PROVE  Wanted[r].status \in Heights
  <2>1. Wanted[r] \in [chunk : Chunks, status : 1 .. Top]
    BY AssumptionParts
  <2> QED
    BY <2>1, TopOK DEF Heights
<1>2. S \subseteq Heights /\ S # {}
  BY <1>1
<1>3. Max(S) \in S /\ \A y \in S : Max(S) >= y
  <2> HIDE DEF S
  <2> QED
    BY <1>2, HighestOK
<1>4. Highest(x, W, e) = Max(S)
  BY DEF Highest
<1>5. (\E y \in S : y > l) <=> x > l \/ (\E r \in W : Wanted[r].status > l) \/ \E m \in Chunks : e[m] > l
  OBVIOUS
<1>6. \A y \in S : y \in Int
  BY <1>2, TopOK DEF Heights
<1> HIDE DEF S
<1>7. Max(S) > l <=> \E y \in S : y > l
  BY <1>3, <1>6
<1> QED
  BY <1>4, <1>5, <1>7

LEMMA TicketOK ==
    ASSUME NEW c \in Chunks, NEW n \in 0 .. Len(Path[c])
    PROVE  TicketAfter(c, n) \in Heights
<1>1. Path[c] \in Seq({-1} \cup Statuses) /\ Top \in Nat
  BY AssumptionParts, TopOK
<1> QED
  BY <1>1 DEF TicketAfter, Heights, Statuses

LEMMA SoughtTarget ==
    ASSUME StepInv, NEW c \in Chunks
    PROVE  Sought(c) <=> status[c] < Target(c)
<1>1. status[c] \in Int
  BY StatusOrder DEF StepInv, WorkInv
<1>2. Ticket(c) \in Heights
  BY TicketOK DEF StepInv, DemandOK, Ticket
<1>3. Waiters(c) \in SUBSET Requests /\ \A m \in Chunks : waiting[c][m] \in Heights
  BY DEF Waiters, StepInv, DemandOK
<1>4. Target(c) > status[c] <=> Sought(c)
  BY <1>1, <1>2, <1>3, HighestAbove DEF Target, Sought
<1>5. Target(c) \in Int
  BY TargetOK, TopOK DEF StepInv, Heights
<1> QED
  BY <1>1, <1>4, <1>5

(* What must not change for a chunk to stay in demand. *)
LEMMA SoughtKept ==
    ASSUME NEW c \in Chunks, Sought(c), status'[c] = status[c],
           Ticket(c) > status[c] => Ticket(c)' > status[c],
           \A r \in Waiters(c) : Wanted[r].status > status[c] => asked'[r] = "waiting",
           \A m \in Chunks : waiting[c][m] > status[c] => waiting'[c][m] > status[c]
    PROVE  Sought(c)'
<1>1. CASE Ticket(c) > status[c]
  BY <1>1 DEF Sought
<1>2. CASE \E r \in Waiters(c) : Wanted[r].status > status[c]
  <2>1. PICK r \in Waiters(c) : Wanted[r].status > status[c]
    BY <1>2
  <2>2. r \in Waiters(c)'
    BY <2>1 DEF Waiters
  <2> QED
    BY <2>1, <2>2 DEF Sought
<1>3. CASE \E m \in Chunks : waiting[c][m] > status[c]
  BY <1>3 DEF Sought
<1> QED
  BY <1>1, <1>2, <1>3 DEF Sought

(* A ticket moves up. *)
LEMMA TicketRises ==
    ASSUME StepInv, TicketsRise, NEW c \in Chunks, moves[c] < Len(Path[c])
    PROVE  /\ TicketAfter(c, moves[c] + 1) \in Heights
           /\ Ticket(c) \in Heights /\ Ticket(c) <= TicketAfter(c, moves[c] + 1)
<1>1. Path[c] \in Seq({-1} \cup Statuses) /\ Top \in Nat
  BY AssumptionParts, TopOK
<1>2. moves[c] \in 0 .. Len(Path[c]) /\ Len(Path[c]) \in Nat
  BY <1>1 DEF StepInv, DemandOK
<1>3. moves[c] + 1 \in 0 .. Len(Path[c])
  BY <1>2
<1>4. TicketAfter(c, moves[c] + 1) \in Heights /\ Ticket(c) \in Heights
  BY <1>2, <1>3, TicketOK DEF Ticket
<1>5. CASE moves[c] = 0
  <2>1. Ticket(c) = -1
    BY <1>5 DEF Ticket, TicketAfter
  <2> QED
    BY <1>4, <2>1, TopOK DEF Heights
<1>6. CASE moves[c] # 0
  <2>1. moves[c] \in DOMAIN Path[c] /\ moves[c] + 1 \in DOMAIN Path[c] /\ moves[c] <= moves[c] + 1
    BY <1>1, <1>2, <1>6
  <2>2. Path[c][moves[c]] <= Path[c][moves[c] + 1]
    BY <2>1 DEF TicketsRise
  <2>3. moves[c] + 1 # 0
    BY <1>2
  <2> QED
    BY <1>4, <1>6, <2>2, <2>3 DEF Ticket, TicketAfter
<1> QED
  BY <1>5, <1>6

LEMMA RequestSought ==
    ASSUME StepInv, NEW r \in Requests, RequestChunk(r), NEW c \in Chunks, Sought(c)
    PROVE  Sought(c)'
<1>0. PICK d : d = Wanted[r].chunk
  OBVIOUS
<1>1. /\ UNCHANGED <<moves, status, waiting>> /\ asked[r] = "new"
      /\ \A q \in Requests : q # r =>
            asked'[q] = asked[q] \/ (Wanted[q].chunk = d /\ status[d] >= Wanted[q].status)
  BY <1>0 DEF RequestChunk, Advance, Satisfied, Waiters, Tell, edgeVars
<1>2. status[c] \in Int
  BY StatusOrder DEF StepInv, WorkInv
<1>3. ASSUME NEW q \in Waiters(c), Wanted[q].status > status[c]
      PROVE  asked'[q] = "waiting"
  <2>1. q \in Requests /\ asked[q] = "waiting" /\ Wanted[q].chunk = c /\ q # r
    BY <1>1 DEF Waiters
  <2>2. Wanted[q].status \in Int
    <3>1. Wanted[q] \in [chunk : Chunks, status : 1 .. Top]
      BY <2>1, AssumptionParts
    <3> QED
      BY <3>1, TopOK
  <2> QED
    BY <1>1, <1>2, <1>3, <2>1, <2>2
<1>4. Ticket(c)' = Ticket(c)
  BY <1>1 DEF Ticket
<1> QED
  BY <1>1, <1>3, <1>4, SoughtKept

LEMMA TicketSought ==
    ASSUME StepInv, TicketsRise, NEW d \in Chunks, SetTicket(d), NEW c \in Chunks, Sought(c)
    PROVE  Sought(c)'
<1>1. /\ UNCHANGED <<status, waiting>> /\ moves[d] < Len(Path[d])
      /\ moves' = [moves EXCEPT ![d] = @ + 1]
      /\ \A q \in Requests :
            asked'[q] = asked[q] \/ (Wanted[q].chunk = d /\ status[d] >= Wanted[q].status)
  BY DEF SetTicket, Advance, Satisfied, Waiters, edgeVars
<1>2. status[c] \in Int
  BY StatusOrder DEF StepInv, WorkInv
<1>3. ASSUME NEW q \in Waiters(c), Wanted[q].status > status[c]
      PROVE  asked'[q] = "waiting"
  <2>1. q \in Requests /\ asked[q] = "waiting" /\ Wanted[q].chunk = c
    BY DEF Waiters
  <2>2. Wanted[q].status \in Int
    <3>1. Wanted[q] \in [chunk : Chunks, status : 1 .. Top]
      BY <2>1, AssumptionParts
    <3> QED
      BY <3>1, TopOK
  <2> QED
    BY <1>1, <1>2, <1>3, <2>1, <2>2
<1>4. Ticket(c) > status[c] => Ticket(c)' > status[c]
  <2>1. CASE c = d
    <3>1. moves'[c] = moves[c] + 1
      BY <1>1, <2>1 DEF StepInv, DemandOK
    <3>2. Ticket(c)' = TicketAfter(c, moves[c] + 1)
      BY <3>1 DEF Ticket
    <3>3. /\ TicketAfter(c, moves[c] + 1) \in Int /\ Ticket(c) \in Int
          /\ Ticket(c) <= TicketAfter(c, moves[c] + 1)
      BY <1>1, <2>1, TicketRises, TopOK DEF Heights
    <3> QED
      BY <1>2, <3>2, <3>3
  <2>2. CASE c # d
    <3>1. moves'[c] = moves[c]
      BY <1>1, <2>2 DEF StepInv, DemandOK
    <3> QED
      BY <3>1 DEF Ticket
  <2> QED
    BY <2>1, <2>2
<1> QED
  BY <1>1, <1>3, <1>4, SoughtKept

(* Nothing that asks changes. *)
LEMMA StillSought ==
    ASSUME UNCHANGED <<moves, asked, waiting>>, NEW c \in Chunks, Sought(c), status'[c] = status[c]
    PROVE  Sought(c)'
<1>1. Ticket(c)' = Ticket(c)
  BY DEF Ticket
<1>2. \A r \in Waiters(c) : asked'[r] = "waiting"
  BY DEF Waiters
<1> QED
  BY <1>1, <1>2, SoughtKept

LEMMA LoadHitSought ==
    ASSUME StepInv, NEW d \in Chunks, LoadHit(d), NEW c \in Chunks, Sought(c), status'[c] = status[c]
    PROVE  Sought(c)'
<1>1. /\ UNCHANGED <<moves, waiting>> /\ source[d] = "resolving"
      /\ status' = [status EXCEPT ![d] = Top]
      /\ \A q \in Requests : asked'[q] = asked[q] \/ Wanted[q].chunk = d
  BY DEF LoadHit, Loading, Waiters, Tell, edgeVars
<1>2. c # d
  <2>1. status[d] = -1 /\ status'[d] = Top
    BY <1>1 DEF StepInv, WorkInv, HoldersOK
  <2> QED
    BY <2>1, TopOK
<1>3. \A r \in Waiters(c) : asked'[r] = "waiting"
  BY <1>1, <1>2 DEF Waiters
<1>4. Ticket(c)' = Ticket(c)
  BY <1>1 DEF Ticket
<1> QED
  BY <1>1, <1>3, <1>4, SoughtKept

(* A published chunk has reached what it was asked for. *)
LEMMA BodySought ==
    ASSUME StepInv, NEW w \in Workers, Body(w), NEW c \in Chunks, Sought(c), status'[c] = status[c]
    PROVE  Sought(c)'
<1>0. PICK t, d : t = Doing(w).task /\ d = t.chunk
  OBVIOUS
<1>1. /\ At(w, "body") /\ UNCHANGED <<moves, waiting>>
      /\ status' = [status EXCEPT ![d] = t.to]
      /\ \A q \in Requests : asked'[q] = asked[q] \/ Wanted[q].chunk = d
  BY <1>0 DEF Body, Waiters, Tell, edgeVars
<1>2. "body" \in TaskPlaces
  BY DEF TaskPlaces
<1>3. t \in Known /\ t \in Open /\ ~PublishedIn(Hands, t)
  BY <1>0, <1>1, <1>2, InHand DEF StepInv, WorkInv
<1>4. d \in Chunks /\ t.to \in Statuses
  BY <1>0, <1>3, KnownOK DEF StepInv, WorkInv
<1>5. status[d] = t.to - 1
  BY <1>0, <1>3 DEF StepInv, WorkInv, OpensOK, OpenOK
<1>6. c # d
  <2>1. status'[d] = t.to
    BY <1>1, <1>4 DEF StepInv, WorkInv, HoldersOK
  <2> QED
    BY <1>4, <1>5, <2>1, TopOK DEF Statuses
<1>7. \A r \in Waiters(c) : asked'[r] = "waiting"
  BY <1>1, <1>6 DEF Waiters
<1>8. Ticket(c)' = Ticket(c)
  BY <1>1 DEF Ticket
<1> QED
  BY <1>1, <1>7, <1>8, SoughtKept

(* Completion frees, and answers, only what the new status satisfies. *)
LEMMA CompleteSought ==
    ASSUME StepInv, NEW w \in Workers, Complete(w), NEW c \in Chunks, Sought(c), status'[c] = status[c]
    PROVE  Sought(c)'
<1>0. PICK t, d, now : t = Doing(w).task /\ d = t.chunk /\ now = Max({status[d], t.to})
  OBVIOUS
<1>1. /\ At(w, "complete") /\ UNCHANGED moves /\ status' = [status EXCEPT ![d] = now]
      /\ UNCHANGED waiting \/ Unblock(d, Freed(d, t.to))
      /\ \A q \in Requests :
            asked'[q] = asked[q] \/ (Wanted[q].chunk = d /\ now >= Wanted[q].status)
  BY <1>0 DEF Complete, Tell, Satisfied, Waiters, edgeVars
<1>2. "complete" \in TaskPlaces
  BY DEF TaskPlaces
<1>3. t \in Known
  BY <1>0, <1>1, <1>2, InHand DEF StepInv, WorkInv
<1>4. d \in Chunks /\ t.to \in Statuses /\ status[d] \in Heights
  BY <1>0, <1>3, KnownOK DEF StepInv, WorkInv, HoldersOK
<1>5. now \in Int /\ now >= t.to /\ t.to \in Int
  <2> DEFINE S == {status[d], t.to}
  <2>1. S \subseteq Heights /\ S # {} /\ t.to \in S
    BY <1>4, TopOK DEF Heights, Statuses
  <2> HIDE DEF S
  <2>2. Max(S) \in S /\ Max(S) >= t.to
    BY <2>1, HighestOK
  <2>3. now = Max(S)
    BY <1>0 DEF S
  <2>4. Max(S) \in Heights
    BY <2>1, <2>2
  <2>5. \A x \in Heights \cup Statuses : x \in Int
    BY TopOK DEF Heights, Statuses
  <2> QED
    BY <1>4, <2>2, <2>3, <2>4, <2>5
<1>6. status[c] \in Int /\ (c = d => status[c] = now)
  <2>1. status'[d] = now
    BY <1>1, <1>4 DEF StepInv, WorkInv, HoldersOK
  <2> QED
    BY <2>1, StatusOrder DEF StepInv, WorkInv
<1>7. ASSUME NEW q \in Waiters(c), Wanted[q].status > status[c]
      PROVE  asked'[q] = "waiting"
  <2>1. q \in Requests /\ asked[q] = "waiting" /\ Wanted[q].chunk = c
    BY DEF Waiters
  <2>2. Wanted[q].status \in Int
    <3>1. Wanted[q] \in [chunk : Chunks, status : 1 .. Top]
      BY <2>1, AssumptionParts
    <3> QED
      BY <3>1, TopOK
  <2> QED
    BY <1>1, <1>5, <1>6, <1>7, <2>1, <2>2
<1>8. ASSUME NEW m \in Chunks, waiting[c][m] > status[c]
      PROVE  waiting'[c][m] > status[c]
  <2>1. CASE UNCHANGED waiting
    BY <1>8, <2>1
  <2>2. CASE Unblock(d, Freed(d, t.to))
    <3>1. CASE c = d
      <4>1. waiting[c][m] \in Int
        BY TopOK DEF StepInv, DemandOK, Heights
      <4>2. m \notin Freed(d, t.to)
        BY <1>5, <1>6, <1>8, <3>1, <4>1 DEF Freed
      <4> QED
        BY <1>8, <2>2, <3>1, <4>2 DEF Unblock, StepInv, EdgeInv, EdgeShape
    <3>2. CASE c # d
      BY <1>8, <2>2, <3>2 DEF Unblock, StepInv, EdgeInv, EdgeShape
    <3> QED
      BY <3>1, <3>2
  <2> QED
    BY <1>1, <2>1, <2>2
<1>9. Ticket(c)' = Ticket(c)
  BY <1>1 DEF Ticket
<1> QED
  BY <1>7, <1>8, <1>9, SoughtKept

(* The neighbours of a stored chunk are freed when it is complete. *)
LEMMA NotifySought ==
    ASSUME StepInv, JobsOK, NEW w \in Workers, NEW d \in Chunks, NotifyStored(w, d),
           NEW c \in Chunks, Sought(c), status'[c] = status[c]
    PROVE  Sought(c)'
<1>1. /\ UNCHANGED <<moves, asked>> /\ jobs[<<"notify", d>>] > 0
      /\ Unblock(d, Freed(d, Top))
  BY DEF NotifyStored, TakeJob
<1>2. status[d] = Top /\ Top \in Nat
  BY <1>1, TopOK DEF JobsOK
<1>3. ASSUME NEW m \in Chunks, waiting[c][m] > status[c]
      PROVE  waiting'[c][m] > status[c]
  <2>1. waiting[c][m] \in Heights
    BY DEF StepInv, DemandOK
  <2>2. c # d
    BY <1>2, <1>3, <2>1 DEF Heights
  <2> QED
    BY <1>1, <1>3, <2>2 DEF Unblock, StepInv, EdgeInv, EdgeShape
<1>4. \A r \in Waiters(c) : asked'[r] = "waiting"
  BY <1>1 DEF Waiters
<1>5. Ticket(c)' = Ticket(c)
  BY <1>1 DEF Ticket
<1> QED
  BY <1>3, <1>4, <1>5, SoughtKept

(* A neighbour that is not there yet is asked for. *)
LEMMA CheckSought ==
    ASSUME StepInv, NEW w \in Workers, CheckNeighbour(w), NEW c \in Chunks, Sought(c)
    PROVE  Sought(c)'
<1>0. PICK f : f = Doing(w)
  OBVIOUS
<1>1. UNCHANGED <<moves, asked, status>>
  BY DEF CheckNeighbour, holderVars
<1>2. PICK n \in f.left : \/ UNCHANGED waiting
                          \/ /\ waiting' = [waiting EXCEPT ![n][f.chunk] = Required[f.to][f.chunk, n]]
                             /\ status[n] < Required[f.to][f.chunk, n]
  BY <1>0, Zenon DEF CheckNeighbour, edgeVars
<1>3. PICK need : need = Required[f.to][f.chunk, n]
  OBVIOUS
<1>4. \/ UNCHANGED waiting
      \/ waiting' = [waiting EXCEPT ![n][f.chunk] = need] /\ status[n] < need
  BY <1>2, <1>3, Zenon
<1>5. CASE UNCHANGED waiting
  BY <1>1, <1>5, StillSought
<1>6. CASE waiting' = [waiting EXCEPT ![n][f.chunk] = need] /\ status[n] < need
  <2>1. At(w, "scan")
    BY DEF CheckNeighbour
  <2>2. f.chunk \in Chunks /\ n \in Chunks
    <3>1. f.chunk \in Chunks /\ f.left \subseteq Reads(f.chunk, f.to)
      BY <1>0, <2>1, ScanningFrame DEF StepInv, EdgeInv
    <3> QED
      BY <1>2, <3>1 DEF Reads
  <2>3. status[n] \in Int
    BY <2>2, StatusOrder DEF StepInv, WorkInv
  <2>4. CASE c = n
    <3>1. waiting'[c][f.chunk] = need
      BY <1>6, <2>2, <2>4 DEF StepInv, EdgeInv, EdgeShape
    <3>2. waiting'[c][f.chunk] > status'[c]
      <4>1. need \in Int
        <5>1. need = Need(f.to, f.chunk, n)
          BY <1>3, Zenon DEF Need
        <5>2. f.to \in 1 .. Top /\ n \in Reads(f.chunk, f.to)
          <6>1. f \in Inside(stack[w]) /\ f.at = "scan"
            <7>1. stack[w] # <<>> /\ f.at = "scan"
              BY <1>0, <2>1 DEF At, Doing
            <7> QED
              BY <1>0, <7>1, PlainBelow DEF StepInv, EdgeInv
          <6>2. ScanOK(f) /\ f.left \subseteq Reads(f.chunk, f.to)
            BY <6>1, ScanFrame DEF StepInv
          <6> QED
            BY <1>2, <6>2 DEF ScanOK
        <5> QED
          BY <2>2, <5>1, <5>2, RequiredOK
      <4> QED
        BY <1>1, <1>6, <2>3, <2>4, <3>1, <4>1
    <3> QED
      BY <2>2, <3>2 DEF Sought
  <2>5. CASE c # n
    <3>1. \A m \in Chunks : waiting'[c][m] = waiting[c][m]
      BY <1>6, <2>2, <2>5 DEF StepInv, EdgeInv, EdgeShape
    <3>2. \A r \in Waiters(c) : asked'[r] = "waiting"
      BY <1>1 DEF Waiters
    <3>3. Ticket(c)' = Ticket(c)
      BY <1>1 DEF Ticket
    <3> QED
      BY <1>1, <3>1, <3>2, <3>3, SoughtKept
  <2> QED
    BY <2>4, <2>5
<1> QED
  BY <1>4, <1>5, <1>6

(* While nothing is taken back, the demand for what a chunk has not reached stays. *)
LEMMA SoughtNext ==
    ASSUME StepInv, NoRegrets, JobsOK, Undisturbed, Next, NEW c \in Chunks, Sought(c),
           status'[c] = status[c]
    PROVE  Sought(c)'
<1>1. ASSUME UNCHANGED <<moves, asked, waiting>>
      PROVE  Sought(c)'
  BY <1>1, StillSought
<1>2. ASSUME NEW r \in Requests, RequestChunk(r)
      PROVE  Sought(c)'
  BY <1>2, RequestSought
<1>3. ASSUME NEW d \in Chunks, SetTicket(d)
      PROVE  Sought(c)'
  BY <1>3, TicketSought DEF Undisturbed
<1>4. ASSUME NEW d \in Chunks, Loaded(d)
      PROVE  Sought(c)'
  <2>1. LoadHit(d) \/ LoadMissing(d)
    BY <1>4 DEF Loaded, LoadUnreadable, Undisturbed
  <2>2. CASE LoadMissing(d)
    BY <1>1, <2>2 DEF LoadMissing, edgeVars
  <2> QED
    BY <2>1, <2>2, LoadHitSought
<1>5. ASSUME NEW w \in Workers, At(w, "reconcile") \/ At(w, "failing")
      PROVE  FALSE
  <2>1. stack[w] # <<>> /\ Doing(w).at \in Regrets
    BY <1>5 DEF At, Doing, Regrets
  <2>2. Doing(w) \in Inside(stack[w])
    BY <2>1, PlainBelow DEF StepInv, EdgeInv
  <2> QED
    BY <2>1, <2>2 DEF NoRegrets
<1>6. ASSUME NEW w \in Workers, Proceed(w)
      PROVE  Sought(c)'
  <2>1. CASE \E d \in Chunks : ScheduleJob(w, d) \/ ReconcileJob(w, d)
    BY <1>1, <2>1 DEF ScheduleJob, ReconcileJob, edgeVars
  <2>2. CASE Reschedule(w) \/ NothingToSchedule(w) \/ ResolveStorage(w) \/ StartScan(w)
    BY <1>1, <2>2 DEF Reschedule, NothingToSchedule, ResolveStorage, StartScan, edgeVars
  <2>3. CASE LoadEmpty(w) \/ Scanned(w) \/ TakeTask(w) \/ Execute(w)
    BY <1>1, <2>3 DEF LoadEmpty, Scanned, TakeTask, Execute, edgeVars
  <2>4. CASE Cancel(w) \/ CallbackDone(w) \/ CallbackUndone(w)
    BY <1>1, <2>4 DEF Cancel, CallbackDone, CallbackUndone, edgeVars
  <2>5. CASE Fail(w) \/ Reconcile(w)
    BY <1>5, <2>5 DEF Fail, Reconcile
  <2> QED
    BY <1>6, <2>1, <2>2, <2>3, <2>4, <2>5, BodySought, CompleteSought, NotifySought, CheckSought
       DEF Proceed
<1> QED
  BY <1>2, <1>3, <1>4, <1>6 DEF Next

(* Demand that rises takes no task back. *)
LEMMA NothingCut ==
    ASSUME StepInv, TicketsRise, NoRegrets, SoughtOK, CurrentOK, NEW c \in Chunks, SetTicket(c)
    PROVE  cut' = {} /\ \A d \in Chunks : jobs'[<<"reconcile", d>>] = 0
<1> DEFINE new == TicketAfter(c, moves[c] + 1)
           target == Highest(new, Waiters(c), waiting[c])
<1>1. /\ moves[c] < Len(Path[c]) /\ moves' = [moves EXCEPT ![c] = @ + 1] /\ UNCHANGED <<status, waiting>>
      /\ cut' = cut \cup {t \in Cuttable(c) : status[c] >= target}
  BY DEF SetTicket, edgeVars
<1>2. /\ new \in Heights /\ Ticket(c) \in Heights /\ Ticket(c) <= new
  BY <1>1, TicketRises
<1>3. ASSUME NEW t \in Cuttable(c), status[c] >= target
      PROVE  FALSE
  <2>1. task[c] # None /\ task[c] \notin started
    BY <1>3 DEF Cuttable
  <2>2. Sought(c)
    BY <2>1 DEF SoughtOK
  <2>3. status[c] \in Int
    BY StatusOrder DEF StepInv, WorkInv
  <2>4. new > status[c] \/ (\E r \in Waiters(c) : Wanted[r].status > status[c])
            \/ \E m \in Chunks : waiting[c][m] > status[c]
    <3>1. Ticket(c) > status[c] => new > status[c]
      BY <1>2, <2>3, TopOK DEF Heights
    <3> QED
      BY <2>2, <3>1 DEF Sought
  <2>5. Waiters(c) \in SUBSET Requests /\ \A m \in Chunks : waiting[c][m] \in Heights
    BY DEF Waiters, StepInv, DemandOK
  <2> HIDE DEF new
  <2>6. target > status[c]
    BY <1>2, <2>3, <2>4, <2>5, HighestAbove
  <2>7. target \in Heights
    <3> DEFINE S == {new} \cup {Wanted[r].status : r \in Waiters(c)} \cup {waiting[c][m] : m \in Chunks}
    <3>1. S \subseteq Heights /\ S # {}
      <4>1. ASSUME NEW r \in Requests
            PROVE  Wanted[r].status \in Heights
        <5>1. Wanted[r] \in [chunk : Chunks, status : 1 .. Top]
          BY AssumptionParts
        <5> QED
          BY <5>1, TopOK DEF Heights
      <4> QED
        BY <1>2, <2>5, <4>1
    <3>2. target = Max(S)
      BY DEF Highest
    <3> HIDE DEF S, target
    <3>3. Max(S) \in S
      BY <3>1, HighestOK
    <3> QED
      BY <3>1, <3>2, <3>3
  <2> HIDE DEF target
  <2>8. target \in Int
    BY <2>7, TopOK DEF Heights
  <2> QED
    BY <1>3, <2>3, <2>6, <2>8
<1>4. cut' = {}
  BY <1>1, <1>3 DEF NoRegrets
<1>5. ~(new < Ticket(c))
  BY <1>2, TopOK DEF Heights
<1>6. \A d \in Chunks : jobs'[<<"reconcile", d>>] = jobs[<<"reconcile", d>>]
  <2> SUFFICES ASSUME NEW d \in Chunks
               PROVE  jobs'[<<"reconcile", d>>] = jobs[<<"reconcile", d>>]
    OBVIOUS
  <2>1. PICK job : job = <<"reconcile", d>>
    OBVIOUS
  <2>2. job \in Jobs /\ job[1] = "reconcile" /\ jobs[job] = 0
    BY <2>1 DEF Jobs, NoRegrets
  <2>3. \E js : /\ Post(js)
                /\ \A j \in js : j[1] = "schedule" \/ new < Ticket(c)
    BY DEF SetTicket
  <2>4. PICK js : Post(js) /\ job \notin js
    BY <1>5, <2>2, <2>3
  <2>5. jobs'[job] = jobs[job] + 0
    BY <2>2, <2>4 DEF Post
  <2> QED
    BY <2>1, <2>2, <2>5
<1> QED
  BY <1>4, <1>6 DEF NoRegrets

(* A complete chunk stays complete. *)
LEMMA TopKept ==
    ASSUME StepInv, Next, NEW c \in Chunks, status[c] = Top
    PROVE  status'[c] = Top
<1>1. ASSUME UNCHANGED status
      PROVE  status'[c] = Top
  BY <1>1
<1>2. ASSUME NEW d \in Chunks, Loaded(d)
      PROVE  status'[c] = Top
  BY <1>2 DEF Loaded, LoadHit, LoadMissing, LoadUnreadable, StepInv, WorkInv, HoldersOK
<1>3. ASSUME NEW w \in Workers, Body(w)
      PROVE  status'[c] = Top
  <2>0. PICK t, d : t = Doing(w).task /\ d = t.chunk
    OBVIOUS
  <2>1. At(w, "body") /\ status' = [status EXCEPT ![d] = t.to]
    BY <1>3, <2>0 DEF Body
  <2>2. "body" \in TaskPlaces
    BY DEF TaskPlaces
  <2>3. t \in Known /\ t \in Open /\ ~PublishedIn(Hands, t)
    BY <2>0, <2>1, <2>2, InHand DEF StepInv, WorkInv
  <2>4. t.to \in Statuses /\ status[d] = t.to - 1
    BY <2>0, <2>3, KnownOK DEF StepInv, WorkInv, OpensOK, OpenOK
  <2>5. c # d
    BY <2>4, TopOK DEF Statuses
  <2> QED
    BY <2>1, <2>5 DEF StepInv, WorkInv, HoldersOK
<1>4. ASSUME NEW w \in Workers, Complete(w)
      PROVE  status'[c] = Top
  <2>0. PICK t, d, now : t = Doing(w).task /\ d = t.chunk /\ now = Max({status[d], t.to})
    OBVIOUS
  <2>1. At(w, "complete") /\ status' = [status EXCEPT ![d] = now]
    BY <1>4, <2>0 DEF Complete
  <2>2. "complete" \in TaskPlaces
    BY DEF TaskPlaces
  <2>3. t \in Known
    BY <2>0, <2>1, <2>2, InHand DEF StepInv, WorkInv
  <2>4. d \in Chunks /\ t.to \in Statuses /\ status[d] \in Heights
    BY <2>0, <2>3, KnownOK DEF StepInv, WorkInv, HoldersOK
  <2>5. now \in Heights /\ now >= status[d]
    <3> DEFINE S == {status[d], t.to}
    <3>1. S \subseteq Heights /\ S # {} /\ status[d] \in S
      BY <2>4, TopOK DEF Heights, Statuses
    <3> HIDE DEF S
    <3>2. Max(S) \in S /\ Max(S) >= status[d]
      BY <3>1, HighestOK
    <3>3. now = Max(S)
      BY <2>0 DEF S
    <3> QED
      BY <3>1, <3>2, <3>3
  <2>6. c = d => now = Top
    BY <2>5, TopOK DEF Heights
  <2> QED
    BY <2>1, <2>4, <2>6 DEF StepInv, WorkInv, HoldersOK
<1>5. ASSUME NEW w \in Workers, Proceed(w)
      PROVE  status'[c] = Top
  <2>1. CASE \E d \in Chunks : ScheduleJob(w, d) \/ NotifyStored(w, d) \/ ReconcileJob(w, d)
    BY <1>1, <2>1 DEF ScheduleJob, NotifyStored, ReconcileJob, holderVars
  <2>2. CASE Reschedule(w) \/ NothingToSchedule(w) \/ ResolveStorage(w) \/ StartScan(w)
    BY <1>1, <2>2 DEF Reschedule, NothingToSchedule, ResolveStorage, StartScan, holderVars
  <2>3. CASE CheckNeighbour(w)
    <3>1. UNCHANGED status
      BY <2>3, Zenon DEF CheckNeighbour, holderVars
    <3> QED
      BY <1>1, <3>1
  <2>4. CASE LoadEmpty(w) \/ Scanned(w) \/ TakeTask(w) \/ Execute(w) \/ Cancel(w)
    BY <1>1, <2>4 DEF LoadEmpty, Scanned, TakeTask, Execute, Cancel, holderVars
  <2>5. CASE CallbackDone(w) \/ CallbackUndone(w) \/ Fail(w) \/ Reconcile(w)
    BY <1>1, <2>5 DEF CallbackDone, CallbackUndone, Fail, Reconcile, holderVars
  <2> QED
    BY <1>3, <1>4, <1>5, <2>1, <2>2, <2>3, <2>4, <2>5 DEF Proceed
<1>6. ASSUME NEW r \in Requests, RequestChunk(r)
      PROVE  status'[c] = Top
  BY <1>1, <1>6 DEF RequestChunk
<1>7. ASSUME NEW d \in Chunks, SetTicket(d)
      PROVE  status'[c] = Top
  BY <1>1, <1>7 DEF SetTicket
<1> QED
  BY <1>2, <1>5, <1>6, <1>7 DEF Next

(* Jobs are counted, and a chunk whose neighbours are to be told of its loading is loaded. *)
LEMMA JobsNext ==
    ASSUME StepInv, JobsOK, Next
    PROVE  JobsOK'
<1>1. \A c \in Chunks : status[c] = Top => status'[c] = Top
  BY TopKept
<1>2. \A c \in Chunks : <<"notify", c>> \in Jobs
  BY DEF Jobs
<1>3. ASSUME UNCHANGED jobs
      PROVE  JobsOK'
  BY <1>1, <1>3 DEF JobsOK
<1>4. ASSUME NEW js, Post(js), \A j \in js : j[1] = "notify" => status'[j[2]] = Top
      PROVE  JobsOK'
  <2>1. jobs' = [j \in Jobs |-> jobs'[j]] /\ \A j \in Jobs : jobs'[j] \in Nat
    BY <1>4 DEF Post, JobsOK
  <2>2. ASSUME NEW c \in Chunks, jobs'[<<"notify", c>>] # 0
        PROVE  status'[c] = Top
    <3>1. PICK job : job = <<"notify", c>>
      OBVIOUS
    <3>2. job \in Jobs /\ job[1] = "notify" /\ job[2] = c
      BY <1>2, <3>1
    <3>3. jobs'[job] = jobs[job] + IF job \in js THEN 1 ELSE 0
      BY <1>4, <3>2 DEF Post
    <3>4. CASE job \in js
      BY <1>4, <3>2, <3>4
    <3>5. CASE job \notin js
      <4>1. jobs[job] # 0
        BY <2>2, <3>1, <3>2, <3>3, <3>5 DEF JobsOK
      <4> QED
        BY <1>1, <3>1, <4>1 DEF JobsOK
    <3> QED
      BY <3>4, <3>5
  <2> QED
    BY <2>1, <2>2 DEF JobsOK
<1>5. ASSUME NEW w \in Workers, NEW j \in Jobs, TakeJob(w, j)
      PROVE  JobsOK'
  <2>1. jobs' = [k \in Jobs |-> jobs'[k]] /\ \A k \in Jobs : jobs'[k] \in Nat
    BY <1>5 DEF TakeJob, JobsOK
  <2>2. \A k \in Jobs : jobs'[k] # 0 => jobs[k] # 0
    BY <1>5 DEF TakeJob, JobsOK
  <2> QED
    BY <1>1, <1>2, <2>1, <2>2 DEF JobsOK
<1>6. ASSUME NEW r \in Requests, RequestChunk(r)
      PROVE  JobsOK'
  <2>1. UNCHANGED jobs \/ \E js : Post(js) /\ \A j \in js : j[1] = "schedule"
    BY <1>6 DEF RequestChunk
  <2> QED
    BY <1>3, <1>4, <2>1
<1>7. ASSUME NEW c \in Chunks, SetTicket(c)
      PROVE  JobsOK'
  <2>1. \E js : Post(js) /\ \A j \in js : j[1] \in {"schedule", "reconcile"}
    BY <1>7 DEF SetTicket
  <2> QED
    BY <1>4, <2>1
<1>8. ASSUME NEW c \in Chunks, Loaded(c)
      PROVE  JobsOK'
  <2>1. CASE LoadHit(c)
    <3>1. Post({<<"notify", c>>}) /\ status'[c] = Top
      BY <2>1 DEF LoadHit, StepInv, WorkInv, HoldersOK
    <3>2. \A j \in {<<"notify", c>>} : j[1] = "notify" => status'[j[2]] = Top
      BY <3>1
    <3> QED
      BY <1>4, <3>1, <3>2
  <2>2. CASE LoadMissing(c)
    <3>1. \E js : Post(js) /\ \A j \in js : j[1] = "schedule"
      BY <2>2 DEF LoadMissing
    <3> QED
      BY <1>4, <3>1
  <2>3. CASE LoadUnreadable(c)
    BY <1>3, <2>3 DEF LoadUnreadable
  <2> QED
    BY <1>8, <2>1, <2>2, <2>3 DEF Loaded
<1>9. ASSUME NEW w \in Workers, Proceed(w)
      PROVE  JobsOK'
  <2>1. CASE \E c \in Chunks : ScheduleJob(w, c) \/ NotifyStored(w, c) \/ ReconcileJob(w, c)
    <3>1. PICK c \in Chunks : ScheduleJob(w, c) \/ NotifyStored(w, c) \/ ReconcileJob(w, c)
      BY <2>1
    <3>2. \E j \in Jobs : TakeJob(w, j)
      BY <3>1 DEF ScheduleJob, NotifyStored, ReconcileJob, Jobs
    <3> QED
      BY <1>5, <3>2
  <2>2. CASE Reschedule(w) \/ NothingToSchedule(w) \/ ResolveStorage(w) \/ StartScan(w)
    BY <1>3, <2>2 DEF Reschedule, NothingToSchedule, ResolveStorage, StartScan
  <2>3. CASE CheckNeighbour(w)
    <3>1. UNCHANGED jobs
      BY <2>3, Zenon DEF CheckNeighbour
    <3> QED
      BY <1>3, <3>1
  <2>4. CASE LoadEmpty(w) \/ Scanned(w) \/ TakeTask(w) \/ Execute(w) \/ Body(w)
    BY <1>3, <2>4 DEF LoadEmpty, Scanned, TakeTask, Execute, Body
  <2>5. CASE Complete(w) \/ Cancel(w) \/ Fail(w)
    BY <1>3, <2>5 DEF Complete, Cancel, Fail
  <2>6. CASE CallbackDone(w) \/ CallbackUndone(w) \/ Reconcile(w)
    BY <1>3, <2>6 DEF CallbackDone, CallbackUndone, Reconcile
  <2> QED
    BY <1>9, <2>1, <2>2, <2>3, <2>4, <2>5, <2>6 DEF Proceed
<1> QED
  BY <1>6, <1>7, <1>8, <1>9 DEF Next

-----------------------------------------------------------------------------
(* Nothing is taken back, step by step.                                    *)

\* What CalmOK says of the frames.
Calm(frames) == \A f \in Inside(frames) : f.at \notin Regrets
CalmOK == NoRegrets /\ StartedOK /\ CurrentOK

(* A worker goes on calmly. *)
LEMMA CalmStacks ==
    ASSUME StacksOK, NoRegrets, NEW w \in Workers, NEW frames, Become(w, frames), Calm(frames)
    PROVE  \A v \in Workers : Calm(stack'[v])
BY BecomeStack DEF NoRegrets, Calm

LEMMA CalmBelow ==
    ASSUME StacksOK, ShapesOK, NoRegrets, NEW w \in Workers, stack[w] # <<>>
    PROVE  Calm(Below(w)) /\ Doing(w).at \notin Regrets
BY PlainBelow DEF NoRegrets, Calm

LEMMA CalmThrough ==
    ASSUME NEW left, NEW below, NEW H, FramesOK(below, H), Calm(below)
    PROVE  Calm(Through("reschedule", left, below))
<1> DEFINE f == [at |-> "reschedule", left |-> left]
<1>1. CASE left = {}
  BY <1>1 DEF Through
<1>2. CASE left # {}
  <2>1. Through("reschedule", left, below) = <<f>> \o below /\ f.at \notin Regrets
    BY <1>2 DEF Through, Regrets
  <2> HIDE DEF f
  <2>2. Inside(<<f>> \o below) = {f} \cup Inside(below)
    BY OnTop
  <2> QED
    BY <2>1, <2>2 DEF Calm
<1> QED
  BY <1>1, <1>2

(* Tasks that stay, or are executed, or have just been. *)
LEMMA CalmKept ==
    ASSUME CalmOK, cut' = {}, \A v \in Workers : Calm(stack'[v]),
           \A c \in Chunks : jobs'[<<"reconcile", c>>] = 0,
           started \subseteq started', Known \subseteq Known',
           \A c \in Chunks : task'[c] \in {task[c], None},
           \A f \in Hands' : \/ f \in Hands \/ f.at = "execute"
                             \/ f.at \in {"body", "complete"} /\ f.task \in started'
                             \/ f.at = "done" /\ \A c \in Chunks : task'[c] # f.task \/ task'[c] = None
    PROVE  CalmOK'
<1>1. NoRegrets'
  BY DEF NoRegrets, Calm
<1>2. StartedOK'
  BY DEF CalmOK, StartedOK
<1>3. CurrentOK'
  BY DEF CalmOK, CurrentOK
<1> QED
  BY <1>1, <1>2, <1>3 DEF CalmOK

(* Nothing but frames changes. *)
LEMMA CalmQuiet ==
    ASSUME StepInv, CalmOK, UNCHANGED <<task, tasks, cut, started>>, Hands' = Hands,
           \A c \in Chunks : jobs'[<<"reconcile", c>>] = 0, \A v \in Workers : Calm(stack'[v])
    PROVE  CalmOK'
<1>1. Known' = Known
  BY DEF Known
<1> QED
  BY <1>1, CalmKept DEF CalmOK, NoRegrets

LEMMA PostCalm ==
    ASSUME NoRegrets, NEW js, Post(js), \A j \in js : j[1] # "reconcile"
    PROVE  \A c \in Chunks : jobs'[<<"reconcile", c>>] = 0
<1> SUFFICES ASSUME NEW c \in Chunks
             PROVE  jobs'[<<"reconcile", c>>] = 0
  OBVIOUS
<1>1. PICK job : job = <<"reconcile", c>>
  OBVIOUS
<1>2. job \in Jobs /\ job \notin js /\ jobs[job] = 0
  BY <1>1 DEF Jobs, NoRegrets
<1>3. jobs'[job] = jobs[job] + 0
  BY <1>2 DEF Post
<1> QED
  BY <1>1, <1>2, <1>3

LEMMA TakeJobCalm ==
    ASSUME StepInv, CalmOK, JobsOK, NEW w \in Workers, NEW j, TakeJob(w, j), j[1] # "reconcile"
    PROVE  \A c \in Chunks : jobs'[<<"reconcile", c>>] = 0
<1> SUFFICES ASSUME NEW c \in Chunks
             PROVE  jobs'[<<"reconcile", c>>] = 0
  OBVIOUS
<1>1. PICK job : job = <<"reconcile", c>>
  OBVIOUS
<1>2. job \in Jobs /\ job # j /\ jobs[job] = 0
  BY <1>1 DEF Jobs, CalmOK, NoRegrets
<1>3. jobs'[job] = jobs[job]
  BY <1>2 DEF TakeJob, JobsOK
<1> QED
  BY <1>1, <1>2, <1>3

LEMMA MainCalm ==
    ASSUME StepInv, CalmOK, SoughtOK, Undisturbed,
           \/ \E r \in Requests : RequestChunk(r)
           \/ \E c \in Chunks : SetTicket(c) \/ Loaded(c)
    PROVE  CalmOK'
<1>1. /\ UNCHANGED <<task, tasks, started, stack>>
      /\ cut' = {} /\ \A c \in Chunks : jobs'[<<"reconcile", c>>] = 0
  <2>1. CASE \E r \in Requests : RequestChunk(r)
    <3>1. PICK r \in Requests : RequestChunk(r)
      BY <2>1
    <3>2. UNCHANGED jobs \/ \E js : Post(js) /\ \A j \in js : j[1] # "reconcile"
      BY <3>1 DEF RequestChunk
    <3>3. UNCHANGED <<task, tasks, cut, started, stack>>
      BY <3>1 DEF RequestChunk, taskVars
    <3> QED
      BY <3>2, <3>3, PostCalm DEF CalmOK, NoRegrets
  <2>2. CASE \E c \in Chunks : SetTicket(c)
    <3>1. PICK c \in Chunks : SetTicket(c)
      BY <2>2
    <3>2. cut' = {} /\ \A d \in Chunks : jobs'[<<"reconcile", d>>] = 0
      BY <3>1, NothingCut DEF CalmOK, Undisturbed
    <3> QED
      BY <3>1, <3>2 DEF SetTicket
  <2>3. CASE \E c \in Chunks : Loaded(c)
    <3>1. PICK c \in Chunks : LoadHit(c) \/ LoadMissing(c)
      BY <2>3 DEF Loaded, LoadUnreadable, Undisturbed
    <3>2. \E js : Post(js) /\ \A j \in js : j[1] # "reconcile"
      <4>1. CASE LoadHit(c)
        <5>1. Post({<<"notify", c>>}) /\ \A j \in {<<"notify", c>>} : j[1] # "reconcile"
          BY <4>1 DEF LoadHit
        <5> QED
          BY <5>1
      <4>2. CASE LoadMissing(c)
        BY <4>2 DEF LoadMissing
      <4> QED
        BY <3>1, <4>1, <4>2
    <3>3. UNCHANGED <<task, tasks, cut, started, stack>>
      BY <3>1 DEF LoadHit, LoadMissing, taskVars
    <3> QED
      BY <3>2, <3>3, PostCalm DEF CalmOK, NoRegrets
  <2> QED
    BY <2>1, <2>2, <2>3
<1>2. Hands' = Hands
  BY <1>1, StillShape DEF StepInv
<1>3. \A v \in Workers : Calm(stack'[v])
  BY <1>1 DEF CalmOK, NoRegrets, Calm
<1>4. UNCHANGED cut
  BY <1>1 DEF CalmOK, NoRegrets
<1> QED
  BY <1>1, <1>2, <1>3, <1>4, CalmQuiet

LEMMA JobCalm ==
    ASSUME StepInv, CalmOK, JobsOK, NEW w \in Workers, NEW c \in Chunks,
           ScheduleJob(w, c) \/ NotifyStored(w, c) \/ ReconcileJob(w, c)
    PROVE  CalmOK'
<1>1. UNCHANGED <<task, tasks, cut, started>>
  BY DEF ScheduleJob, NotifyStored, ReconcileJob, holderVars, taskVars
<1>2. CASE ScheduleJob(w, c)
  <2>1. Become(w, <<Scheduling(c)>>) /\ \E j : TakeJob(w, j) /\ j[1] # "reconcile"
    BY <1>2 DEF ScheduleJob
  <2>2. Calm(<<Scheduling(c)>>)
    BY FewShape DEF Calm, Scheduling, Regrets
  <2>3. \A v \in Workers : Calm(stack'[v])
    BY <2>1, <2>2, CalmStacks DEF StepInv, EdgeInv, CalmOK
  <2>4. Hands' = Hands
    BY <1>2, ScheduleJobShape DEF StepInv
  <2> QED
    BY <1>1, <2>1, <2>3, <2>4, TakeJobCalm, CalmQuiet
<1>3. CASE NotifyStored(w, c)
  <2>1. /\ Become(w, Through("reschedule", Woken(c, Top), <<>>))
        /\ \E j : TakeJob(w, j) /\ j[1] # "reconcile"
    BY <1>3 DEF NotifyStored
  <2>2. Calm(Through("reschedule", Woken(c, Top), <<>>))
    <3>1. Calm(<<>>) /\ FramesOK(<<>>, {})
      BY FewShape, EmptyOK DEF Calm
    <3> QED
      BY <3>1, CalmThrough
  <2>3. \A v \in Workers : Calm(stack'[v])
    BY <2>1, <2>2, CalmStacks DEF StepInv, EdgeInv, CalmOK
  <2>4. Hands' = Hands
    BY <1>3, PlainJobShape DEF StepInv
  <2> QED
    BY <1>1, <2>1, <2>3, <2>4, TakeJobCalm, CalmQuiet
<1>4. CASE ReconcileJob(w, c)
  BY <1>4 DEF ReconcileJob, TakeJob, CalmOK, NoRegrets
<1> QED
  BY <1>2, <1>3, <1>4

(* Scheduling, up to the submission. *)
LEMMA SchedulingCalm ==
    ASSUME StepInv, CalmOK, NEW w \in Workers,
           \/ Reschedule(w) \/ NothingToSchedule(w) \/ ResolveStorage(w)
           \/ StartScan(w) \/ CheckNeighbour(w)
    PROVE  CalmOK'
<1>1. UNCHANGED <<task, tasks, cut, started, jobs>> /\ stack[w] # <<>>
  <2>1. CASE CheckNeighbour(w)
    <3>1. UNCHANGED <<task, tasks, cut, started, jobs>> /\ At(w, "scan")
      BY <2>1, Zenon DEF CheckNeighbour, holderVars, taskVars
    <3> QED
      BY <3>1 DEF At
  <2>2. CASE Reschedule(w) \/ NothingToSchedule(w) \/ ResolveStorage(w) \/ StartScan(w)
    BY <2>2 DEF Reschedule, NothingToSchedule, ResolveStorage, StartScan, holderVars, taskVars, At
  <2> QED
    BY <2>1, <2>2
<1>2. \A c \in Chunks : jobs'[<<"reconcile", c>>] = 0
  BY <1>1 DEF CalmOK, NoRegrets
<1>3. Calm(Below(w)) /\ \A f \in Inside(stack[w]) : f.at \notin Regrets
  BY <1>1, CalmBelow DEF StepInv, EdgeInv, CalmOK, NoRegrets
<1>4. Hands' = Hands /\ \A v \in Workers : Calm(stack'[v])
  <2>1. ASSUME NEW frames, Become(w, frames), Calm(stack'[w])
        PROVE  \A v \in Workers : Calm(stack'[v])
    <3>1. stack'[w] = frames
      BY <2>1, BecomeStack DEF StepInv, EdgeInv
    <3> QED
      BY <2>1, <3>1, CalmStacks DEF StepInv, EdgeInv, CalmOK
  <2>2. CASE Reschedule(w)
    <3>1. PICK c \in Doing(w).left :
            Become(w, <<Scheduling(c)>> \o Through("reschedule", Doing(w).left \ {c}, Below(w)))
      BY <2>2 DEF Reschedule
    <3>2. At(w, "reschedule")
      BY <2>2 DEF Reschedule
    <3>3. Doing(w).left \subseteq Chunks /\ FramesOK(Below(w), Held(w))
      BY <3>2, LeftFrame DEF StepInv, EdgeInv
    <3> DEFINE rest == Through("reschedule", Doing(w).left \ {c}, Below(w))
    <3>4. Calm(rest) /\ FramesOK(rest, Held(w))
      BY <1>3, <3>3, CalmThrough, ThroughOK
    <3> HIDE DEF rest
    <3>5. Inside(<<Scheduling(c)>> \o rest) = {Scheduling(c)} \cup Inside(rest)
      BY <3>4, OnTop
    <3>6. Calm(<<Scheduling(c)>> \o rest)
      BY <3>4, <3>5 DEF Calm, Scheduling, Regrets
    <3>7. Become(w, <<Scheduling(c)>> \o rest)
      BY <3>1 DEF rest
    <3>8. \A v \in Workers : Calm(stack'[v])
      BY <3>6, <3>7, CalmStacks DEF StepInv, EdgeInv, CalmOK
    <3> QED
      BY <2>2, <3>8, RescheduleShape DEF StepInv
  <2>3. CASE NothingToSchedule(w) \/ ResolveStorage(w)
    <3>1. At(w, "schedule") /\ Become(w, Below(w))
      BY <2>3 DEF NothingToSchedule, ResolveStorage
    <3>2. \A v \in Workers : Calm(stack'[v])
      BY <1>3, <3>1, CalmStacks DEF StepInv, EdgeInv, CalmOK
    <3> QED
      BY <3>1, <3>2, ReturnShape DEF StepInv
  <2>4. CASE StartScan(w)
    <3>1. PICK f : f = Scanning(Doing(w).chunk, status[Doing(w).chunk] + 1,
                                Reads(Doing(w).chunk, status[Doing(w).chunk] + 1), FALSE)
      OBVIOUS
    <3>2. /\ Hands' = Hands /\ Inside(stack'[w]) \subseteq {f} \cup Inside(stack[w])
      BY <2>4, <3>1, StartScanShape DEF StepInv, WorkInv
    <3>3. Calm(stack'[w])
      BY <1>3, <3>1, <3>2 DEF Calm, Scanning, Regrets
    <3>4. \E frames : Become(w, frames)
      BY <2>4 DEF StartScan
    <3> QED
      BY <2>1, <3>2, <3>3, <3>4
  <2>5. CASE CheckNeighbour(w)
    <3>1. PICK n, unready, g :
            /\ g = Scanning(Doing(w).chunk, Doing(w).to, Doing(w).left \ {n}, unready)
            /\ Hands' = Hands
            /\ \/ Inside(stack'[w]) = {g} \cup Inside(Below(w))
               \/ Inside(stack'[w]) = {Scheduling(n), g} \cup Inside(Below(w))
      BY <2>5, CheckShape DEF StepInv
    <3>2. Calm(stack'[w])
      BY <1>3, <3>1 DEF Calm, Scanning, Scheduling, Regrets
    <3>3. \E frames : Become(w, frames)
      BY <2>5 DEF CheckNeighbour
    <3> QED
      BY <2>1, <3>1, <3>2, <3>3
  <2> QED
    BY <2>2, <2>3, <2>4, <2>5
<1> QED
  BY <1>1, <1>2, <1>4, CalmQuiet

LEMMA SubmitCalm ==
    ASSUME StepInv, CalmOK, UNCHANGED jobs, NEW w \in Workers, At(w, "schedule") \/ At(w, "scan"),
           Become(w, Below(w)), NEW c \in Chunks, NEW to \in Statuses, Submit(c, to)
    PROVE  CalmOK'
<1>1. PICK t : t = NewTask(c, to)
  OBVIOUS
<1>2. t.chunk = c /\ t \notin Known
  BY <1>1, NewTaskOK DEF StepInv, EdgeInv
<1>3. task' = [task EXCEPT ![c] = t] /\ tasks' = Append(tasks, t) /\ UNCHANGED <<cut, started>>
  BY <1>1 DEF Submit
<1>4. Known \subseteq Known' /\ t \in Known'
  <2>1. Known \subseteq Known'
    BY SubmitOK DEF StepInv, EdgeInv
  <2>2. Len(tasks) + 1 \in DOMAIN tasks' /\ tasks'[Len(tasks) + 1] = t
    BY <1>3 DEF StepInv, EdgeInv, TasksOK
  <2> QED
    BY <2>1, <2>2 DEF Known
<1>5. task'[c] = t /\ \A d \in Chunks : d # c => task'[d] = task[d]
  BY <1>3 DEF StepInv, WorkInv, HoldersOK
<1>6. Hands' = Hands
  BY ReturnShape DEF StepInv
<1>7. \A f \in Hands : f.task # t
  BY <1>2, HandsKnown DEF StepInv, EdgeInv
<1>8. CurrentOK'
  BY <1>2, <1>4, <1>5, <1>6, <1>7 DEF CalmOK, CurrentOK
<1>9. Calm(Below(w))
  BY CalmBelow DEF At, StepInv, EdgeInv, CalmOK
<1>10. \A v \in Workers : Calm(stack'[v])
  BY <1>9, CalmStacks DEF StepInv, EdgeInv, CalmOK
<1>11. NoRegrets'
  BY <1>3, <1>10 DEF CalmOK, NoRegrets, Calm
<1>12. StartedOK'
  BY <1>3, <1>6 DEF CalmOK, StartedOK
<1> QED
  BY <1>8, <1>11, <1>12 DEF CalmOK

LEMMA ScheduledCalm ==
    ASSUME StepInv, CalmOK, NEW w \in Workers, LoadEmpty(w) \/ Scanned(w)
    PROVE  CalmOK'
<1>1. CASE LoadEmpty(w)
  <2>1. At(w, "schedule") /\ Become(w, Below(w)) /\ UNCHANGED jobs /\ Submit(Doing(w).chunk, 0)
    BY <1>1 DEF LoadEmpty
  <2>2. Doing(w).chunk \in Chunks
    BY <2>1, SchedulingFrame DEF StepInv, EdgeInv
  <2> QED
    BY <2>1, <2>2, TopOK, SubmitCalm
<1>2. CASE Scanned(w)
  <2>0. PICK f : f = Doing(w)
    OBVIOUS
  <2>1. /\ At(w, "scan") /\ Become(w, Below(w)) /\ UNCHANGED jobs
        /\ UNCHANGED <<task, tasks, cut, started>> \/ Submit(f.chunk, f.to)
    BY <1>2, <2>0 DEF Scanned, taskVars
  <2>2. f.chunk \in Chunks /\ f.to \in Statuses
    <3>1. stack[w] # <<>> /\ f.at = "scan"
      BY <2>0, <2>1 DEF At, Doing
    <3>2. f \in Inside(stack[w])
      BY <2>0, <3>1, PlainBelow DEF StepInv, EdgeInv
    <3> QED
      BY <3>1, <3>2, ScanFrame DEF StepInv
  <2>3. CASE Submit(f.chunk, f.to)
    BY <2>1, <2>2, <2>3, SubmitCalm
  <2>4. CASE UNCHANGED <<task, tasks, cut, started>>
    <3>1. Calm(Below(w))
      BY <2>1, CalmBelow DEF At, StepInv, EdgeInv, CalmOK
    <3>2. \A v \in Workers : Calm(stack'[v])
      BY <2>1, <3>1, CalmStacks DEF StepInv, EdgeInv, CalmOK
    <3>3. Hands' = Hands
      BY <2>1, ReturnShape DEF StepInv
    <3>4. \A c \in Chunks : jobs'[<<"reconcile", c>>] = 0
      BY <2>1 DEF CalmOK, NoRegrets
    <3> QED
      BY <2>4, <3>2, <3>3, <3>4, CalmQuiet
  <2> QED
    BY <2>1, <2>3, <2>4
<1> QED
  BY <1>1, <1>2

(* A worker takes a task, starts it, does its work. *)
LEMMA TaskCalm ==
    ASSUME StepInv, CalmOK, NEW w \in Workers, TakeTask(w) \/ Execute(w) \/ Body(w)
    PROVE  CalmOK'
<1>1. /\ UNCHANGED <<task, tasks, cut, jobs>> /\ started \subseteq started'
  BY DEF TakeTask, Execute, Body, holderVars, taskVars
<1>2. Known' = Known /\ cut = {} /\ \A c \in Chunks : jobs'[<<"reconcile", c>>] = 0
  BY <1>1 DEF Known, CalmOK, NoRegrets
<1>3. \E g : /\ Become(w, <<g>>) /\ (Hands' = Hands \cup {g} \/ Hands' = (Hands \ {Doing(w)}) \cup {g})
             /\ g.at = "execute" \/ (g.at \in {"body", "complete"} /\ g.task \in started')
  <2>1. CASE TakeTask(w)
    <3>1. PICK k \in DOMAIN tasks : Become(w, <<ForTask("execute", tasks[k])>>)
      BY <1>2, <2>1 DEF TakeTask
    <3>2. PICK g : g = ForTask("execute", tasks[k])
      OBVIOUS
    <3>3. Become(w, <<g>>) /\ g.at = "execute"
      BY <3>1, <3>2 DEF ForTask
    <3>4. Idle(w) /\ TaskFrames(<<g>>) = {g}
      BY <2>1, <3>3, SingleShape DEF TakeTask, TaskPlaces
    <3>5. Hands' = Hands \cup {g}
      BY <3>3, <3>4, HandsGained DEF StepInv, EdgeInv
    <3> QED
      BY <3>3, <3>5
  <2>2. ASSUME NEW next \in {"body", "complete"}, NEW place \in {"execute", "body"}, At(w, place),
               Become(w, <<ForTask(next, Doing(w).task)>>), Doing(w).task \in started'
        PROVE  \E g : /\ Become(w, <<g>>) /\ Hands' = (Hands \ {Doing(w)}) \cup {g}
                      /\ g.at \in {"body", "complete"} /\ g.task \in started'
    <3>1. PICK g : g = ForTask(next, Doing(w).task)
      OBVIOUS
    <3>2. next \in TaskPlaces /\ place \in TaskPlaces
      BY DEF TaskPlaces
    <3>3. g.at = next /\ g.task = Doing(w).task /\ TaskFrames(<<g>>) = {g}
      BY <2>2, <3>1, <3>2, SameTaskFrame DEF StepInv, EdgeInv
    <3>4. Become(w, <<g>>)
      BY <2>2, <3>1
    <3>5. Hands' = (Hands \ {Doing(w)}) \cup {g}
      BY <2>2, <3>2, <3>3, <3>4, HandsExchanged DEF StepInv, EdgeInv
    <3> QED
      BY <2>2, <3>3, <3>4, <3>5
  <2>3. CASE Execute(w)
    <3>1. /\ At(w, "execute") /\ Doing(w).task \in started'
          /\ \E next \in {"body", "complete"} : Become(w, <<ForTask(next, Doing(w).task)>>)
      BY <1>2, <2>3 DEF Execute
    <3> QED
      BY <2>2, <3>1
  <2>4. CASE Body(w)
    <3>1. At(w, "body") /\ Become(w, <<ForTask("complete", Doing(w).task)>>)
      BY <2>4 DEF Body
    <3>2. Doing(w) \in Hands /\ Doing(w).at = "body"
      BY <3>1, AtTask DEF StepInv, EdgeInv, TaskPlaces
    <3>3. Doing(w).task \in started'
      BY <1>1, <3>2 DEF CalmOK, StartedOK
    <3> QED
      BY <2>2, <3>1, <3>3
  <2> QED
    BY <2>1, <2>3, <2>4
<1>4. PICK g : /\ Become(w, <<g>>)
               /\ \A f \in Hands' : f \in Hands \/ f = g
               /\ g.at = "execute" \/ (g.at \in {"body", "complete"} /\ g.task \in started')
  BY <1>3
<1>5. Calm(<<g>>)
  BY <1>4, FewShape DEF Calm, Regrets
<1>6. \A v \in Workers : Calm(stack'[v])
  BY <1>4, <1>5, CalmStacks DEF StepInv, EdgeInv, CalmOK
<1> QED
  BY <1>1, <1>2, <1>4, <1>6, CalmKept

LEMMA CompleteCalm ==
    ASSUME StepInv, CalmOK, NEW w \in Workers, Complete(w)
    PROVE  CalmOK'
<1>0. PICK t, c, g : t = Doing(w).task /\ c = t.chunk /\ g = ForTask("done", t)
  OBVIOUS
<1>1. /\ At(w, "complete") /\ UNCHANGED <<tasks, cut, started, jobs>>
      /\ task' = [task EXCEPT ![c] = None]
      /\ \E left : Become(w, Through("reschedule", left, <<g>>))
  <2>1. At(w, "complete") /\ UNCHANGED <<tasks, cut, started, jobs>> /\ task' = [task EXCEPT ![c] = None]
    BY <1>0 DEF Complete
  <2>2. CASE task[c] = None
    <3>1. Become(w, Through("reschedule", {}, <<g>>))
      BY <1>0, <2>2 DEF Complete, Through
    <3> QED
      BY <2>1, <3>1
  <2>3. CASE task[c] # None
    BY <1>0, <2>1, <2>3 DEF Complete
  <2> QED
    BY <2>2, <2>3
<1>2. "complete" \in TaskPlaces /\ "done" \in TaskPlaces
  BY DEF TaskPlaces
<1>3. g.at = "done" /\ g.task = t /\ FramesOK(<<g>>, Held(w))
  BY <1>0, <1>1, <1>2, SameTaskFrame DEF StepInv, EdgeInv
<1>4. Calm(<<g>>)
  BY <1>3, FewShape DEF Calm, Regrets
<1>5. PICK left : Become(w, Through("reschedule", left, <<g>>))
  BY <1>1
<1>6. Calm(Through("reschedule", left, <<g>>))
  BY <1>3, <1>4, CalmThrough
<1>7. \A v \in Workers : Calm(stack'[v])
  BY <1>5, <1>6, CalmStacks DEF StepInv, EdgeInv, CalmOK
<1>8. Hands' = (Hands \ {Doing(w)}) \cup {g}
  BY <1>0, CompleteShape DEF StepInv
<1>9. t \in Known /\ c \in Chunks
  <2>1. t \in Known
    BY <1>0, <1>1, <1>2, InHand DEF StepInv, WorkInv
  <2> QED
    BY <1>0, <2>1, KnownOK DEF StepInv, WorkInv
<1>10. \A d \in Chunks : task'[d] = IF d = c THEN None ELSE task[d]
  BY <1>1 DEF StepInv, WorkInv, HoldersOK
<1>11. \A d \in Chunks : task'[d] # t \/ task'[d] = None
  BY <1>0, <1>10 DEF CalmOK, CurrentOK
<1>12. Known' = Known /\ \A d \in Chunks : jobs'[<<"reconcile", d>>] = 0
  BY <1>1 DEF Known, CalmOK, NoRegrets
<1>13. \A f \in Hands' : f \in Hands \/ (f.at = "done" /\ \A d \in Chunks : task'[d] # f.task \/ task'[d] = None)
  BY <1>3, <1>8, <1>11
<1>14. cut' = {} /\ started \subseteq started' /\ \A d \in Chunks : task'[d] \in {task[d], None}
  BY <1>1, <1>10 DEF CalmOK, NoRegrets
<1> QED
  BY <1>7, <1>12, <1>13, <1>14, CalmKept

LEMMA DoneCalm ==
    ASSUME StepInv, CalmOK, NEW w \in Workers, CallbackDone(w)
    PROVE  CalmOK'
<1>0. PICK t : t = Doing(w).task
  OBVIOUS
<1>1. /\ At(w, "done") /\ Forget(t) /\ Become(w, <<>>) /\ UNCHANGED <<task, jobs>>
  BY <1>0 DEF CallbackDone, holderVars
<1>2. "done" \in TaskPlaces
  BY DEF TaskPlaces
<1>3. /\ Doing(w).at = "done" /\ Doing(w) \in Hands /\ t \in Known
      /\ \A f \in Hands : f.task.chunk = t.chunk => f = Doing(w)
  BY <1>0, <1>1, <1>2, InHand DEF StepInv, WorkInv
<1>4. Hands' = Hands \ {Doing(w)}
  BY <1>1, <1>2, DropShape DEF StepInv
<1>5. Known' = Known \ {t}
  BY <1>1, <1>3, ForgetOrder DEF StepInv, EdgeInv, WorkInv, ListOK
<1>6. cut' = cut \ {t} /\ started' = started \ {t}
  BY <1>1 DEF Forget
<1>7. Calm(<<>>)
  BY FewShape DEF Calm
<1>8. \A v \in Workers : Calm(stack'[v])
  BY <1>1, <1>7, CalmStacks DEF StepInv, EdgeInv, CalmOK
<1>9. NoRegrets'
  BY <1>1, <1>6, <1>8 DEF CalmOK, NoRegrets, Calm
<1>10. StartedOK'
  BY <1>3, <1>4, <1>6 DEF CalmOK, StartedOK
<1>11. CurrentOK'
  <2>1. \A c \in Chunks : task[c] # None => task[c] # t
    BY <1>0, <1>3 DEF CalmOK, CurrentOK
  <2> QED
    BY <1>1, <1>4, <1>5, <2>1 DEF CalmOK, CurrentOK
<1> QED
  BY <1>9, <1>10, <1>11 DEF CalmOK

(* Nobody cancels, fails or reconciles. *)
LEMMA NeverRegretted ==
    ASSUME StepInv, NoRegrets, NEW w \in Workers
    PROVE  ~Cancel(w) /\ ~CallbackUndone(w) /\ ~Fail(w) /\ ~Reconcile(w)
<1>1. ASSUME NEW place \in Regrets, At(w, place)
      PROVE  FALSE
  <2>1. stack[w] # <<>> /\ Doing(w).at \in Regrets
    BY <1>1 DEF At, Doing
  <2> QED
    BY <2>1, CalmBelow DEF StepInv, EdgeInv
<1> QED
  BY <1>1 DEF Cancel, CallbackUndone, Fail, Reconcile, Regrets

LEMMA CalmNext ==
    ASSUME StepInv, CalmOK, JobsOK, SoughtOK, Undisturbed, Next
    PROVE  CalmOK'
<1>1. ASSUME NEW w \in Workers, Proceed(w)
      PROVE  CalmOK'
  <2>1. ~Cancel(w) /\ ~CallbackUndone(w) /\ ~Fail(w) /\ ~Reconcile(w)
    BY NeverRegretted DEF CalmOK
  <2> QED
    BY <1>1, <2>1, JobCalm, SchedulingCalm, ScheduledCalm, TaskCalm, CompleteCalm, DoneCalm DEF Proceed
<1> QED
  BY <1>1, MainCalm DEF Next

-----------------------------------------------------------------------------
(* The holders whose task has not started.                                 *)

(* A status rises only by the task that has started. *)
LEMMA UnstartedStill ==
    ASSUME StepInv, StartedOK, CurrentOK, FailedIdle, Next,
           NEW c \in Chunks, task[c] # None, task'[c] = task[c], task[c] \notin started
    PROVE  status'[c] = status[c]
<1>1. task[c] \in Known /\ task[c].chunk = c
  BY DEF CurrentOK
<1>2. ASSUME NEW d \in Chunks, LoadHit(d)
      PROVE  status'[c] = status[c]
  <2>1. source[d] = "resolving" /\ status' = [status EXCEPT ![d] = Top]
    BY <1>2 DEF LoadHit, Loading
  <2>2. source[c] # "resolving"
    BY <1>1, KnownOK DEF StepInv, WorkInv
  <2> QED
    BY <2>1, <2>2 DEF StepInv, WorkInv, HoldersOK
<1>3. ASSUME NEW w \in Workers, Body(w)
      PROVE  status'[c] = status[c]
  <2>0. PICK t, d : t = Doing(w).task /\ d = t.chunk
    OBVIOUS
  <2>1. At(w, "body") /\ status' = [status EXCEPT ![d] = t.to]
    BY <1>3, <2>0 DEF Body
  <2>2. "body" \in TaskPlaces
    BY DEF TaskPlaces
  <2>3. Doing(w) \in Hands /\ Doing(w).at = "body" /\ t \in Open
    BY <2>0, <2>1, <2>2, InHand DEF StepInv, WorkInv
  <2>4. t \in started
    BY <2>0, <2>3 DEF StartedOK
  <2>5. task[d] = t \/ failed[d]
    BY <2>0, <2>3 DEF StepInv, WorkInv, OpensOK, OpenOK
  <2>6. c # d
    BY <2>4, <2>5 DEF FailedIdle
  <2> QED
    BY <2>1, <2>6 DEF StepInv, WorkInv, HoldersOK
<1>4. ASSUME NEW w \in Workers, Complete(w)
      PROVE  status'[c] = status[c]
  <2>0. PICK d, now : d = Doing(w).task.chunk /\ now = Max({status[d], Doing(w).task.to})
    OBVIOUS
  <2>1. status' = [status EXCEPT ![d] = now] /\ task' = [task EXCEPT ![d] = None]
    BY <1>4, <2>0 DEF Complete
  <2>2. c # d
    BY <2>1 DEF StepInv, WorkInv, HoldersOK
  <2> QED
    BY <2>1, <2>2 DEF StepInv, WorkInv, HoldersOK
<1>5. ASSUME NEW r \in Requests, RequestChunk(r)
      PROVE  status' = status
  BY <1>5 DEF RequestChunk
<1>6. ASSUME NEW d \in Chunks, SetTicket(d) \/ LoadMissing(d) \/ LoadUnreadable(d)
      PROVE  status' = status
  BY <1>6 DEF SetTicket, LoadMissing, LoadUnreadable
<1>7. ASSUME NEW w \in Workers, Proceed(w), ~Body(w), ~Complete(w)
      PROVE  status' = status
  <2>1. CASE \E d \in Chunks : ScheduleJob(w, d) \/ ReconcileJob(w, d) \/ NotifyStored(w, d)
    BY <2>1 DEF ScheduleJob, ReconcileJob, NotifyStored, holderVars
  <2>2. CASE Reschedule(w) \/ NothingToSchedule(w) \/ ResolveStorage(w) \/ StartScan(w)
    BY <2>2 DEF Reschedule, NothingToSchedule, ResolveStorage, StartScan, holderVars
  <2>3. CASE CheckNeighbour(w)
    BY <2>3, Zenon DEF CheckNeighbour, holderVars
  <2>4. CASE LoadEmpty(w) \/ Scanned(w) \/ TakeTask(w) \/ Execute(w) \/ Cancel(w)
    BY <2>4 DEF LoadEmpty, Scanned, TakeTask, Execute, Cancel, holderVars
  <2>5. CASE CallbackDone(w) \/ CallbackUndone(w) \/ Fail(w) \/ Reconcile(w)
    BY <2>5 DEF CallbackDone, CallbackUndone, Fail, Reconcile, holderVars
  <2> QED
    BY <1>7, <2>1, <2>2, <2>3, <2>4, <2>5 DEF Proceed
<1> QED
  BY <1>2, <1>3, <1>4, <1>5, <1>6, <1>7 DEF Next, Loaded

(* A task that a holder keeps was not forgotten. *)
LEMMA StartedKept ==
    ASSUME StepInv, CalmOK, Next, NEW c \in Chunks, task[c] # None, task[c] \in started
    PROVE  task[c] \in started'
<1>1. ASSUME NEW w \in Workers, CallbackDone(w)
      PROVE  task[c] \in started'
  <2>0. PICK t : t = Doing(w).task
    OBVIOUS
  <2>1. At(w, "done") /\ started' = started \ {t}
    BY <1>1, <2>0 DEF CallbackDone, Forget
  <2>2. "done" \in TaskPlaces
    BY DEF TaskPlaces
  <2>3. Doing(w) \in Hands /\ Doing(w).at = "done"
    BY <2>1, <2>2, InHand DEF StepInv, WorkInv
  <2>4. task[c] # t
    BY <2>0, <2>3 DEF CalmOK, CurrentOK
  <2> QED
    BY <2>1, <2>4
<1>2. ASSUME NEW r \in Requests, RequestChunk(r)
      PROVE  task[c] \in started'
  BY <1>2 DEF RequestChunk, taskVars
<1>3. ASSUME NEW d \in Chunks, SetTicket(d) \/ Loaded(d)
      PROVE  task[c] \in started'
  BY <1>3 DEF SetTicket, Loaded, LoadHit, LoadMissing, LoadUnreadable, taskVars
<1>4. ASSUME NEW w \in Workers, Proceed(w), ~CallbackDone(w)
      PROVE  task[c] \in started'
  <2>0. ~Cancel(w) /\ ~CallbackUndone(w) /\ ~Fail(w) /\ ~Reconcile(w)
    BY NeverRegretted DEF CalmOK
  <2>1. CASE \E d \in Chunks : ScheduleJob(w, d) \/ ReconcileJob(w, d) \/ NotifyStored(w, d)
    BY <2>1 DEF ScheduleJob, ReconcileJob, NotifyStored, taskVars
  <2>2. CASE Reschedule(w) \/ NothingToSchedule(w) \/ ResolveStorage(w) \/ StartScan(w)
    BY <2>2 DEF Reschedule, NothingToSchedule, ResolveStorage, StartScan, taskVars
  <2>3. CASE CheckNeighbour(w)
    BY <2>3, Zenon DEF CheckNeighbour, taskVars
  <2>4. CASE LoadEmpty(w) \/ Scanned(w)
    BY <2>4 DEF LoadEmpty, Scanned, Submit, taskVars
  <2>5. CASE TakeTask(w) \/ Execute(w) \/ Body(w) \/ Complete(w)
    BY <2>5 DEF TakeTask, Execute, Body, Complete, taskVars
  <2> QED
    BY <1>4, <2>0, <2>1, <2>2, <2>3, <2>4, <2>5 DEF Proceed
<1> QED
  BY <1>1, <1>2, <1>3, <1>4 DEF Next

(* A holder gets a task from schedule() only. *)
LEMMA FreshHolder ==
    ASSUME StepInv, NoRegrets, Next, NEW c \in Chunks, task'[c] # task[c], task'[c] # None
    PROVE  \E w \in Workers : (LoadEmpty(w) \/ Scanned(w)) /\ Doing(w).chunk = c
<1>1. ASSUME NEW r \in Requests, RequestChunk(r)
      PROVE  FALSE
  BY <1>1 DEF RequestChunk
<1>2. ASSUME NEW d \in Chunks, SetTicket(d) \/ LoadHit(d) \/ LoadMissing(d)
      PROVE  FALSE
  BY <1>2 DEF SetTicket, LoadHit, LoadMissing
<1>3. ASSUME NEW d \in Chunks, LoadUnreadable(d)
      PROVE  FALSE
  BY <1>3 DEF LoadUnreadable, Abandon, StepInv, WorkInv, HoldersOK
<1>4. PICK w \in Workers : Proceed(w)
  BY <1>1, <1>2, <1>3 DEF Next, Loaded
<1>5. ~Cancel(w) /\ ~CallbackUndone(w) /\ ~Fail(w) /\ ~Reconcile(w)
  BY NeverRegretted
<1>6. CASE \E d \in Chunks : ScheduleJob(w, d) \/ ReconcileJob(w, d) \/ NotifyStored(w, d)
  BY <1>6 DEF ScheduleJob, ReconcileJob, NotifyStored, holderVars
<1>7. CASE Reschedule(w) \/ NothingToSchedule(w) \/ ResolveStorage(w) \/ StartScan(w)
  BY <1>7 DEF Reschedule, NothingToSchedule, ResolveStorage, StartScan, holderVars
<1>8. CASE CheckNeighbour(w)
  <2>1. task' = task
    BY <1>8, Zenon DEF CheckNeighbour, holderVars
  <2> QED
    BY <2>1
<1>9. CASE TakeTask(w) \/ Execute(w) \/ Body(w) \/ CallbackDone(w)
  BY <1>9 DEF TakeTask, Execute, Body, CallbackDone, holderVars
<1>10. CASE Complete(w)
  BY <1>10 DEF Complete, StepInv, WorkInv, HoldersOK
<1>11. CASE LoadEmpty(w) \/ Scanned(w)
  <2>1. \E t : task' = [task EXCEPT ![Doing(w).chunk] = t]
    <3>1. task' = task \/ \E to : Submit(Doing(w).chunk, to)
      BY <1>11 DEF LoadEmpty, Scanned
    <3> QED
      BY <3>1 DEF Submit
  <2> QED
    BY <1>11, <2>1 DEF StepInv, WorkInv, HoldersOK
<1> QED
  BY <1>4, <1>5, <1>6, <1>7, <1>8, <1>9, <1>10, <1>11 DEF Proceed

(* schedule() does nothing for a chunk that nobody asks for. *)
LEMMA SchedulableSought ==
    ASSUME StepInv, NEW c \in Chunks, Schedulable(c)
    PROVE  Sought(c)
<1>1. status[c] \in Int /\ Target(c) \in Int
  BY TargetOK, StatusOrder, TopOK DEF StepInv, WorkInv, Heights
<1>2. ~(status[c] >= Target(c))
  BY DEF Schedulable, Reached
<1> QED
  BY <1>1, <1>2, SoughtTarget

LEMMA HolderSought ==
    ASSUME StepInv, CalmOK, JobsOK, SoughtOK, FailedIdle, Undisturbed, Next,
           NEW c \in Chunks, task'[c] # None, task'[c] \notin started'
    PROVE  Sought(c)'
<1>1. CASE task'[c] = task[c]
  <2>1. task[c] \notin started
    BY <1>1, StartedKept
  <2>2. status'[c] = status[c]
    BY <1>1, <2>1, UnstartedStill DEF CalmOK
  <2>3. Sought(c)
    BY <1>1, <2>1 DEF SoughtOK
  <2> QED
    BY <2>2, <2>3, SoughtNext DEF CalmOK
<1>2. CASE task'[c] # task[c]
  <2>1. PICK w \in Workers : (LoadEmpty(w) \/ Scanned(w)) /\ Doing(w).chunk = c
    BY <1>2, FreshHolder DEF CalmOK
  <2>2. UNCHANGED <<moves, asked, waiting, status>>
    BY <2>1 DEF LoadEmpty, Scanned, edgeVars
  <2>3. Sought(c)
    <3>1. CASE LoadEmpty(w)
      BY <2>1, <3>1, SchedulableSought DEF LoadEmpty
    <3>2. CASE Scanned(w)
      <4>1. stack[w] # <<>> /\ Doing(w).at = "scan"
        BY <3>2 DEF Scanned, At, Doing
      <4>2. Doing(w) \in Inside(stack[w])
        BY <4>1, PlainBelow DEF StepInv, EdgeInv
      <4> QED
        BY <2>1, <4>1, <4>2 DEF SoughtOK
    <3> QED
      BY <2>1, <3>1, <3>2
  <2> QED
    BY <2>2, <2>3, StillSought
<1> QED
  BY <1>1, <1>2

-----------------------------------------------------------------------------
(* The chunks being scanned.                                               *)

(* A scan was there before the step, or begins with it. *)
LEMMA ScanOrigin ==
    ASSUME StepInv, NoRegrets, Next, NEW v \in Workers, NEW f \in Inside(stack'[v]), f.at = "scan"
    PROVE  \/ \E g \in Inside(stack[v]) : g.at = "scan" /\ g.chunk = f.chunk /\ g.to = f.to
           \/ StartScan(v) /\ f.chunk = Doing(v).chunk
<1>1. ASSUME stack'[v] = stack[v] \/ Inside(stack'[v]) \subseteq Inside(stack[v])
      PROVE  \E g \in Inside(stack[v]) : g.at = "scan" /\ g.chunk = f.chunk /\ g.to = f.to
  BY <1>1
<1>2. ASSUME NEW r \in Requests, RequestChunk(r)
      PROVE  stack' = stack
  BY <1>2 DEF RequestChunk
<1>3. ASSUME NEW d \in Chunks, SetTicket(d) \/ Loaded(d)
      PROVE  stack' = stack
  BY <1>3 DEF SetTicket, Loaded, LoadHit, LoadMissing, LoadUnreadable
<1>4. ASSUME NEW w \in Workers, Proceed(w)
      PROVE  \/ stack'[v] = stack[v] \/ Inside(stack'[v]) \subseteq Inside(stack[v])
             \/ \E g \in Inside(stack[v]) : g.at = "scan" /\ g.chunk = f.chunk /\ g.to = f.to
             \/ StartScan(v) /\ f.chunk = Doing(v).chunk
  <2>0. ~Cancel(w) /\ ~CallbackUndone(w) /\ ~Fail(w) /\ ~Reconcile(w)
    BY NeverRegretted
  <2>1. ASSUME NEW frames, Become(w, frames), v # w
        PROVE  stack'[v] = stack[v]
    BY <2>1, BecomeStack DEF StepInv, EdgeInv
  <2>2. CASE \E d \in Chunks : ScheduleJob(w, d)
    <3>1. PICK d \in Chunks : ScheduleJob(w, d)
      BY <2>2
    <3>2. Become(w, <<Scheduling(d)>>)
      BY <3>1 DEF ScheduleJob
    <3>3. CASE v = w
      <4>1. stack'[v] = <<Scheduling(d)>>
        BY <3>2, <3>3, BecomeStack DEF StepInv, EdgeInv
      <4>2. f = Scheduling(d)
        BY <4>1, FewShape
      <4> QED
        BY <4>2 DEF Scheduling
    <3> QED
      BY <2>1, <3>2, <3>3
  <2>3. CASE \E d \in Chunks : NotifyStored(w, d) \/ ReconcileJob(w, d)
    BY <2>3, PlainJobShape DEF StepInv
  <2>4. CASE Reschedule(w)
    <3>1. \E frames : Become(w, frames)
      BY <2>4 DEF Reschedule
    <3>2. \A g \in Inside(stack'[w]) : g.at # "scan"
      BY <2>4, RescheduleShape DEF StepInv
    <3> QED
      BY <2>1, <3>1, <3>2
  <2>5. CASE NothingToSchedule(w) \/ ResolveStorage(w) \/ LoadEmpty(w) \/ Scanned(w)
    <3>1. Become(w, Below(w)) /\ (At(w, "schedule") \/ At(w, "scan"))
      BY <2>5 DEF NothingToSchedule, ResolveStorage, LoadEmpty, Scanned
    <3>2. Inside(stack'[w]) \subseteq Inside(stack[w])
      BY <3>1, ReturnShape DEF StepInv
    <3> QED
      BY <2>1, <3>1, <3>2
  <2>6. CASE StartScan(w)
    <3>0. PICK s : s = Scanning(Doing(w).chunk, status[Doing(w).chunk] + 1,
                                Reads(Doing(w).chunk, status[Doing(w).chunk] + 1), FALSE)
      OBVIOUS
    <3>1. \E frames : Become(w, frames)
      BY <2>6 DEF StartScan
    <3>2. Inside(stack'[w]) \subseteq {s} \cup Inside(stack[w])
      BY <2>6, <3>0, StartScanShape DEF StepInv, WorkInv
    <3>3. s.chunk = Doing(w).chunk
      BY <3>0 DEF Scanning
    <3> QED
      BY <2>1, <2>6, <3>1, <3>2, <3>3
  <2>7. CASE CheckNeighbour(w)
    <3>0. PICK g : g = Doing(w)
      OBVIOUS
    <3>1. \E frames : Become(w, frames)
      BY <2>7 DEF CheckNeighbour
    <3>2. PICK n, unready, s :
            /\ s = Scanning(g.chunk, g.to, g.left \ {n}, unready)
            /\ g.at = "scan" /\ g \in Inside(stack[w]) /\ Locking(stack[w])
            /\ \/ Inside(stack'[w]) = {s} \cup Inside(Below(w))
               \/ Inside(stack'[w]) = {Scheduling(n), s} \cup Inside(Below(w))
      BY <2>7, <3>0, CheckShape DEF StepInv
    <3>3. s.chunk = g.chunk /\ s.to = g.to /\ Scheduling(n).at = "schedule"
      BY <3>2 DEF Scanning, Scheduling
    <3>4. Inside(Below(w)) \subseteq Inside(stack[w])
      BY <3>2, PlainBelow DEF Locking, StepInv, EdgeInv
    <3> QED
      BY <2>1, <3>1, <3>2, <3>3, <3>4
  <2>8. CASE TakeTask(w) \/ Execute(w) \/ Body(w) \/ Complete(w)
    BY <2>8, TakeTaskShape, ExecuteShape, BodyShape, CompleteShape DEF StepInv
  <2>9. CASE CallbackDone(w)
    <3>1. At(w, "done") /\ Become(w, <<>>)
      BY <2>9 DEF CallbackDone
    <3>2. "done" \in TaskPlaces
      BY DEF TaskPlaces
    <3> QED
      BY <3>1, <3>2, DropShape DEF StepInv
  <2> QED
    BY <1>4, <2>0, <2>2, <2>3, <2>4, <2>5, <2>6, <2>7, <2>8, <2>9 DEF Proceed
<1> QED
  BY <1>1, <1>2, <1>3, <1>4 DEF Next

LEMMA ScanSought ==
    ASSUME StepInv, StepInv', CalmOK, JobsOK, SoughtOK, Undisturbed, Next,
           NEW v \in Workers, NEW f \in Inside(stack'[v]), f.at = "scan"
    PROVE  Sought(f.chunk)'
<1>0. PICK c : c = f.chunk
  OBVIOUS
<1>1. CASE \E g \in Inside(stack[v]) : g.at = "scan" /\ g.chunk = f.chunk /\ g.to = f.to
  <2>1. PICK g \in Inside(stack[v]) : g.at = "scan" /\ g.chunk = c /\ g.to = f.to
    BY <1>0, <1>1
  <2>2. c \in Chunks /\ status[c] = f.to - 1
    BY <2>1, ScanFrame DEF StepInv, ScanOK
  <2>3. status'[c] = f.to - 1
    BY <1>0 DEF StepInv, ScansOK, ScanOK
  <2>4. Sought(c)
    BY <2>1 DEF SoughtOK
  <2>5. Sought(c)'
    BY <2>2, <2>3, <2>4, SoughtNext DEF CalmOK
  <2> QED
    BY <1>0, <2>5
<1>2. CASE StartScan(v) /\ f.chunk = Doing(v).chunk
  <2>1. Schedulable(c) /\ At(v, "schedule") /\ UNCHANGED <<moves, asked, waiting, status>>
    BY <1>0, <1>2 DEF StartScan, holderVars, edgeVars
  <2>2. c \in Chunks
    BY <1>0, <1>2, <2>1, SchedulingFrame DEF StepInv, EdgeInv
  <2>3. Sought(c)'
    BY <2>1, <2>2, SchedulableSought, StillSought
  <2> QED
    BY <1>0, <2>3
<1> QED
  BY <1>1, <1>2, ScanOrigin DEF CalmOK

LEMMA SoughtOKNext ==
    ASSUME StepInv, StepInv', CalmOK, JobsOK, SoughtOK, FailedIdle, Undisturbed, Next
    PROVE  SoughtOK'
BY HolderSought, ScanSought DEF SoughtOK

-----------------------------------------------------------------------------
(* The counts.                                                             *)

LEMMA RiseBalance ==
    ASSUME StepInv, CalmOK, RefsShape, FailedIdle, Undisturbed, Next
    PROVE  Balanced /\ FailedIdle'
<1>1. ASSUME UNCHANGED <<task, failed, using>>
      PROVE  Balanced /\ FailedIdle'
  BY <1>1, SameReaders DEF FailedIdle
<1>2. ASSUME NEW r \in Requests, RequestChunk(r)
      PROVE  Balanced /\ FailedIdle'
  BY <1>1, <1>2 DEF RequestChunk, taskVars
<1>3. ASSUME NEW c \in Chunks, SetTicket(c) \/ Loaded(c)
      PROVE  Balanced /\ FailedIdle'
  <2>1. SetTicket(c) \/ LoadHit(c) \/ LoadMissing(c)
    BY <1>3 DEF Loaded, LoadUnreadable, Undisturbed
  <2> QED
    BY <1>1, <2>1 DEF SetTicket, LoadHit, LoadMissing, taskVars
<1>4. ASSUME NEW w \in Workers, Proceed(w)
      PROVE  Balanced /\ FailedIdle'
  <2>0. ~Cancel(w) /\ ~CallbackUndone(w) /\ ~Fail(w) /\ ~Reconcile(w)
    BY NeverRegretted DEF CalmOK
  <2>1. CASE \E c \in Chunks : ScheduleJob(w, c) \/ ReconcileJob(w, c) \/ NotifyStored(w, c)
    BY <1>1, <2>1 DEF ScheduleJob, ReconcileJob, NotifyStored, holderVars, taskVars
  <2>2. CASE Reschedule(w) \/ NothingToSchedule(w) \/ ResolveStorage(w) \/ StartScan(w)
    BY <1>1, <2>2 DEF Reschedule, NothingToSchedule, ResolveStorage, StartScan, holderVars, taskVars
  <2>3. CASE CheckNeighbour(w)
    <3>1. UNCHANGED <<task, failed, using>>
      BY <2>3, Zenon DEF CheckNeighbour, holderVars, taskVars
    <3> QED
      BY <1>1, <3>1
  <2>4. CASE TakeTask(w) \/ Execute(w) \/ Body(w) \/ CallbackDone(w)
    BY <1>1, <2>4 DEF TakeTask, Execute, Body, CallbackDone, Forget, holderVars, taskVars
  <2>5. CASE LoadEmpty(w) \/ Scanned(w) \/ Complete(w)
    BY <2>5, ScheduledRefs, CompleteRefs
  <2> QED
    BY <1>4, <2>0, <2>1, <2>2, <2>3, <2>4, <2>5 DEF Proceed
<1> QED
  BY <1>2, <1>3, <1>4 DEF Next

LEMMA RiseInit ==
    ASSUME Init
    PROVE  RiseInv
<1>1. StepInv /\ RefsShape /\ FailedIdle /\ \A n \in Chunks : Spare(n) = 0
  BY StepInit, RefsInit
<1>2. /\ cut = {} /\ (\A w \in Workers : stack[w] = <<>>) /\ (\A c \in Chunks : task[c] = None)
      /\ jobs = [j \in Jobs |-> jobs[j]] /\ \A j \in Jobs : jobs[j] = 0
  BY DEF Init
<1>3. ASSUME NEW c \in Chunks, NEW kind \in {"reconcile", "notify"}
      PROVE  jobs[<<kind, c>>] = 0
  <2>1. PICK job : job = <<kind, c>>
    OBVIOUS
  <2>2. job \in Jobs
    BY <2>1 DEF Jobs
  <2> QED
    BY <1>2, <2>1, <2>2
<1>4. \A w \in Workers : Inside(stack[w]) = {}
  BY <1>2 DEF Inside
<1>5. Hands = {}
  BY <1>4 DEF Hands, TaskFrames
<1>6. NoRegrets /\ JobsOK
  <2>1. \A j \in Jobs : jobs[j] \in Nat
    BY <1>2
  <2> QED
    BY <1>2, <1>3, <1>4, <2>1 DEF NoRegrets, JobsOK
<1>7. StartedOK /\ CurrentOK /\ SoughtOK
  BY <1>2, <1>4, <1>5 DEF StartedOK, CurrentOK, SoughtOK
<1> QED
  BY <1>1, <1>6, <1>7 DEF RiseInv

LEMMA RiseStays ==
    ASSUME RiseInv, UNCHANGED vars
    PROVE  RiseInv'
<1>1. UNCHANGED <<moves, asked, status, failed, task, waiting, using, tasks, cut, started, jobs, stack>>
  BY DEF vars, holderVars, edgeVars, taskVars
<1>2. StepInv'
  BY StepNext DEF RiseInv
<1>3. Hands' = Hands /\ Known' = Known
  BY <1>1 DEF Hands, Known
<1>4. NoRegrets' /\ JobsOK'
  BY <1>1 DEF RiseInv, NoRegrets, JobsOK
<1>5. StartedOK' /\ CurrentOK'
  BY <1>1, <1>3 DEF RiseInv, StartedOK, CurrentOK
<1>6. ASSUME NEW c \in Chunks, Sought(c)
      PROVE  Sought(c)'
  BY <1>1, <1>6, StillSought
<1>7. SoughtOK'
  <2>1. ASSUME NEW w \in Workers, NEW f \in Inside(stack[w]), f.at = "scan"
        PROVE  Sought(f.chunk)'
    <3>1. PICK c : c = f.chunk
      OBVIOUS
    <3>2. c \in Chunks
      BY <2>1, <3>1, ScanFrame DEF RiseInv, StepInv
    <3>3. Sought(c)
      BY <2>1, <3>1 DEF RiseInv, SoughtOK
    <3>4. Sought(c)'
      BY <1>6, <3>2, <3>3
    <3> QED
      BY <3>1, <3>4
  <2> QED
    BY <1>1, <1>6, <2>1 DEF RiseInv, SoughtOK
<1>8. Balanced
  BY <1>1, SameReaders DEF RiseInv
<1>9. FailedIdle'
  BY <1>1 DEF RiseInv, FailedIdle
<1> QED
  BY <1>2, <1>4, <1>5, <1>7, <1>8, <1>9 DEF RiseInv, Balanced

LEMMA RiseNext ==
    ASSUME Undisturbed, RiseInv, [Next]_vars
    PROVE  RiseInv'
<1>1. CASE UNCHANGED vars
  BY <1>1, RiseStays
<1>2. CASE Next
  <2>1. StepInv /\ StepInv' /\ CalmOK
    BY StepNext DEF RiseInv, CalmOK
  <2>2. JobsOK'
    BY <1>2, <2>1, JobsNext DEF RiseInv
  <2>3. CalmOK'
    BY <1>2, <2>1, CalmNext DEF RiseInv
  <2>4. SoughtOK'
    BY <1>2, <2>1, SoughtOKNext DEF RiseInv
  <2>5. Balanced /\ FailedIdle'
    BY <1>2, <2>1, RiseBalance DEF RiseInv
  <2> QED
    BY <2>1, <2>2, <2>3, <2>4, <2>5 DEF RiseInv, CalmOK, Balanced
<1> QED
  BY <1>1, <1>2

(* Where tickets only rise and storage can be read, a neighbour counts     *)
(* exactly one reference for every task that reads it (scheduleStatusStep, *)
(* onChunkGenComplete): nobody gives one back twice, and none is left over *)
(* that would keep the chunk in memory for ever.  In general only          *)
(* ReferencesSuffice holds: onChunkGenFailed drops a task and leaves its   *)
(* references behind.                                                      *)
THEOREM ReferencesStayExact ==
    ASSUME Undisturbed
    PROVE  Spec => []ReferencesExact
<1>1. Init => RiseInv
  BY RiseInit
<1>2. RiseInv /\ [Next]_vars => RiseInv'
  BY RiseNext
<1>3. RiseInv => ReferencesExact
  <2>1. ASSUME RiseInv, NEW n \in Chunks
        PROVE  using[n] = Cardinality(Readers(n))
    <3>1. using[n] \in Int /\ Cardinality(Readers(n)) \in Nat /\ Spare(n) = 0
      BY <2>1, SpareOK DEF RiseInv, RefsShape
    <3> QED
      BY <3>1 DEF Spare
  <2> QED
    BY <2>1 DEF ReferencesExact, Readers
<1> QED
  BY <1>1, <1>2, <1>3, PTL DEF Spec

-----------------------------------------------------------------------------
(***************************************************************************)
(* Nothing is forgotten.  A chunk that is owed more than it has is always  *)
(* one that somebody is about to schedule, that has a task or is being     *)
(* loaded, or that is held up by a neighbour: by an edge, or by one that   *)
(* failed (Awake).  An edge is there because the neighbour is not where    *)
(* the next step needs it, or those that wait for it are about to be       *)
(* woken (EdgesLive); and a request for what its chunk has is left behind  *)
(* only while a task is there whose end will serve it (Served).            *)
(***************************************************************************)

\* Somebody who may asks for more than the chunk has.
Owed(c) ==
    \/ Ticket(c) >= Border /\ Ticket(c) > status[c]
    \/ \E r \in Waiters(c) : Wanted[r].status > status[c]
    \/ \E m \in Chunks : waiting[c][m] > status[c]

\* A stack that has schedule() still to call for a chunk, or is in that call.
Expects(s, c) ==
    \E f \in Inside(s) : \/ f.at \in {"schedule", "scan"} /\ f.chunk = c
                         \/ f.at = "reschedule" /\ c \in f.left
Expected(c) == \E w \in Workers : Expects(stack[w], c)

Pending(c) ==
    \/ source[c] = "resolving" \/ task[c] # None
    \/ jobs[<<"schedule", c>>] # 0 \/ Expected(c)
HeldUp(c, s) == blocking[c] # {} \/ \E n \in Reads(c, s) : failed[n]

Awake ==
    \A c \in Chunks : ~failed[c] /\ Owed(c) =>
        Pending(c) \/ \E s \in Int : status[c] = s - 1 /\ HeldUp(c, s)
ScanHeld ==
    \A w \in Workers : \A f \in Inside(stack[w]) :
        f.at = "scan" /\ f.unready => HeldUp(f.chunk, f.to)

\* Those that wait for a complete chunk are about to be woken.
Publishes(f, n) == f.at = "complete" /\ f.task.chunk = n /\ f.task.to = Top
WakePending(n) == jobs[<<"notify", n>>] # 0 \/ \E f \in Hands : Publishes(f, n)
\* The edge says what the step to s needs and the neighbour has not.
Firm(c, n, s) ==
    /\ status[c] = s - 1 /\ n \in Reads(c, s)
    /\ waiting[n][c] = Need(s, c, n) /\ status[n] < waiting[n][c]
EdgesLive ==
    \A c \in Chunks : \A n \in blocking[c] : WakePending(n) \/ \E s \in 1 .. Top : Firm(c, n, s)
FailedFree ==
    \A n \in Chunks : failed[n] => blocking[n] = {} /\ \A c \in Chunks : n \notin blocking[c]

\* A holder's task is known until its worker has left it.
OwnerOK ==
    \A c \in Chunks : task[c] # None =>
        /\ task[c] \in Known /\ task[c].chunk = c
        /\ \A f \in Hands : f.task = task[c] => f.at # "done" /\ (f.at = "failing" => f.seen = f.task)

\* A loaded chunk has no task.
NotifyOK == \A c \in Chunks : jobs[<<"notify", c>>] # 0 => \A t \in Known : t.chunk # c
ReadyOK ==
    /\ \A c \in Chunks : source[c] = "ready" => Waiters(c) = {} /\ status[c] = Top
    /\ \A f \in Hands : f.at = "complete" /\ f.task.to = Top => source[f.task.chunk] = "ready"

\* A worker is about to fail the holder whose task is gone.
Leaves(f, c) == f.task.chunk = c /\ (f.at = "undone" \/ (f.at = "failing" /\ f.seen = None))
ServedOK(r, c) ==
    asked[r] = "waiting" /\ ~failed[c] /\ status[c] >= Wanted[r].status =>
        task[c] # None \/ \E f \in Hands : Leaves(f, c)
Served == \A r \in Requests : \A c \in Chunks : Wanted[r].chunk = c => ServedOK(r, c)

-----------------------------------------------------------------------------
(* The tasks in the hands of workers, from one state to the next.          *)

\* A worker goes on with the task it has.
Working(w) ==
    \/ Execute(w) \/ Body(w) \/ Complete(w) \/ Cancel(w)
    \/ CallbackDone(w) \/ CallbackUndone(w) \/ Fail(w)

(* Whoever else does something leaves them alone, or takes one. *)
LEMMA OtherHands ==
    ASSUME StepInv, Next
    PROVE  \/ Hands \subseteq Hands' /\ \A f \in Hands' : f \in Hands \/ f.at \in {"cancel", "execute"}
           \/ \E w \in Workers : Working(w)
<1>1. ASSUME Hands' = Hands
      PROVE  Hands \subseteq Hands' /\ \A f \in Hands' : f \in Hands \/ f.at \in {"cancel", "execute"}
  BY <1>1
<1>2. CASE UNCHANGED stack
  BY <1>1, <1>2, StillShape DEF StepInv
<1>3. ASSUME NEW w \in Workers, Proceed(w), ~Working(w)
      PROVE  Hands \subseteq Hands' /\ \A f \in Hands' : f \in Hands \/ f.at \in {"cancel", "execute"}
  <2>1. CASE \E c \in Chunks : ScheduleJob(w, c) \/ NotifyStored(w, c) \/ ReconcileJob(w, c)
    BY <1>1, <2>1, ScheduleJobShape, PlainJobShape DEF StepInv
  <2>2. CASE Reschedule(w) \/ StartScan(w) \/ Reconcile(w)
    BY <1>1, <2>2, RescheduleShape, StartScanShape, ReconcileShape DEF StepInv, WorkInv
  <2>3. CASE NothingToSchedule(w) \/ ResolveStorage(w) \/ LoadEmpty(w) \/ Scanned(w)
    <3>1. (At(w, "schedule") \/ At(w, "scan")) /\ Become(w, Below(w))
      BY <2>3 DEF NothingToSchedule, ResolveStorage, LoadEmpty, Scanned
    <3> QED
      BY <1>1, <3>1, ReturnShape DEF StepInv
  <2>4. CASE CheckNeighbour(w)
    <3>1. Hands' = Hands
      BY <2>4, CheckShape DEF StepInv
    <3> QED
      BY <1>1, <3>1
  <2>5. CASE TakeTask(w)
    <3>1. PICK k \in DOMAIN tasks, place \in {"cancel", "execute"} :
            Hands' = Hands \cup {ForTask(place, tasks[k])}
      BY <2>5, TakeTaskShape DEF StepInv
    <3> QED
      BY <3>1 DEF ForTask
  <2> QED
    BY <1>3, <2>1, <2>2, <2>3, <2>4, <2>5 DEF Proceed, Working
<1>4. CASE (\E r \in Requests : RequestChunk(r)) \/ \E c \in Chunks : SetTicket(c) \/ Loaded(c)
  BY <1>2, <1>4 DEF RequestChunk, SetTicket, Loaded, LoadHit, LoadMissing, LoadUnreadable
<1> QED
  BY <1>3, <1>4 DEF Next

(* The frame of a worker that goes on with its task is exchanged for another. *)
LEMMA WorkingHands ==
    ASSUME StepInv, NEW w \in Workers, Working(w)
    PROVE  /\ Doing(w) \in Hands
           /\ \E G : /\ Hands' = (Hands \ {Doing(w)}) \cup G
                     /\ \A g \in G : g.task = Doing(w).task
                     /\ Execute(w) => /\ Doing(w).at = "execute"
                                      /\ \A g \in G : \/ g.at \in {"undone", "body"}
                                                      \/ g.at = "complete" /\ g.task.to # Top
                     /\ Body(w) => Doing(w).at = "body" /\ G = {ForTask("complete", Doing(w).task)}
                     /\ Complete(w) => Doing(w).at = "complete" /\ G = {ForTask("done", Doing(w).task)}
                     /\ Cancel(w) => Doing(w).at = "cancel" /\ G = {ForTask("undone", Doing(w).task)}
                     /\ CallbackDone(w) => Doing(w).at = "done" /\ G = {}
                     /\ CallbackUndone(w) =>
                            /\ Doing(w).at = "undone"
                            /\ G = {Failing(Doing(w).task, task[Doing(w).task.chunk])}
                     /\ Fail(w) => Doing(w).at = "failing" /\ G = {}
<1> DEFINE f == Doing(w)
<1>1. ASSUME NEW place \in TaskPlaces, At(w, place)
      PROVE  f.at = place /\ f \in Hands
  BY <1>1, AtTask DEF StepInv, EdgeInv
<1>2. ASSUME Execute(w) PROVE At(w, "execute")
  BY <1>2 DEF Execute
<1>3. ASSUME Body(w) PROVE At(w, "body")
  BY <1>3 DEF Body
<1>4. ASSUME Complete(w) PROVE At(w, "complete")
  BY <1>4 DEF Complete
<1>5. ASSUME Cancel(w) PROVE At(w, "cancel")
  BY <1>5 DEF Cancel
<1>6. ASSUME CallbackDone(w) PROVE At(w, "done")
  BY <1>6 DEF CallbackDone
<1>7. ASSUME CallbackUndone(w) PROVE At(w, "undone")
  BY <1>7 DEF CallbackUndone
<1>8. ASSUME Fail(w) PROVE At(w, "failing")
  BY <1>8 DEF Fail
<1> DEFINE Is(place) == f.at = place /\ f \in Hands
<1>9. /\ (Execute(w) => Is("execute")) /\ (Body(w) => Is("body"))
      /\ (Complete(w) => Is("complete")) /\ (Cancel(w) => Is("cancel"))
      /\ (CallbackDone(w) => Is("done")) /\ (CallbackUndone(w) => Is("undone"))
      /\ (Fail(w) => Is("failing"))
  BY <1>1, <1>2, <1>3, <1>4, <1>5, <1>6, <1>7, <1>8 DEF TaskPlaces
<1> DEFINE Good(G) ==
        /\ Hands' = (Hands \ {f}) \cup G
        /\ \A g \in G : g.task = f.task
        /\ Execute(w) => \A g \in G : g.at \in {"undone", "body"} \/ (g.at = "complete" /\ g.task.to # Top)
        /\ Body(w) => G = {ForTask("complete", f.task)}
        /\ Complete(w) => G = {ForTask("done", f.task)}
        /\ Cancel(w) => G = {ForTask("undone", f.task)}
        /\ CallbackDone(w) => G = {}
        /\ CallbackUndone(w) => G = {Failing(f.task, task[f.task.chunk])}
        /\ Fail(w) => G = {}
<1>10. ASSUME Execute(w) PROVE \E G : Good(G)
  <2>1. PICK next \in {"undone", "body", "complete"} :
            /\ next # "undone" => (next = "body" <=> f.task.to \in {0, Top})
            /\ Hands' = (Hands \ {f}) \cup {ForTask(next, f.task)}
    BY <1>10, ExecuteShape DEF StepInv
  <2>2. Good({ForTask(next, f.task)})
    BY <1>9, <1>10, <2>1 DEF ForTask
  <2> QED
    BY <2>2
<1>11. ASSUME Body(w) PROVE \E G : Good(G)
  <2>1. Good({ForTask("complete", f.task)})
    BY <1>9, <1>11, BodyShape DEF ForTask, StepInv
  <2> QED
    BY <2>1
<1>12. ASSUME Complete(w) PROVE \E G : Good(G)
  <2>1. Good({ForTask("done", f.task)})
    BY <1>9, <1>12, CompleteShape DEF ForTask, StepInv
  <2> QED
    BY <2>1
<1>13. ASSUME Cancel(w) PROVE \E G : Good(G)
  <2>1. Good({ForTask("undone", f.task)})
    BY <1>9, <1>13, CancelShape DEF ForTask, StepInv
  <2> QED
    BY <2>1
<1>14. ASSUME CallbackDone(w) \/ Fail(w) PROVE \E G : Good(G)
  <2>1. PICK place \in {"done", "failing"} : At(w, place)
    BY <1>6, <1>8, <1>14
  <2>2. Become(w, <<>>)
    BY <1>14 DEF CallbackDone, Fail
  <2>3. Hands' = Hands \ {f}
    BY <2>1, <2>2, DropShape DEF StepInv, TaskPlaces
  <2>4. Good({})
    BY <1>9, <1>14, <2>3
  <2> QED
    BY <2>4
<1>15. ASSUME CallbackUndone(w) PROVE \E G : Good(G)
  <2> DEFINE g == Failing(f.task, task[f.task.chunk])
  <2>1. At(w, "undone") /\ Become(w, <<g>>)
    BY <1>15 DEF CallbackUndone
  <2>2. f.task \in Held(w) /\ f.task.chunk \in Chunks
    BY <2>1, DoingTask DEF StepInv, EdgeInv, TaskPlaces
  <2>3. FrameOK(g, Held(w)) /\ g.at \in TaskPlaces /\ g.task = f.task
    BY <2>2 DEF FrameOK, Failing, TaskPlaces
  <2> HIDE DEF g
  <2>4. Hands' = (Hands \ {f}) \cup {g}
    BY <2>1, <2>3, TaskGoesOn DEF StepInv, TaskPlaces
  <2>5. Good({g})
    BY <1>9, <1>15, <2>3, <2>4 DEF g
  <2> QED
    BY <2>5
<1>16. PICK G : Good(G)
  BY <1>10, <1>11, <1>12, <1>13, <1>14, <1>15 DEF Working
<1>17. f \in Hands
  BY <1>9 DEF Working
<1> QED
  BY <1>9, <1>16, <1>17

(* It stays until its worker takes the next step ... *)
LEMMA HandStays ==
    ASSUME StepInv, Next, NEW f \in Hands
    PROVE  f \in Hands' \/ \E w \in Workers : Working(w) /\ Doing(w) = f
<1>1. CASE \E w \in Workers : Working(w)
  <2>1. PICK w \in Workers : Working(w)
    BY <1>1
  <2>2. \E G : Hands' = (Hands \ {Doing(w)}) \cup G
    BY <2>1, WorkingHands
  <2> QED
    BY <2>1, <2>2
<1> QED
  BY <1>1, OtherHands

(* ... and this is where a frame comes from. *)
LEMMA HandStarts ==
    ASSUME StepInv, Next, NEW f \in Hands'
    PROVE  \/ f \in Hands \/ f.at \in {"cancel", "execute", "undone", "body"}
           \/ \E w \in Workers :
                /\ f.task = Doing(w).task /\ Doing(w) \in Hands
                /\ \/ f.at = "complete" /\ (Body(w) \/ f.task.to # Top)
                   \/ f.at = "done" /\ Complete(w)
                   \/ f = Failing(Doing(w).task, task[Doing(w).task.chunk]) /\ CallbackUndone(w)
<1>1. CASE \E w \in Workers : Working(w)
  <2>1. PICK w \in Workers : Working(w)
    BY <1>1
  <2>2. PICK G : /\ Hands' = (Hands \ {Doing(w)}) \cup G
                 /\ \A g \in G : g.task = Doing(w).task
                 /\ Execute(w) => \A g \in G : \/ g.at \in {"undone", "body"}
                                               \/ g.at = "complete" /\ g.task.to # Top
                 /\ Body(w) => G = {ForTask("complete", Doing(w).task)}
                 /\ Complete(w) => G = {ForTask("done", Doing(w).task)}
                 /\ Cancel(w) => G = {ForTask("undone", Doing(w).task)}
                 /\ CallbackDone(w) => G = {}
                 /\ CallbackUndone(w) => G = {Failing(Doing(w).task, task[Doing(w).task.chunk])}
                 /\ Fail(w) => G = {}
    BY <2>1, WorkingHands
  <2>3. Doing(w) \in Hands
    BY <2>1, WorkingHands
  <2>4. CASE f \in G
    <3>1. f.task = Doing(w).task
      BY <2>2, <2>4
    <3>2. CASE Execute(w)
      BY <2>2, <2>3, <2>4, <3>1, <3>2
    <3>3. CASE Body(w)
      BY <2>2, <2>3, <2>4, <3>1, <3>3 DEF ForTask
    <3>4. CASE Complete(w)
      BY <2>2, <2>3, <2>4, <3>1, <3>4 DEF ForTask
    <3>5. CASE Cancel(w)
      BY <2>2, <2>4, <3>5 DEF ForTask
    <3>6. CASE CallbackUndone(w)
      BY <2>2, <2>3, <2>4, <3>1, <3>6
    <3>7. CASE CallbackDone(w) \/ Fail(w)
      BY <2>2, <2>4, <3>7
    <3> QED
      BY <2>1, <3>2, <3>3, <3>4, <3>5, <3>6, <3>7 DEF Working
  <2> QED
    BY <2>2, <2>4
<1> QED
  BY <1>1, OtherHands

-----------------------------------------------------------------------------
(* What changes what.                                                      *)

LEMMA Touched ==
    ASSUME Next
    PROVE  /\ \/ UNCHANGED moves
              \/ \E c \in Chunks : SetTicket(c)
           /\ \/ UNCHANGED asked
              \/ \E r \in Requests : RequestChunk(r)
              \/ \E c \in Chunks : SetTicket(c) \/ LoadHit(c) \/ LoadUnreadable(c)
              \/ \E w \in Workers : Body(w) \/ Complete(w) \/ Fail(w)
           /\ \/ UNCHANGED status
              \/ \E c \in Chunks : LoadHit(c)
              \/ \E w \in Workers : Body(w) \/ Complete(w)
           /\ \/ UNCHANGED source
              \/ \E r \in Requests : RequestChunk(r)
              \/ \E c \in Chunks : SetTicket(c) \/ LoadHit(c) \/ LoadMissing(c)
              \/ \E w \in Workers : ResolveStorage(w) \/ Body(w)
           /\ \/ UNCHANGED failed
              \/ \E c \in Chunks : LoadUnreadable(c)
              \/ \E w \in Workers : Fail(w)
           /\ \/ UNCHANGED task
              \/ \E c \in Chunks : LoadUnreadable(c)
              \/ \E w \in Workers : LoadEmpty(w) \/ Scanned(w) \/ Complete(w) \/ Cancel(w) \/ Fail(w)
           /\ \/ UNCHANGED <<blocking, waiting>>
              \/ \E c \in Chunks : LoadUnreadable(c)
              \/ \E w \in Workers, c \in Chunks : NotifyStored(w, c)
              \/ \E w \in Workers : CheckNeighbour(w) \/ Complete(w) \/ Fail(w) \/ Reconcile(w)
           /\ \/ UNCHANGED jobs
              \/ \E r \in Requests : RequestChunk(r)
              \/ \E c \in Chunks : SetTicket(c) \/ LoadHit(c) \/ LoadMissing(c)
              \/ \E w \in Workers, c \in Chunks :
                    ScheduleJob(w, c) \/ NotifyStored(w, c) \/ ReconcileJob(w, c)
           /\ \/ UNCHANGED tasks
              \/ \E w \in Workers : LoadEmpty(w) \/ Scanned(w) \/ CallbackDone(w) \/ Fail(w)
<1>1. CASE \E r \in Requests : RequestChunk(r)
  BY <1>1 DEF RequestChunk, edgeVars, taskVars
<1>2. CASE \E c \in Chunks : SetTicket(c)
  BY <1>2 DEF SetTicket, edgeVars
<1>3. CASE \E c \in Chunks : LoadHit(c)
  BY <1>3 DEF LoadHit, edgeVars, taskVars
<1>4. CASE \E c \in Chunks : LoadMissing(c)
  BY <1>4 DEF LoadMissing, edgeVars, taskVars
<1>5. CASE \E c \in Chunks : LoadUnreadable(c)
  BY <1>5 DEF LoadUnreadable, taskVars
<1>6. ASSUME NEW w \in Workers, \E c \in Chunks : ScheduleJob(w, c)
      PROVE  UNCHANGED <<moves, asked, status, source, failed, task, blocking, waiting, tasks>>
  BY <1>6 DEF ScheduleJob, holderVars, edgeVars, taskVars
<1>7. ASSUME NEW w \in Workers, \E c \in Chunks : NotifyStored(w, c)
      PROVE  UNCHANGED <<moves, asked, status, source, failed, task, tasks>>
  BY <1>7 DEF NotifyStored, holderVars, taskVars
<1>8. ASSUME NEW w \in Workers, \E c \in Chunks : ReconcileJob(w, c)
      PROVE  UNCHANGED <<moves, asked, status, source, failed, task, blocking, waiting, tasks>>
  BY <1>8 DEF ReconcileJob, holderVars, edgeVars, taskVars
<1>9. ASSUME NEW w \in Workers, Reschedule(w) \/ NothingToSchedule(w) \/ StartScan(w) \/ TakeTask(w)
      PROVE  UNCHANGED <<moves, asked, status, source, failed, task, blocking, waiting, jobs, tasks>>
  BY <1>9 DEF Reschedule, NothingToSchedule, StartScan, TakeTask, holderVars, edgeVars, taskVars
<1>10. ASSUME NEW w \in Workers, Execute(w) \/ CallbackUndone(w)
       PROVE  UNCHANGED <<moves, asked, status, source, failed, task, blocking, waiting, jobs, tasks>>
  BY <1>10 DEF Execute, CallbackUndone, holderVars, edgeVars, taskVars
<1>11. ASSUME NEW w \in Workers, ResolveStorage(w)
       PROVE  UNCHANGED <<moves, asked, status, failed, task, blocking, waiting, jobs, tasks>>
  BY <1>11 DEF ResolveStorage, edgeVars, taskVars
<1>12. ASSUME NEW w \in Workers, LoadEmpty(w) \/ Scanned(w)
       PROVE  UNCHANGED <<moves, asked, status, source, failed, blocking, waiting, jobs>>
  BY <1>12 DEF LoadEmpty, Scanned, edgeVars
<1>13. ASSUME NEW w \in Workers, CheckNeighbour(w)
       PROVE  UNCHANGED <<moves, asked, status, source, failed, task, jobs, tasks>>
  BY <1>13, Zenon DEF CheckNeighbour, holderVars, taskVars
<1>14. ASSUME NEW w \in Workers, Body(w)
       PROVE  UNCHANGED <<moves, failed, task, blocking, waiting, jobs, tasks>>
  BY <1>14 DEF Body, edgeVars, taskVars
<1>15. ASSUME NEW w \in Workers, Complete(w)
       PROVE  UNCHANGED <<moves, source, failed, jobs, tasks>>
  BY <1>15 DEF Complete
<1>16. ASSUME NEW w \in Workers, Cancel(w)
       PROVE  UNCHANGED <<moves, asked, status, source, failed, blocking, waiting, jobs, tasks>>
  BY <1>16 DEF Cancel, edgeVars
<1>17. ASSUME NEW w \in Workers, CallbackDone(w)
       PROVE  UNCHANGED <<moves, asked, status, source, failed, task, blocking, waiting, jobs>>
  BY <1>17 DEF CallbackDone, holderVars, edgeVars
<1>18. ASSUME NEW w \in Workers, Fail(w)
       PROVE  UNCHANGED <<moves, status, source, jobs>>
  BY <1>18 DEF Fail
<1>19. ASSUME NEW w \in Workers, Reconcile(w)
       PROVE  UNCHANGED <<moves, asked, status, source, failed, task, jobs, tasks>>
  BY <1>19 DEF Reconcile, holderVars
<1>20. CASE \E w \in Workers, c \in Chunks : ScheduleJob(w, c)
  BY <1>6, <1>20
<1>21. CASE \E w \in Workers, c \in Chunks : NotifyStored(w, c)
  BY <1>7, <1>21
<1>22. CASE \E w \in Workers, c \in Chunks : ReconcileJob(w, c)
  BY <1>8, <1>22
<1>23. CASE \E w \in Workers : \/ Reschedule(w) \/ NothingToSchedule(w) \/ StartScan(w) \/ TakeTask(w)
                               \/ Execute(w) \/ CallbackUndone(w)
  BY <1>9, <1>10, <1>23
<1>24. CASE \E w \in Workers : ResolveStorage(w)
  BY <1>11, <1>24
<1>25. CASE \E w \in Workers : LoadEmpty(w) \/ Scanned(w)
  BY <1>12, <1>25
<1>26. CASE \E w \in Workers : CheckNeighbour(w)
  BY <1>13, <1>26
<1>27. CASE \E w \in Workers : Body(w)
  BY <1>14, <1>27
<1>28. CASE \E w \in Workers : Complete(w)
  BY <1>15, <1>28
<1>29. CASE \E w \in Workers : Cancel(w)
  BY <1>16, <1>29
<1>30. CASE \E w \in Workers : CallbackDone(w)
  BY <1>17, <1>30
<1>31. CASE \E w \in Workers : Fail(w)
  BY <1>18, <1>31
<1>32. CASE \E w \in Workers : Reconcile(w)
  BY <1>19, <1>32
<1>33. CASE \E w \in Workers : Proceed(w)
  <2>1. PICK w \in Workers : Proceed(w)
    BY <1>33
  <2> QED
    BY <2>1, <1>20, <1>21, <1>22, <1>23, <1>24, <1>25, <1>26, <1>27, <1>28, <1>29, <1>30, <1>31, <1>32
       DEF Proceed
<1>34. CASE \E c \in Chunks : SetTicket(c) \/ Loaded(c)
  BY <1>2, <1>3, <1>4, <1>5, <1>34 DEF Loaded
<1> QED
  BY <1>1, <1>33, <1>34 DEF Next

\* A chunk fails; a chunk is woken by one that is complete; a scan links two chunks; a chunk
\* that nobody wants drops its edges.
Fails(n) == LoadUnreadable(n) \/ \E w \in Workers : Fail(w) /\ Doing(w).task.chunk = n
Wakes(n, level) ==
    \/ level = Top /\ \E w \in Workers : NotifyStored(w, n)
    \/ \E w \in Workers : /\ Complete(w) /\ task[n] # None
                          /\ Doing(w).task.chunk = n /\ Doing(w).task.to = level
Links(c, n, s) ==
    /\ s \in 1 .. Top /\ status[c] = s - 1 /\ ~failed[c] /\ task[c] = None
    /\ n \in Reads(c, s) /\ status[n] < Need(s, c, n) /\ ~failed[n]
    /\ blocking' = [blocking EXCEPT ![c] = @ \cup {n}]
    /\ waiting' = [waiting EXCEPT ![n][c] = Need(s, c, n)]
    /\ UNCHANGED <<moves, asked, holderVars>>
    /\ task[n] # None \/ Expected(n)'
Drops(c) ==
    /\ task[c] = None /\ Reached(c) /\ ~Locked
    /\ waiting' = [n \in Chunks |-> IF n \in blocking[c] THEN [waiting[n] EXCEPT ![c] = -1] ELSE waiting[n]]
    /\ blocking' = [blocking EXCEPT ![c] = {}]

(* What a stack schedules, more on top of it schedules as well. *)
LEMMA ExpectsMore ==
    ASSUME NEW s, NEW H, FramesOK(s, H), NEW f, NEW c
    PROVE  /\ Expects(s, c) => Expects(<<f>> \o s, c)
           /\ f.at \in {"schedule", "scan"} /\ f.chunk = c => Expects(<<f>> \o s, c)
           /\ f.at = "reschedule" /\ c \in f.left => Expects(<<f>> \o s, c)
BY OnTop DEF Expects

LEMMA ThroughExpects ==
    ASSUME NEW place \in {"reschedule", "reconcile"}, NEW left, NEW below, NEW H, FramesOK(below, H), NEW c
    PROVE  /\ Expects(below, c) => Expects(Through(place, left, below), c)
           /\ place = "reschedule" /\ c \in left => Expects(Through(place, left, below), c)
<1> DEFINE f == [at |-> place, left |-> left]
<1>1. CASE left = {}
  BY <1>1 DEF Through
<1>2. CASE left # {}
  <2>1. Through(place, left, below) = <<f>> \o below /\ f.at = place /\ f.left = left
    BY <1>2 DEF Through
  <2> HIDE DEF f
  <2> QED
    BY <2>1, ExpectsMore
<1> QED
  BY <1>1, <1>2

(* What a worker looks at, and what it leaves to do. *)
LEMMA CheckEdges ==
    ASSUME StepInv, NEW w \in Workers, CheckNeighbour(w)
    PROVE  /\ Doing(w).at = "scan" /\ Doing(w).chunk \in Chunks /\ Doing(w) \in Inside(stack[w])
           /\ FramesOK(Below(w), Held(w)) /\ ScanOK(Doing(w))
           /\ \E n \in Doing(w).left : \E unready :
                LET f == Doing(w)
                    later == <<Scanning(f.chunk, f.to, f.left \ {n}, unready)>> \o Below(w)
                IN  \/ /\ UNCHANGED edgeVars /\ Become(w, later)
                       /\ unready = f.unready \/ (failed[n] /\ n \in Reads(f.chunk, f.to))
                    \/ /\ Links(f.chunk, n, f.to)
                       /\ \/ Become(w, later) /\ task[n] # None
                          \/ Become(w, <<Scheduling(n)>> \o later)
<1> DEFINE f == Doing(w)
           c == f.chunk
           later(n, unready) == <<Scanning(c, f.to, f.left \ {n}, unready)>> \o Below(w)
<1>1. At(w, "scan")
  BY DEF CheckNeighbour
<1>2. f.at = "scan" /\ stack[w] # <<>>
  BY <1>1 DEF At, Doing
<1>3. f \in Inside(stack[w])
  BY <1>2, PlainBelow DEF StepInv, EdgeInv
<1>4. c \in Chunks /\ f.left \subseteq Reads(c, f.to) /\ ScanOK(f)
  BY <1>2, <1>3, ScanFrame DEF StepInv
<1>5. FramesOK(Below(w), Held(w))
  BY <1>1, ScanningFrame DEF StepInv, EdgeInv
<1>6. PICK n, need :
        /\ n \in f.left /\ need = Required[f.to][c, n]
        /\ \/ /\ Become(w, later(n, f.unready)) /\ UNCHANGED edgeVars
           \/ /\ failed[n] /\ Become(w, later(n, TRUE)) /\ UNCHANGED edgeVars
           \/ /\ status[n] < need /\ ~failed[n]
              /\ blocking' = [blocking EXCEPT ![c] = @ \cup {n}]
              /\ waiting' = [waiting EXCEPT ![n][c] = need]
              /\ Become(w, IF task[n] # None THEN later(n, TRUE) ELSE <<Scheduling(n)>> \o later(n, TRUE))
  BY Zenon DEF CheckNeighbour
<1>7. need = Need(f.to, c, n)
  BY <1>6, Zenon DEF Need
<1>8. n \in f.left /\ n \in Reads(c, f.to)
  BY <1>4, <1>6, Zenon
<1>12. UNCHANGED <<moves, asked, holderVars>>
  BY Zenon DEF CheckNeighbour
<1> HIDE DEF later
<1>9. CASE Become(w, later(n, f.unready)) /\ UNCHANGED edgeVars
  BY <1>2, <1>3, <1>4, <1>5, <1>8, <1>9, Zenon DEF later
<1>10. CASE failed[n] /\ Become(w, later(n, TRUE)) /\ UNCHANGED edgeVars
  BY <1>2, <1>3, <1>4, <1>5, <1>8, <1>10, Zenon DEF later
<1>11. CASE /\ status[n] < need /\ ~failed[n]
            /\ blocking' = [blocking EXCEPT ![c] = @ \cup {n}]
            /\ waiting' = [waiting EXCEPT ![n][c] = need]
            /\ Become(w, IF task[n] # None THEN later(n, TRUE) ELSE <<Scheduling(n)>> \o later(n, TRUE))
  <2>1. \/ Become(w, later(n, TRUE)) /\ task[n] # None
        \/ Become(w, <<Scheduling(n)>> \o later(n, TRUE))
    BY <1>11
  <2>2. ASSUME Become(w, <<Scheduling(n)>> \o later(n, TRUE))
        PROVE  Expected(n)'
    <3>1. FramesOK(later(n, TRUE), Held(w))
      <4>1. f.left \ {n} \subseteq Reads(c, f.to)
        BY <1>4
      <4> QED
        BY <1>4, <1>5, <4>1, ScanningOK DEF later
    <3>2. Expects(<<Scheduling(n)>> \o later(n, TRUE), n)
      BY <3>1, ExpectsMore DEF Scheduling
    <3>3. stack'[w] = <<Scheduling(n)>> \o later(n, TRUE)
      BY <2>2, BecomeStack DEF StepInv, EdgeInv
    <3> QED
      BY <3>2, <3>3 DEF Expected
  <2>3. Links(c, n, f.to)
    <3>1. f.to \in 1 .. Top /\ status[c] = f.to - 1 /\ ~failed[c] /\ task[c] = None
      BY <1>4 DEF ScanOK
    <3> QED
      BY <1>7, <1>8, <1>11, <1>12, <2>1, <2>2, <3>1, Zenon DEF Links
  <2> QED
    BY <1>2, <1>3, <1>4, <1>5, <1>8, <2>3, <2>1, Zenon DEF later
<1> QED
  BY <1>6, <1>9, <1>10, <1>11, Zenon

LEMMA EdgesNext ==
    ASSUME StepInv, Next
    PROVE  \/ UNCHANGED <<blocking, waiting>>
           \/ \E n \in Chunks : Abandon(n) /\ Fails(n)
           \/ \E c, n \in Chunks : \E s : Links(c, n, s)
           \/ \E n \in Chunks : \E level : Unblock(n, Freed(n, level)) /\ Wakes(n, level)
           \/ \E c \in Chunks : Drops(c)
<1>1. ASSUME NEW c \in Chunks, LoadUnreadable(c)
      PROVE  Abandon(c) /\ Fails(c)
  BY <1>1 DEF LoadUnreadable, Fails
<1>2. ASSUME NEW w \in Workers, NEW c \in Chunks, NotifyStored(w, c)
      PROVE  Unblock(c, Freed(c, Top)) /\ Wakes(c, Top)
  BY <1>2 DEF NotifyStored, Wakes
<1>3. ASSUME NEW w \in Workers, CheckNeighbour(w)
      PROVE  UNCHANGED <<blocking, waiting>> \/ \E c, n \in Chunks : \E s : Links(c, n, s)
  <2>1. PICK f : f = Doing(w)
    OBVIOUS
  <2>2. f.chunk \in Chunks /\ \E n : UNCHANGED edgeVars \/ Links(f.chunk, n, f.to)
    BY <1>3, <2>1, CheckEdges, Zenon
  <2>3. \A n : Links(f.chunk, n, f.to) => n \in Chunks
    BY DEF Links, Reads
  <2> QED
    BY <2>2, <2>3 DEF edgeVars
<1>4. ASSUME NEW w \in Workers, Complete(w)
      PROVE  \/ UNCHANGED <<blocking, waiting>>
             \/ \E n \in Chunks : \E level : Unblock(n, Freed(n, level)) /\ Wakes(n, level)
  <2>1. PICK t, c : t = Doing(w).task /\ c = t.chunk
    OBVIOUS
  <2>2. At(w, "complete") /\ (UNCHANGED edgeVars \/ (task[c] # None /\ Unblock(c, Freed(c, t.to))))
    BY <1>4, <2>1 DEF Complete
  <2>3. c \in Chunks
    BY <2>1, <2>2, AtTask DEF StepInv, EdgeInv, TaskPlaces
  <2> QED
    BY <1>4, <2>1, <2>2, <2>3 DEF Wakes, edgeVars
<1>5. ASSUME NEW w \in Workers, Fail(w)
      PROVE  UNCHANGED <<blocking, waiting>> \/ \E n \in Chunks : Abandon(n) /\ Fails(n)
  <2>1. At(w, "failing") /\ (UNCHANGED edgeVars \/ Abandon(Doing(w).task.chunk))
    BY <1>5 DEF Fail
  <2>2. Doing(w).task.chunk \in Chunks
    BY <2>1, AtTask DEF StepInv, EdgeInv, TaskPlaces
  <2> QED
    BY <1>5, <2>1, <2>2 DEF Fails, edgeVars
<1>6. ASSUME NEW w \in Workers, Reconcile(w)
      PROVE  UNCHANGED <<blocking, waiting>> \/ \E c \in Chunks : Drops(c)
  <2>1. At(w, "reconcile") /\ \E c \in Doing(w).left : UNCHANGED edgeVars \/ Drops(c)
    BY <1>6 DEF Reconcile, Drops
  <2>2. Doing(w).left \subseteq Chunks
    BY <2>1, LeftFrame DEF StepInv, EdgeInv
  <2> QED
    BY <2>1, <2>2 DEF edgeVars
<1> QED
  BY <1>1, <1>2, <1>3, <1>4, <1>5, <1>6, Touched

(* Who fails, fails for good. *)
LEMMA FailedNext ==
    ASSUME StepInv, Next, NEW c \in Chunks
    PROVE  /\ failed[c] => failed'[c]
           /\ failed'[c] => failed[c] \/ (Abandon(c) /\ Fails(c))
           /\ UNCHANGED failed \/ \E n \in Chunks : Abandon(n) /\ Fails(n)
<1>1. ASSUME NEW d \in Chunks, LoadUnreadable(d)
      PROVE  \E n \in Chunks : Abandon(n) /\ Fails(n)
  BY <1>1 DEF LoadUnreadable, Fails
<1>2. ASSUME NEW w \in Workers, Fail(w)
      PROVE  UNCHANGED failed \/ \E n \in Chunks : Abandon(n) /\ Fails(n)
  <2>1. At(w, "failing") /\ (UNCHANGED failed \/ Abandon(Doing(w).task.chunk))
    BY <1>2 DEF Fail
  <2>2. Doing(w).task.chunk \in Chunks
    BY <2>1, AtTask DEF StepInv, EdgeInv, TaskPlaces
  <2> QED
    BY <1>2, <2>1, <2>2 DEF Fails
<1>3. UNCHANGED failed \/ \E n \in Chunks : Abandon(n) /\ Fails(n)
  BY <1>1, <1>2, Touched
<1>4. ASSUME NEW n \in Chunks, Abandon(n), Fails(n)
      PROVE  (failed[c] => failed'[c]) /\ (failed'[c] => failed[c] \/ c = n)
  BY <1>4 DEF Abandon, StepInv, WorkInv, HoldersOK
<1> QED
  BY <1>3, <1>4

(* A chunk rises when it is loaded, and by the end of a task. *)
LEMMA StatusNext ==
    ASSUME StepInv, Next, NEW c \in Chunks, status'[c] # status[c]
    PROVE  \/ LoadHit(c)
           \/ \E w \in Workers : (Body(w) \/ Complete(w)) /\ Doing(w).task.chunk = c
<1>1. ASSUME NEW d \in Chunks, LoadHit(d)
      PROVE  c = d
  BY <1>1 DEF LoadHit, StepInv, WorkInv, HoldersOK
<1>2. ASSUME NEW w \in Workers, Body(w) \/ Complete(w)
      PROVE  Doing(w).task.chunk = c
  <2>1. \E d, to : d = Doing(w).task.chunk /\ status' = [status EXCEPT ![d] = to]
    BY <1>2 DEF Body, Complete
  <2> QED
    BY <2>1 DEF StepInv, WorkInv, HoldersOK
<1> QED
  BY <1>1, <1>2, Touched

LEMMA SourceNext ==
    ASSUME StepInv, Next, NEW c \in Chunks, source'[c] # source[c]
    PROVE  \/ source[c] = "unknown" /\ source'[c] = "resolving"
           \/ LoadMissing(c) \/ LoadHit(c)
           \/ \E w \in Workers : Body(w) /\ Doing(w).task.chunk = c /\ Doing(w).task.to = Top
<1>1. ASSUME NEW d, source' = source \/ (source[d] = "unknown" /\ source' = [source EXCEPT ![d] = "resolving"])
      PROVE  source[c] = "unknown" /\ source'[c] = "resolving"
  BY <1>1 DEF StepInv, WorkInv, HoldersOK
<1>2. ASSUME NEW r \in Requests, RequestChunk(r)
      PROVE  source[c] = "unknown" /\ source'[c] = "resolving"
  <2>1. PICK d : d = Wanted[r].chunk
    OBVIOUS
  <2>2. source' = source \/ (source[d] = "unknown" /\ source' = [source EXCEPT ![d] = "resolving"])
    BY <1>2, <2>1 DEF RequestChunk, Advance
  <2> QED
    BY <1>1, <2>2
<1>3. ASSUME NEW d \in Chunks, SetTicket(d)
      PROVE  source[c] = "unknown" /\ source'[c] = "resolving"
  <2>1. source' = source \/ (source[d] = "unknown" /\ source' = [source EXCEPT ![d] = "resolving"])
    BY <1>3 DEF SetTicket, Advance
  <2> QED
    BY <1>1, <2>1
<1>4. ASSUME NEW w \in Workers, ResolveStorage(w)
      PROVE  source[c] = "unknown" /\ source'[c] = "resolving"
  BY <1>1, <1>4 DEF ResolveStorage
<1>5. ASSUME NEW d \in Chunks, LoadHit(d) \/ LoadMissing(d)
      PROVE  d = c
  BY <1>5 DEF LoadHit, LoadMissing, StepInv, WorkInv, HoldersOK
<1>6. ASSUME NEW w \in Workers, Body(w)
      PROVE  Doing(w).task.chunk = c /\ Doing(w).task.to = Top
  <2>1. PICK t, d : t = Doing(w).task /\ d = t.chunk
    OBVIOUS
  <2>2. UNCHANGED source \/ (t.to = Top /\ source' = [source EXCEPT ![d] = "ready"])
    BY <1>6, <2>1 DEF Body
  <2> QED
    BY <2>1, <2>2 DEF StepInv, WorkInv, HoldersOK
<1> QED
  BY <1>2, <1>3, <1>4, <1>5, <1>6, Touched

(* Nobody waits who did not before or has just asked. *)
LEMMA AskedNext ==
    ASSUME Next, NEW r \in Requests, asked'[r] = "waiting"
    PROVE  asked[r] = "waiting" \/ RequestChunk(r)
<1>1. ASSUME NEW q \in Requests, RequestChunk(q), q # r
      PROVE  asked[r] = "waiting"
  BY <1>1 DEF RequestChunk, Advance, Tell
<1>2. ASSUME NEW c \in Chunks, SetTicket(c)
      PROVE  asked[r] = "waiting"
  BY <1>2 DEF SetTicket, Advance
<1>3. ASSUME NEW c \in Chunks, LoadHit(c) \/ LoadUnreadable(c)
      PROVE  asked[r] = "waiting"
  BY <1>3 DEF LoadHit, LoadUnreadable, Abandon, Tell
<1>4. ASSUME NEW w \in Workers, Body(w) \/ Complete(w) \/ Fail(w)
      PROVE  asked[r] = "waiting"
  BY <1>4 DEF Body, Complete, Fail, Abandon, Tell
<1> QED
  BY <1>1, <1>2, <1>3, <1>4, Touched

\* A task is submitted for the next status of a holder without one.
Submits(c, to) ==
    /\ Submit(c, to) /\ to \in Statuses /\ status[c] = to - 1
    /\ source[c] \in {"missing", "ready"} /\ task[c] = None /\ ~failed[c]

LEMMA SubmitNext ==
    ASSUME StepInv, NEW w \in Workers, LoadEmpty(w) \/ Scanned(w)
    PROVE  /\ Doing(w).chunk \in Chunks
           /\ \/ \E to : Submits(Doing(w).chunk, to)
              \/ /\ UNCHANGED <<task, tasks>>
                 /\ Doing(w).at = "scan" /\ Doing(w).unready /\ Doing(w) \in Inside(stack[w])
<1> DEFINE c == Doing(w).chunk
<1>1. CASE LoadEmpty(w)
  <2>1. At(w, "schedule")
    BY <1>1 DEF LoadEmpty
  <2>2. c \in Chunks
    BY <2>1, SchedulingFrame DEF StepInv, EdgeInv
  <2>3. Submits(c, 0)
    BY <1>1, TopOK DEF LoadEmpty, Submits, Schedulable
  <2> QED
    BY <2>2, <2>3
<1>2. CASE Scanned(w)
  <2> DEFINE f == Doing(w)
  <2>1. At(w, "scan") /\ ((f.unready /\ UNCHANGED <<task, taskVars>>) \/ Submit(c, f.to))
    BY <1>2 DEF Scanned
  <2>2. f.at = "scan" /\ stack[w] # <<>>
    BY <2>1 DEF At, Doing
  <2>3. f \in Inside(stack[w])
    BY <2>2, PlainBelow DEF StepInv, EdgeInv
  <2>4. c \in Chunks /\ f.to \in 1 .. Top /\ status[c] = f.to - 1 /\ task[c] = None /\ ~failed[c]
    BY <2>2, <2>3, ScanFrame DEF StepInv, ScanOK
  <2>5. source[c] \in {"missing", "ready"}
    BY <2>4, TopOK DEF StepInv, WorkInv, HoldersOK
  <2>6. f.to \in Statuses
    BY <2>4, TopOK DEF Statuses
  <2>7. Submit(c, f.to) => Submits(c, f.to)
    BY <2>4, <2>5, <2>6 DEF Submits
  <2> QED
    BY <2>1, <2>2, <2>3, <2>4, <2>7 DEF taskVars
<1> QED
  BY <1>1, <1>2

(* A holder loses its task by failure, or at the end of a task; and what it gets is new. *)
LEMMA TaskNext ==
    ASSUME StepInv, Next, NEW c \in Chunks, task'[c] # task[c]
    PROVE  \/ task'[c] = None /\ (failed'[c] \/ source[c] = "resolving")
           \/ \E w \in Workers : (Complete(w) \/ Cancel(w)) /\ Doing(w).task.chunk = c /\ task'[c] = None
           \/ \E to : Submits(c, to)
<1>1. ASSUME NEW d \in Chunks, LoadUnreadable(d)
      PROVE  task'[c] = None /\ failed'[c]
  BY <1>1 DEF LoadUnreadable, Abandon, StepInv, WorkInv, HoldersOK
<1>2. ASSUME NEW w \in Workers, LoadEmpty(w) \/ Scanned(w)
      PROVE  \E to : Submits(c, to)
  <2>1. PICK d, to : Submits(d, to)
    BY <1>2, SubmitNext
  <2>2. \E t : task' = [task EXCEPT ![d] = t]
    BY <2>1 DEF Submits, Submit
  <2>3. d = c
    BY <2>2 DEF StepInv, WorkInv, HoldersOK
  <2> QED
    BY <2>1, <2>3
<1>3. ASSUME NEW w \in Workers, Complete(w) \/ Cancel(w)
      PROVE  Doing(w).task.chunk = c /\ task'[c] = None
  <2>1. \E d : d = Doing(w).task.chunk /\ (task' = task \/ task' = [task EXCEPT ![d] = None])
    BY <1>3 DEF Complete, Cancel
  <2> QED
    BY <2>1 DEF StepInv, WorkInv, HoldersOK
<1>4. ASSUME NEW w \in Workers, Fail(w)
      PROVE  task'[c] = None /\ (failed'[c] \/ source[c] = "resolving")
  <2>1. \E d : \/ UNCHANGED task
               \/ source[d] = "resolving" /\ task' = [task EXCEPT ![d] = None]
               \/ Abandon(d)
    BY <1>4 DEF Fail
  <2> QED
    BY <2>1 DEF Abandon, StepInv, WorkInv, HoldersOK
<1> QED
  BY <1>1, <1>2, <1>3, <1>4, Touched

(* Tasks are added by submission, and forgotten when their worker has left them. *)
LEMMA KnownNext ==
    ASSUME StepInv, Next
    PROVE  \/ Known' = Known
           \/ \E c \in Chunks : \E to : Submits(c, to) /\ Known' = Known \cup {NewTask(c, to)}
           \/ \E w \in Workers : (CallbackDone(w) \/ Fail(w)) /\ Known' = Known \ {Doing(w).task}
<1>1. CASE UNCHANGED tasks
  BY <1>1, SameTasks DEF StepInv, EdgeInv
<1>2. ASSUME NEW w \in Workers, LoadEmpty(w) \/ Scanned(w)
      PROVE  UNCHANGED tasks \/ \E c \in Chunks : \E to : Submits(c, to) /\ Known' = Known \cup {NewTask(c, to)}
  <2>1. CASE UNCHANGED tasks
    BY <2>1
  <2>2. CASE \E to : Submits(Doing(w).chunk, to)
    <3>1. PICK c, to : c \in Chunks /\ Submits(c, to)
      BY <1>2, <2>2, SubmitNext
    <3>2. PICK t : t = NewTask(c, to) /\ tasks' = Append(tasks, t)
      BY <3>1 DEF Submits, Submit
    <3>3. \E T : tasks \in Seq(T)
      BY DEF StepInv, EdgeInv, TasksOK
    <3>4. Known' = Known \cup {t}
      BY <3>2, <3>3 DEF Known
    <3> QED
      BY <3>1, <3>2, <3>4
  <2> QED
    BY <1>2, <2>1, <2>2, SubmitNext
<1>3. ASSUME NEW w \in Workers, CallbackDone(w) \/ Fail(w)
      PROVE  Known' = Known \ {Doing(w).task}
  <2>1. PICK place \in {"done", "failing"} : At(w, place)
    BY <1>3 DEF CallbackDone, Fail
  <2>2. PICK t : t = Doing(w).task
    OBVIOUS
  <2>3. Forget(t)
    BY <1>3, <2>2 DEF CallbackDone, Fail
  <2>4. t \in Known
    BY <2>1, <2>2, AtTask DEF StepInv, EdgeInv, TaskPlaces
  <2> QED
    BY <2>2, <2>3, <2>4, ForgetOrder DEF StepInv, EdgeInv, WorkInv, ListOK
<1> QED
  BY <1>1, <1>2, <1>3, Touched

LEMMA SubmitsKnown ==
    ASSUME StepInv, NEW c \in Chunks, NEW to, Submits(c, to)
    PROVE  /\ NewTask(c, to) \notin Known /\ NewTask(c, to).chunk = c /\ NewTask(c, to) # None
           /\ Known' = Known \cup {NewTask(c, to)}
           /\ task'[c] = NewTask(c, to)
<1>1. PICK t : t = NewTask(c, to) /\ tasks' = Append(tasks, t) /\ task' = [task EXCEPT ![c] = t]
  BY DEF Submits, Submit
<1>2. \E T : tasks \in Seq(T)
  BY DEF StepInv, EdgeInv, TasksOK
<1>3. Known' = Known \cup {t}
  BY <1>1, <1>2 DEF Known
<1>4. t \notin Known /\ t.chunk = c /\ t \in ProgressionTasks
  BY <1>1, NewTaskOK DEF StepInv, EdgeInv, Submits
<1>5. t # None
  <2>1. t \in [chunk : Chunks, to : Statuses, id : Nat]
    BY <1>4 DEF ProgressionTasks
  <2> QED
    BY <2>1, AssumptionParts
<1> QED
  BY <1>1, <1>3, <1>4, <1>5 DEF StepInv, WorkInv, HoldersOK

-----------------------------------------------------------------------------
(* The invariants, one after the other.                                    *)

LEMMA OwnerNext ==
    ASSUME StepInv, OwnerOK, Next
    PROVE  OwnerOK'
<1> SUFFICES ASSUME NEW c \in Chunks, task'[c] # None
             PROVE  /\ task'[c] \in Known' /\ task'[c].chunk = c
                    /\ \A f \in Hands' : f.task = task'[c] =>
                            f.at # "done" /\ (f.at = "failing" => f.seen = f.task)
  BY DEF OwnerOK
<1>1. CASE task'[c] = task[c]
  <2>1. PICK t : t = task[c]
    OBVIOUS
  <2>2. /\ t \in Known /\ t.chunk = c
        /\ \A f \in Hands : f.task = t => f.at # "done" /\ (f.at = "failing" => f.seen = f.task)
    BY <1>1, <2>1 DEF OwnerOK
  <2>3. t \in Known'
    <3>1. ASSUME NEW w \in Workers, CallbackDone(w) \/ Fail(w), Doing(w).task = t
          PROVE  FALSE
      <4>1. PICK f : f = Doing(w)
        OBVIOUS
      <4>2. Doing(w) \in Hands /\ (CallbackDone(w) => f.at = "done") /\ (Fail(w) => f.at = "failing")
        BY <3>1, <4>1, WorkingHands DEF Working
      <4>3. Fail(w) /\ f.seen = t
        BY <2>2, <3>1, <4>1, <4>2
      <4>4. task[c] # f.seen \/ task' = [task EXCEPT ![c] = None]
        BY <2>2, <3>1, <4>1, <4>3 DEF Fail, Abandon
      <4> QED
        BY <1>1, <2>1, <4>3, <4>4 DEF StepInv, WorkInv, HoldersOK
    <3> QED
      BY <2>2, <3>1, KnownNext
  <2>4. ASSUME NEW f \in Hands', f.task = t
        PROVE  f.at # "done" /\ (f.at = "failing" => f.seen = f.task)
    <3>1. CASE f \in Hands \/ f.at \in {"cancel", "execute", "undone", "body", "complete"}
      BY <2>2, <2>4, <3>1
    <3>2. ASSUME NEW w \in Workers, f.task = Doing(w).task, Complete(w)
          PROVE  FALSE
      <4>1. task' = [task EXCEPT ![c] = None]
        BY <2>2, <2>4, <3>2 DEF Complete
      <4> QED
        BY <4>1 DEF StepInv, WorkInv, HoldersOK
    <3>3. ASSUME NEW w \in Workers, f.task = Doing(w).task, f = Failing(Doing(w).task, task[Doing(w).task.chunk])
          PROVE  f.at = "failing" /\ f.seen = f.task
      BY <2>1, <2>2, <2>4, <3>3 DEF Failing
    <3> QED
      BY <3>1, <3>2, <3>3, HandStarts
  <2> QED
    BY <1>1, <2>1, <2>2, <2>3, <2>4
<1>2. CASE task'[c] # task[c]
  <2>1. PICK to : Submits(c, to)
    BY <1>2, TaskNext
  <2>2. PICK t : t = NewTask(c, to)
    OBVIOUS
  <2>3. t \notin Known /\ t.chunk = c /\ t \in Known' /\ task'[c] = t
    BY <2>1, <2>2, SubmitsKnown
  <2>4. \A f \in Hands : f.task # t
    BY <2>3, HandsKnown DEF StepInv, EdgeInv
  <2>5. ASSUME NEW f \in Hands', f.task = t
        PROVE  f.at # "done" /\ (f.at = "failing" => f.seen = f.task)
    BY <2>4, <2>5, HandStarts
  <2> QED
    BY <2>3, <2>5
<1> QED
  BY <1>1, <1>2

(* The chunks that tell their neighbours of their loading never get a task. *)
LEMMA NotifyNext ==
    ASSUME StepInv, JobsOK, NotifyOK, Next
    PROVE  NotifyOK'
<1> SUFFICES ASSUME NEW c \in Chunks, jobs'[<<"notify", c>>] # 0, NEW t \in Known', t.chunk = c
             PROVE  FALSE
  BY DEF NotifyOK
<1>1. PICK job : job = <<"notify", c>>
  OBVIOUS
<1>2. job \in Jobs /\ job[1] = "notify" /\ job[2] = c
  BY <1>1 DEF Jobs
<1>3. jobs[job] # 0 \/ LoadHit(c)
  <2>1. ASSUME NEW js, Post(js), job \notin js
        PROVE  jobs[job] # 0
    BY <1>1, <1>2, <2>1 DEF Post, JobsOK
  <2>2. ASSUME NEW w \in Workers, NEW j, TakeJob(w, j)
        PROVE  jobs[job] # 0
    BY <1>1, <1>2, <2>2 DEF TakeJob, JobsOK
  <2>3. ASSUME NEW r \in Requests, RequestChunk(r)
        PROVE  jobs[job] # 0
    <3>1. UNCHANGED jobs \/ \E js : Post(js) /\ \A j \in js : j[1] = "schedule"
      BY <2>3 DEF RequestChunk
    <3> QED
      BY <1>1, <1>2, <2>1, <3>1
  <2>4. ASSUME NEW d \in Chunks, SetTicket(d)
        PROVE  jobs[job] # 0
    <3>1. \E js : Post(js) /\ \A j \in js : j[1] \in {"schedule", "reconcile"}
      BY <2>4 DEF SetTicket
    <3> QED
      BY <1>2, <2>1, <3>1
  <2>5. ASSUME NEW d \in Chunks, LoadMissing(d)
        PROVE  jobs[job] # 0
    <3>1. \E js : Post(js) /\ \A j \in js : j[1] = "schedule"
      BY <2>5 DEF LoadMissing
    <3> QED
      BY <1>2, <2>1, <3>1
  <2>6. ASSUME NEW d \in Chunks, LoadHit(d), d # c
        PROVE  jobs[job] # 0
    <3>1. Post({<<"notify", d>>}) /\ job \notin {<<"notify", d>>}
      BY <1>1, <2>6 DEF LoadHit
    <3> QED
      BY <2>1, <3>1
  <2>7. ASSUME NEW w \in Workers, NEW d \in Chunks,
               ScheduleJob(w, d) \/ NotifyStored(w, d) \/ ReconcileJob(w, d)
        PROVE  jobs[job] # 0
    <3>1. \E j : TakeJob(w, j)
      BY <2>7 DEF ScheduleJob, NotifyStored, ReconcileJob
    <3> QED
      BY <2>2, <3>1
  <2>8. CASE UNCHANGED jobs
    BY <1>1, <2>8
  <2> QED
    BY <2>3, <2>4, <2>5, <2>6, <2>7, <2>8, Touched
<1>4. CASE LoadHit(c)
  <2>1. source[c] = "resolving" /\ UNCHANGED tasks
    BY <1>4 DEF LoadHit, Loading, taskVars
  <2>2. t \in Known
    BY <2>1 DEF Known
  <2> QED
    BY <2>1, <2>2, KnownOK DEF StepInv, WorkInv
<1>5. CASE jobs[job] # 0
  <2>1. t \notin Known /\ status[c] = Top
    BY <1>1, <1>5 DEF NotifyOK, JobsOK
  <2>2. PICK d, to : d \in Chunks /\ Submits(d, to) /\ t = NewTask(d, to)
    BY <2>1, KnownNext
  <2>3. d = c /\ to \in Statuses /\ status[c] = to - 1
    BY <2>2, SubmitsKnown DEF Submits
  <2> QED
    BY <2>1, <2>3, TopOK DEF Statuses
<1> QED
  BY <1>3, <1>4, <1>5

(* A chunk that is ready has answered everybody. *)
LEMMA ReadyNext ==
    ASSUME StepInv, ReadyOK, Next
    PROVE  ReadyOK'
<1>1. ASSUME NEW c \in Chunks, source'[c] = "ready", source[c] # "ready"
      PROVE  (\A r \in Waiters(c) : asked'[r] # "waiting") /\ \A r \in Requests : ~RequestChunk(r)
  <2>1. CASE LoadHit(c)
    <3>1. asked' = Tell(Waiters(c), "answered") /\ source[c] = "resolving" /\ status' = [status EXCEPT ![c] = Top]
      BY <2>1 DEF LoadHit, Loading
    <3>2. status'[c] # status[c]
      BY <3>1, TopOK DEF StepInv, WorkInv, HoldersOK
    <3> QED
      BY <3>1, <3>2 DEF RequestChunk, Tell, Waiters
  <2>2. ASSUME NEW w \in Workers, Body(w), Doing(w).task.chunk = c, Doing(w).task.to = Top
        PROVE  (\A r \in Waiters(c) : asked'[r] # "waiting") /\ \A r \in Requests : ~RequestChunk(r)
    <3>1. asked' = Tell(Waiters(c), "answered") /\ status' = [status EXCEPT ![c] = Top]
      BY <2>2 DEF Body
    <3>2. At(w, "body")
      BY <2>2 DEF Body
    <3>3. status'[c] # status[c]
      <4>1. Doing(w).task \in Open /\ ~PublishedIn(Hands, Doing(w).task)
        BY <3>2, InHand DEF StepInv, WorkInv, TaskPlaces
      <4>2. status[c] = Top - 1
        BY <2>2, <4>1 DEF StepInv, WorkInv, OpensOK, OpenOK
      <4> QED
        BY <3>1, <4>2, TopOK DEF StepInv, WorkInv, HoldersOK
    <3> QED
      BY <3>1, <3>3 DEF RequestChunk, Tell, Waiters
  <2>3. ~LoadMissing(c)
    BY <1>1 DEF LoadMissing, StepInv, WorkInv, HoldersOK
  <2> QED
    BY <1>1, <2>1, <2>2, <2>3, SourceNext
<1>2. \A c \in Chunks : source[c] = "ready" => source'[c] = "ready"
  <2>1. ASSUME NEW c \in Chunks, source[c] = "ready", source'[c] # "ready"
        PROVE  FALSE
    <3>1. PICK w \in Workers : Body(w) /\ Doing(w).task.chunk = c /\ Doing(w).task.to = Top
      BY <2>1, SourceNext DEF LoadMissing, LoadHit, Loading
    <3>2. source' = [source EXCEPT ![c] = "ready"]
      BY <3>1 DEF Body
    <3> QED
      BY <2>1, <3>2 DEF StepInv, WorkInv, HoldersOK
  <2> QED
    BY <2>1
<1>3. ASSUME NEW c \in Chunks, source'[c] = "ready", NEW r \in Requests,
             asked'[r] = "waiting", Wanted[r].chunk = c
      PROVE  FALSE
  <2>1. CASE source[c] = "ready"
    <3>1. asked[r] # "waiting"
      BY <1>3, <2>1 DEF ReadyOK, Waiters
    <3>2. RequestChunk(r)
      BY <1>3, <3>1, AskedNext
    <3> QED
      BY <1>3, <2>1, <3>2 DEF RequestChunk, Tell
  <2>2. CASE source[c] # "ready"
    <3>1. asked[r] = "waiting"
      BY <1>1, <1>3, <2>2, AskedNext
    <3> QED
      BY <1>1, <1>3, <2>2, <3>1 DEF Waiters
  <2> QED
    BY <2>1, <2>2
<1>4. ASSUME NEW f \in Hands', f.at = "complete", f.task.to = Top
      PROVE  source'[f.task.chunk] = "ready"
  <2>1. CASE f \in Hands
    <3>1. f.task.chunk \in Chunks
      BY <2>1, HandsKnown DEF StepInv, EdgeInv
    <3> QED
      BY <1>2, <1>4, <2>1, <3>1 DEF ReadyOK
  <2>2. CASE f \notin Hands
    <3>1. PICK w \in Workers : f.task = Doing(w).task /\ Doing(w) \in Hands /\ Body(w)
      BY <1>4, <2>2, HandStarts DEF Failing
    <3>2. f.task.chunk \in Chunks
      BY <3>1, HandsKnown DEF StepInv, EdgeInv
    <3>3. source' = [source EXCEPT ![f.task.chunk] = "ready"]
      BY <1>4, <3>1 DEF Body
    <3> QED
      BY <3>2, <3>3 DEF StepInv, WorkInv, HoldersOK
  <2> QED
    BY <2>1, <2>2
<1>5. ASSUME NEW c \in Chunks, source'[c] = "ready"
      PROVE  status'[c] = Top
  <2>1. CASE source[c] = "ready"
    BY <2>1, TopKept DEF ReadyOK
  <2>2. CASE LoadHit(c)
    BY <2>2 DEF LoadHit, StepInv, WorkInv, HoldersOK
  <2>3. ASSUME NEW w \in Workers, Body(w), Doing(w).task.chunk = c, Doing(w).task.to = Top
        PROVE  status'[c] = Top
    <3>1. status' = [status EXCEPT ![c] = Top]
      BY <2>3 DEF Body
    <3> QED
      BY <3>1 DEF StepInv, WorkInv, HoldersOK
  <2>4. ~LoadMissing(c)
    BY <1>5 DEF LoadMissing, StepInv, WorkInv, HoldersOK
  <2> QED
    BY <1>5, <2>1, <2>2, <2>3, <2>4, SourceNext
<1> QED
  BY <1>3, <1>4, <1>5 DEF ReadyOK, Waiters

-----------------------------------------------------------------------------
(* Edges.                                                                  *)

(* A chunk that fails has no edges any more, and the others keep theirs. *)
LEMMA AbandonEdges ==
    ASSUME StepInv, NEW m \in Chunks, Abandon(m)
    PROVE  /\ blocking'[m] = {} /\ \A c \in Chunks : m \notin blocking'[c]
           /\ \A c, n \in Chunks : n \in blocking'[c] =>
                n \in blocking[c] /\ waiting'[n][c] = waiting[n][c]
           /\ \A c \in Chunks : c # m /\ blocking'[c] # blocking[c] => m \in blocking[c]
           /\ \A n, c \in Chunks : waiting'[n][c] \in {waiting[n][c], -1}
<1>1. ClearEdges(m)
  BY DEF Abandon
<1>2. \A c \in Chunks : blocking'[c] =
        IF c = m THEN {} ELSE IF waiting[m][c] # -1 THEN blocking[c] \ {m} ELSE blocking[c]
  BY <1>1 DEF ClearEdges
<1>3. \A n, c \in Chunks : waiting'[n][c] =
        IF n = m \/ (c = m /\ n \in blocking[m]) THEN -1 ELSE waiting[n][c]
  BY <1>1 DEF ClearEdges
<1>4. \A c, n \in Chunks : n \in blocking[c] <=> waiting[n][c] # -1
  BY DEF StepInv, EdgeInv, EdgesMatch
<1>5. blocking'[m] = {} /\ \A c \in Chunks : m \notin blocking'[c]
  BY <1>2, <1>4
<1>6. ASSUME NEW c \in Chunks, NEW n \in Chunks, n \in blocking'[c]
      PROVE  n \in blocking[c] /\ waiting'[n][c] = waiting[n][c]
  <2>1. c # m /\ n \in blocking[c] /\ n # m
    BY <1>2, <1>4, <1>6
  <2> QED
    BY <2>1, <1>3
<1>7. \A c \in Chunks : c # m /\ blocking'[c] # blocking[c] => m \in blocking[c]
  BY <1>2, <1>4
<1>8. \A n, c \in Chunks : waiting'[n][c] \in {waiting[n][c], -1}
  BY <1>3
<1> QED
  BY <1>5, <1>6, <1>7, <1>8

(* A chunk that wakes others keeps the edges of those it does not satisfy. *)
LEMMA WakeEdges ==
    ASSUME StepInv, NEW m \in Chunks, NEW level \in Heights, Unblock(m, Freed(m, level))
    PROVE  /\ \A c \in Chunks : m \in blocking'[c] => waiting[m][c] > level
           /\ \A c, n \in Chunks : n \in blocking'[c] =>
                n \in blocking[c] /\ waiting'[n][c] = waiting[n][c]
           /\ \A c \in Chunks : blocking[c] # {} /\ blocking'[c] = {} => c \in Woken(m, level)
           /\ \A n, c \in Chunks : waiting'[n][c] \in {waiting[n][c], -1}
<1>1. \A c \in Chunks : blocking'[c] = IF c \in Freed(m, level) THEN blocking[c] \ {m} ELSE blocking[c]
  BY DEF Unblock
<1>2. \A n, c \in Chunks : waiting'[n][c] = IF n = m /\ c \in Freed(m, level) THEN -1 ELSE waiting[n][c]
  BY DEF Unblock, StepInv, EdgeInv, EdgeShape
<1>3. \A c, n \in Chunks : n \in blocking[c] <=> waiting[n][c] # -1
  BY DEF StepInv, EdgeInv, EdgesMatch
<1>4. \A n, c \in Chunks : waiting[n][c] \in Heights
  BY DEF StepInv, DemandOK
<1>5. ASSUME NEW c \in Chunks, m \in blocking'[c]
      PROVE  waiting[m][c] > level
  <2>1. m \in blocking[c] /\ c \notin Freed(m, level)
    BY <1>1, <1>5
  <2>2. waiting[m][c] # -1 /\ waiting[m][c] \notin 0 .. level
    BY <1>3, <2>1 DEF Freed
  <2> QED
    BY <1>4, <2>2, TopOK DEF Heights
<1>6. \A c, n \in Chunks : n \in blocking'[c] => n \in blocking[c] /\ waiting'[n][c] = waiting[n][c]
  BY <1>1, <1>2
<1>7. \A c \in Chunks : blocking[c] # {} /\ blocking'[c] = {} => c \in Woken(m, level)
  BY <1>1 DEF Woken
<1> QED
  BY <1>2, <1>5, <1>6, <1>7

LEMMA DropEdges ==
    ASSUME StepInv, NEW m \in Chunks, Drops(m)
    PROVE  /\ \A c, n \in Chunks : n \in blocking'[c] =>
                n \in blocking[c] /\ waiting'[n][c] = waiting[n][c]
           /\ \A c \in Chunks : c # m => blocking'[c] = blocking[c]
           /\ \A n, c \in Chunks : waiting'[n][c] \in {waiting[n][c], -1}
<1>1. \A c \in Chunks : blocking'[c] = IF c = m THEN {} ELSE blocking[c]
  BY DEF Drops, StepInv, EdgeInv, EdgeShape
<1>2. \A n, c \in Chunks : waiting'[n][c] = IF n \in blocking[m] /\ c = m THEN -1 ELSE waiting[n][c]
  BY DEF Drops, StepInv, EdgeInv, EdgeShape
<1> QED
  BY <1>1, <1>2

LEMMA LinkEdges ==
    ASSUME StepInv, NEW d \in Chunks, NEW m \in Chunks, NEW s, Links(d, m, s)
    PROVE  /\ \A c \in Chunks : blocking'[c] = IF c = d THEN blocking[d] \cup {m} ELSE blocking[c]
           /\ \A n, c \in Chunks : waiting'[n][c] = IF n = m /\ c = d THEN Need(s, d, m) ELSE waiting[n][c]
           /\ UNCHANGED <<moves, asked, holderVars>>
BY DEF Links, StepInv, EdgeInv, EdgeShape

(* How a status is awaited that was not before. *)
LEMMA EdgeKept ==
    ASSUME StepInv, Next, NEW c \in Chunks, NEW n \in Chunks, n \in blocking'[c]
    PROVE  \/ n \in blocking[c] /\ waiting'[n][c] = waiting[n][c]
           \/ \E s : Links(c, n, s)
<1>1. ASSUME NEW m \in Chunks, Abandon(m)
      PROVE  n \in blocking[c] /\ waiting'[n][c] = waiting[n][c]
  BY <1>1, AbandonEdges
<1>2. ASSUME NEW m \in Chunks, NEW level, Unblock(m, Freed(m, level))
      PROVE  n \in blocking[c] /\ waiting'[n][c] = waiting[n][c]
  BY <1>2 DEF Unblock, StepInv, EdgeInv, EdgeShape
<1>3. ASSUME NEW m \in Chunks, Drops(m)
      PROVE  n \in blocking[c] /\ waiting'[n][c] = waiting[n][c]
  BY <1>3, DropEdges
<1>4. ASSUME NEW d \in Chunks, NEW m \in Chunks, NEW s, Links(d, m, s), ~(d = c /\ m = n)
      PROVE  n \in blocking[c] /\ waiting'[n][c] = waiting[n][c]
  <2>1. PICK need : need = Need(s, d, m)
    OBVIOUS
  <2>2. /\ blocking' = [blocking EXCEPT ![d] = @ \cup {m}]
        /\ waiting' = [waiting EXCEPT ![m][d] = need]
    BY <1>4, <2>1 DEF Links
  <2> QED
    BY <1>4, <2>2 DEF StepInv, EdgeInv, EdgeShape
<1>5. CASE UNCHANGED <<blocking, waiting>>
  BY <1>5
<1> QED
  BY <1>1, <1>2, <1>3, <1>4, <1>5, EdgesNext

(* A failed chunk has nothing to do with edges. *)
LEMMA FailedFreeNext ==
    ASSUME StepInv, FailedFree, Next
    PROVE  FailedFree'
<1> SUFFICES ASSUME NEW n \in Chunks, failed'[n]
             PROVE  blocking'[n] = {} /\ \A c \in Chunks : n \notin blocking'[c]
  BY DEF FailedFree
<1>1. CASE Abandon(n)
  BY <1>1, AbandonEdges
<1>2. CASE failed[n]
  <2>1. \A c \in Chunks : n \notin blocking'[c]
    BY <1>2, EdgeKept DEF FailedFree, Links
  <2>2. \A m \in Chunks : m \notin blocking'[n]
    BY <1>2, EdgeKept DEF FailedFree, Links
  <2>3. blocking'[n] \subseteq Chunks
    BY StepNext DEF StepInv, EdgeInv, EdgeShape
  <2> QED
    BY <2>1, <2>2, <2>3
<1> QED
  BY <1>1, <1>2, FailedNext

(* A task in hand brings its chunk to its status. *)
LEMMA TaskEnds ==
    ASSUME StepInv, NEW w \in Workers, Body(w) \/ Complete(w), NEW t, t = Doing(w).task
    PROVE  /\ t \in Open /\ OpenOK(t) /\ t.chunk \in Chunks /\ t.to \in Statuses /\ Doing(w) \in Hands
           /\ status'[t.chunk] = t.to
           /\ status[t.chunk] = t.to - 1 \/ (status[t.chunk] = t.to /\ Complete(w) /\ t.to \in {0, Top})
           /\ Body(w) => t.to \in {0, Top}
<1>1. PICK place \in {"body", "complete"} : At(w, place) /\ (place = "body" => ~Complete(w))
  BY DEF Body, Complete, At
<1>2. /\ Doing(w).at = place /\ Doing(w) \in Hands /\ t \in Known /\ t \in Open
      /\ PublishedIn(Hands, t) <=> t.to \in {0, Top} /\ place = "complete"
  BY <1>1, InHand DEF StepInv, WorkInv, TaskPlaces
<1>3. OpenOK(t) /\ t.chunk \in Chunks /\ t.to \in Statuses
  BY <1>2, KnownOK DEF StepInv, WorkInv, OpensOK
<1>4. status[t.chunk] = IF PublishedIn(Hands, t) THEN t.to ELSE t.to - 1
  BY <1>3 DEF OpenOK
<1>5. CASE Body(w)
  <2>1. place = "body"
    BY <1>2, <1>5 DEF Body, At, Doing
  <2>2. status' = [status EXCEPT ![t.chunk] = t.to]
    BY <1>5 DEF Body
  <2>3. t.to \in {0, Top}
    BY <1>2, <2>1 DEF StepInv, WorkInv, HandsOK
  <2> QED
    BY <1>2, <1>3, <1>4, <2>1, <2>2, <2>3 DEF StepInv, WorkInv, HoldersOK
<1>6. CASE Complete(w)
  <2>1. place = "complete"
    BY <1>1, <1>6
  <2>2. ~Body(w)
    BY <1>2, <2>1 DEF Body, At, Doing
  <2>3. PICK now : now = Max({status[t.chunk], t.to}) /\ status' = [status EXCEPT ![t.chunk] = now]
    BY <1>6 DEF Complete
  <2>4. now = t.to
    <3> DEFINE S == {status[t.chunk], t.to}
    <3>1. S \subseteq Heights /\ S # {} /\ t.to \in S /\ t.to \in Int
      BY <1>3, TopOK DEF StepInv, WorkInv, HoldersOK, Heights, Statuses
    <3>2. \A x \in S : x = t.to \/ x = t.to - 1
      BY <1>4
    <3> HIDE DEF S
    <3>3. Max(S) \in S /\ Max(S) >= t.to
      BY <3>1, HighestOK
    <3>4. now = Max(S)
      BY <2>3 DEF S
    <3>5. Max(S) = t.to \/ Max(S) = t.to - 1
      BY <3>2, <3>3
    <3> QED
      BY <3>1, <3>3, <3>4, <3>5
  <2>5. status'[t.chunk] = t.to
    BY <1>3, <2>3, <2>4 DEF StepInv, WorkInv, HoldersOK
  <2> QED
    BY <1>2, <1>3, <1>4, <1>6, <2>1, <2>2, <2>5
<1> QED
  BY <1>5, <1>6

(* A job that is posted stays until a worker takes it. *)
LEMMA JobStays ==
    ASSUME JobsOK, Next, NEW job \in Jobs, jobs[job] # 0, jobs'[job] = 0
    PROVE  \E w \in Workers, c \in Chunks :
                \/ job = <<"schedule", c>> /\ ScheduleJob(w, c)
                \/ job = <<"notify", c>> /\ NotifyStored(w, c)
                \/ job = <<"reconcile", c>> /\ ReconcileJob(w, c)
<1>1. ASSUME NEW js, Post(js)
      PROVE  FALSE
  BY <1>1 DEF Post, JobsOK
<1>2. ASSUME NEW w \in Workers, NEW j, TakeJob(w, j)
      PROVE  job = j
  BY <1>2 DEF TakeJob, JobsOK
<1>3. ASSUME NEW r \in Requests, RequestChunk(r)
      PROVE  FALSE
  <2>1. UNCHANGED jobs \/ \E js : Post(js)
    BY <1>3 DEF RequestChunk
  <2> QED
    BY <1>1, <2>1
<1>4. ASSUME NEW d \in Chunks, SetTicket(d) \/ LoadHit(d) \/ LoadMissing(d)
      PROVE  FALSE
  <2>1. \E js : Post(js)
    BY <1>4 DEF SetTicket, LoadHit, LoadMissing
  <2> QED
    BY <1>1, <2>1
<1>5. ASSUME NEW w \in Workers, NEW d \in Chunks, ScheduleJob(w, d)
      PROVE  job = <<"schedule", d>>
  BY <1>2, <1>5 DEF ScheduleJob
<1>6. ASSUME NEW w \in Workers, NEW d \in Chunks, NotifyStored(w, d)
      PROVE  job = <<"notify", d>>
  BY <1>2, <1>6 DEF NotifyStored
<1>7. ASSUME NEW w \in Workers, NEW d \in Chunks, ReconcileJob(w, d)
      PROVE  job = <<"reconcile", d>>
  BY <1>2, <1>7 DEF ReconcileJob
<1> QED
  BY <1>3, <1>4, <1>5, <1>6, <1>7, Touched

(* When the task that published a chunk completes, or its neighbours are told of its loading,
   nobody waits for it any more. *)
LEMMA AllWoken ==
    ASSUME StepInv, JobsOK, FailedFree, Next, NEW n \in Chunks, WakePending(n), ~WakePending(n)',
           NEW c \in Chunks, n \in blocking[c]
    PROVE  n \notin blocking'[c]
<1>1. ASSUME Unblock(n, Freed(n, Top))
      PROVE  n \notin blocking'[c]
  <2>1. Top \in Heights
    BY TopOK DEF Heights
  <2>2. n \in blocking'[c] => waiting[n][c] > Top
    BY <1>1, <2>1, WakeEdges
  <2>3. waiting[n][c] \in Heights
    BY DEF StepInv, DemandOK
  <2> QED
    BY <2>2, <2>3, TopOK DEF Heights
<1>2. CASE jobs[<<"notify", n>>] # 0
  <2>1. PICK job : job = <<"notify", n>>
    OBVIOUS
  <2>2. job \in Jobs /\ jobs'[job] = 0 /\ jobs[job] # 0
    BY <1>2, <2>1 DEF Jobs, WakePending
  <2>3. \E w \in Workers : NotifyStored(w, n)
    BY <2>1, <2>2, JobStays
  <2>4. Unblock(n, Freed(n, Top))
    BY <2>3 DEF NotifyStored
  <2> QED
    BY <1>1, <2>4
<1>3. ASSUME NEW f \in Hands, Publishes(f, n)
      PROVE  n \notin blocking'[c]
  <2>1. f \notin Hands'
    BY <1>3 DEF WakePending
  <2>2. PICK w \in Workers : Working(w) /\ Doing(w) = f
    BY <2>1, HandStays
  <2>3. Complete(w)
    BY <1>3, <2>2, WorkingHands DEF Working, Publishes
  <2>4. PICK t : t = f.task
    OBVIOUS
  <2>5. t \in Open /\ OpenOK(t) /\ t.chunk = n /\ t.to = Top
    BY <1>3, <2>2, <2>3, <2>4, TaskEnds DEF Publishes
  <2>6. CASE task[n] = None
    <3>1. failed[n]
      BY <2>5, <2>6, KnownOK DEF OpenOK, Open, StepInv, WorkInv
    <3> QED
      BY <3>1 DEF FailedFree
  <2>7. CASE task[n] # None
    <3>1. Unblock(n, Freed(n, Top))
      BY <2>2, <2>3, <2>4, <2>5, <2>7 DEF Complete
    <3> QED
      BY <1>1, <3>1
  <2> QED
    BY <2>6, <2>7
<1> QED
  BY <1>2, <1>3 DEF WakePending

(* An edge holds what the next step needs, until that is there. *)
LEMMA EdgesLiveNext ==
    ASSUME StepInv, JobsOK, FailedFree, EdgesLive, Next
    PROVE  EdgesLive'
<1> SUFFICES ASSUME NEW c \in Chunks, NEW n \in blocking'[c]
             PROVE  WakePending(n)' \/ \E s \in 1 .. Top : Firm(c, n, s)'
  BY DEF EdgesLive
<1>1. n \in Chunks
  BY StepNext DEF StepInv, EdgeInv, EdgeShape
<1>2. ASSUME NEW s, Links(c, n, s)
      PROVE  \E q \in 1 .. Top : Firm(c, n, q)'
  <2>1. PICK need : need = Need(s, c, n)
    OBVIOUS
  <2>2. s \in 1 .. Top /\ status'[c] = s - 1 /\ n \in Reads(c, s) /\ status'[n] < need
    BY <1>2, <2>1 DEF Links, holderVars
  <2>3. waiting'[n][c] = need
    BY <1>1, <1>2, <2>1 DEF Links, StepInv, EdgeInv, EdgeShape
  <2> QED
    BY <2>1, <2>2, <2>3 DEF Firm
<1>3. ASSUME n \in blocking[c], WakePending(n)
      PROVE  WakePending(n)'
  BY <1>1, <1>3, AllWoken
<1>4. ASSUME n \in blocking[c], waiting'[n][c] = waiting[n][c], NEW s \in 1 .. Top, Firm(c, n, s)
      PROVE  WakePending(n)' \/ Firm(c, n, s)'
  <2>1. PICK need : need = Need(s, c, n)
    OBVIOUS
  <2>2. /\ status[c] = s - 1 /\ n \in Reads(c, s) /\ waiting[n][c] = need /\ status[n] < need
        /\ n # c /\ need \in 0 .. Top /\ 0 < need
    BY <1>4, <2>1, RequiredOK DEF Firm
  <2>3. status'[c] = status[c]
    <3>1. ~LoadHit(c)
      <4>1. status[c] # -1
        BY <2>2, TopOK
      <4> QED
        BY <4>1 DEF LoadHit, Loading, StepInv, WorkInv, HoldersOK
    <3>2. ASSUME NEW w \in Workers, Body(w) \/ Complete(w), Doing(w).task.chunk = c, status'[c] # status[c]
          PROVE  FALSE
      <4>1. PICK t : t = Doing(w).task
        OBVIOUS
      <4>2. /\ OpenOK(t) /\ t.chunk = c /\ t.to \in Statuses
            /\ status'[c] = t.to
            /\ status[c] = t.to - 1 \/ status[c] = t.to
        BY <3>2, <4>1, TaskEnds
      <4>3. t.to = s
        BY <2>2, <3>2, <4>2, TopOK DEF Statuses
      <4>4. status[n] >= need
        BY <2>1, <2>2, <4>2, <4>3 DEF OpenOK
      <4> QED
        BY <1>1, <2>2, <4>4, StatusOrder DEF StepInv, WorkInv
    <3> QED
      BY <3>1, <3>2, StatusNext
  <2>4. CASE status'[n] = status[n]
    BY <1>4, <2>1, <2>2, <2>3, <2>4 DEF Firm
  <2>5. CASE LoadHit(n)
    <3>1. PICK job : job = <<"notify", n>>
      OBVIOUS
    <3>2. job \in Jobs /\ jobs[job] \in Nat /\ jobs' = [j \in Jobs |-> jobs[j] + IF j \in {job} THEN 1 ELSE 0]
      BY <1>1, <2>5, <3>1 DEF LoadHit, Post, Jobs, JobsOK
    <3>3. jobs'[job] # 0
      BY <3>2
    <3> QED
      BY <3>1, <3>3 DEF WakePending
  <2>6. ASSUME NEW w \in Workers, Body(w), Doing(w).task.chunk = n
        PROVE  WakePending(n)' \/ Firm(c, n, s)'
    <3>1. PICK t : t = Doing(w).task
      OBVIOUS
    <3>2. status'[n] = t.to /\ t.to \in {0, Top}
      BY <2>6, <3>1, TaskEnds
    <3>3. CASE t.to = Top
      <4>1. ForTask("complete", t) \in Hands'
        <5>1. \E G : Hands' = (Hands \ {Doing(w)}) \cup G /\ G = {ForTask("complete", t)}
          BY <2>6, <3>1, WorkingHands DEF Working
        <5> QED
          BY <5>1
      <4>2. Publishes(ForTask("complete", t), n)
        BY <2>6, <3>1, <3>3 DEF Publishes, ForTask
      <4> QED
        BY <4>1, <4>2 DEF WakePending
    <3>4. CASE t.to = 0
      BY <1>4, <2>1, <2>2, <2>3, <3>2, <3>4 DEF Firm
    <3> QED
      BY <3>2, <3>3, <3>4
  <2>7. ASSUME NEW w \in Workers, Complete(w), Doing(w).task.chunk = n
        PROVE  Firm(c, n, s)'
    <3>1. PICK t : t = Doing(w).task
      OBVIOUS
    <3>2. t \in Open /\ OpenOK(t) /\ t.chunk = n /\ t.to \in Statuses /\ status'[n] = t.to
      BY <2>7, <3>1, TaskEnds
    <3>3. ~failed[n]
      BY <1>1, <1>4 DEF FailedFree
    <3>4. task[n] # None
      BY <3>2, <3>3, KnownOK DEF OpenOK, Open, StepInv, WorkInv
    <3>5. Unblock(n, Freed(n, t.to))
      BY <2>7, <3>1, <3>2, <3>4 DEF Complete
    <3>6. waiting[n][c] > t.to
      <4>1. t.to \in Heights
        BY <3>2, TopOK DEF Heights, Statuses
      <4> QED
        BY <1>1, <3>5, <4>1, WakeEdges
    <3>7. status'[n] < need
      BY <2>2, <3>2, <3>6, TopOK DEF Statuses
    <3> QED
      BY <1>4, <2>1, <2>2, <2>3, <3>7 DEF Firm
  <2> QED
    BY <1>1, <2>4, <2>5, <2>6, <2>7, StatusNext
<1> QED
  BY <1>1, <1>2, <1>3, <1>4, EdgeKept DEF EdgesLive

-----------------------------------------------------------------------------
(* What workers have still to schedule.                                    *)

(* The stacks of the others stay. *)
LEMMA OthersStill ==
    ASSUME StepInv, NEW w \in Workers, Proceed(w), NEW v \in Workers, v # w
    PROVE  stack'[v] = stack[v]
<1>1. ASSUME NEW frames, Become(w, frames)
      PROVE  stack'[v] = stack[v]
  BY <1>1, BecomeStack DEF StepInv, EdgeInv
<1>2. CASE \E d \in Chunks : ScheduleJob(w, d) \/ NotifyStored(w, d) \/ ReconcileJob(w, d)
  BY <1>1, <1>2 DEF ScheduleJob, NotifyStored, ReconcileJob
<1>3. CASE Reschedule(w) \/ NothingToSchedule(w) \/ ResolveStorage(w) \/ LoadEmpty(w) \/ StartScan(w)
  BY <1>1, <1>3 DEF Reschedule, NothingToSchedule, ResolveStorage, LoadEmpty, StartScan
<1>4. CASE CheckNeighbour(w)
  <2>1. \E frames : Become(w, frames)
    BY <1>4, Zenon DEF CheckNeighbour
  <2> QED
    BY <1>1, <2>1
<1>5. CASE Scanned(w) \/ TakeTask(w) \/ Execute(w) \/ Body(w) \/ Complete(w)
  BY <1>1, <1>5 DEF Scanned, TakeTask, Execute, Body, Complete
<1>6. CASE Cancel(w) \/ CallbackDone(w) \/ CallbackUndone(w) \/ Fail(w) \/ Reconcile(w)
  BY <1>1, <1>6 DEF Cancel, CallbackDone, CallbackUndone, Fail, Reconcile
<1> QED
  BY <1>2, <1>3, <1>4, <1>5, <1>6 DEF Proceed

(* What is to be scheduled stays so until schedule() returns. *)
LEMMA ExpectedNext ==
    ASSUME StepInv, Next, NEW v \in Workers, NEW c \in Chunks, Expects(stack[v], c), ~Expects(stack'[v], c)
    PROVE  (NothingToSchedule(v) \/ ResolveStorage(v) \/ LoadEmpty(v) \/ Scanned(v)) /\ Doing(v).chunk = c
<1>1. stack[v] # <<>>
  BY FewShape DEF Expects
<1>2. /\ Inside(stack[v]) = {Doing(v)} \cup Inside(Below(v))
      /\ Doing(v).at \in TaskPlaces => Below(v) = <<>>
  BY <1>1, PlainBelow DEF StepInv, EdgeInv
<1>3. ASSUME NEW frames, Become(v, frames)
      PROVE  ~Expects(frames, c)
  BY <1>3, BecomeStack DEF StepInv, EdgeInv
<1>4. FramesOK(Below(v), Held(v))
  BY <1>1, PopOK DEF StepInv, EdgeInv, StacksOK, Below
<1>5. ASSUME NEW place \in TaskPlaces, At(v, place)
      PROVE  FALSE
  <2>1. Doing(v).at \in TaskPlaces
    BY <1>5 DEF At, Doing
  <2>2. Inside(stack[v]) = {Doing(v)}
    BY <1>2, <2>1, FewShape
  <2> QED
    BY <2>1, <2>2 DEF Expects, TaskPlaces
<1>6. PICK w \in Workers : Proceed(w)
  <2>1. ~UNCHANGED stack
    OBVIOUS
  <2> QED
    BY <2>1 DEF Next, RequestChunk, SetTicket, Loaded, LoadHit, LoadMissing, LoadUnreadable
<1>7. w = v
  BY <1>6, OthersStill
<1>8. CASE \E d \in Chunks : ScheduleJob(v, d) \/ NotifyStored(v, d) \/ ReconcileJob(v, d)
  BY <1>1, <1>8 DEF ScheduleJob, NotifyStored, ReconcileJob, TakeJob, Idle
<1>9. CASE TakeTask(v)
  BY <1>1, <1>9 DEF TakeTask, Idle
<1>10. CASE Execute(v) \/ Body(v) \/ Complete(v) \/ Cancel(v) \/ CallbackDone(v) \/ CallbackUndone(v) \/ Fail(v)
  BY <1>5, <1>10 DEF Execute, Body, Complete, Cancel, CallbackDone, CallbackUndone, Fail, TaskPlaces
<1>11. CASE Reschedule(v)
  <2>1. PICK d \in Doing(v).left :
            Become(v, <<Scheduling(d)>> \o Through("reschedule", Doing(v).left \ {d}, Below(v)))
    BY <1>11 DEF Reschedule
  <2>2. Doing(v).at = "reschedule" /\ Doing(v).left \subseteq Chunks
    BY <1>11, LeftFrame DEF Reschedule, At, Doing, StepInv, EdgeInv
  <2> DEFINE rest == Through("reschedule", Doing(v).left \ {d}, Below(v))
  <2>3. FramesOK(rest, Held(v))
    <3>1. Doing(v).left \ {d} \in SUBSET Chunks
      BY <2>2
    <3> QED
      BY <1>4, <3>1, ThroughOK
  <2>4. (Expects(Below(v), c) \/ c \in Doing(v).left \ {d}) => Expects(rest, c)
    BY <1>4, ThroughExpects
  <2> HIDE DEF rest
  <2>5. ~Expects(<<Scheduling(d)>> \o rest, c)
    BY <1>3, <2>1 DEF rest
  <2>6. ~Expects(rest, c) /\ d # c
    BY <2>3, <2>5, ExpectsMore DEF Scheduling
  <2>7. ~Expects(Below(v), c) /\ c \notin Doing(v).left
    BY <2>4, <2>6
  <2> QED
    BY <1>2, <2>2, <2>7 DEF Expects
<1>12. CASE NothingToSchedule(v) \/ ResolveStorage(v) \/ LoadEmpty(v) \/ Scanned(v)
  <2>1. At(v, "schedule") \/ At(v, "scan")
    BY <1>12 DEF NothingToSchedule, ResolveStorage, LoadEmpty, Scanned
  <2>2. Become(v, Below(v))
    BY <1>12 DEF NothingToSchedule, ResolveStorage, LoadEmpty, Scanned
  <2>3. Doing(v).chunk = c
    BY <1>2, <1>3, <2>1, <2>2 DEF Expects, At, Doing
  <2> QED
    BY <1>12, <2>3
<1>13. CASE StartScan(v)
  <2>1. PICK f : f.at = "scan" /\ f.chunk = Doing(v).chunk /\ Become(v, <<f>> \o Below(v))
    BY <1>13 DEF StartScan, Scanning
  <2>2. Doing(v).at = "schedule"
    BY <1>13 DEF StartScan, At, Doing
  <2>3. ~Expects(Below(v), c) /\ f.chunk # c
    BY <1>3, <1>4, <2>1, ExpectsMore
  <2> QED
    BY <1>2, <2>1, <2>2, <2>3 DEF Expects
<1>14. CASE CheckNeighbour(v)
  <2>1. Doing(v).at = "scan"
    BY <1>14, CheckEdges
  <2>2. PICK g, n : /\ g.at = "scan" /\ g.chunk = Doing(v).chunk
                    /\ FramesOK(<<g>> \o Below(v), Held(v))
                    /\ \/ Become(v, <<g>> \o Below(v))
                       \/ Become(v, <<Scheduling(n)>> \o (<<g>> \o Below(v)))
    <3>1. \E n \in Doing(v).left : \E unready :
            LET later == <<Scanning(Doing(v).chunk, Doing(v).to, Doing(v).left \ {n}, unready)>> \o Below(v)
            IN  Become(v, later) \/ Become(v, <<Scheduling(n)>> \o later)
      BY <1>14, CheckEdges
    <3>2. PICK n, unready : n \in Doing(v).left /\
            LET later == <<Scanning(Doing(v).chunk, Doing(v).to, Doing(v).left \ {n}, unready)>> \o Below(v)
            IN  Become(v, later) \/ Become(v, <<Scheduling(n)>> \o later)
      BY <3>1
    <3>3. PICK g : g = Scanning(Doing(v).chunk, Doing(v).to, Doing(v).left \ {n}, unready)
      OBVIOUS
    <3>4. Doing(v).chunk \in Chunks /\ Doing(v).left \ {n} \subseteq Reads(Doing(v).chunk, Doing(v).to)
      BY <1>14, ScanningFrame DEF CheckNeighbour, StepInv, EdgeInv
    <3>5. FramesOK(<<g>> \o Below(v), Held(v))
      BY <1>4, <3>3, <3>4, ScanningOK
    <3> QED
      BY <3>2, <3>3, <3>5 DEF Scanning
  <2> DEFINE rest == <<g>> \o Below(v)
  <2>3. (Expects(Below(v), c) \/ g.chunk = c) => Expects(rest, c)
    BY <1>4, <2>2, ExpectsMore
  <2>4. FramesOK(rest, Held(v))
    BY <2>2
  <2> HIDE DEF rest
  <2>5. ~Expects(rest, c)
    BY <1>3, <2>2, <2>4, ExpectsMore DEF rest
  <2> QED
    BY <1>2, <2>1, <2>2, <2>3, <2>5 DEF Expects
<1>15. CASE Reconcile(v)
  <2>1. Doing(v).at = "reconcile"
    BY <1>15 DEF Reconcile, At, Doing
  <2>2. PICK left : Become(v, Through("reconcile", left, Below(v)))
    BY <1>15 DEF Reconcile
  <2>3. ~Expects(Below(v), c)
    BY <1>3, <1>4, <2>2, ThroughExpects
  <2> QED
    BY <1>2, <2>1, <2>3 DEF Expects
<1> QED
  BY <1>6, <1>7, <1>8, <1>9, <1>10, <1>11, <1>12, <1>13, <1>14, <1>15 DEF Proceed

-----------------------------------------------------------------------------
(* Who is owed something.                                                  *)

LEMMA OwedSought ==
    ASSUME StepInv, NEW c \in Chunks, Owed(c)
    PROVE  Sought(c) /\ status[c] < Target(c)
<1>1. Sought(c)
  BY DEF Owed, Sought
<1> QED
  BY <1>1, SoughtTarget

(* A chunk is owed something new when it is requested, when its ticket moves or when it is linked. *)
LEMMA OwedNext ==
    ASSUME StepInv, Next, NEW c \in Chunks, status'[c] = status[c], Owed(c)', ~Owed(c)
    PROVE  \/ \E r \in Requests : RequestChunk(r) /\ Wanted[r].chunk = c
           \/ SetTicket(c)
           \/ \E d \in Chunks : \E s : Links(d, c, s)
<1>1. CASE Ticket(c)' >= Border /\ Ticket(c)' > status'[c]
  <2>1. moves'[c] # moves[c]
    BY <1>1 DEF Owed, Ticket
  <2>2. ASSUME NEW d \in Chunks, SetTicket(d)
        PROVE  d = c
    BY <2>1, <2>2 DEF SetTicket, StepInv, DemandOK
  <2> QED
    BY <2>1, <2>2, Touched
<1>2. ASSUME NEW r \in Requests, asked'[r] = "waiting", Wanted[r].chunk = c, Wanted[r].status > status'[c]
      PROVE  RequestChunk(r)
  <2>1. asked[r] # "waiting"
    BY <1>2 DEF Owed, Waiters
  <2> QED
    BY <1>2, <2>1, AskedNext
<1>3. ASSUME NEW m \in Chunks, waiting'[c][m] > status'[c]
      PROVE  \E s : Links(m, c, s)
  <2>1. waiting'[c][m] # waiting[c][m]
    BY <1>3 DEF Owed
  <2>2. status'[c] \in Heights /\ waiting'[c][m] \in Heights
    BY StepNext DEF StepInv, WorkInv, HoldersOK, DemandOK
  <2>3. waiting'[c][m] # -1
    BY <1>3, <2>2 DEF Heights
  <2>4. c \in blocking'[m]
    BY <2>3, StepNext DEF StepInv, EdgeInv, EdgesMatch
  <2> QED
    BY <2>1, <2>4, EdgeKept
<1> QED
  BY <1>1, <1>2, <1>3 DEF Owed, Waiters

(* A holder that fails does not wake anybody. *)
LEMMA FailsQuiet ==
    ASSUME StepInv, JobsOK, NotifyOK, NEW m \in Chunks, Fails(m)
    PROVE  ~WakePending(m)
<1>1. CASE LoadUnreadable(m)
  <2>1. source[m] = "resolving" /\ status[m] # Top
    BY <1>1, TopOK DEF LoadUnreadable, Loading, StepInv, WorkInv, HoldersOK
  <2>2. jobs[<<"notify", m>>] = 0
    BY <2>1 DEF JobsOK
  <2>3. ASSUME NEW f \in Hands, Publishes(f, m)
        PROVE  FALSE
    BY <2>1, <2>3, HandsKnown, KnownOK DEF Publishes, StepInv, EdgeInv, WorkInv
  <2> QED
    BY <2>2, <2>3 DEF WakePending
<1>2. ASSUME NEW w \in Workers, Fail(w), Doing(w).task.chunk = m
      PROVE  ~WakePending(m)
  <2>1. PICK f : f = Doing(w)
    OBVIOUS
  <2>2. f \in Hands /\ f.at = "failing" /\ f.task \in Known
    BY <1>2, <2>1, AtTask DEF Fail, StepInv, EdgeInv, TaskPlaces
  <2>3. jobs[<<"notify", m>>] = 0
    BY <1>2, <2>1, <2>2 DEF NotifyOK
  <2>4. ASSUME NEW g \in Hands, Publishes(g, m)
        PROVE  FALSE
    BY <1>2, <2>1, <2>2, <2>4 DEF Publishes, StepInv, WorkInv, HandsOK
  <2> QED
    BY <2>3, <2>4 DEF WakePending
<1> QED
  BY <1>1, <1>2 DEF Fails

(* Completion schedules those it wakes, and the chunk again when more is asked of it. *)
LEMMA CompletePushes ==
    ASSUME StepInv, NEW w \in Workers, Complete(w), NEW t, t = Doing(w).task, task[t.chunk] # None
    PROVE  /\ Unblock(t.chunk, Freed(t.chunk, t.to)) /\ t.to \in Heights
           /\ \A c \in Woken(t.chunk, t.to) : Expects(stack'[w], c)
           /\ ~failed[t.chunk] /\ Owed(t.chunk)' => Expects(stack'[w], t.chunk)
<1> DEFINE c == t.chunk
           now == Max({status[c], t.to})
           e == [m \in Chunks |-> IF m \in Freed(c, t.to) THEN -1 ELSE waiting[c][m]]
           again == {x \in {c} : ~failed[c] /\ now < Highest(Ticket(c), Waiters(c), e)}
           left == Woken(c, t.to) \cup again
           done == <<ForTask("done", t)>>
<1>1. /\ Unblock(c, Freed(c, t.to)) /\ Become(w, Through("reschedule", left, done))
      /\ status' = [status EXCEPT ![c] = now] /\ UNCHANGED moves
      /\ asked' = asked \/ asked' = Tell(Satisfied(c, Waiters(c), now), "answered")
  BY DEF Complete
<1>2. t \in Known /\ c \in Chunks /\ t.to \in Statuses /\ status'[c] = t.to
  BY TaskEnds DEF Open
<1>3. t.to \in Heights /\ now = t.to
  BY <1>1, <1>2, TopOK DEF StepInv, WorkInv, HoldersOK, Heights, Statuses
<1>4. FramesOK(done, Held(w)) /\ stack'[w] = Through("reschedule", left, done)
  <2>1. At(w, "complete")
    BY DEF Complete
  <2>2. FramesOK(done, Held(w))
    BY <2>1, SameTaskFrame DEF StepInv, EdgeInv, TaskPlaces
  <2> QED
    BY <1>1, <2>2, BecomeStack DEF StepInv, EdgeInv
<1>5. \A x \in left : Expects(stack'[w], x)
  <2> HIDE DEF left, done
  <2> QED
    BY <1>4, ThroughExpects
<1>6. ASSUME ~failed[c], Owed(c)'
      PROVE  c \in left
  <2>1. Ticket(c)' = Ticket(c) /\ Ticket(c) \in Heights
    BY <1>1, <1>2, TicketOK DEF Ticket, StepInv, DemandOK
  <2>2. \A r \in Requests : asked'[r] = "waiting" => asked[r] = "waiting"
    BY <1>1 DEF Tell
  <2>3. \A m \in Chunks : waiting'[c][m] = e[m] /\ e[m] \in Heights
    <3>1. \A m \in Chunks : e[m] = IF m \in Freed(c, t.to) THEN -1 ELSE waiting[c][m]
      OBVIOUS
    <3> HIDE DEF e
    <3>2. \A m \in Chunks : waiting'[c][m] = IF m \in Freed(c, t.to) THEN -1 ELSE waiting[c][m]
      BY <1>1, <1>2 DEF Unblock, StepInv, EdgeInv, EdgeShape
    <3>3. -1 \in Heights /\ \A m \in Chunks : waiting[c][m] \in Heights
      BY <1>2, TopOK DEF StepInv, DemandOK, Heights
    <3> QED
      BY <3>1, <3>2, <3>3
  <2>4. Waiters(c) \in SUBSET Requests /\ now \in Int
    BY <1>3, TopOK DEF Waiters, Heights
  <2> HIDE DEF now, e
  <2>5. Ticket(c) > now \/ (\E r \in Waiters(c) : Wanted[r].status > now) \/ \E m \in Chunks : e[m] > now
    <3>1. status'[c] = now
      BY <1>2, <1>3
    <3> HIDE DEF c
    <3> QED
      BY <1>6, <2>1, <2>2, <2>3, <3>1 DEF Owed, Waiters
  <2>6. Highest(Ticket(c), Waiters(c), e) > now
    BY <2>1, <2>3, <2>4, <2>5, HighestAbove
  <2>7. now < Highest(Ticket(c), Waiters(c), e)
    BY <2>6
  <2> QED
    BY <1>6, <2>7
<1> QED
  BY <1>1, <1>3, <1>5, <1>6

LEMMA NotifyPushes ==
    ASSUME StepInv, NEW w \in Workers, NEW n \in Chunks, NotifyStored(w, n)
    PROVE  \A c \in Woken(n, Top) : Expects(stack'[w], c)
<1> DEFINE left == Woken(n, Top)
<1>1. stack'[w] = Through("reschedule", left, <<>>)
  BY BecomeStack DEF NotifyStored, StepInv, EdgeInv
<1>2. FramesOK(<<>>, {})
  BY EmptyOK
<1> HIDE DEF left
<1> QED
  BY <1>1, <1>2, ThroughExpects DEF left

(* A complete chunk is owed nothing. *)
LEMMA TopServed ==
    ASSUME StepInv, Next, NEW c \in Chunks, Owed(c)'
    PROVE  status'[c] < Top
<1>1. StepInv'
  BY StepNext
<1>2. status'[c] \in Heights /\ Ticket(c)' \in Heights
  <2>1. PICK n : n = moves'[c] /\ n \in 0 .. Len(Path[c])
    BY <1>1 DEF StepInv, DemandOK
  <2>2. TicketAfter(c, n) \in Heights
    BY <2>1, TicketOK
  <2> QED
    BY <1>1, <2>1, <2>2 DEF Ticket, StepInv, WorkInv, HoldersOK
<1>3. \A r \in Requests : Wanted[r].status \in 1 .. Top
  BY AssumptionParts
<1>4. \A m \in Chunks : waiting'[c][m] \in Heights
  BY <1>1 DEF StepInv, DemandOK
<1> QED
  BY <1>2, <1>3, <1>4, TopOK DEF Owed, Heights, Waiters

(* A chunk that rises and is still owed something has a task, or is scheduled again. *)
LEMMA RisenAwake ==
    ASSUME StepInv, Next, NEW c \in Chunks, status'[c] # status[c], ~failed'[c], Owed(c)'
    PROVE  Pending(c)'
<1>1. status'[c] < Top /\ ~failed[c]
  BY TopServed, FailedNext
<1>2. ~LoadHit(c)
  <2>1. ASSUME LoadHit(c)
        PROVE  status'[c] = Top
    BY <2>1 DEF LoadHit, StepInv, WorkInv, HoldersOK
  <2> QED
    BY <1>1, <2>1, TopOK
<1>3. PICK w \in Workers : (Body(w) \/ Complete(w)) /\ Doing(w).task.chunk = c
  BY <1>2, StatusNext
<1>4. PICK t : t = Doing(w).task
  OBVIOUS
<1>5. t \in Known /\ t.chunk = c /\ task[c] = t /\ t # None
  BY <1>1, <1>3, <1>4, TaskEnds, KnownOK DEF OpenOK, Open, StepInv, WorkInv
<1>6. CASE Body(w)
  BY <1>5, <1>6 DEF Body, Pending
<1>7. CASE Complete(w)
  <2>1. Expects(stack'[w], c)
    BY <1>1, <1>4, <1>5, <1>7, CompletePushes
  <2> QED
    BY <2>1 DEF Pending, Expected
<1> QED
  BY <1>3, <1>6, <1>7

(* What is posted is there. *)
LEMMA Posted ==
    ASSUME JobsOK, NEW js, Post(js), NEW job \in Jobs, job \in js
    PROVE  jobs'[job] # 0
BY DEF JobsOK, Post

(* A chunk that is asked for more is loaded, scheduled, or has a task already. *)
LEMMA AskedAwake ==
    ASSUME StepInv, JobsOK, ReadyOK, Next, NEW c \in Chunks, status'[c] = status[c],
           Owed(c)', ~Owed(c)
    PROVE  Pending(c)'
<1>1. source[c] # "ready"
  BY TopServed, TopOK DEF ReadyOK
<1>2. source[c] \in {"unknown", "resolving", "missing"} /\ status[c] \in Heights
  BY <1>1 DEF StepInv, WorkInv, HoldersOK
<1>3. PICK job : job = <<"schedule", c>>
  OBVIOUS
<1>4. job \in Jobs
  BY <1>3 DEF Jobs
<1>5. ASSUME NEW asks, NEW waiters, NEW target, Advance(c, asks, waiters, target), status[c] < target, UNCHANGED task,
             NEW js, Post(js), MustSchedule(c, target) => job \in js
      PROVE  Pending(c)'
  <2>1. target # -1
    BY <1>2, <1>5 DEF Heights
  <2>2. CASE source[c] = "unknown"
    <3>1. source' = [source EXCEPT ![c] = "resolving"]
      BY <1>5, <2>1, <2>2 DEF Advance
    <3> QED
      BY <3>1 DEF Pending, StepInv, WorkInv, HoldersOK
  <2>3. CASE source[c] = "resolving"
    BY <1>5, <2>3 DEF Advance, Pending
  <2>4. CASE source[c] = "missing"
    BY <1>3, <1>4, <1>5, <2>4, Posted DEF MustSchedule, Pending
  <2> QED
    BY <1>2, <2>2, <2>3, <2>4
<1>6. ASSUME NEW r \in Requests, RequestChunk(r), Wanted[r].chunk = c
      PROVE  Pending(c)'
  <2>1. PICK target : target = Highest(Ticket(c), Waiters(c) \cup {r}, waiting[c])
    OBVIOUS
  <2>2. Advance(c, Tell({r}, "waiting"), Waiters(c) \cup {r}, target)
    BY <1>1, <1>6, <2>1 DEF RequestChunk
  <2>3. UNCHANGED <<moves, task, waiting>> /\ Post({j \in {job} : MustSchedule(c, target)})
    BY <1>1, <1>3, <1>6, <2>1 DEF RequestChunk, edgeVars
  <2>4. status[c] < target
    <3>1. Ticket(c)' = Ticket(c) /\ Ticket(c) \in Heights
      BY <2>3, TicketOK DEF Ticket, StepInv, DemandOK
    <3>2. \A q \in Requests : asked'[q] = "waiting" => asked[q] = "waiting" \/ q = r
      BY <2>2 DEF Advance, Tell
    <3>3. \A m \in Chunks : waiting[c][m] \in Heights
      BY DEF StepInv, DemandOK
    <3>4. \/ Ticket(c) > status[c]
          \/ \E q \in Waiters(c) \cup {r} : Wanted[q].status > status[c]
          \/ \E m \in Chunks : waiting[c][m] > status[c]
      BY <2>3, <3>1, <3>2 DEF Owed, Waiters
    <3>5. Waiters(c) \cup {r} \in SUBSET Requests /\ status[c] \in Int
      BY <1>2, TopOK DEF Waiters, Heights
    <3>6. target > status[c]
      BY <2>1, <3>1, <3>3, <3>4, <3>5, HighestAbove
    <3> QED
      BY <3>6
  <2> QED
    BY <1>5, <2>2, <2>3, <2>4
<1>7. ASSUME SetTicket(c)
      PROVE  Pending(c)'
  <2>1. PICK new, target : new = TicketAfter(c, moves[c] + 1) /\ target = Highest(new, Waiters(c), waiting[c])
    OBVIOUS
  <2>2. /\ moves' = [moves EXCEPT ![c] = @ + 1] /\ moves[c] < Len(Path[c]) /\ UNCHANGED <<task, status, waiting>>
        /\ new >= Border => Advance(c, asked, Waiters(c), target)
        /\ \E js : Post(js) /\ (new >= Border /\ MustSchedule(c, target) => job \in js)
        /\ \A r \in Requests : asked'[r] = "waiting" => asked[r] = "waiting"
    BY <1>3, <1>7, <2>1 DEF SetTicket, edgeVars, Advance
  <2>3. Ticket(c)' = new
    <3>1. moves'[c] = moves[c] + 1
      BY <2>2 DEF StepInv, DemandOK
    <3> QED
      BY <2>1, <3>1 DEF Ticket
  <2>4. new >= Border /\ new > status[c]
    BY <2>2, <2>3 DEF Owed, Waiters
  <2>5. status[c] < target
    <3>1. new \in Heights
      <4>1. PICK n : n = moves[c] + 1 /\ n \in 0 .. Len(Path[c])
        <5>1. moves[c] \in 0 .. Len(Path[c]) /\ Len(Path[c]) \in Nat
          <6>1. Path[c] \in Seq({-1} \cup Statuses)
            BY AssumptionParts
          <6>2. Len(Path[c]) \in Nat
            BY <6>1
          <6> QED
            BY <6>2 DEF StepInv, DemandOK
        <5> QED
          BY <2>2, <5>1
      <4> QED
        BY <2>1, <4>1, TicketOK
    <3>2. \A m \in Chunks : waiting[c][m] \in Heights
      BY DEF StepInv, DemandOK
    <3>3. Waiters(c) \in SUBSET Requests /\ status[c] \in Int
      BY <1>2, TopOK DEF Waiters, Heights
    <3>4. target > status[c]
      BY <2>1, <2>4, <3>1, <3>2, <3>3, HighestAbove
    <3> QED
      BY <3>4
  <2> QED
    BY <1>5, <2>2, <2>4, <2>5
<1>8. ASSUME NEW d \in Chunks, NEW s, Links(d, c, s)
      PROVE  Pending(c)'
  BY <1>8 DEF Links, Pending, holderVars
<1> QED
  BY <1>6, <1>7, <1>8, OwedNext

(* What was about to happen to a chunk happens, or is still about to. *)
LEMMA ResolvingAwake ==
    ASSUME StepInv, JobsOK, Next, NEW c \in Chunks, status'[c] = status[c], Owed(c), source[c] = "resolving"
    PROVE  Pending(c)'
<1>1. CASE LoadMissing(c)
  <2>1. PICK job : job = <<"schedule", c>>
    OBVIOUS
  <2>2. job \in Jobs
    BY <2>1 DEF Jobs
  <2>3. UNCHANGED task /\ \E js : Post(js) /\ (task[c] = None => job \in js)
    BY <1>1, <2>1, OwedSought DEF LoadMissing
  <2> QED
    BY <2>1, <2>2, <2>3, Posted DEF Pending
<1>2. ~LoadHit(c)
  <2>1. status[c] = -1
    BY DEF StepInv, WorkInv, HoldersOK
  <2> QED
    BY <2>1, TopOK DEF LoadHit, StepInv, WorkInv, HoldersOK
<1>3. ASSUME NEW w \in Workers, Body(w)
      PROVE  Doing(w).task.chunk # c
  <2>1. PICK t : t = Doing(w).task
    OBVIOUS
  <2>2. t \in Known
    BY <1>3, <2>1, TaskEnds DEF Open
  <2> QED
    BY <2>1, <2>2, KnownOK DEF StepInv, WorkInv
<1> QED
  BY <1>1, <1>2, <1>3, SourceNext DEF Pending

LEMMA TaskAwake ==
    ASSUME StepInv, JobsOK, Next, NEW c \in Chunks, status'[c] = status[c], ~failed'[c], Owed(c), Owed(c)',
           task[c] # None
    PROVE  Pending(c)'
<1>1. CASE source[c] = "resolving"
  BY <1>1, ResolvingAwake
<1>2. ASSUME NEW w \in Workers, Complete(w), Doing(w).task.chunk = c
      PROVE  Pending(c)'
  <2>1. PICK t : t = Doing(w).task
    OBVIOUS
  <2>2. t.chunk = c /\ ~failed[c]
    BY <1>2, <2>1, FailedNext
  <2>3. Expects(stack'[w], c)
    BY <1>2, <2>1, <2>2, CompletePushes
  <2> QED
    BY <2>3 DEF Pending, Expected
<1>3. ASSUME NEW w \in Workers, Cancel(w), Doing(w).task.chunk = c, task'[c] # task[c]
      PROVE  Pending(c)'
  <2>1. PICK t : t = Doing(w).task
    OBVIOUS
  <2> DEFINE undone == <<ForTask("undone", t)>>
             rest == Through("reschedule", {c}, undone)
  <2>2. Become(w, Through("reconcile", {c}, rest))
    BY <1>3, <2>1 DEF Cancel
  <2>3. FramesOK(undone, Held(w))
    <3>1. At(w, "cancel")
      BY <1>3 DEF Cancel
    <3> QED
      BY <2>1, <3>1, SameTaskFrame DEF StepInv, EdgeInv, TaskPlaces
  <2>4. FramesOK(rest, Held(w)) /\ Expects(rest, c)
    <3> HIDE DEF undone
    <3>1. {c} \in SUBSET Chunks
      OBVIOUS
    <3> QED
      BY <2>3, <3>1, ThroughOK, ThroughExpects
  <2> HIDE DEF undone, rest
  <2>5. stack'[w] = Through("reconcile", {c}, rest)
    BY <2>2, BecomeStack DEF StepInv, EdgeInv
  <2>6. Expects(stack'[w], c)
    BY <2>4, <2>5, ThroughExpects
  <2> QED
    BY <2>6 DEF Pending, Expected
<1>4. ASSUME NEW to, Submits(c, to)
      PROVE  Pending(c)'
  BY <1>4, SubmitsKnown DEF Pending
<1>5. CASE task'[c] = task[c]
  BY <1>5 DEF Pending
<1> QED
  BY <1>1, <1>2, <1>3, <1>4, <1>5, TaskNext

LEMMA JobAwake ==
    ASSUME StepInv, JobsOK, Next, NEW c \in Chunks, jobs[<<"schedule", c>>] # 0
    PROVE  Pending(c)'
<1>1. PICK job : job = <<"schedule", c>>
  OBVIOUS
<1>2. job \in Jobs
  BY <1>1 DEF Jobs
<1>3. ASSUME NEW w \in Workers, ScheduleJob(w, c)
      PROVE  Pending(c)'
  <2>1. stack'[w] = <<Scheduling(c)>>
    BY <1>3, BecomeStack DEF ScheduleJob, StepInv, EdgeInv
  <2>2. Expects(stack'[w], c)
    BY <2>1, FewShape DEF Expects, Scheduling
  <2> QED
    BY <2>2 DEF Pending, Expected
<1>4. CASE jobs'[job] # 0
  BY <1>1, <1>4 DEF Pending
<1>5. CASE jobs'[job] = 0
  <2>1. jobs[job] # 0
    BY <1>1
  <2>2. PICK w \in Workers, d \in Chunks :
            \/ job = <<"schedule", d>> /\ ScheduleJob(w, d)
            \/ job = <<"notify", d>> /\ NotifyStored(w, d)
            \/ job = <<"reconcile", d>> /\ ReconcileJob(w, d)
    BY <1>2, <1>5, <2>1, JobStays
  <2> QED
    BY <1>1, <1>3, <2>2
<1> QED
  BY <1>4, <1>5

LEMMA ExpectedAwake ==
    ASSUME StepInv, JobsOK, ScanHeld, Next, NEW c \in Chunks, status'[c] = status[c], ~failed'[c],
           Owed(c), Owed(c)', Expected(c)
    PROVE  Pending(c)' \/ \E s \in Int : status'[c] = s - 1 /\ HeldUp(c, s)'
<1>1. PICK v \in Workers : Expects(stack[v], c)
  BY DEF Expected
<1>2. CASE Expects(stack'[v], c)
  BY <1>2 DEF Pending, Expected
<1>3. ASSUME task[c] # None \/ source[c] = "resolving"
      PROVE  Pending(c)'
  BY <1>3, TaskAwake, ResolvingAwake
<1>4. CASE NothingToSchedule(v) /\ Doing(v).chunk = c
  <2>1. ~Schedulable(c) \/ source[c] = "resolving"
    BY <1>4 DEF NothingToSchedule
  <2>2. ~failed[c] /\ status[c] < Target(c) /\ status[c] \in Heights
    BY FailedNext, OwedSought DEF StepInv, WorkInv, HoldersOK
  <2>3. Target(c) \in Heights
    BY TargetOK DEF StepInv
  <2>4. Target(c) # -1 /\ ~Reached(c)
    BY <2>2, <2>3, TopOK DEF Heights, Reached
  <2>5. task[c] # None \/ source[c] = "resolving"
    BY <2>1, <2>2, <2>4 DEF Schedulable
  <2> QED
    BY <1>3, <2>5
<1>5. CASE ResolveStorage(v) /\ Doing(v).chunk = c
  BY <1>5 DEF ResolveStorage, Pending, StepInv, WorkInv, HoldersOK
<1>6. CASE (LoadEmpty(v) \/ Scanned(v)) /\ Doing(v).chunk = c
  <2>1. ASSUME NEW to, Submits(c, to)
        PROVE  Pending(c)'
    BY <2>1, SubmitsKnown DEF Pending
  <2>2. PICK f : f = Doing(v)
    OBVIOUS
  <2>3. ASSUME f.at = "scan", f.unready, f \in Inside(stack[v])
        PROVE  \E s \in Int : status'[c] = s - 1 /\ HeldUp(c, s)'
    <3>1. f.chunk = c /\ HeldUp(c, f.to)
      BY <1>6, <2>2, <2>3 DEF ScanHeld
    <3>2. f.to \in Int /\ status[c] = f.to - 1
      BY <2>3, <3>1, ScanFrame, TopOK DEF ScanOK, StepInv
    <3>3. UNCHANGED <<blocking, failed>>
      BY <1>6 DEF LoadEmpty, Scanned, edgeVars
    <3>4. PICK s : s = f.to
      OBVIOUS
    <3>5. HeldUp(c, s)'
      BY <3>1, <3>3, <3>4 DEF HeldUp
    <3> QED
      BY <3>2, <3>4, <3>5
  <2> QED
    BY <1>6, <2>1, <2>2, <2>3, SubmitNext
<1> QED
  BY <1>1, <1>2, <1>4, <1>5, <1>6, ExpectedNext

(* A chunk that is held up is held up further, or woken. *)
LEMMA HeldAwake ==
    ASSUME StepInv, JobsOK, NotifyOK, EdgesLive, Next, NEW c \in Chunks, status'[c] = status[c], ~failed'[c],
           Owed(c), NEW s \in Int, status[c] = s - 1, HeldUp(c, s)
    PROVE  Pending(c)' \/ \E q \in Int : status'[c] = q - 1 /\ HeldUp(c, q)'
<1>1. ASSUME NEW n \in Reads(c, s), failed[n]
      PROVE  HeldUp(c, s)'
  <2>1. n \in Chunks
    BY DEF Reads
  <2> QED
    BY <1>1, <2>1, FailedNext DEF HeldUp
<1>2. CASE blocking[c] # {} /\ blocking'[c] = {}
  <2>1. ASSUME NEW n \in Chunks, Abandon(n), Fails(n)
        PROVE  \E q \in Int : status'[c] = q - 1 /\ HeldUp(c, q)'
    <3>1. failed'[n]
      BY <2>1 DEF Abandon, StepInv, WorkInv, HoldersOK
    <3>2. c # n
      BY <3>1
    <3>3. n \in blocking[c]
      BY <1>2, <2>1, <3>2, AbandonEdges
    <3>4. ~WakePending(n)
      BY <2>1, FailsQuiet
    <3>5. PICK q \in 1 .. Top : Firm(c, n, q)
      BY <3>3, <3>4 DEF EdgesLive
    <3>6. status'[c] = q - 1 /\ n \in Reads(c, q) /\ q \in Int
      BY <3>5, TopOK DEF Firm
    <3>7. HeldUp(c, q)'
      BY <3>1, <3>6 DEF HeldUp
    <3> QED
      BY <3>6, <3>7
  <2>2. ASSUME NEW n \in Chunks, NEW level, Unblock(n, Freed(n, level)), Wakes(n, level)
        PROVE  Pending(c)'
    <3>1. level \in Heights => c \in Woken(n, level)
      BY <1>2, <2>2, WakeEdges
    <3>2. ASSUME NEW w \in Workers, Complete(w), task[n] # None, Doing(w).task.chunk = n, Doing(w).task.to = level
          PROVE  Expects(stack'[w], c)
      <4>1. PICK t : t = Doing(w).task
        OBVIOUS
      <4>2. t.chunk = n /\ t.to = level
        BY <3>2, <4>1
      <4>3. level \in Heights /\ \A x \in Woken(n, level) : Expects(stack'[w], x)
        BY <3>2, <4>1, <4>2, CompletePushes
      <4> QED
        BY <3>1, <4>3
    <3>3. ASSUME NEW w \in Workers, NotifyStored(w, n), level = Top
          PROVE  Expects(stack'[w], c)
      <4>1. level \in Heights
        BY <3>3, TopOK DEF Heights
      <4> QED
        BY <3>1, <3>3, <4>1, NotifyPushes
    <3> QED
      BY <2>2, <3>2, <3>3 DEF Wakes, Pending, Expected
  <2>3. ASSUME NEW d \in Chunks, NEW n \in Chunks, NEW q, Links(d, n, q)
        PROVE  FALSE
    BY <1>2, <2>3, LinkEdges
  <2>4. ASSUME NEW d \in Chunks, Drops(d)
        PROVE  FALSE
    <3>1. d = c
      BY <1>2, <2>4, DropEdges
    <3>2. status[c] < Target(c) /\ status[c] \in Int /\ Target(c) \in Int
      BY OwedSought, TargetOK, TopOK DEF StepInv, WorkInv, HoldersOK, Heights
    <3> QED
      BY <2>4, <3>1, <3>2 DEF Drops, Reached
  <2> QED
    BY <1>2, <2>1, <2>2, <2>3, <2>4, EdgesNext
<1>3. CASE blocking[c] # {} /\ blocking'[c] # {}
  <2>1. HeldUp(c, s)'
    BY <1>3 DEF HeldUp
  <2> QED
    BY <2>1
<1> QED
  BY <1>1, <1>2, <1>3 DEF HeldUp

LEMMA AwakeNext ==
    ASSUME StepInv, JobsOK, NotifyOK, ReadyOK, EdgesLive, ScanHeld, Awake, Next
    PROVE  Awake'
<1> SUFFICES ASSUME NEW c \in Chunks, ~failed'[c], Owed(c)'
             PROVE  Pending(c)' \/ \E s \in Int : status'[c] = s - 1 /\ HeldUp(c, s)'
  BY DEF Awake
<1>1. CASE status'[c] # status[c]
  BY <1>1, RisenAwake
<1>2. CASE status'[c] = status[c] /\ ~Owed(c)
  BY <1>2, AskedAwake
<1>3. CASE status'[c] = status[c] /\ Owed(c)
  <2>1. ~failed[c]
    BY FailedNext
  <2>2. Pending(c) \/ \E s \in Int : status[c] = s - 1 /\ HeldUp(c, s)
    BY <1>3, <2>1 DEF Awake
  <2>3. CASE \E s \in Int : status[c] = s - 1 /\ HeldUp(c, s)
    BY <1>3, <2>3, HeldAwake
  <2>4. CASE Expected(c)
    BY <1>3, <2>4, ExpectedAwake
  <2> QED
    BY <1>3, <2>2, <2>3, <2>4, ResolvingAwake, TaskAwake, JobAwake DEF Pending
<1> QED
  BY <1>1, <1>2, <1>3

-----------------------------------------------------------------------------
(* What a scan has found missing.                                          *)

(* A scan was there before the step, begins with it, or goes on. *)
LEMMA ScanFrom ==
    ASSUME StepInv, Next, NEW v \in Workers, NEW f \in Inside(stack'[v]), f.at = "scan", f.unready
    PROVE  \/ f \in Inside(stack[v])
           \/ /\ CheckNeighbour(v) /\ f.chunk = Doing(v).chunk /\ f.to = Doing(v).to
              /\ \/ UNCHANGED edgeVars /\ f.unready = Doing(v).unready
                 \/ UNCHANGED edgeVars /\ \E n \in Reads(f.chunk, f.to) : failed[n]
                 \/ \E n : Links(f.chunk, n, f.to)
<1>1. ASSUME stack'[v] # stack[v]
      PROVE  Proceed(v)
  <2>1. ~UNCHANGED stack
    BY <1>1
  <2>2. PICK w \in Workers : Proceed(w)
    BY <2>1 DEF Next, RequestChunk, SetTicket, Loaded, LoadHit, LoadMissing, LoadUnreadable
  <2> QED
    BY <1>1, <2>2, OthersStill
<1>2. ASSUME \A g \in Inside(stack'[v]) : g.at # "scan"
      PROVE  FALSE
  BY <1>2
<1>3. CASE \E d \in Chunks : ScheduleJob(v, d)
  <2>1. PICK d \in Chunks : Become(v, <<Scheduling(d)>>)
    BY <1>3 DEF ScheduleJob
  <2>2. stack'[v] = <<Scheduling(d)>>
    BY <2>1, BecomeStack DEF StepInv, EdgeInv
  <2>3. f = Scheduling(d)
    BY <2>2, FewShape
  <2> QED
    BY <2>3 DEF Scheduling
<1>4. CASE \E d \in Chunks : NotifyStored(v, d) \/ ReconcileJob(v, d)
  BY <1>2, <1>4, PlainJobShape DEF StepInv
<1>5. CASE Reschedule(v)
  BY <1>2, <1>5, RescheduleShape DEF StepInv
<1>6. CASE NothingToSchedule(v) \/ ResolveStorage(v) \/ LoadEmpty(v) \/ Scanned(v)
  <2>1. Become(v, Below(v)) /\ (At(v, "schedule") \/ At(v, "scan"))
    BY <1>6 DEF NothingToSchedule, ResolveStorage, LoadEmpty, Scanned
  <2> QED
    BY <2>1, ReturnShape DEF StepInv
<1>7. CASE StartScan(v)
  <2>1. PICK s : s = Scanning(Doing(v).chunk, status[Doing(v).chunk] + 1,
                              Reads(Doing(v).chunk, status[Doing(v).chunk] + 1), FALSE)
    OBVIOUS
  <2>2. Inside(stack'[v]) \subseteq {s} \cup Inside(stack[v])
    BY <1>7, <2>1, StartScanShape DEF StepInv, WorkInv
  <2>3. s.unready = FALSE
    BY <2>1 DEF Scanning
  <2> QED
    BY <2>2, <2>3
<1>8. CASE CheckNeighbour(v)
  <2>1. PICK g : g = Doing(v)
    OBVIOUS
  <2>2. g.chunk \in Chunks /\ g.at = "scan" /\ FramesOK(Below(v), Held(v)) /\ g.left \subseteq Reads(g.chunk, g.to)
    BY <1>8, <2>1, CheckEdges, ScanningFrame DEF CheckNeighbour, StepInv, EdgeInv
  <2>3. PICK n, unready, later :
            /\ n \in g.left /\ later = Scanning(g.chunk, g.to, g.left \ {n}, unready)
            /\ \/ /\ UNCHANGED edgeVars /\ Become(v, <<later>> \o Below(v))
                  /\ unready = g.unready \/ (failed[n] /\ n \in Reads(g.chunk, g.to))
               \/ /\ Links(g.chunk, n, g.to)
                  /\ \/ Become(v, <<later>> \o Below(v))
                     \/ Become(v, <<Scheduling(n)>> \o (<<later>> \o Below(v)))
    BY <1>8, <2>1, CheckEdges
  <2>4. later.chunk = g.chunk /\ later.to = g.to /\ later.unready = unready /\ later.at = "scan"
    BY <2>3 DEF Scanning
  <2>5. FramesOK(<<later>> \o Below(v), Held(v))
    <3>1. g.left \ {n} \subseteq Reads(g.chunk, g.to)
      BY <2>2
    <3> QED
      BY <2>2, <2>3, <3>1, ScanningOK
  <2>6. Inside(stack[v]) = {g} \cup Inside(Below(v))
    <3>1. stack[v] # <<>>
      BY <1>8 DEF CheckNeighbour, At
    <3> QED
      BY <2>1, <3>1, PlainBelow DEF StepInv, EdgeInv
  <2>7. stack'[v] \in {<<later>> \o Below(v), <<Scheduling(n)>> \o (<<later>> \o Below(v))}
    BY <2>3, BecomeStack DEF StepInv, EdgeInv
  <2>8. Inside(<<later>> \o Below(v)) = {later} \cup Inside(Below(v))
    BY <2>2, OnTop
  <2>9. Inside(<<Scheduling(n)>> \o (<<later>> \o Below(v))) = {Scheduling(n)} \cup Inside(<<later>> \o Below(v))
    BY <2>5, OnTop
  <2>10. f = later \/ f \in Inside(Below(v))
    <3>1. Scheduling(n).at = "schedule"
      BY DEF Scheduling
    <3> QED
      BY <2>7, <2>8, <2>9, <3>1
  <2>11. CASE f = later
    BY <1>8, <2>1, <2>3, <2>4, <2>11
  <2> QED
    BY <2>6, <2>10, <2>11
<1>9. CASE TakeTask(v)
  <2>1. stack'[v] = stack[v] \/ \A g \in Inside(stack'[v]) : g.at # "scan"
    BY <1>9, TakeTaskShape DEF StepInv
  <2> QED
    BY <1>2, <2>1
<1>10. CASE Execute(v) \/ Body(v) \/ Complete(v) \/ Cancel(v) \/ CallbackUndone(v) \/ Reconcile(v)
  <2>1. stack'[v] = stack[v] \/ \A g \in Inside(stack'[v]) : g.at # "scan"
    BY <1>10, ExecuteShape, BodyShape, CompleteShape, CancelShape, UndoneShape, ReconcileShape DEF StepInv
  <2> QED
    BY <1>2, <2>1
<1>11. CASE CallbackDone(v) \/ Fail(v)
  <2>1. stack'[v] = <<>>
    BY <1>11, BecomeStack DEF CallbackDone, Fail, StepInv, EdgeInv
  <2> QED
    BY <2>1, FewShape
<1> QED
  BY <1>1, <1>3, <1>4, <1>5, <1>6, <1>7, <1>8, <1>9, <1>10, <1>11 DEF Proceed

(* Nobody takes an edge away while a worker scans. *)
LEMMA ScanHeldNext ==
    ASSUME StepInv, ScanHeld, Next
    PROVE  ScanHeld'
<1> SUFFICES ASSUME NEW v \in Workers, NEW f \in Inside(stack'[v]), f.at = "scan", f.unready
             PROVE  HeldUp(f.chunk, f.to)'
  BY DEF ScanHeld
<1>1. PICK c, s : c = f.chunk /\ s = f.to
  OBVIOUS
<1>2. \A n \in Reads(c, s) : failed[n] => failed'[n]
  BY FailedNext DEF Reads
<1>3. CASE f \in Inside(stack[v])
  <2>1. HeldUp(c, s) /\ c \in Chunks
    BY <1>1, <1>3, ScanFrame DEF ScanHeld, StepInv
  <2>2. Locked
    BY <1>3, LockedOK DEF StepInv, EdgeInv, Plain
  <2>3. ~\E n \in Chunks : Fails(n)
    BY <2>2 DEF Fails, LoadUnreadable, Fail
  <2>4. ~\E n \in Chunks : \E level : Wakes(n, level)
    BY <2>2 DEF Wakes, NotifyStored, Complete
  <2>5. ~\E d \in Chunks : Drops(d)
    BY <2>2 DEF Drops
  <2>6. UNCHANGED <<blocking, waiting>> \/ \E d, n \in Chunks : \E q : Links(d, n, q)
    BY <2>3, <2>4, <2>5, EdgesNext
  <2>7. blocking[c] \subseteq blocking'[c]
    BY <2>1, <2>6, LinkEdges
  <2>8. HeldUp(c, s)'
    BY <1>2, <2>1, <2>7 DEF HeldUp
  <2> QED
    BY <1>1, <2>8
<1>4. CASE CheckNeighbour(v) /\ c = Doing(v).chunk /\ s = Doing(v).to
  <2>1. CASE UNCHANGED edgeVars /\ f.unready = Doing(v).unready
    <3>1. HeldUp(c, s)
      BY <1>4, <2>1, CheckEdges DEF ScanHeld
    <3>2. HeldUp(c, s)'
      BY <1>2, <2>1, <3>1 DEF HeldUp, edgeVars
    <3> QED
      BY <1>1, <3>2
  <2>2. CASE \E n \in Reads(c, s) : failed[n]
    <3>1. HeldUp(c, s)'
      BY <1>2, <2>2 DEF HeldUp
    <3> QED
      BY <1>1, <3>1
  <2>3. ASSUME NEW n, Links(c, n, s)
        PROVE  HeldUp(f.chunk, f.to)'
    <3>1. c \in Chunks /\ n \in Chunks
      BY <1>4, <2>3, CheckEdges DEF Links, Reads
    <3>2. n \in blocking'[c]
      <4>1. blocking' = [blocking EXCEPT ![c] = @ \cup {n}]
        BY <2>3 DEF Links
      <4> QED
        BY <3>1, <4>1 DEF StepInv, EdgeInv, EdgeShape
    <3>3. HeldUp(c, s)'
      BY <3>2 DEF HeldUp
    <3> QED
      BY <1>1, <3>3
  <2> QED
    BY <1>1, <1>4, <2>1, <2>2, <2>3, <1>3, ScanFrom
<1> QED
  BY <1>1, <1>3, <1>4, ScanFrom

-----------------------------------------------------------------------------
(* Requests.                                                               *)

(* What is requested, and what is asked for, is a status above the empty one. *)
LEMMA WantedOK ==
    ASSUME NEW r \in Requests
    PROVE  Wanted[r].chunk \in Chunks /\ Wanted[r].status \in 1 .. Top /\ Wanted[r].status \in Heights
<1>1. Wanted[r] \in [chunk : Chunks, status : 1 .. Top]
  BY AssumptionParts
<1> QED
  BY <1>1, TopOK DEF Heights

(* A request that waits after a completion is for more. *)
LEMMA CompleteServes ==
    ASSUME StepInv, ReadyOK, NEW w \in Workers, Complete(w), NEW r \in Requests, asked'[r] = "waiting",
           Doing(w).task.chunk = Wanted[r].chunk, ~failed[Wanted[r].chunk]
    PROVE  status'[Wanted[r].chunk] < Wanted[r].status
<1>1. PICK t, c : t = Doing(w).task /\ c = Wanted[r].chunk
  OBVIOUS
<1>2. /\ t \in Known /\ t.chunk = c /\ c \in Chunks /\ t.to \in Statuses /\ Doing(w) \in Hands
      /\ OpenOK(t) /\ status'[c] = t.to
  BY <1>1, TaskEnds DEF Open
<1>3. task[c] # None
  BY <1>1, <1>2, KnownOK DEF OpenOK, StepInv, WorkInv
<1>4. PICK now : /\ now = Max({status[c], t.to}) /\ status' = [status EXCEPT ![c] = now]
                 /\ asked' = IF failed[c] \/ t.to = Top THEN asked
                             ELSE Tell(Satisfied(c, Waiters(c), now), "answered")
  BY <1>1, <1>2, <1>3 DEF Complete
<1>5. now = t.to
  BY <1>2, <1>4 DEF StepInv, WorkInv, HoldersOK
<1>6. CASE t.to = Top
  <2>1. Doing(w).at = "complete"
    BY DEF Complete, At, Doing
  <2>2. Waiters(c) = {}
    BY <1>1, <1>2, <1>6, <2>1 DEF ReadyOK
  <2> QED
    BY <1>1, <1>4, <1>6, <2>2 DEF Waiters
<1>7. CASE t.to # Top
  <2>1. asked[r] = "waiting" /\ r \notin Satisfied(c, Waiters(c), now)
    BY <1>1, <1>4, <1>7 DEF Tell
  <2>2. ~(now >= Wanted[r].status)
    BY <1>1, <2>1 DEF Satisfied, Waiters
  <2> QED
    BY <1>1, <1>2, <1>5, <2>2, WantedOK, TopOK DEF Statuses
<1> QED
  BY <1>6, <1>7

(* A new request for what the chunk has is answered at once, unless the chunk has a task. *)
LEMMA RequestServed ==
    ASSUME StepInv, NEW r \in Requests, RequestChunk(r), asked'[r] = "waiting",
           status'[Wanted[r].chunk] >= Wanted[r].status
    PROVE  task'[Wanted[r].chunk] # None
<1>1. PICK c, waiters, target : /\ c = Wanted[r].chunk /\ waiters = Waiters(c) \cup {r}
                                /\ target = Highest(Ticket(c), waiters, waiting[c])
  OBVIOUS
<1>2. Advance(c, Tell({r}, "waiting"), waiters, target) /\ UNCHANGED <<status, task>>
  BY <1>1 DEF RequestChunk, Tell
<1>3. target # -1
  <2>1. Ticket(c) \in Heights /\ (\A m \in Chunks : waiting[c][m] \in Heights) /\ waiters \in SUBSET Requests
    BY <1>1, WantedOK, TicketOK DEF Ticket, StepInv, DemandOK, Waiters
  <2>2. \E q \in waiters : Wanted[q].status > 0
    BY <1>1, WantedOK
  <2>3. PICK l : l = 0 /\ l \in Int
    OBVIOUS
  <2>4. Highest(Ticket(c), waiters, waiting[c]) > l
    BY <2>1, <2>2, <2>3, HighestAbove
  <2> QED
    BY <1>1, <2>3, <2>4
<1>4. r \in Satisfied(c, waiters, status[c])
  BY <1>1, <1>2 DEF Satisfied
<1>5. ASSUME task[c] = None
      PROVE  FALSE
  BY <1>2, <1>3, <1>4, <1>5 DEF Advance
<1> QED
  BY <1>1, <1>2, <1>5

(* A request is not left waiting for what its chunk has just reached. *)
LEMMA RisenServed ==
    ASSUME StepInv, ReadyOK, Next, NEW r \in Requests, asked[r] = "waiting", asked'[r] = "waiting",
           ~failed'[Wanted[r].chunk], status'[Wanted[r].chunk] # status[Wanted[r].chunk]
    PROVE  status'[Wanted[r].chunk] < Wanted[r].status
<1>1. PICK c : c = Wanted[r].chunk /\ c \in Chunks
  BY WantedOK
<1>2. r \in Waiters(c) /\ ~failed[c]
  BY <1>1, FailedNext DEF Waiters
<1>3. ~LoadHit(c)
  BY <1>2 DEF LoadHit, Tell
<1>4. ASSUME NEW w \in Workers, Body(w), Doing(w).task.chunk = c
      PROVE  status'[c] < Wanted[r].status
  <2>1. PICK t : t = Doing(w).task
    OBVIOUS
  <2>2. t.to \in {0, Top} /\ status'[c] = t.to
    BY <1>4, <2>1, TaskEnds
  <2>3. t.to # Top
    BY <1>2, <1>4, <2>1 DEF Body, Tell
  <2> QED
    BY <2>2, <2>3, WantedOK
<1>5. ASSUME NEW w \in Workers, Complete(w), Doing(w).task.chunk = c
      PROVE  status'[c] < Wanted[r].status
  BY <1>1, <1>2, <1>5, CompleteServes
<1> QED
  BY <1>1, <1>3, <1>4, <1>5, StatusNext

(* The end of the task that a request waits for serves it, or leads to the failure of the holder. *)
LEMMA ServedNext ==
    ASSUME StepInv, ReadyOK, Served, Next
    PROVE  Served'
<1> SUFFICES ASSUME NEW r \in Requests, NEW c \in Chunks, Wanted[r].chunk = c, asked'[r] = "waiting",
                    ~failed'[c], status'[c] >= Wanted[r].status
             PROVE  task'[c] # None \/ \E f \in Hands' : Leaves(f, c)
  BY DEF Served, ServedOK
<1>1. ~failed[c] /\ status[c] \in Int /\ status'[c] \in Int /\ Wanted[r].status \in Int /\ Wanted[r].status >= 1
  <2>1. HoldersOK /\ HoldersOK'
    BY StepNext DEF StepInv, WorkInv
  <2> QED
    BY <2>1, FailedNext, WantedOK, TopOK DEF HoldersOK, Heights
<1>2. CASE asked[r] # "waiting"
  BY <1>2, AskedNext, RequestServed
<1>3. CASE asked[r] = "waiting" /\ status'[c] # status[c]
  BY <1>1, <1>3, RisenServed
<1>4. CASE asked[r] = "waiting" /\ status'[c] = status[c]
  <2>1. source[c] # "resolving"
    BY <1>1, <1>4 DEF StepInv, WorkInv, HoldersOK
  <2>2. ASSUME NEW w \in Workers, Complete(w), Doing(w).task.chunk = c
        PROVE  FALSE
    BY <1>1, <2>2, CompleteServes
  <2>3. ASSUME NEW w \in Workers, Cancel(w), Doing(w).task.chunk = c
        PROVE  \E f \in Hands' : Leaves(f, c)
    <3>1. PICK t : t = Doing(w).task
      OBVIOUS
    <3>2. \E G : Hands' = (Hands \ {Doing(w)}) \cup G /\ G = {ForTask("undone", t)}
      BY <2>3, <3>1, WorkingHands DEF Working
    <3>3. Leaves(ForTask("undone", t), c)
      BY <2>3, <3>1 DEF Leaves, ForTask
    <3> QED
      BY <3>2, <3>3
  <2>4. ASSUME NEW to, Submits(c, to)
        PROVE  task'[c] # None
    BY <2>4, SubmitsKnown
  <2>5. CASE task[c] # None
    BY <2>1, <2>2, <2>3, <2>4, <2>5, TaskNext
  <2>6. CASE task[c] = None
    <3>1. PICK f \in Hands : Leaves(f, c)
      BY <1>1, <1>4, <2>6 DEF Served, ServedOK
    <3>2. ASSUME NEW w \in Workers, Working(w), Doing(w) = f
          PROVE  \E g \in Hands' : Leaves(g, c)
      <4>1. PICK t : t = f.task /\ t.chunk = c
        BY <3>1 DEF Leaves
      <4>2. CASE CallbackUndone(w)
        <5>1. \E G : Hands' = (Hands \ {Doing(w)}) \cup G /\ G = {Failing(t, task[c])}
          BY <3>2, <4>1, <4>2, WorkingHands
        <5>2. Leaves(Failing(t, task[c]), c)
          BY <2>6, <4>1 DEF Leaves, Failing
        <5> QED
          BY <5>1, <5>2
      <4>3. CASE Fail(w)
        <5>1. f.at = "failing" /\ f.seen = None
          BY <3>1, <3>2, <4>3, WorkingHands DEF Leaves
        <5>2. Abandon(c)
          BY <2>1, <2>6, <3>2, <4>1, <4>3, <5>1 DEF Fail
        <5> QED
          BY <5>2 DEF Abandon, StepInv, WorkInv, HoldersOK
      <4>4. f.at \in {"undone", "failing"}
        BY <3>1 DEF Leaves
      <4> QED
        BY <3>2, <4>2, <4>3, <4>4, WorkingHands DEF Working
    <3> QED
      BY <3>1, <3>2, HandStays
  <2> QED
    BY <2>5, <2>6
<1> QED
  BY <1>2, <1>3, <1>4

-----------------------------------------------------------------------------
(* The theorems about what is forgotten.                                   *)

WakeInv ==
    /\ StepInv /\ JobsOK /\ OwnerOK /\ NotifyOK /\ ReadyOK
    /\ FailedFree /\ EdgesLive /\ ScanHeld /\ Awake /\ Served

LEMMA WakeInit ==
    ASSUME Init
    PROVE  WakeInv
<1>1. StepInv
  BY StepInit
<1>2. \A w \in Workers : stack[w] = <<>>
  BY DEF Init
<1>3. Hands = {} /\ Known = {}
  <2>1. Known = {}
    BY DEF Init, Known
  <2> QED
    BY <1>2, <2>1, FewShape DEF Hands
<1>4. JobsOK
  BY DEF Init, JobsOK, Jobs
<1>5. OwnerOK /\ NotifyOK
  BY <1>3 DEF Init, OwnerOK, NotifyOK
<1>6. ReadyOK
  BY <1>3 DEF Init, ReadyOK
<1>7. FailedFree /\ EdgesLive
  BY DEF Init, FailedFree, EdgesLive
<1>8. ScanHeld
  BY <1>2, FewShape DEF ScanHeld
<1>9. Awake
  <2>1. ASSUME NEW c \in Chunks
        PROVE  ~Owed(c)
    <3>1. Ticket(c) = -1
      BY DEF Init, Ticket, TicketAfter
    <3>2. \A r \in Requests : asked[r] # "waiting"
      BY DEF Init
    <3>3. status[c] = -1 /\ \A m \in Chunks : waiting[c][m] = -1
      BY DEF Init
    <3> QED
      BY <3>1, <3>2, <3>3 DEF Owed, Waiters
  <2> QED
    BY <2>1 DEF Awake
<1>10. Served
  <2>1. \A r \in Requests : asked[r] # "waiting"
    BY DEF Init
  <2> QED
    BY <2>1 DEF Served, ServedOK
<1> QED
  BY <1>1, <1>4, <1>5, <1>6, <1>7, <1>8, <1>9, <1>10 DEF WakeInv

LEMMA WakeStays ==
    ASSUME WakeInv, UNCHANGED vars
    PROVE  WakeInv'
<1>1. StepInv'
  BY StepNext DEF WakeInv
<1>2. /\ UNCHANGED <<moves, asked, status, source, failed, task, blocking, waiting, tasks, jobs, stack>>
      /\ Hands' = Hands /\ Known' = Known
  BY DEF vars, holderVars, edgeVars, taskVars, Hands, Known
<1>3. JobsOK' /\ OwnerOK' /\ NotifyOK' /\ ReadyOK' /\ FailedFree'
  <2>1. JobsOK'
    BY <1>2 DEF WakeInv, JobsOK
  <2>2. OwnerOK'
    BY <1>2 DEF WakeInv, OwnerOK
  <2>3. NotifyOK'
    BY <1>2 DEF WakeInv, NotifyOK
  <2>4. ReadyOK'
    BY <1>2 DEF WakeInv, ReadyOK, Waiters
  <2>5. FailedFree'
    BY <1>2 DEF WakeInv, FailedFree
  <2> QED
    BY <2>1, <2>2, <2>3, <2>4, <2>5
<1>4. EdgesLive'
  BY <1>2 DEF WakeInv, EdgesLive, WakePending, Firm
<1>5. ScanHeld'
  BY <1>2 DEF WakeInv, ScanHeld, HeldUp
<1>6. Awake'
  BY <1>2 DEF WakeInv, Awake, Owed, Waiters, Ticket, Pending, Expected, HeldUp
<1>7. Served'
  BY <1>2 DEF WakeInv, Served, ServedOK
<1> QED
  BY <1>1, <1>3, <1>4, <1>5, <1>6, <1>7 DEF WakeInv

LEMMA WakeNext ==
    ASSUME WakeInv, [Next]_vars
    PROVE  WakeInv'
<1>1. CASE Next
  <2>1. StepInv' /\ JobsOK'
    BY <1>1, StepNext, JobsNext DEF WakeInv
  <2>2. OwnerOK' /\ NotifyOK' /\ ReadyOK'
    BY <1>1, OwnerNext, NotifyNext, ReadyNext DEF WakeInv
  <2>3. FailedFree' /\ EdgesLive' /\ ScanHeld'
    BY <1>1, FailedFreeNext, EdgesLiveNext, ScanHeldNext DEF WakeInv
  <2>4. Awake' /\ Served'
    BY <1>1, AwakeNext, ServedNext DEF WakeInv
  <2> QED
    BY <2>1, <2>2, <2>3, <2>4 DEF WakeInv
<1> QED
  BY <1>1, WakeStays

(* When nothing goes on, no chunk is about to be scheduled and none has a task. *)
LEMMA QuietChunk ==
    ASSUME WakeInv, Quiet, NEW c \in Chunks, ~failed[c]
    PROVE  task[c] = None /\ ~Pending(c) /\ Hands = {} /\ ~WakePending(c)
<1>1. Known = {} /\ \A w \in Workers : stack[w] = <<>>
  BY DEF Quiet, Idle, Known
<1>2. Hands = {}
  BY <1>1, FewShape DEF Hands
<1>3. task[c] = None
  BY <1>1 DEF WakeInv, OwnerOK
<1>4. ~Expected(c)
  BY <1>1, FewShape DEF Expected, Expects
<1>5. jobs[<<"schedule", c>>] = 0 /\ jobs[<<"notify", c>>] = 0
  <2>1. PICK job, told : job = <<"schedule", c>> /\ told = <<"notify", c>>
    OBVIOUS
  <2>2. job \in Jobs /\ told \in Jobs
    BY <2>1 DEF Jobs
  <2> QED
    BY <2>1, <2>2 DEF Quiet
<1>6. source[c] # "resolving"
  BY DEF Quiet, Loading
<1> QED
  BY <1>2, <1>3, <1>4, <1>5, <1>6 DEF Pending, WakePending

(* What is due is a status ... *)
LEMMA DueHeight ==
    ASSUME StepInv, NEW c \in Chunks
    PROVE  Due(c) \in Heights
<1> DEFINE x == IF Ticket(c) >= Border THEN Ticket(c) ELSE -1
           S == {x} \cup {Wanted[r].status : r \in Waiters(c)} \cup {waiting[c][m] : m \in Chunks}
<1>1. x \in Heights
  BY TicketOK, TopOK DEF Ticket, StepInv, DemandOK, Heights
<1>2. S \subseteq Heights
  BY <1>1, WantedOK DEF StepInv, DemandOK, Waiters
<1>3. x \in S
  OBVIOUS
<1>4. Due(c) = Max(S)
  BY Zenon DEF Due, Highest
<1> HIDE DEF S, x
<1> QED
  BY <1>2, <1>3, <1>4, HighestOK

(* ... and what is due beyond its status a chunk is owed. *)
LEMMA DueOwed ==
    ASSUME StepInv, NEW c \in Chunks
    PROVE  status[c] < Due(c) <=> Owed(c)
<1>1. PICK x : x = IF Ticket(c) >= Border THEN Ticket(c) ELSE -1
  OBVIOUS
<1>2. Ticket(c) \in Heights /\ x \in Heights /\ status[c] \in Heights /\ Heights \subseteq Int /\ Border \in Heights
  <2>1. Ticket(c) \in Heights
    BY TicketOK DEF Ticket, StepInv, DemandOK
  <2>2. Heights \subseteq Int /\ -1 \in Heights
    BY TopOK DEF Heights
  <2>3. Border \in Heights
    <3>1. Border \in Statuses
      BY AssumptionParts, Zenon
    <3> QED
      BY <3>1, TopOK DEF Heights, Statuses
  <2>4. status[c] \in Heights
    BY DEF StepInv, WorkInv, HoldersOK
  <2> QED
    BY <1>1, <2>1, <2>2, <2>3, <2>4
<1>3. /\ \A m \in Chunks : waiting[c][m] \in Heights
      /\ Waiters(c) \in SUBSET Requests /\ status[c] \in Int
  BY <1>2 DEF StepInv, DemandOK, Waiters
<1>4. Highest(x, Waiters(c), waiting[c]) > status[c] <=>
        x > status[c] \/ (\E r \in Waiters(c) : Wanted[r].status > status[c]) \/ \E m \in Chunks : waiting[c][m] > status[c]
  BY <1>2, <1>3, HighestAbove
<1>5. x > status[c] <=> Ticket(c) >= Border /\ Ticket(c) > status[c]
  BY <1>1, <1>2, TopOK DEF Heights
<1>6. Due(c) = Highest(x, Waiters(c), waiting[c])
  BY <1>1, Zenon DEF Due
<1>7. Owed(c) <=> Highest(x, Waiters(c), waiting[c]) > status[c]
  BY <1>4, <1>5 DEF Owed
<1> QED
  BY <1>6, <1>7

LEMMA QuietServed ==
    ASSUME WakeInv
    PROVE  NothingForgotten
<1> SUFFICES ASSUME Quiet, NEW c \in Chunks, ~failed[c]
             PROVE  /\ \A r \in Waiters(c) : status[c] < Wanted[r].status
                    /\ status[c] < Due(c) =>
                          \E n \in Reads(c, status[c] + 1) :
                              \/ failed[n]
                              \/ n \in blocking[c] /\ status[n] < Required[status[c] + 1][c, n]
  BY DEF NothingForgotten
<1>1. ASSUME NEW r \in Waiters(c)
      PROVE  status[c] < Wanted[r].status
  <2>1. r \in Requests /\ asked[r] = "waiting" /\ Wanted[r].chunk = c
    BY <1>1 DEF Waiters
  <2>2. ~(status[c] >= Wanted[r].status)
    BY <2>1, QuietChunk DEF WakeInv, Served, ServedOK
  <2>3. status[c] \in Int /\ Wanted[r].status \in Int
    BY <2>1, WantedOK, TopOK DEF WakeInv, StepInv, WorkInv, HoldersOK, Heights
  <2> QED
    BY <2>2, <2>3
<1>2. ASSUME status[c] < Due(c)
      PROVE  \E n \in Reads(c, status[c] + 1) :
                \/ failed[n]
                \/ n \in blocking[c] /\ status[n] < Required[status[c] + 1][c, n]
  <2>1. Owed(c)
    BY <1>2, DueOwed DEF WakeInv
  <2>2. PICK s \in Int : status[c] = s - 1 /\ HeldUp(c, s)
    BY <2>1, QuietChunk DEF WakeInv, Awake
  <2>3. s = status[c] + 1
    BY <2>2
  <2>4. CASE \E n \in Reads(c, s) : failed[n]
    BY <2>3, <2>4, Zenon
  <2>5. ASSUME NEW n \in blocking[c]
        PROVE  n \in Reads(c, s) /\ status[n] < Need(s, c, n)
    <3>1. n \in Chunks /\ ~failed[n]
      BY <2>5 DEF WakeInv, FailedFree, StepInv, EdgeInv, EdgeShape
    <3>2. ~WakePending(n)
      BY <3>1, QuietChunk
    <3>3. PICK q \in 1 .. Top : Firm(c, n, q)
      BY <2>5, <3>2 DEF WakeInv, EdgesLive
    <3>4. q = s
      BY <2>2, <3>3, TopOK DEF Firm
    <3> QED
      BY <3>3, <3>4 DEF Firm
  <2>6. CASE blocking[c] # {}
    <3>1. PICK n : n \in blocking[c]
      BY <2>6
    <3>2. n \in Reads(c, s) /\ status[n] < Need(s, c, n)
      BY <2>5, <3>1
    <3> QED
      BY <2>3, <3>1, <3>2, Zenon DEF Need
  <2> QED
    BY <2>2, <2>4, <2>6 DEF HeldUp
<1> QED
  BY <1>1, <1>2

(* When nothing is going on, no request waits for what its chunk has, and  *)
(* a chunk that is owed more is held up by a neighbour: no interleaving of *)
(* ticket moves, loads, schedule(), completion, cancellation and failure   *)
(* loses a wakeup (notifyWaitingNeighbours, rescheduleChunk).              *)
THEOREM NothingIsForgotten == Spec => []NothingForgotten
<1>1. Init => WakeInv
  BY WakeInit
<1>2. WakeInv /\ [Next]_vars => WakeInv'
  BY WakeNext
<1>3. WakeInv => NothingForgotten
  BY QuietServed
<1> QED
  BY <1>1, <1>2, <1>3, PTL DEF Spec

-----------------------------------------------------------------------------
(* Nobody waits in a circle: a step waits for neighbours below its status, *)
(* and each of them is owed that status itself.  So what holds up a chunk  *)
(* when nothing is going on is, in the end, a failed one.                  *)

\* Everybody has what is due, and every request is answered.
Settled == \A c \in Chunks : status[c] >= Due(c) /\ Waiters(c) = {}

LEMMA Descent ==
    ASSUME WakeInv, Quiet, \A d \in Chunks : ~failed[d], NEW c \in Chunks, Owed(c)
    PROVE  \E n \in Chunks : Owed(n) /\ status[n] < status[c]
<1>1. PICK s \in Int : status[c] = s - 1 /\ HeldUp(c, s)
  BY QuietChunk DEF WakeInv, Awake
<1>2. PICK n \in blocking[c] : TRUE
  BY <1>1 DEF HeldUp, Reads
<1>3. n \in Chunks
  BY <1>2 DEF WakeInv, StepInv, EdgeInv, EdgeShape
<1>4. PICK q \in 1 .. Top : Firm(c, n, q)
  BY <1>2, <1>3, QuietChunk DEF WakeInv, EdgesLive
<1>5. PICK need : need = Need(q, c, n)
  OBVIOUS
<1>6. /\ status[c] = q - 1 /\ n \in Reads(c, q) /\ waiting[n][c] = need /\ status[n] < need
      /\ need \in 0 .. Top /\ need < q /\ q \in Int
  BY <1>4, <1>5, RequiredOK, TopOK DEF Firm
<1>7. status[n] \in Int
  BY <1>3, TopOK DEF WakeInv, StepInv, WorkInv, HoldersOK, Heights
<1>8. Owed(n)
  BY <1>6, <1>7 DEF Owed
<1>9. status[n] < status[c]
  BY <1>6, <1>7, TopOK
<1> QED
  BY <1>3, <1>8, <1>9

LEMMA AllSettled ==
    ASSUME WakeInv, Quiet, \A d \in Chunks : ~failed[d]
    PROVE  Settled
<1> DEFINE S == {status[d] + 1 : d \in {x \in Chunks : Owed(x)}}
<1>1. \A d \in Chunks : status[d] \in Heights
  BY DEF WakeInv, StepInv, WorkInv, HoldersOK
<1>2. S = {}
  <2>1. S \subseteq Nat
    BY <1>1, TopOK DEF Heights
  <2>2. ASSUME NEW x \in S, \A y \in S : x <= y
        PROVE  FALSE
    <3>1. PICK d \in Chunks : Owed(d) /\ x = status[d] + 1
      OBVIOUS
    <3>2. PICK n \in Chunks : Owed(n) /\ status[n] < status[d]
      BY <3>1, Descent
    <3>3. status[n] + 1 \in S
      BY <3>2
    <3>4. x <= status[n] + 1
      BY <2>2, <3>3
    <3>5. status[n] \in Int /\ status[d] \in Int
      BY <1>1, <3>1, <3>2, TopOK DEF Heights
    <3> HIDE DEF S
    <3> QED
      BY <3>1, <3>2, <3>4, <3>5
  <2> HIDE DEF S
  <2> QED
    BY <2>1, <2>2, LeastExists
<1>3. \A d \in Chunks : ~Owed(d)
  BY <1>2
<1>4. ASSUME NEW c \in Chunks
      PROVE  status[c] >= Due(c) /\ Waiters(c) = {}
  <2>1. \A r \in Waiters(c) : status[c] < Wanted[r].status
    BY QuietServed DEF NothingForgotten
  <2>2. \A r \in Waiters(c) : Wanted[r].status > status[c]
    BY <2>1
  <2>3. Waiters(c) = {}
    BY <1>3, <2>2 DEF Owed
  <2>4. ~(status[c] < Due(c))
    BY <1>3, DueOwed DEF WakeInv
  <2>5. status[c] \in Int /\ Due(c) \in Int
    BY <1>1, DueHeight, TopOK DEF Heights, WakeInv
  <2> QED
    BY <2>3, <2>4, <2>5
<1> QED
  BY <1>4 DEF Settled

(* If nothing is going on and no holder has failed, every chunk has what   *)
(* its ticket, its requests and its neighbours ask for, and every request  *)
(* is answered: scheduling neither stops short nor waits in a circle       *)
(* (scheduleStatusStep, checkNeighbour, notifyWaitingNeighbours).          *)
THEOREM StopsOnlySettled == Spec => [](Quiet /\ (\A c \in Chunks : ~failed[c]) => Settled)
<1>1. Init => WakeInv
  BY WakeInit
<1>2. WakeInv /\ [Next]_vars => WakeInv'
  BY WakeNext
<1>3. WakeInv => (Quiet /\ (\A c \in Chunks : ~failed[c]) => Settled)
  BY AllSettled
<1> QED
  BY <1>1, <1>2, <1>3, PTL DEF Spec

(* Where tickets only rise and storage can be read nobody fails. *)
LEMMA NobodyFails ==
    ASSUME StepInv, NoRegrets, Undisturbed, Next, \A c \in Chunks : ~failed[c]
    PROVE  \A c \in Chunks : ~failed'[c]
<1>1. ASSUME NEW c \in Chunks
      PROVE  ~Fails(c)
  BY NeverRegretted DEF Fails, LoadUnreadable, Undisturbed
<1> QED
  BY <1>1, FailedNext

(* So what requests and tickets are promised there (RequestsAnswered,      *)
(* TicketsHonoured) is kept whenever the scheduler comes to rest.          *)
THEOREM PromisesKeptAtRest ==
    ASSUME Undisturbed
    PROVE  Spec => [](Quiet => Settled)
<1> DEFINE Inv == WakeInv /\ RiseInv /\ \A c \in Chunks : ~failed[c]
<1>1. Init => Inv
  BY WakeInit, RiseInit DEF Init
<1>2. Inv /\ [Next]_vars => Inv'
  <2> SUFFICES ASSUME Inv, [Next]_vars
               PROVE  Inv'
    OBVIOUS
  <2>1. WakeInv' /\ RiseInv'
    BY WakeNext, RiseNext
  <2>2. CASE Next
    BY <2>1, <2>2, NobodyFails DEF RiseInv
  <2>3. CASE UNCHANGED vars
    BY <2>1, <2>3 DEF vars, holderVars
  <2> QED
    BY <2>2, <2>3
<1>3. Inv => (Quiet => Settled)
  BY AllSettled
<1> QED
  BY <1>1, <1>2, <1>3, PTL DEF Spec
=============================================================================
