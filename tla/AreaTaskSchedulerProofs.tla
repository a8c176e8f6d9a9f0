---------------------- MODULE AreaTaskSchedulerProofs ----------------------
(***************************************************************************)
(* Proofs about the area task scheduler for any tasks, positions, regions, *)
(* priorities, threads and use of its interface.                           *)
(***************************************************************************)
EXTENDS AreaTaskSchedulerProps, FiniteSetTheorems, SequenceTheorems, WellFoundedInduction, TLAPS

-----------------------------------------------------------------------------
(* Typing.                                                                 *)

\* A stack of frames stays one under the three moves of a thread.
LEMMA StackMoves ==
    ASSUME NEW s \in Seq(Frames), NEW f \in Frames
    PROVE  /\ <<f>> \o s \in Seq(Frames)
           /\ s # <<>> => Head(s) \in Frames /\ Tail(s) \in Seq(Frames)
<1>1. <<f>> \in Seq(Frames)
    OBVIOUS
<1>2. <<f>> \o s \in Seq(Frames)
    BY <1>1, ConcatProperties
<1>3. s # <<>> => Head(s) \in Frames /\ Tail(s) \in Seq(Frames)
    BY HeadTailProperties
<1> QED
    BY <1>2, <1>3

\* What the innermost frame of a busy thread names, and the stacks it may leave.
LEMMA TopFrame ==
    ASSUME TypeOK, NEW th \in Threads, stack[th] # <<>>
    PROVE  /\ Top(th) \in Frames
           /\ Top(th).batch \subseteq Tasks /\ Top(th).ready \subseteq Permits
           /\ Top(th).at \in {"revoke", "checked", "submit", "settled", "execute", "onCancel", "body",
                              "cancelled", "callback"}
                 => Top(th).task \in Tasks /\ Top(th).gen \in Nat
           /\ Tail(stack[th]) \in Seq(Frames)
<1>1. Top(th) \in Frames /\ Tail(stack[th]) \in Seq(Frames)
    BY StackMoves, <<>> \in Seq(Frames) DEF TypeOK, Top
<1> QED
    BY <1>1 DEF Frames

\* Entering a call or going on in it leaves a well-formed stack.
LEMMA StackTyped ==
    ASSUME TypeOK, NEW th \in Threads, NEW f \in Frames,
           Push(th, f) \/ (stack[th] # <<>> /\ Goto(th, f))
    PROVE  stack' \in [Threads -> Seq(Frames)]
<1>1. CASE Push(th, f)
    BY <1>1, StackMoves DEF TypeOK, Push
<1>2. CASE stack[th] # <<>> /\ Goto(th, f)
  <2>1. <<f>> \o Tail(stack[th]) \in Seq(Frames)
    BY <1>2, TopFrame, StackMoves
  <2> QED
    BY <1>2, <2>1 DEF TypeOK, Goto
<1> QED
    BY <1>1, <1>2

\* Returning from a call leaves a well-formed stack.
LEMMA ReturnTyped ==
    ASSUME TypeOK, NEW th \in Threads, stack[th] # <<>>, Return(th)
    PROVE  stack' \in [Threads -> Seq(Frames)]
    BY TopFrame DEF TypeOK, Return

\* Counting a call of the task keeps the history a count per task.
LEMMA CountTyped ==
    ASSUME NEW calls \in [Tasks -> Nat], NEW t \in Tasks
    PROVE  Count(calls, t) \in [Tasks -> Nat]
    BY DEF Count

\* The frames the actions build.
LEMMA FrameTypes ==
    ASSUME NEW d \in Permits, NEW batch \in SUBSET Tasks, NEW ready \in SUBSET Permits
    PROVE  /\ Dispatching(ready) \in Frames /\ Settling(batch, ready) \in Frames
           /\ \A at \in {"revoke", "checked", "submit", "execute", "onCancel", "body", "cancelled",
                         "callback"} : ForPermit(at, d, ready) \in Frames
           /\ Frame("settled", d[1], 0, batch, ready) \in Frames
           /\ Frame("closing", None, 0, {}, {}) \in Frames
           /\ Frame("stopping", None, 0, {}, {}) \in Frames
           /\ Frame("draining", None, 0, {}, {}) \in Frames
    BY DEF Frames, Permits, Dispatching, Settling, ForPermit, Frame

\* Sets of positions are finite, so counting them gives a number.
LEMMA KeySets ==
    ASSUME NEW S \in SUBSET Keys
    PROVE  IsFiniteSet(S) /\ Cardinality(S) \in Nat
    BY SchedulerAssumption, FS_Subset, FS_CardinalityType

\* _removeLocked keeps the types; its assertion keeps the counts above zero.
LEMMA RemoveTyped ==
    ASSUME TypeOK, NEW gone \in SUBSET Tasks, RemoveAsserts(gone), RemoveLocked(gone)
    PROVE  /\ positions' \in [Keys -> SUBSET Tasks]
           /\ running' \in [Keys -> Tasks \cup {None}]
           /\ waiting' \in [Tasks -> Nat]
           /\ phase' \in [Tasks -> {"Waiting", "Scheduled", "Running", "Finished"}]
           /\ generation' \in [Tasks -> Nat]
           /\ Issued \in SUBSET Permits
<1>1. \A p \in Tasks : Gained(p, gone) \in SUBSET Keys
    BY DEF Gained, TypeOK
<1>2. \A p \in Tasks : Cardinality(Gained(p, gone)) \in Nat
    BY <1>1, KeySets
<1>3. waiting' \in [Tasks -> Nat]
  <2>1. \A p \in Tasks \ gone : waiting[p] - Cardinality(Gained(p, gone)) \in Nat
    BY <1>2 DEF RemoveAsserts, TypeOK
  <2> QED
    BY <2>1 DEF RemoveLocked, TypeOK
<1>4. generation' \in [Tasks -> Nat]
    BY DEF RemoveLocked, TypeOK
<1>5. phase' \in [Tasks -> {"Waiting", "Scheduled", "Running", "Finished"}]
    BY DEF RemoveLocked, TypeOK
<1>6. positions' \in [Keys -> SUBSET Tasks] /\ running' \in [Keys -> Tasks \cup {None}]
    BY DEF RemoveLocked, TypeOK
<1>7. Issued \in SUBSET Permits
    BY <1>4 DEF Issued, Permits
<1> QED
    BY <1>3, <1>4, <1>5, <1>6, <1>7

\* _addLocked keeps the types: overtaken tasks only wait for more.
LEMMA AddTyped ==
    ASSUME TypeOK, NEW t \in Tasks, NEW own \in SUBSET Keys, AddLocked(t, own)
    PROVE  /\ positions' \in [Keys -> SUBSET Tasks]
           /\ running' \in [Keys -> Tasks \cup {None}]
           /\ waiting' \in [Tasks -> Nat]
           /\ phase' \in [Tasks -> {"Waiting", "Scheduled", "Running", "Finished"}]
           /\ generation' \in [Tasks -> Nat]
           /\ Issued \in SUBSET Permits
<1> DEFINE taken == Taken(t, own)
<1>1. taken \in SUBSET Keys
    BY DEF Taken
<1>2. \A p \in Tasks : Cardinality(Lost(p, taken)) \in Nat
    BY <1>1, KeySets DEF Lost
<1>3. Cardinality(own \ taken) \in Nat
    BY KeySets
<1>4. waiting' \in [Tasks -> Nat]
  <2>1. waiting' = [p \in Tasks |-> IF p = t THEN Cardinality(own \ taken)
                                    ELSE waiting[p] + Cardinality(Lost(p, taken))]
    BY DEF AddLocked
  <2>2. \A p \in Tasks : waiting[p] + Cardinality(Lost(p, taken)) \in Nat
    BY <1>2 DEF TypeOK
  <2> QED
    BY <1>3, <2>1, <2>2
<1>5. generation' \in [Tasks -> Nat]
    BY DEF AddLocked, TypeOK
<1>6. phase' \in [Tasks -> {"Waiting", "Scheduled", "Running", "Finished"}]
    BY DEF AddLocked, TypeOK
<1>7. positions' \in [Keys -> SUBSET Tasks] /\ running' \in [Keys -> Tasks \cup {None}]
    BY DEF AddLocked, TypeOK
<1>8. Issued \in SUBSET Permits
    BY <1>5 DEF Issued, Permits
<1> QED
    BY <1>4, <1>5, <1>6, <1>7, <1>8

\* A crash changes nothing but the record of it.
LEMMA CrashTyped ==
    ASSUME TypeOK, NEW how \in {"body", "assert"}, Crash(how)
    PROVE  TypeOK'
    BY DEF TypeOK, Crash, lockVars, taskVars, bodyVars, poolVars, told

\* The critical section of a cancellation keeps the types.
LEMMA CancelTyped ==
    ASSUME TypeOK, NEW th \in Threads, NEW selected \in SUBSET Tasks, NEW stop \in BOOLEAN,
           NEW below \in Seq(Frames), CancelLocked(th, selected, stop, below)
    PROVE  TypeOK'
<1> DEFINE gone == {t \in selected : Cancellable(t)}
<1>1. CASE ~RemoveAsserts(gone)
  <2>1. /\ UNCHANGED <<taskVars, positions, running, abort, stack>>
        /\ UNCHANGED <<nextId, outstanding, bodyVars, poolVars, closed, told>>
        /\ crashed' = "assert" /\ stopped' \in BOOLEAN
    BY <1>1 DEF CancelLocked
  <2> QED
    BY <2>1 DEF TypeOK, taskVars, bodyVars, poolVars, told
<1>2. CASE RemoveAsserts(gone)
  <2>1. gone \in SUBSET Tasks /\ RemoveLocked(gone)
    BY <1>2 DEF CancelLocked
  <2>2. Settling(gone, Issued) \in Frames
    BY <1>2, <2>1, RemoveTyped DEF Settling, Frame, Frames
  <2>3. <<Settling(gone, Issued)>> \o below \in Seq(Frames)
    BY <2>2, StackMoves
  <2>4. stack' = [stack EXCEPT ![th] = <<Settling(gone, Issued)>> \o below]
    BY <1>2 DEF CancelLocked
  <2>5. stack' \in [Threads -> Seq(Frames)]
    BY <2>3, <2>4 DEF TypeOK
  <2> QED
    BY <1>2, <2>1, <2>5, RemoveTyped
       DEF CancelLocked, TypeOK, taskVars, bodyVars, poolVars, told
<1> QED
    BY <1>1, <1>2

\* A claim, but for the history variables its caller sets.
LEMMA ClaimTyped ==
    ASSUME TypeOK, NEW th \in Threads, stack[th] # <<>>, Top(th).task \in Tasks,
           Top(th).at \in {"execute", "onCancel"},
           NEW place \in {"body", "cancelled"}, Claim(th, place),
           executes' \in [Tasks -> Nat], cancels' \in [Tasks -> Nat],
           UNCHANGED callbacks
    PROVE  TypeOK'
<1> DEFINE f == Top(th)
<1>1. CASE \E how \in {"body", "assert"} : Crash(how)
    BY <1>1, CrashTyped
<1>2. CASE /\ phase' = [phase EXCEPT ![f.task] = "Running"]
           /\ running' = [k \in Keys |-> IF k \in keys[f.task] THEN f.task ELSE running[k]]
           /\ pendingBodies' = pendingBodies \cup {f.task}
           /\ Goto(th, ForPermit(place, Permit(f), {}))
           /\ UNCHANGED <<stopped, nextId, outstanding, id, keys, waiting, generation,
                          positions, body, restVars>>
  <2>1. Permit(f) \in Permits
    BY TopFrame DEF Permit, Permits
  <2>2. ForPermit(place, Permit(f), {}) \in Frames
    BY <2>1, FrameTypes
  <2>3. stack' \in [Threads -> Seq(Frames)]
    BY <1>2, <2>2, StackTyped
  <2>4. phase' \in [Tasks -> {"Waiting", "Scheduled", "Running", "Finished"}]
        /\ running' \in [Keys -> Tasks \cup {None}] /\ pendingBodies' \subseteq Tasks
    BY <1>2 DEF TypeOK
  <2> QED
    BY <1>2, <2>3, <2>4 DEF TypeOK, restVars, poolVars
<1> QED
    BY <1>1, <1>2 DEF Claim, Occupy

\* Init establishes the types and every step keeps them.
LEMMA InitTyped == Init => TypeOK
<1>1. <<>> \in Seq(Frames)
    BY EmptySeq
<1>2. Init => stack \in [Threads -> Seq(Frames)]
    BY <1>1 DEF Init
<1>3. Init => /\ id \in [Tasks -> Nat] /\ waiting \in [Tasks -> Nat]
              /\ generation \in [Tasks -> Nat] /\ executes \in [Tasks -> Nat]
              /\ cancels \in [Tasks -> Nat] /\ callbacks \in [Tasks -> Nat]
    BY DEF Init
<1>4. Init => /\ keys \in [Tasks -> SUBSET Keys]
              /\ phase \in [Tasks -> {"Waiting", "Scheduled", "Running", "Finished"}]
              /\ positions \in [Keys -> SUBSET Tasks]
              /\ running \in [Keys -> Tasks \cup {None}]
              /\ body \in [Tasks -> {"unborn", "held", "released"}]
              /\ abort \in [Tasks -> BOOLEAN]
    BY DEF Init
<1>5. Init => /\ nextId \in Nat /\ outstanding \in Nat
              /\ pendingBodies \subseteq Tasks /\ queue \subseteq Permits
              /\ crashed \in {"no", "body", "assert"}
    BY DEF Init
<1>6. Init => stopped \in BOOLEAN /\ poolRunning \in BOOLEAN /\ closed \in BOOLEAN
    BY Zenon DEF Init
<1> QED
    BY <1>2, <1>3, <1>4, <1>5, <1>6 DEF TypeOK

\* Every step of a thread inside a call keeps the types.
LEMMA ProceedTyped ==
    ASSUME TypeOK, NEW th \in Threads, Proceed(th)
    PROVE  TypeOK'
<1> USE DEF lockVars, taskVars, bodyVars, restVars, poolVars, told, OnlyStack
<1>1. CASE SettleCancelBody(th)
  <2>1. stack[th] # <<>> /\ At(th, "settle")
    BY <1>1 DEF SettleCancelBody, At
  <2>2. PICK t \in Top(th).batch :
          IF body[t] = "released" THEN Crash("body") ELSE
          /\ cancels' = Count(cancels, t) /\ callbacks' = Count(callbacks, t)
          /\ Goto(th, Frame("settled", t, 0, Top(th).batch \ {t}, Top(th).ready))
          /\ UNCHANGED <<lockVars, bodyVars, restVars, executes>>
    BY <1>1 DEF SettleCancelBody
  <2>3. CASE body[t] = "released"
    BY <2>2, <2>3, CrashTyped
  <2>4. CASE body[t] # "released"
    <3>1. t \in Tasks /\ Top(th).batch \ {t} \in SUBSET Tasks
          /\ Top(th).ready \in SUBSET Permits
      BY <2>1, TopFrame
    <3>2. Frame("settled", t, 0, Top(th).batch \ {t}, Top(th).ready) \in Frames
      BY <3>1 DEF Frame, Frames
    <3>3. stack' \in [Threads -> Seq(Frames)]
      BY <2>1, <2>2, <2>4, <3>2, StackTyped
    <3>4. cancels' \in [Tasks -> Nat] /\ callbacks' \in [Tasks -> Nat]
      BY <2>2, <2>4, <3>1, CountTyped DEF TypeOK
    <3> QED
      BY <2>2, <2>4, <3>3, <3>4 DEF TypeOK
  <2> QED
    BY <2>3, <2>4
<1>2. CASE Settled(th)
  <2>1. stack[th] # <<>>
    BY <1>2 DEF Settled, At
  <2>2. CASE outstanding = 0
    BY <1>2, <2>2, CrashTyped DEF Settled
  <2>3. CASE outstanding # 0
    <3>1. Settling(Top(th).batch, Top(th).ready) \in Frames
      BY <2>1, TopFrame DEF Settling, Frame, Frames
    <3>2. stack' \in [Threads -> Seq(Frames)]
      BY <1>2, <2>1, <2>3, <3>1, StackTyped DEF Settled
    <3>3. outstanding' \in Nat
      BY <1>2, <2>3 DEF Settled, TypeOK
    <3> QED
      BY <1>2, <2>3, <3>2, <3>3 DEF Settled, TypeOK
  <2> QED
    BY <2>2, <2>3
<1>3. CASE SettleDone(th)
  <2>1. stack[th] # <<>>
    BY <1>3 DEF SettleDone, At
  <2>2. Dispatching(Top(th).ready) \in Frames
    BY <2>1, TopFrame DEF Dispatching, Frame, Frames
  <2>3. stack' \in [Threads -> Seq(Frames)]
    BY <1>3, <2>1, <2>2, StackTyped DEF SettleDone
  <2> QED
    BY <1>3, <2>3 DEF SettleDone, TypeOK
<1>4. CASE DispatchCheck(th)
  <2>1. stack[th] # <<>>
    BY <1>4 DEF DispatchCheck, At
  <2>2. PICK d \in Top(th).ready, at \in {"checked", "revoke"} :
           Goto(th, ForPermit(at, d, Top(th).ready \ {d})) /\ OnlyStack
    BY <1>4 DEF DispatchCheck
  <2>3. ForPermit(at, d, Top(th).ready \ {d}) \in Frames
    BY <2>1, TopFrame, FrameTypes
  <2>4. stack' \in [Threads -> Seq(Frames)]
    BY <2>1, <2>2, <2>3, StackTyped
  <2> QED
    BY <2>2, <2>4 DEF TypeOK, OnlyStack
<1>19. CASE PoolCheck(th)
  <2> DEFINE f == Top(th)
  <2>1. stack[th] # <<>> /\ f.at = "checked"
    BY <1>19 DEF PoolCheck, At, Top
  <2>2. CASE Goto(th, ForPermit("submit", Permit(f), f.ready)) /\ OnlyStack
    <3>1. Permit(f) \in Permits /\ f.ready \in SUBSET Permits
      BY <2>1, TopFrame DEF Permit, Permits
    <3>2. ForPermit("submit", Permit(f), f.ready) \in Frames
      BY <3>1, FrameTypes
    <3>3. stack' \in [Threads -> Seq(Frames)]
      BY <2>1, <2>2, <3>2, StackTyped
    <3> QED
      BY <2>2, <3>3 DEF TypeOK, OnlyStack
  <2>3. CASE CancelLocked(th, Tasks, TRUE, Tail(stack[th]))
    BY <2>1, <2>3, TopFrame, CancelTyped
  <2> QED
    BY <1>19, <2>2, <2>3 DEF PoolCheck
<1>20. CASE StopWorkers(th)
  <2>1. stack' \in [Threads -> Seq(Frames)]
    BY <1>20, StackTyped, FrameTypes DEF StopWorkers, At, Frame, Frames
  <2> QED
    BY <1>20, <2>1 DEF StopWorkers, OnlyStack, TypeOK
<1>5. CASE DispatchDone(th)
  <2>1. stack' \in [Threads -> Seq(Frames)]
    BY <1>5, ReturnTyped DEF DispatchDone, At
  <2> QED
    BY <1>5, <2>1 DEF DispatchDone, TypeOK
<1>6. CASE Revoke(th)
  <2>1. stack[th] # <<>> /\ At(th, "revoke")
    BY <1>6 DEF Revoke, At
  <2>2. Top(th).task \in Tasks /\ Top(th).ready \in SUBSET Permits
    BY <2>1, TopFrame DEF At, Top
  <2>3. Dispatching(Top(th).ready) \in Frames
    BY <2>2 DEF Dispatching, Frame, Frames
  <2>4. stack' \in [Threads -> Seq(Frames)]
    BY <1>6, <2>1, <2>3, StackTyped DEF Revoke
  <2>5. crashed' \in {"no", "body", "assert"}
    BY <1>6 DEF Revoke, TypeOK
  <2> QED
    BY <1>6, <2>2, <2>4, <2>5 DEF Revoke, TypeOK
<1>7. CASE HandOver(th)
  <2>1. stack[th] # <<>> /\ At(th, "submit")
    BY <1>7 DEF HandOver, At
  <2>2. Permit(Top(th)) \in Permits /\ Top(th).ready \in SUBSET Permits
    BY <2>1, TopFrame DEF At, Top, Permit, Permits
  <2>3. Dispatching(Top(th).ready) \in Frames
    BY <2>2 DEF Dispatching, Frame, Frames
  <2>4. stack' \in [Threads -> Seq(Frames)]
    BY <1>7, <2>1, <2>3, StackTyped DEF HandOver
  <2> QED
    BY <1>7, <2>2, <2>4 DEF HandOver, TypeOK
<1>8. CASE HandOverRefused(th)
  <2>1. stack[th] # <<>>
    BY <1>8 DEF HandOverRefused, At
  <2>2. Dispatching(Top(th).ready) \in Frames
    BY <2>1, TopFrame DEF Dispatching, Frame, Frames
  <2>3. <<Dispatching(Top(th).ready)>> \o Tail(stack[th]) \in Seq(Frames)
    BY <2>1, <2>2, TopFrame, StackMoves
  <2> QED
    BY <1>8, <2>3, CancelTyped DEF HandOverRefused
<1>9. CASE Take(th)
  <2>1. PICK d \in queue :
           /\ queue' = queue \ {d}
           /\ Push(th, ForPermit(IF abort[d[1]] THEN "onCancel" ELSE "execute", d, {}))
    BY <1>9 DEF Take
  <2>2. ForPermit(IF abort[d[1]] THEN "onCancel" ELSE "execute", d, {}) \in Frames
    BY FrameTypes DEF TypeOK
  <2>3. stack' \in [Threads -> Seq(Frames)]
    BY <2>1, <2>2, StackTyped
  <2> QED
    BY <1>9, <2>1, <2>3 DEF Take, TypeOK
<1>10. CASE Execute(th)
  <2>1. stack[th] # <<>> /\ Top(th).task \in Tasks
    BY <1>10, TopFrame DEF Execute, At, Top
  <2>2. executes' \in [Tasks -> Nat]
    BY <1>10, <2>1, CountTyped DEF Execute, TypeOK
  <2>3. Top(th).at = "execute" /\ Claim(th, "body") /\ UNCHANGED callbacks
        /\ cancels' \in [Tasks -> Nat]
    BY <1>10 DEF Execute, At, Top, TypeOK
  <2> QED
    BY <2>1, <2>2, <2>3, ClaimTyped
<1>11. CASE OnCancel(th)
  <2>1. stack[th] # <<>> /\ Top(th).task \in Tasks
    BY <1>11, TopFrame DEF OnCancel, At, Top
  <2>2. cancels' \in [Tasks -> Nat]
    BY <1>11, <2>1, CountTyped DEF OnCancel, TypeOK
  <2>3. Top(th).at = "onCancel" /\ Claim(th, "cancelled") /\ UNCHANGED callbacks
        /\ executes' \in [Tasks -> Nat]
    BY <1>11 DEF OnCancel, At, Top, TypeOK
  <2> QED
    BY <2>1, <2>2, <2>3, ClaimTyped
<1>12. CASE ClaimFails(th)
  <2>1. stack[th] # <<>> /\ Permit(Top(th)) \in Permits
    BY <1>12, TopFrame DEF ClaimFails, At, Top, Permit, Permits
  <2>2. ForPermit("onCancel", Permit(Top(th)), {}) \in Frames
    BY <2>1, FrameTypes
  <2>3. stack' \in [Threads -> Seq(Frames)]
    BY <1>12, <2>1, <2>2, StackTyped, ReturnTyped DEF ClaimFails
  <2> QED
    BY <1>12, <2>3 DEF ClaimFails, TypeOK
<1>13. CASE BodyReturns(th)
  <2>1. stack[th] # <<>> /\ Permit(Top(th)) \in Permits /\ Top(th).task \in Tasks
    BY <1>13, TopFrame DEF BodyReturns, At, Top, Permit, Permits
  <2>2. ForPermit("callback", Permit(Top(th)), {}) \in Frames
    BY <2>1, FrameTypes
  <2>3. stack' \in [Threads -> Seq(Frames)]
    BY <1>13, <2>1, <2>2, StackTyped DEF BodyReturns
  <2>4. callbacks' \in [Tasks -> Nat]
    BY <1>13, <2>1, CountTyped DEF BodyReturns, TypeOK
  <2> QED
    BY <1>13, <2>1, <2>3, <2>4 DEF BodyReturns, ReleaseBody, TypeOK
<1>14. CASE BodyThrows(th)
  <2>1. stack[th] # <<>> /\ Permit(Top(th)) \in Permits /\ Top(th).task \in Tasks
    BY <1>14, TopFrame DEF BodyThrows, At, Top, Permit, Permits
  <2>2. ForPermit("callback", Permit(Top(th)), {}) \in Frames
    BY <2>1, FrameTypes
  <2>3. stack' \in [Threads -> Seq(Frames)]
    BY <1>14, <2>1, <2>2, StackTyped DEF BodyThrows
  <2>4. callbacks' \in [Tasks -> Nat]
    BY <1>14, <2>1, CountTyped DEF BodyThrows, TypeOK
  <2> QED
    BY <1>14, <2>3, <2>4 DEF BodyThrows, TypeOK
<1>15. CASE Finish(th)
  <2> DEFINE t == Top(th).task
  <2>1. stack[th] # <<>> /\ t \in Tasks
    BY <1>15, TopFrame DEF Finish, At, Top
  <2>2. CASE Crash("assert")
    BY <2>2, CrashTyped
  <2>3. CASE /\ outstanding # 0 /\ RemoveAsserts({t}) /\ RemoveLocked({t})
             /\ UNCHANGED stopped
             /\ outstanding' = outstanding - 1
             /\ Goto(th, Dispatching(Issued))
             /\ UNCHANGED <<nextId, id, keys, bodyVars, restVars, told>>
    <3>1. Dispatching(Issued) \in Frames
      BY <2>1, <2>3, RemoveTyped DEF Dispatching, Frame, Frames
    <3>2. stack' \in [Threads -> Seq(Frames)]
      BY <2>1, <2>3, <3>1, StackTyped
    <3>3. outstanding' \in Nat
      BY <2>3 DEF TypeOK
    <3> QED
      BY <2>1, <2>3, <3>2, <3>3, RemoveTyped DEF TypeOK
  <2> QED
    BY <1>15, <2>2, <2>3 DEF Finish
<1>16. CASE Drain(th)
  <2>1. PICK d \in queue : queue' = queue \ {d} /\ Push(th, ForPermit("onCancel", d, {}))
    BY <1>16 DEF Drain
  <2>2. stack' \in [Threads -> Seq(Frames)]
    BY <2>1, FrameTypes, StackTyped DEF TypeOK
  <2> QED
    BY <1>16, <2>1, <2>2 DEF Drain, TypeOK
<1>17. CASE Joined(th)
  <2>1. stack' \in [Threads -> Seq(Frames)]
    BY <1>17, ReturnTyped DEF Joined, At
  <2> QED
    BY <1>17, <2>1 DEF Joined, TypeOK
<1>18. CASE Closed(th)
  <2>1. stack' \in [Threads -> Seq(Frames)]
    BY <1>18, ReturnTyped DEF Closed, At
  <2> QED
    BY <1>18, <2>1 DEF Closed, TypeOK
<1> QED
    BY <1>1, <1>2, <1>3, <1>4, <1>5, <1>6, <1>7, <1>8, <1>9, <1>10, <1>11, <1>12, <1>13,
       <1>14, <1>15, <1>16, <1>17, <1>18, <1>19, <1>20 DEF Proceed

\* Every call of the public interface keeps the types.
LEMMA CallTyped ==
    ASSUME TypeOK, NEW th \in Threads, Call(th)
    PROVE  TypeOK'
<1> USE DEF lockVars, taskVars, bodyVars, restVars, poolVars, told
<1>1. ASSUME NEW t \in Tasks, Submit(th, t)
      PROVE  TypeOK'
  <2> DEFINE own == IF abort[t] THEN {} ELSE Region[t]
  <2>1. own \in SUBSET Keys /\ AddLocked(t, own)
    BY <1>1, SchedulerAssumption DEF Submit
  <2>2. Dispatching(Issued) \in Frames
    BY <2>1, AddTyped DEF Dispatching, Frame, Frames
  <2>3. stack' \in [Threads -> Seq(Frames)]
    BY <1>1, <2>2, StackTyped DEF Submit
  <2>4. keys' \in [Tasks -> SUBSET Keys] /\ id' \in [Tasks -> Nat] /\ nextId' \in Nat
        /\ outstanding' \in Nat /\ body' \in [Tasks -> {"unborn", "held", "released"}]
    BY <1>1, <2>1 DEF Submit, TypeOK
  <2> QED
    BY <1>1, <2>1, <2>3, <2>4, AddTyped DEF Submit, TypeOK
<1>2. ASSUME NEW t \in Tasks, SubmitRefused(th, t)
      PROVE  TypeOK'
  <2>1. cancels' \in [Tasks -> Nat] /\ callbacks' \in [Tasks -> Nat]
    BY <1>2, CountTyped DEF SubmitRefused, TypeOK
  <2> QED
    BY <1>2, <2>1 DEF SubmitRefused, TypeOK
<1>3. ASSUME NEW t \in Tasks, Cancel(th, t)
      PROVE  TypeOK'
    BY <1>3, stack[th] \in Seq(Frames), CancelTyped DEF Cancel, TypeOK
<1>4. CASE Prune(th)
  <2>1. stack[th] \in Seq(Frames) /\ {t \in Tasks : abort[t]} \in SUBSET Tasks
    BY DEF TypeOK
  <2> QED
    BY <1>4, <2>1, CancelTyped DEF Prune
<1>5. CASE Shutdown(th)
  <2>1. <<Frame("closing", None, 0, {}, {})>> \in Seq(Frames)
    BY FrameTypes DEF Frame, Frames
  <2> QED
    BY <1>5, <2>1, CancelTyped DEF Shutdown
<1>6. CASE StopPool(th)
  <2>1. Frame("stopping", None, 0, {}, {}) \in Frames
    BY DEF Frame, Frames
  <2>2. stack' \in [Threads -> Seq(Frames)]
    BY <1>6, <2>1, StackTyped DEF StopPool
  <2> QED
    BY <1>6, <2>2 DEF StopPool, TypeOK
<1> QED
    BY <1>1, <1>2, <1>3, <1>4, <1>5, <1>6 DEF Call

\* Every step of the scheduler keeps the types.
LEMMA StepTyped == TypeOK /\ [Next]_vars => TypeOK'
<1> SUFFICES ASSUME TypeOK, [Next]_vars
             PROVE  TypeOK'
    OBVIOUS
<1>1. ASSUME NEW t \in Tasks, Abort(t)
      PROVE  TypeOK'
    BY <1>1 DEF Abort, TypeOK, lockVars, taskVars, bodyVars, poolVars, told
<1>2. CASE UNCHANGED vars
    BY <1>2 DEF vars, TypeOK, lockVars, taskVars, bodyVars, restVars, poolVars, told
<1> QED
    BY <1>1, <1>2, ProceedTyped, CallTyped DEF Next

\* The state of the scheduler, of the pool and of every thread keeps its type: counters
\* never go below zero and a frame names a task where one is needed.
THEOREM TypeCorrect == Spec => []TypeOK
<1>1. Init => TypeOK
    BY InitTyped
<1>2. TypeOK /\ [Next]_vars => TypeOK'
    BY StepTyped
<1> QED
    BY <1>1, <1>2, PTL DEF Spec

-----------------------------------------------------------------------------
(* Regions.                                                                *)

\* The count of blocking positions of a task is a number, zero only if it leads all.
LEMMA BlockedCount ==
    ASSUME TypeOK, NEW t \in Tasks
    PROVE  /\ BlockedKeys(t) \in SUBSET Keys /\ IsFiniteSet(BlockedKeys(t))
           /\ Cardinality(BlockedKeys(t)) \in Nat
           /\ Cardinality(BlockedKeys(t)) = 0 <=> BlockedKeys(t) = {}
<1>1. BlockedKeys(t) \in SUBSET Keys
    BY DEF BlockedKeys, TypeOK
<1> QED
    BY <1>1, KeySets, FS_EmptySet

\* Steps that leave the queues, counts and phases alone keep RegionInv.
LEMMA RegionsUntouched ==
    ASSUME RegionInv, UNCHANGED <<nextId, taskVars, positions, running>>,
           \A t \in Tasks : body'[t] = "unborn" => body[t] = "unborn"
    PROVE  RegionInv'
    BY DEF RegionInv, IdsUnique, QueuesMatchKeys, RunningMatchesPhase, PermitMeansUnblocked,
           WaitingCountsBlockers, BlockedKeys, Registered, Leads, First, Before, taskVars

\* Taking tasks out of their queues: what a remaining task no longer waits for is
\* exactly what it gained.
LEMMA RemoveUnblocks ==
    ASSUME TypeOK, RegionInv, NEW gone \in SUBSET Tasks, \A t \in gone : Registered(t),
           RemoveLocked(gone), UNCHANGED <<id, keys>>,
           NEW p \in Tasks, p \notin gone, Registered(p)
    PROVE  BlockedKeys(p)' = BlockedKeys(p) \ Gained(p, gone)
<1>1. \A k \in keys[p] : running[k] \in Tasks \cup {None} /\ k \in Keys
    BY DEF TypeOK
<1>2. \A k \in keys[p] : running[k] \notin gone \cup {None} => (Leads(p, k)' <=> Leads(p, k))
    BY <1>1 DEF Leads, RemoveLocked
<1>3. \A k \in keys[p] : running[k] \in gone \cup {None} =>
            (Leads(p, k)' <=> First(p, positions[k] \ gone))
    BY <1>1 DEF Leads, RemoveLocked, First, Before
<1>4. \A k \in keys[p] : running[k] \in gone \cup {None} /\ Leads(p, k)
            => First(p, positions[k] \ gone)
    BY <1>1, SchedulerAssumption DEF Leads, First
<1> QED
    BY <1>2, <1>3, <1>4 DEF BlockedKeys, Gained

\* The count of a remaining task drops by the positions it gained, and was large enough.
LEMMA RemoveKeepsCounts ==
    ASSUME TypeOK, RegionInv, NEW gone \in SUBSET Tasks, \A t \in gone : Registered(t),
           RemoveLocked(gone), UNCHANGED <<id, keys>>,
           NEW p \in Tasks, p \notin gone, Registered(p)
    PROVE  /\ waiting'[p] = Cardinality(BlockedKeys(p)')
           /\ waiting[p] = 0 => waiting'[p] = 0
           /\ Cardinality(Gained(p, gone)) <= waiting[p]
           /\ Cardinality(Gained(p, gone)) \in Nat
<1>1. Gained(p, gone) \in SUBSET BlockedKeys(p)
    BY DEF Gained, BlockedKeys
<1>2. BlockedKeys(p) \cap Gained(p, gone) = Gained(p, gone)
    BY <1>1
<1>3. waiting[p] = Cardinality(BlockedKeys(p))
    BY DEF RegionInv, WaitingCountsBlockers
<1>4. /\ IsFiniteSet(BlockedKeys(p)) /\ Cardinality(BlockedKeys(p)) \in Nat
      /\ Cardinality(Gained(p, gone)) \in Nat
      /\ Cardinality(Gained(p, gone)) <= Cardinality(BlockedKeys(p))
    BY <1>1, BlockedCount, FS_Subset, FS_CardinalityType
<1>5. Cardinality(BlockedKeys(p) \ Gained(p, gone))
        = Cardinality(BlockedKeys(p)) - Cardinality(Gained(p, gone))
    BY <1>2, <1>4, FS_Difference
<1>6. waiting'[p] = waiting[p] - Cardinality(Gained(p, gone))
    BY DEF RemoveLocked
<1>7. BlockedKeys(p)' = BlockedKeys(p) \ Gained(p, gone)
    BY RemoveUnblocks
<1>8. waiting'[p] = Cardinality(BlockedKeys(p)')
    BY <1>3, <1>5, <1>6, <1>7
<1>9. waiting[p] = 0 => waiting'[p] = 0
    BY <1>3, <1>4, <1>6
<1> QED
    BY <1>3, <1>4, <1>8, <1>9

\* _removeLocked of queued tasks keeps queues, counts and running marks in agreement.
LEMMA RemoveKeepsRegions ==
    ASSUME TypeOK, RegionInv, NEW gone \in SUBSET Tasks, \A t \in gone : Registered(t),
           RemoveLocked(gone), UNCHANGED <<id, keys, nextId>>,
           \A t \in Tasks : body'[t] = "unborn" => body[t] = "unborn"
    PROVE  RegionInv'
<1>1. \A t \in Tasks : Registered(t)' <=> Registered(t) /\ t \notin gone
    BY DEF RemoveLocked, Registered, TypeOK
<1>2. \A t \in Tasks \ gone :
        \/ phase'[t] = phase[t]
        \/ phase[t] = "Waiting" /\ phase'[t] = "Scheduled" /\ waiting'[t] = 0 /\ Registered(t)
  <2> SUFFICES ASSUME NEW t \in Tasks \ gone, phase'[t] # phase[t]
               PROVE  /\ phase[t] = "Waiting" /\ phase'[t] = "Scheduled" /\ waiting'[t] = 0
                      /\ Registered(t)
    OBVIOUS
  <2>1. /\ phase[t] = "Waiting" /\ phase'[t] = "Scheduled" /\ Gained(t, gone) # {}
        /\ waiting[t] = Cardinality(Gained(t, gone))
    BY DEF RemoveLocked
  <2>2. Registered(t)
    BY <2>1 DEF Gained, First, RegionInv, QueuesMatchKeys, TypeOK
  <2>3. waiting'[t] = waiting[t] - Cardinality(Gained(t, gone))
    BY DEF RemoveLocked
  <2> QED
    BY <2>1, <2>2, <2>3, RemoveKeepsCounts
<1>3. IdsUnique'
    BY <1>2 DEF RegionInv, IdsUnique, Registered
<1>4. QueuesMatchKeys'
    BY <1>1 DEF RegionInv, QueuesMatchKeys, RemoveLocked, TypeOK
<1>5. RunningMatchesPhase'
  <2>1. ASSUME NEW k \in Keys, running'[k] # None
        PROVE  phase'[running'[k]] = "Running" /\ k \in keys'[running'[k]]
    BY <2>1, <1>2, SchedulerAssumption
       DEF RegionInv, RunningMatchesPhase, RemoveLocked, TypeOK
  <2>2. ASSUME NEW t \in Tasks, phase'[t] = "Running", NEW k \in keys'[t]
        PROVE  running'[k] = t
    BY <2>2, <1>2, SchedulerAssumption
       DEF RegionInv, RunningMatchesPhase, RemoveLocked, TypeOK
  <2> QED
    BY <2>1, <2>2 DEF RunningMatchesPhase
<1>6. PermitMeansUnblocked'
  <2> SUFFICES ASSUME NEW t \in Tasks, phase'[t] \in {"Scheduled", "Running"}
               PROVE  waiting'[t] = 0
    BY DEF PermitMeansUnblocked
  <2>1. t \notin gone
    BY DEF RemoveLocked
  <2>2. CASE phase'[t] = phase[t]
    BY <2>1, <2>2, RemoveKeepsCounts
       DEF RegionInv, PermitMeansUnblocked, IdsUnique, Registered
  <2> QED
    BY <1>2, <2>1, <2>2
<1>7. WaitingCountsBlockers'
    BY <1>1, RemoveKeepsCounts DEF WaitingCountsBlockers
<1> QED
    BY <1>3, <1>4, <1>5, <1>6, <1>7 DEF RegionInv

\* The order of the queues does not loop.
LEMMA BeforeAsymmetric ==
    ASSUME TypeOK, NEW a \in Tasks, NEW b \in Tasks, Before(a, b)
    PROVE  ~Before(b, a)
<1>1. /\ Priority[a] \in Nat /\ Priority[b] \in Nat
      /\ id[a] \in Nat /\ id[b] \in Nat
    BY SchedulerAssumption DEF TypeOK
<1> QED
    BY <1>1 DEF Before, Precedes

\* Only tasks that are queued and have not started are overtaken by a new one.
LEMMA OvertakenPending ==
    ASSUME TypeOK, RegionInv, NEW t \in Tasks, id[t] = 0, NEW own \in SUBSET Keys,
           NEW p \in Tasks, Lost(p, Taken(t, own)) # {}
    PROVE  Registered(p) /\ p # t /\ phase[p] # "Running"
<1>1. PICK k \in Taken(t, own) : Leads(p, k)
    BY DEF Lost
<1>2. k \in Keys /\ running[k] = None /\ p \in positions[k]
    BY <1>1 DEF Taken, Leads, First
<1>3. Registered(p) /\ k \in keys[p]
    BY <1>2 DEF RegionInv, QueuesMatchKeys
<1>4. phase[p] # "Running"
    BY <1>2, <1>3, SchedulerAssumption DEF RegionInv, RunningMatchesPhase
<1> QED
    BY <1>3, <1>4 DEF Registered

\* The new task is queued; the tasks it overtakes wait for it, the others as before.
LEMMA AddKeepsRegions ==
    ASSUME TypeOK, RegionInv, NEW t \in Tasks, id[t] = 0, NEW own \in SUBSET Keys,
           AddLocked(t, own), keys' = [keys EXCEPT ![t] = own],
           id' = [id EXCEPT ![t] = nextId], nextId' = nextId + 1,
           body' = [body EXCEPT ![t] = "held"], nextId # 0
    PROVE  RegionInv'
<1> DEFINE taken == Taken(t, own)
<1>1. /\ phase[t] = "Waiting" /\ ~Registered(t) /\ nextId \in Nat
      /\ \A k \in Keys : t \notin positions[k] /\ running[k] # t
  <2>1. phase[t] = "Waiting" /\ ~Registered(t) /\ nextId \in Nat
    BY DEF RegionInv, IdsUnique, Registered, TypeOK
  <2>2. \A k \in Keys : t \notin positions[k]
    BY <2>1 DEF RegionInv, QueuesMatchKeys
  <2>3. \A k \in Keys : running[k] # t
    BY <2>1, SchedulerAssumption DEF RegionInv, RunningMatchesPhase
  <2> QED
    BY <2>1, <2>2, <2>3
<1>2. taken \in SUBSET own /\ taken \in SUBSET Keys
    BY DEF Taken
<1>3. \A p \in Tasks : Lost(p, taken) # {} => Registered(p) /\ p # t
    BY OvertakenPending
<1>4. \A p \in Tasks : phase[p] = "Running" => Lost(p, taken) = {}
    BY OvertakenPending
<1>5. \A p \in Tasks \ {t} :
        \/ phase'[p] = phase[p] /\ (waiting[p] = 0 => Lost(p, taken) = {})
        \/ phase'[p] = "Waiting" /\ phase[p] # "Running" /\ Registered(p)
    BY <1>3, <1>4 DEF AddLocked
<1>6. \A p \in Tasks : Registered(p)' <=> Registered(p) \/ p = t
  <2>1. Registered(t)'
    BY <1>1 DEF Registered, AddLocked, TypeOK
  <2>2. \A p \in Tasks \ {t} : Registered(p)' <=> Registered(p)
    BY <1>3 DEF Registered, AddLocked, TypeOK
  <2> QED
    BY <2>1, <2>2
<1>7. IdsUnique'
  <2>1. \A u \in Tasks : id[u] < nextId /\ id[u] \in Nat
    BY DEF RegionInv, IdsUnique, TypeOK
  <2>2. \A u \in Tasks : id'[u] < nextId'
    BY <2>1, <1>1 DEF TypeOK
  <2>3. ASSUME NEW u \in Tasks, NEW v \in Tasks, id'[u] = id'[v], id'[u] # 0
        PROVE  u = v
    <3>1. id' = [id EXCEPT ![t] = nextId] /\ id \in [Tasks -> Nat]
      BY DEF AddLocked, TypeOK
    <3>2. id'[t] = nextId
      BY <3>1
    <3>3. \A w \in Tasks \ {t} : id'[w] = id[w] /\ id[w] # nextId
      BY <3>1, <2>1
    <3>4. CASE u = t \/ v = t
      BY <3>4, <3>2, <3>3, <2>3
    <3>5. CASE u # t /\ v # t
      <4>1. id[u] = id[v] /\ id[u] # 0
        BY <3>5, <3>3, <2>3
      <4> QED
        BY <4>1 DEF RegionInv, IdsUnique
    <3> QED
      BY <3>4, <3>5
  <2>4. \A u \in Tasks : id'[u] = 0 => phase'[u] = "Waiting"
    BY <1>5 DEF RegionInv, IdsUnique, TypeOK
  <2>5. \A u \in Tasks : body'[u] = "unborn" => id'[u] = 0
    BY DEF RegionInv, IdsUnique, TypeOK
  <2> QED
    BY <2>2, <2>3, <2>4, <2>5 DEF IdsUnique
<1>8. QueuesMatchKeys'
    BY <1>1, <1>6 DEF RegionInv, QueuesMatchKeys, AddLocked, TypeOK
<1>9. RunningMatchesPhase'
  <2>1. ASSUME NEW k \in Keys, running'[k] # None
        PROVE  phase'[running'[k]] = "Running" /\ k \in keys'[running'[k]]
    BY <2>1, <1>1, <1>5 DEF RegionInv, RunningMatchesPhase, AddLocked, TypeOK
  <2>2. ASSUME NEW u \in Tasks, phase'[u] = "Running"
        PROVE  u # t /\ phase[u] = "Running"
    BY <2>2, <1>1, <1>5 DEF AddLocked, TypeOK
  <2>3. ASSUME NEW u \in Tasks, phase'[u] = "Running", NEW k \in keys'[u]
        PROVE  running'[k] = u
    BY <2>2, <2>3 DEF RegionInv, RunningMatchesPhase, AddLocked, TypeOK
  <2> QED
    BY <2>1, <2>3 DEF RunningMatchesPhase
<1>10. BlockedKeys(t)' = own \ taken
  <2>1. \A k \in own : running[k] # None => ~Leads(t, k)'
    BY <1>1 DEF Leads, AddLocked, TypeOK
  <2>2. ASSUME NEW k \in own, running[k] = None
        PROVE  Leads(t, k)' <=> k \in taken
    <3>1. /\ k \in Keys
          /\ positions'[k] = positions[k] \cup {t} /\ running'[k] = None
      BY <2>2 DEF AddLocked
    <3>2. t \notin positions[k] /\ positions[k] \in SUBSET Tasks
      BY <3>1, <1>1 DEF TypeOK
    <3>3. Leads(t, k)' <=> \A u \in positions[k] : Before(t, u)'
      BY <3>1, <3>2 DEF Leads, First
    <3>4. ASSUME NEW u \in positions[k]
          PROVE  Before(t, u)' <=> Precedes(Priority[t], nextId, Priority[u], id[u])
      <4>1. id'[t] = nextId /\ id'[u] = id[u]
        BY <3>2, <3>4 DEF TypeOK
      <4> QED
        BY <4>1 DEF Before
    <3> QED
      BY <2>2, <3>3, <3>4 DEF Taken
  <2> QED
    BY <2>1, <2>2 DEF BlockedKeys, Taken, TypeOK
<1>11. ASSUME NEW p \in Tasks, p # t, Registered(p)
       PROVE  /\ BlockedKeys(p)' = BlockedKeys(p) \cup Lost(p, taken)
              /\ BlockedKeys(p) \cap Lost(p, taken) = {}
  <2>1. \A u \in Tasks \ {t} : Before(p, u)' <=> Before(p, u)
    BY <1>11 DEF Before, TypeOK
  <2>2. Before(p, t)' <=> ~Precedes(Priority[t], nextId, Priority[p], id[p])
    <3>1. id'[p] = id[p] /\ id'[t] = nextId
      BY <1>11 DEF TypeOK
    <3>2. /\ Priority[p] \in Nat /\ Priority[t] \in Nat /\ id[p] \in Nat
          /\ id[p] < nextId /\ nextId \in Nat
      BY <1>11, SchedulerAssumption DEF RegionInv, IdsUnique, TypeOK
    <3> QED
      BY <3>1, <3>2 DEF Before, Precedes
  <2>3. \A k \in keys[p] : running[k] # None => (Leads(p, k)' <=> Leads(p, k))
    BY <1>11 DEF Leads, AddLocked, TypeOK
  <2>4. ASSUME NEW k \in keys[p] \ own, running[k] = None
        PROVE  Leads(p, k)' <=> Leads(p, k)
    <3>1. k \in Keys
      BY <2>4, <1>11 DEF TypeOK
    <3>2. positions'[k] = positions[k] /\ running'[k] = None /\ t \notin positions[k]
      BY <1>1, <2>4, <3>1 DEF AddLocked
    <3>3. positions[k] \in SUBSET (Tasks \ {t})
      BY <3>1, <3>2 DEF TypeOK
    <3> QED
      BY <2>1, <2>4, <3>2, <3>3 DEF Leads, First
  <2>5. ASSUME NEW k \in keys[p] \cap own, running[k] = None
        PROVE  Leads(p, k)' <=> Leads(p, k) /\ Before(p, t)'
    <3>1. /\ k \in Keys
          /\ positions'[k] = positions[k] \cup {t} /\ running'[k] = None
      BY <2>5 DEF AddLocked
    <3>2. t \notin positions[k] /\ positions[k] \in SUBSET Tasks
      BY <3>1, <1>1 DEF TypeOK
    <3>3. positions[k] \ {p} \in SUBSET (Tasks \ {t})
      BY <3>2
    <3>4. Leads(p, k)' <=> /\ p \in positions[k] \cup {t}
                           /\ \A u \in (positions[k] \cup {t}) \ {p} : Before(p, u)'
      BY <3>1 DEF Leads, First
    <3>5. Leads(p, k) <=> p \in positions[k] /\ \A u \in positions[k] \ {p} : Before(p, u)
      BY <2>5 DEF Leads, First
    <3>6. (\A u \in positions[k] \ {p} : Before(p, u)')
             <=> (\A u \in positions[k] \ {p} : Before(p, u))
      BY <2>1, <3>3
    <3> QED
      BY <1>11, <3>4, <3>5, <3>6
  <2>6. \A k \in taken : p \in positions[k] => ~Before(p, t)'
    BY <1>11, <2>2 DEF Taken
  <2>7. \A k \in (keys[p] \cap own) \ taken : running[k] = None /\ Leads(p, k) => Before(p, t)'
    <3> SUFFICES ASSUME NEW k \in own, k \notin taken, running[k] = None,
                        First(p, positions[k])
                 PROVE  Before(p, t)'
      BY DEF Leads
    <3>1. PICK u \in positions[k] : ~Precedes(Priority[t], nextId, Priority[u], id[u])
      BY DEF Taken
    <3>2. u \in Tasks /\ (u = p \/ Before(p, u))
      BY <3>1 DEF First, TypeOK
    <3>3. /\ Priority[p] \in Nat /\ Priority[u] \in Nat /\ Priority[t] \in Nat
          /\ id[p] \in Nat /\ id[u] \in Nat /\ id[p] < nextId /\ id[u] < nextId
      <4>1. p \in Tasks /\ u \in Tasks /\ t \in Tasks
        BY <1>11, <3>2
      <4>2. Priority \in [Tasks -> Nat] /\ id \in [Tasks -> Nat]
        BY SchedulerAssumption DEF TypeOK
      <4>3. \A w \in Tasks : id[w] < nextId
        BY DEF RegionInv, IdsUnique
      <4> QED
        BY <4>1, <4>2, <4>3
    <3>4. ~Precedes(Priority[t], nextId, Priority[p], id[p])
      BY <1>1, <3>1, <3>2, <3>3 DEF Before, Precedes
    <3> QED
      BY <2>2, <3>4
  <2>8. Lost(p, taken) \in SUBSET keys[p]
    BY <1>2 DEF Lost, Leads, First, Taken, RegionInv, QueuesMatchKeys
  <2>9. keys'[p] = keys[p]
    BY <1>11 DEF TypeOK
  <2>10. \A k \in taken : running[k] = None /\ k \in own
    BY DEF Taken
  <2>11. \A k \in taken : Leads(p, k) => p \in positions[k]
    BY <2>10 DEF Leads, First
  <2> QED
    BY <2>3, <2>4, <2>5, <2>6, <2>7, <2>8, <2>9, <2>10, <2>11 DEF BlockedKeys, Lost
<1>12. PermitMeansUnblocked'
  <2>1. phase'[t] \in {"Scheduled", "Running"} => waiting'[t] = 0
    <3>1. phase'[t] \in {"Scheduled", "Running"} => own \ taken = {}
      BY <1>1 DEF AddLocked, TypeOK
    <3> QED
      BY <3>1, FS_EmptySet DEF AddLocked, TypeOK
  <2>2. ASSUME NEW p \in Tasks \ {t}, phase'[p] \in {"Scheduled", "Running"}
        PROVE  waiting'[p] = 0
    <3>1. phase'[p] = phase[p] /\ waiting[p] = 0 /\ Lost(p, taken) = {}
      BY <2>2, <1>5 DEF RegionInv, PermitMeansUnblocked
    <3>2. waiting'[p] = 0 + Cardinality({})
      BY <3>1 DEF AddLocked
    <3> QED
      BY <3>2, FS_EmptySet
  <2> QED
    BY <2>1, <2>2 DEF PermitMeansUnblocked
<1>13. WaitingCountsBlockers'
  <2>1. waiting'[t] = Cardinality(BlockedKeys(t)')
    BY <1>10 DEF AddLocked, TypeOK
  <2>2. ASSUME NEW p \in Tasks \ {t}, Registered(p)
        PROVE  waiting'[p] = Cardinality(BlockedKeys(p)')
    <3>1. waiting'[p] = Cardinality(BlockedKeys(p)) + Cardinality(Lost(p, taken))
      BY <2>2 DEF AddLocked, RegionInv, WaitingCountsBlockers, TypeOK
    <3>2. Lost(p, taken) \in SUBSET Keys
      BY <1>2 DEF Lost
    <3>3. /\ IsFiniteSet(BlockedKeys(p)) /\ Cardinality(BlockedKeys(p)) \in Nat
          /\ IsFiniteSet(Lost(p, taken)) /\ Cardinality(Lost(p, taken)) \in Nat
      BY <3>2, BlockedCount, KeySets
    <3>4. Cardinality(BlockedKeys(p) \cup Lost(p, taken))
            = Cardinality(BlockedKeys(p)) + Cardinality(Lost(p, taken)) - Cardinality({})
      BY <1>11, <2>2, <3>3, FS_Union
    <3>5. BlockedKeys(p)' = BlockedKeys(p) \cup Lost(p, taken)
      BY <1>11, <2>2
    <3> QED
      BY <3>1, <3>3, <3>4, <3>5, FS_EmptySet
  <2> QED
    BY <1>6, <2>1, <2>2 DEF WaitingCountsBlockers
<1> QED
    BY <1>7, <1>8, <1>9, <1>12, <1>13 DEF RegionInv

\* A valid permit passes the assertions of _claim: nothing blocks its task.
LEMMA PermitClaims ==
    ASSUME TypeOK, RegionInv, NEW t \in Tasks, phase[t] = "Scheduled"
    PROVE  ClaimAsserts(t)
<1>1. Registered(t) /\ waiting[t] = 0
    BY DEF RegionInv, IdsUnique, PermitMeansUnblocked, Registered
<1>2. BlockedKeys(t) = {}
    BY <1>1, BlockedCount DEF RegionInv, WaitingCountsBlockers
<1>3. \A k \in keys[t] : k \in Keys /\ Leads(t, k)
    BY <1>2 DEF BlockedKeys, TypeOK
<1>4. \A k \in keys[t] : running[k] = None
    BY <1>3 DEF Leads, RegionInv, RunningMatchesPhase
<1> QED
    BY <1>1, <1>3, <1>4 DEF ClaimAsserts, Leads

\* Registered tasks can be taken out of their queues: _removeLocked finds them there and
\* nobody gains more positions than it waits for.
LEMMA RemovalPermitted ==
    ASSUME TypeOK, RegionInv, NEW gone \in SUBSET Tasks, \A t \in gone : Registered(t)
    PROVE  RemoveAsserts(gone)
<1>1. \A t \in gone : \A k \in keys[t] : t \in positions[k]
    BY DEF RegionInv, QueuesMatchKeys, TypeOK
<1>2. ASSUME NEW p \in Tasks \ gone
      PROVE  Cardinality(Gained(p, gone)) <= waiting[p]
  <2>1. CASE Registered(p)
    <3>1. Gained(p, gone) \in SUBSET BlockedKeys(p)
      BY DEF Gained, BlockedKeys
    <3>2. Cardinality(Gained(p, gone)) <= Cardinality(BlockedKeys(p))
      BY <3>1, BlockedCount, FS_Subset
    <3> QED
      BY <2>1, <3>2 DEF RegionInv, WaitingCountsBlockers
  <2>2. CASE ~Registered(p)
    <3>1. Gained(p, gone) = {}
      BY <2>2 DEF Gained, First, RegionInv, QueuesMatchKeys, TypeOK
    <3> QED
      BY <3>1, FS_EmptySet DEF TypeOK
  <2> QED
    BY <2>1, <2>2
<1> QED
    BY <1>1, <1>2 DEF RemoveAsserts

\* Starting a task blocks nobody who was not blocked before: it led its positions.
LEMMA ClaimKeepsRegions ==
    ASSUME TypeOK, RegionInv, NEW t \in Tasks, phase[t] = "Scheduled",
           phase' = [phase EXCEPT ![t] = "Running"],
           running' = [k \in Keys |-> IF k \in keys[t] THEN t ELSE running[k]],
           UNCHANGED <<nextId, id, keys, waiting, generation, positions, body>>
    PROVE  RegionInv'
<1>1. \A k \in keys[t] : k \in Keys /\ running[k] = None /\ First(t, positions[k])
    BY PermitClaims DEF ClaimAsserts, TypeOK
<1>2. Registered(t) /\ waiting[t] = 0
    BY PermitClaims DEF ClaimAsserts, RegionInv, IdsUnique, Registered
<1>3. \A p \in Tasks : Registered(p)' <=> Registered(p)
    BY <1>2 DEF Registered, TypeOK
<1>4. IdsUnique'
    BY <1>2 DEF RegionInv, IdsUnique, Registered, TypeOK
<1>5. QueuesMatchKeys'
    BY <1>3 DEF RegionInv, QueuesMatchKeys
<1>6. RunningMatchesPhase'
  <2>1. ASSUME NEW k \in Keys, running'[k] # None
        PROVE  phase'[running'[k]] = "Running" /\ k \in keys'[running'[k]]
    BY <2>1 DEF RegionInv, RunningMatchesPhase, TypeOK
  <2>2. ASSUME NEW u \in Tasks, phase'[u] = "Running", NEW k \in keys'[u]
        PROVE  running'[k] = u
    <3>1. k \in Keys /\ k \in keys[u]
      BY <2>2 DEF TypeOK
    <3>2. CASE u = t
      BY <2>2, <3>1, <3>2
    <3>3. CASE u # t
      <4>1. running[k] = u
        BY <2>2, <3>1, <3>3 DEF RegionInv, RunningMatchesPhase, TypeOK
      <4>2. k \notin keys[t]
        BY <1>1, <4>1, SchedulerAssumption
      <4> QED
        BY <3>1, <4>1, <4>2
    <3> QED
      BY <3>2, <3>3
  <2> QED
    BY <2>1, <2>2 DEF RunningMatchesPhase
<1>7. PermitMeansUnblocked'
    BY <1>2 DEF RegionInv, PermitMeansUnblocked, TypeOK
<1>8. ASSUME NEW p \in Tasks, NEW k \in keys[p]
      PROVE  Leads(p, k)' <=> Leads(p, k)
  <2>1. k \in Keys
    BY DEF TypeOK
  <2>2. CASE k \notin keys[t]
    BY <2>1, <2>2 DEF Leads, First, Before
  <2>3. CASE k \in keys[t]
    <3>1. Leads(p, k)' <=> p = t
      BY <2>1, <2>3, SchedulerAssumption DEF Leads
    <3>2. Leads(p, k) <=> First(p, positions[k])
      BY <1>1, <2>3 DEF Leads
    <3>3. First(p, positions[k]) <=> p = t
      BY <1>1, <2>3, BeforeAsymmetric DEF First
    <3> QED
      BY <3>1, <3>2, <3>3
  <2> QED
    BY <2>2, <2>3
<1>9. \A p \in Tasks : BlockedKeys(p)' = BlockedKeys(p)
    BY <1>8 DEF BlockedKeys
<1>10. WaitingCountsBlockers'
    BY <1>3, <1>9 DEF RegionInv, WaitingCountsBlockers
<1> QED
    BY <1>4, <1>5, <1>6, <1>7, <1>10 DEF RegionInv

\* The critical section of a cancellation.
LEMMA CancelKeepsRegions ==
    ASSUME TypeOK, RegionInv, NEW th, NEW selected \in SUBSET Tasks, NEW stop, NEW below,
           CancelLocked(th, selected, stop, below)
    PROVE  RegionInv'
<1> DEFINE gone == {t \in selected : Cancellable(t)}
<1>1. gone \in SUBSET Tasks /\ \A t \in gone : Registered(t)
    BY DEF Cancellable
<1>2. RemoveAsserts(gone)
    BY <1>1, RemovalPermitted
<1>3. RemoveLocked(gone) /\ UNCHANGED <<id, keys, nextId, body>>
    BY <1>2 DEF CancelLocked, bodyVars
<1> QED
    BY <1>1, <1>3, RemoveKeepsRegions

\* Every step of a thread inside a call keeps queues, counts and marks in agreement.
LEMMA ProceedKeepsRegions ==
    ASSUME TypeOK, RegionInv, NEW th \in Threads, Proceed(th)
    PROVE  RegionInv'
<1> DEFINE queuesUntouched ==
        UNCHANGED <<nextId, taskVars, positions, running>>
           /\ \A t \in Tasks : body'[t] = "unborn" => body[t] = "unborn"
<1> USE DEF lockVars, bodyVars
<1>1. CASE SettleCancelBody(th)
  <2>1. queuesUntouched
    BY <1>1 DEF SettleCancelBody, Crash
  <2> QED
    BY <2>1, RegionsUntouched
<1>2. CASE Settled(th)
  <2>1. queuesUntouched
    BY <1>2 DEF Settled, Crash, TypeOK
  <2> QED
    BY <2>1, RegionsUntouched
<1>3. CASE SettleDone(th) \/ DispatchDone(th)
  <2>1. queuesUntouched
    BY <1>3 DEF SettleDone, DispatchDone, OnlyStack
  <2> QED
    BY <2>1, RegionsUntouched
<1>4. CASE DispatchCheck(th) \/ PoolCheck(th)
  <2>1. queuesUntouched \/ CancelLocked(th, Tasks, TRUE, Tail(stack[th]))
    BY <1>4 DEF DispatchCheck, PoolCheck, OnlyStack
  <2> QED
    BY <2>1, RegionsUntouched, CancelKeepsRegions
<1>5. CASE Revoke(th)
  <2>1. queuesUntouched
    BY <1>5 DEF Revoke, TypeOK
  <2> QED
    BY <2>1, RegionsUntouched
<1>6. CASE HandOver(th) \/ Take(th) \/ Drain(th)
  <2>1. queuesUntouched
    BY <1>6 DEF HandOver, Take, Drain
  <2> QED
    BY <2>1, RegionsUntouched
<1>7. CASE HandOverRefused(th)
    BY <1>7, CancelKeepsRegions DEF HandOverRefused
<1>8. ASSUME NEW place, Claim(th, place), stack[th] # <<>>,
             Top(th).at \in {"execute", "onCancel"}
      PROVE  RegionInv'
  <2> DEFINE t == Top(th).task
  <2>1. t \in Tasks
    BY <1>8, TopFrame
  <2>2. phase[t] = "Scheduled"
    BY <1>8 DEF Claim, Valid, Permit
  <2>3. CASE crashed' # "no" /\ UNCHANGED <<lockVars, bodyVars>>
    BY <2>3, RegionsUntouched
  <2>4. CASE /\ phase' = [phase EXCEPT ![t] = "Running"]
             /\ running' = [k \in Keys |-> IF k \in keys[t] THEN t ELSE running[k]]
             /\ UNCHANGED <<nextId, id, keys, waiting, generation, positions, body>>
    BY <2>1, <2>2, <2>4, ClaimKeepsRegions
  <2> QED
    BY <1>8, <2>3, <2>4 DEF Claim, Crash, Occupy
<1>9. CASE Execute(th) \/ OnCancel(th)
    BY <1>8, <1>9 DEF Execute, OnCancel, At, Top
<1>10. CASE ClaimFails(th)
  <2>1. queuesUntouched
    BY <1>10 DEF ClaimFails, OnlyStack
  <2> QED
    BY <2>1, RegionsUntouched
<1>11. CASE BodyReturns(th) \/ BodyThrows(th)
  <2>1. queuesUntouched
    BY <1>11 DEF BodyReturns, BodyThrows, ReleaseBody, TypeOK
  <2> QED
    BY <2>1, RegionsUntouched
<1>12. CASE Finish(th)
  <2> DEFINE t == Top(th).task
  <2>1. t \in Tasks
    BY <1>12, TopFrame DEF Finish, At, Top
  <2>2. CASE UNCHANGED <<lockVars, bodyVars>>
    BY <2>2, RegionsUntouched
  <2>3. CASE /\ phase[t] = "Running" /\ RemoveLocked({t})
             /\ UNCHANGED <<nextId, id, keys, bodyVars>>
    <3>1. Registered(t)
      BY <2>1, <2>3 DEF Registered, RegionInv, IdsUnique
    <3> QED
      BY <2>1, <2>3, <3>1, RemoveKeepsRegions
  <2> QED
    BY <1>12, <2>2, <2>3 DEF Finish, Crash
<1>13. CASE Joined(th) \/ StopWorkers(th)
  <2>1. queuesUntouched
    BY <1>13 DEF Joined, StopWorkers, OnlyStack
  <2> QED
    BY <2>1, RegionsUntouched
<1>14. CASE Closed(th)
  <2>1. queuesUntouched
    BY <1>14 DEF Closed, TypeOK
  <2> QED
    BY <2>1, RegionsUntouched
<1> QED
    BY <1>1, <1>2, <1>3, <1>4, <1>5, <1>6, <1>7, <1>9, <1>10, <1>11, <1>12, <1>13, <1>14
       DEF Proceed

\* So does every call of the public interface.
LEMMA CallKeepsRegions ==
    ASSUME TypeOK, RegionInv, NEW th \in Threads, Call(th)
    PROVE  RegionInv'
<1>1. ASSUME NEW t \in Tasks, Submit(th, t)
      PROVE  RegionInv'
  <2> DEFINE own == IF abort[t] THEN {} ELSE Region[t]
  <2>1. /\ own \in SUBSET Keys /\ AddLocked(t, own) /\ keys' = [keys EXCEPT ![t] = own]
        /\ id' = [id EXCEPT ![t] = nextId] /\ nextId' = nextId + 1
        /\ body' = [body EXCEPT ![t] = "held"]
    BY <1>1, SchedulerAssumption DEF Submit
  <2>2. id[t] = 0 /\ nextId # 0
    BY <1>1 DEF Submit, RegionInv, IdsUnique
  <2> QED
    BY <2>1, <2>2, AddKeepsRegions
<1>2. ASSUME NEW t \in Tasks, SubmitRefused(th, t)
      PROVE  RegionInv'
  <2>1. UNCHANGED <<nextId, taskVars, positions, running>>
    BY <1>2 DEF SubmitRefused, lockVars
  <2>2. \A u \in Tasks : body'[u] = "unborn" => body[u] = "unborn"
    BY <1>2 DEF SubmitRefused, TypeOK
  <2> QED
    BY <2>1, <2>2, RegionsUntouched
<1>3. ASSUME NEW t \in Tasks, Cancel(th, t)
      PROVE  RegionInv'
    BY <1>3, CancelKeepsRegions DEF Cancel
<1>4. CASE Prune(th)
    BY <1>4, {t \in Tasks : abort[t]} \in SUBSET Tasks, CancelKeepsRegions DEF Prune
<1>5. CASE Shutdown(th)
    BY <1>5, CancelKeepsRegions DEF Shutdown
<1>6. CASE StopPool(th)
    BY <1>6, RegionsUntouched DEF StopPool, lockVars, bodyVars
<1> QED
    BY <1>1, <1>2, <1>3, <1>4, <1>5, <1>6 DEF Call

\* Every step of the scheduler keeps queues, counts and marks in agreement.
LEMMA StepKeepsRegions == TypeOK /\ RegionInv /\ [Next]_vars => RegionInv'
<1> SUFFICES ASSUME TypeOK, RegionInv, [Next]_vars
             PROVE  RegionInv'
    OBVIOUS
<1>1. ASSUME NEW t \in Tasks, Abort(t)
      PROVE  RegionInv'
    BY <1>1, RegionsUntouched DEF Abort, lockVars, bodyVars
<1>2. CASE UNCHANGED vars
    BY <1>2, RegionsUntouched DEF vars, lockVars, bodyVars
<1> QED
    BY <1>1, <1>2, ProceedKeepsRegions, CallKeepsRegions DEF Next

\* The empty scheduler satisfies the region invariant.
LEMMA InitRegions == Init => RegionInv
<1> SUFFICES ASSUME Init
             PROVE  RegionInv
    OBVIOUS
<1>1. IdsUnique /\ RunningMatchesPhase /\ PermitMeansUnblocked
    BY DEF Init, IdsUnique, RunningMatchesPhase, PermitMeansUnblocked
<1>2. QueuesMatchKeys /\ WaitingCountsBlockers
    BY DEF Init, QueuesMatchKeys, WaitingCountsBlockers, Registered
<1> QED
    BY <1>1, <1>2 DEF RegionInv

\* The queues of the positions, the counts of blocking positions, the phases and the
\* running marks agree in every reachable state.
THEOREM RegionInvariant == Spec => []RegionInv
<1>1. Init => RegionInv
    BY InitRegions
<1>2. TypeOK /\ RegionInv /\ [Next]_vars => RegionInv'
    BY StepKeepsRegions
<1> QED
    BY <1>1, <1>2, TypeCorrect, PTL DEF Spec

\* Tasks whose regions share a position never run together: both would be the task the
\* position names as running.
THEOREM RunningRegionsDisjoint == Spec => []RegionsDisjoint
<1>1. TypeOK /\ RegionInv => RegionsDisjoint
  <2> SUFFICES ASSUME TypeOK, RegionInv, NEW t \in Tasks, NEW u \in Tasks, t # u,
                      phase[t] = "Running", phase[u] = "Running"
               PROVE  keys[t] \cap keys[u] = {}
    BY DEF RegionsDisjoint
  <2> QED
    BY DEF RegionInv, RunningMatchesPhase
<1> QED
    BY <1>1, TypeCorrect, RegionInvariant, PTL

\* The number of positions a task waits for is exact after any sequence of insertions,
\* revocations, cancellations and completions.
THEOREM WaitingIsExact == Spec => []WaitingCountsBlockers
<1>1. RegionInv => WaitingCountsBlockers
    BY DEF RegionInv
<1> QED
    BY <1>1, RegionInvariant, PTL

\* A valid permit passes every assertion of _claim, and tasks found in the table pass
\* every assertion of _removeLocked.
THEOREM ClaimsAndRemovalsSafe == Spec => []ClaimAndRemovalSafe
<1>1. TypeOK /\ RegionInv => ClaimAndRemovalSafe
    BY PermitClaims, RemovalPermitted DEF ClaimAndRemovalSafe
<1> QED
    BY <1>1, TypeCorrect, RegionInvariant, PTL

-----------------------------------------------------------------------------
(* Refinement.                                                             *)

\* Steps that leave numbers, regions, phases and the stop flag alone do not show.
LEMMA StatusUntouched ==
    ASSUME UNCHANGED <<id, nextId, keys, phase, stopped>>
    PROVE  UNCHANGED Regions!abstractVars
    BY DEF Regions!abstractVars, Status

\* The abstract status of a task, read off its number and its phase.
LEMMA StatusValues ==
    ASSUME TypeOK, NEW p \in Tasks
    PROVE  /\ Status(p) = "new" <=> id[p] = 0
           /\ Status(p) = "pending" <=> id[p] # 0 /\ phase[p] \in {"Waiting", "Scheduled"}
           /\ Status(p) = "running" <=> id[p] # 0 /\ phase[p] = "Running"
           /\ Status(p) = "settled" <=> id[p] # 0 /\ phase[p] = "Finished"
           /\ Registered(p) <=> Status(p) \in {"pending", "running"}
    BY DEF Status, TypeOK, Registered

\* Removal settles the tasks that go; the others stay pending or running.
LEMMA RemoveStatus ==
    ASSUME TypeOK, RegionInv, NEW gone \in SUBSET Tasks, \A t \in gone : Registered(t),
           RemoveLocked(gone), UNCHANGED id, NEW p \in Tasks
    PROVE  Status(p)' = IF p \in gone THEN "settled" ELSE Status(p)
<1>1. CASE p \in gone
    BY <1>1 DEF RemoveLocked, Status, Registered
<1>2. CASE p \notin gone
  <2>1. phase'[p] = phase[p] \/ (phase[p] = "Waiting" /\ phase'[p] = "Scheduled")
    BY <1>2 DEF RemoveLocked
  <2> QED
    BY <1>2, <2>1 DEF Status
<1> QED
    BY <1>1, <1>2

\* A cancellation drops what it selects; it may close the scheduler if it selects all.
LEMMA CancelRefines ==
    ASSUME TypeOK, RegionInv, StoppedHoldsNothing, NEW th, NEW selected \in SUBSET Tasks,
           NEW stop \in BOOLEAN, NEW below, stop => selected = Tasks,
           CancelLocked(th, selected, stop, below)
    PROVE  Regions!Next /\ StoppedHoldsNothing'
<1> DEFINE gone == {t \in selected : Cancellable(t)}
<1>1. gone \in SUBSET Tasks /\ \A t \in gone : Registered(t)
    BY DEF Cancellable
<1>2. RemoveAsserts(gone)
    BY <1>1, RemovalPermitted
<1>3. RemoveLocked(gone) /\ UNCHANGED <<id, keys, nextId>> /\ stopped' = (stopped \/ stop)
    BY <1>2 DEF CancelLocked
<1>4. \A t \in Tasks : Status(t)' = IF t \in gone THEN "settled" ELSE Status(t)
    BY <1>1, <1>3, RemoveStatus
<1>5. \A t \in gone : Status(t) = "pending"
    BY StatusValues DEF Cancellable
<1>6. stopped' => \A t \in Tasks : Status(t)' # "pending"
  <2>1. CASE stopped
    BY <1>4, <2>1 DEF StoppedHoldsNothing
  <2>2. CASE ~stopped /\ stopped'
    <3>1. selected = Tasks
      BY <1>3, <2>2
    <3>2. \A t \in Tasks : Status(t) = "pending" => t \in gone
      BY <3>1, StatusValues DEF Cancellable
    <3> QED
      BY <1>4, <3>2
  <2> QED
    BY <2>1, <2>2
<1>7. StoppedHoldsNothing'
    BY <1>3, <1>6 DEF StoppedHoldsNothing
<1>8. Regions!Drop(gone)
  <2>1. [t \in Tasks |-> Status(t)]'
          = [t \in Tasks |-> IF t \in gone THEN "settled" ELSE [u \in Tasks |-> Status(u)][t]]
    BY <1>4
  <2>2. \A t \in gone : [u \in Tasks |-> Status(u)][t] = "pending"
    BY <1>1, <1>5
  <2>3. (~stopped)' \in {~stopped, FALSE}
    BY <1>3 DEF TypeOK
  <2>4. ~(~stopped)' => \A t \in Tasks : [u \in Tasks |-> Status(u)]'[t] # "pending"
    BY <1>6
  <2> QED
    BY <1>3, <2>1, <2>2, <2>3, <2>4 DEF Regions!Drop
<1> QED
    BY <1>1, <1>7, <1>8 DEF Regions!Next

\* A claim starts a task that leads all its positions.
LEMMA ClaimRefines ==
    ASSUME TypeOK, RegionInv, StoppedHoldsNothing, NEW t \in Tasks, phase[t] = "Scheduled",
           phase' = [phase EXCEPT ![t] = "Running"], UNCHANGED <<id, keys, stopped, nextId>>
    PROVE  Regions!Next /\ StoppedHoldsNothing'
<1> DEFINE status == [u \in Tasks |-> Status(u)]
<1>1. \A k \in keys[t] : k \in Keys /\ running[k] = None /\ First(t, positions[k])
    BY PermitClaims DEF ClaimAsserts, TypeOK
<1>2. status[t] = "pending"
    BY StatusValues DEF RegionInv, IdsUnique
<1>3. status' = [status EXCEPT ![t] = "running"]
    BY <1>2 DEF Status, TypeOK
<1>4. ASSUME NEW u \in Tasks \ {t}, status[u] \in {"pending", "running"},
             keys[t] \cap keys[u] # {}
      PROVE  status[u] = "pending" /\ Before(t, u)
  <2>1. PICK k \in keys[t] \cap keys[u] : TRUE
    BY <1>4
  <2>2. u \in positions[k]
    BY <1>1, <1>4, <2>1, StatusValues DEF RegionInv, QueuesMatchKeys
  <2>3. Before(t, u)
    BY <1>1, <1>4, <2>1, <2>2 DEF First
  <2>4. phase[u] # "Running"
    BY <1>1, <1>4, <2>1, SchedulerAssumption DEF RegionInv, RunningMatchesPhase
  <2> QED
    BY <1>4, <2>3, <2>4, StatusValues
<1>5. Regions!Start(t)
    BY <1>2, <1>3, <1>4
       DEF Regions!Start, Regions!Unfinished, Regions!Intersects, Regions!Precedes,
           Before, Precedes
<1>6. StoppedHoldsNothing'
    BY <1>3 DEF StoppedHoldsNothing
<1> QED
    BY <1>5, <1>6 DEF Regions!Next

\* A completion settles a running task.
LEMMA FinishRefines ==
    ASSUME TypeOK, RegionInv, StoppedHoldsNothing, NEW t \in Tasks, phase[t] = "Running",
           RemoveLocked({t}), UNCHANGED <<id, keys, stopped, nextId>>
    PROVE  Regions!Next /\ StoppedHoldsNothing'
<1> DEFINE status == [u \in Tasks |-> Status(u)]
<1>1. Registered(t)
    BY DEF Registered, RegionInv, IdsUnique
<1>2. \A p \in Tasks : Status(p)' = IF p \in {t} THEN "settled" ELSE Status(p)
    BY <1>1, RemoveStatus
<1>3. status[t] = "running"
    BY <1>1, StatusValues
<1>4. status' = [status EXCEPT ![t] = "settled"]
    BY <1>2
<1>5. Regions!Finish(t)
    BY <1>3, <1>4 DEF Regions!Finish
<1>6. StoppedHoldsNothing'
    BY <1>2 DEF StoppedHoldsNothing
<1> QED
    BY <1>5, <1>6 DEF Regions!Next

\* A submission hands out the next ticket.
LEMMA SubmitRefines ==
    ASSUME TypeOK, RegionInv, StoppedHoldsNothing, NEW th \in Threads, NEW t \in Tasks, Submit(th, t)
    PROVE  Regions!Next /\ StoppedHoldsNothing'
<1> DEFINE status == [u \in Tasks |-> Status(u)]
           own == IF abort[t] THEN {} ELSE Region[t]
<1>1. /\ ~stopped /\ UNCHANGED stopped /\ AddLocked(t, own)
      /\ keys' = [keys EXCEPT ![t] = own] /\ own \in {Region[t], {}}
      /\ id' = [id EXCEPT ![t] = nextId] /\ nextId' = nextId + 1
    BY DEF Submit
<1>2. id[t] = 0 /\ phase[t] = "Waiting" /\ nextId # 0 /\ nextId \in Nat
    BY DEF Submit, RegionInv, IdsUnique, TypeOK
<1>4. status[t] = "new"
    BY <1>2, StatusValues
<1>5. status' = [status EXCEPT ![t] = "pending"]
  <2>1. Status(t)' = "pending"
    BY <1>1, <1>2 DEF Status, AddLocked, TypeOK
  <2>2. ASSUME NEW p \in Tasks \ {t}
        PROVE  Status(p)' = Status(p)
    <3>1. id'[p] = id[p]
      BY <1>1, <2>2 DEF TypeOK
    <3>2. \/ phase'[p] = phase[p]
          \/ phase'[p] = "Waiting" /\ Lost(p, Taken(t, own)) # {}
      BY <1>1, <2>2 DEF AddLocked
    <3>3. own \in SUBSET Keys
      BY SchedulerAssumption
    <3>4. Lost(p, Taken(t, own)) # {} => Registered(p) /\ phase[p] # "Running"
      BY <1>2, <3>3, OvertakenPending
    <3> QED
      BY <3>1, <3>2, <3>4 DEF Status, Registered
  <2> QED
    BY <2>1, <2>2
<1>6. Regions!Accept(t)
  <2>1. /\ (nextId - 1)' = (nextId - 1) + 1
        /\ id' = [id EXCEPT ![t] = (nextId - 1) + 1]
    <3>1. (nextId - 1) + 1 = nextId /\ (nextId + 1) - 1 = (nextId - 1) + 1
      BY <1>2
    <3>2. (nextId - 1)' = (nextId + 1) - 1
      BY <1>1
    <3>3. id' = [id EXCEPT ![t] = (nextId - 1) + 1]
      BY <1>1, <3>1
    <3> QED
      BY <3>1, <3>2, <3>3
  <2>2. \E o \in {Region[t], {}} : keys' = [keys EXCEPT ![t] = o]
    BY <1>1
  <2>3. (~stopped)' = ~stopped
    BY <1>1
  <2> QED
    BY <1>1, <1>4, <1>5, <2>1, <2>2, <2>3 DEF Regions!Accept
<1>7. StoppedHoldsNothing'
    BY <1>1 DEF StoppedHoldsNothing
<1> QED
    BY <1>6, <1>7 DEF Regions!Next

\* A step of a thread inside a call is a step of the region tasks or does not show.
LEMMA ProceedRefines ==
    ASSUME TypeOK, RegionInv, StoppedHoldsNothing, NEW th \in Threads, Proceed(th)
    PROVE  [Regions!Next]_(Regions!abstractVars) /\ StoppedHoldsNothing'
<1> DEFINE unseen == UNCHANGED <<id, nextId, keys, phase, stopped>>
<1> USE DEF lockVars, taskVars
<1>1. ASSUME unseen
      PROVE  [Regions!Next]_(Regions!abstractVars) /\ StoppedHoldsNothing'
    BY <1>1, StatusUntouched DEF StoppedHoldsNothing, Status
<1>2. CASE SettleCancelBody(th) \/ Settled(th) \/ SettleDone(th) \/ DispatchDone(th)
    BY <1>1, <1>2 DEF SettleCancelBody, Settled, SettleDone, DispatchDone, Crash, OnlyStack
<1>3. CASE DispatchCheck(th) \/ PoolCheck(th)
  <2>1. unseen \/ CancelLocked(th, Tasks, TRUE, Tail(stack[th]))
    BY <1>3 DEF DispatchCheck, PoolCheck, OnlyStack
  <2> QED
    BY <1>1, <2>1, CancelRefines
<1>4. CASE Revoke(th) \/ HandOver(th) \/ Take(th) \/ Drain(th)
    BY <1>1, <1>4 DEF Revoke, HandOver, Take, Drain
<1>5. CASE HandOverRefused(th)
    BY <1>5, CancelRefines DEF HandOverRefused
<1>6. ASSUME NEW place, Claim(th, place), stack[th] # <<>>,
             Top(th).at \in {"execute", "onCancel"}
      PROVE  [Regions!Next]_(Regions!abstractVars) /\ StoppedHoldsNothing'
  <2> DEFINE t == Top(th).task
  <2>1. t \in Tasks
    BY <1>6, TopFrame
  <2>2. phase[t] = "Scheduled"
    BY <1>6 DEF Claim, Valid, Permit
  <2>3. CASE unseen
    BY <1>1, <2>3
  <2>4. CASE /\ phase' = [phase EXCEPT ![t] = "Running"]
             /\ UNCHANGED <<id, keys, stopped, nextId>>
    BY <2>1, <2>2, <2>4, ClaimRefines
  <2> QED
    BY <1>6, <2>3, <2>4 DEF Claim, Crash
<1>7. CASE Execute(th) \/ OnCancel(th)
    BY <1>6, <1>7 DEF Execute, OnCancel, At, Top
<1>8. CASE ClaimFails(th) \/ BodyReturns(th) \/ BodyThrows(th)
            \/ StopWorkers(th) \/ Joined(th) \/ Closed(th)
    BY <1>1, <1>8 DEF ClaimFails, BodyReturns, BodyThrows, StopWorkers, Joined, Closed,
                      OnlyStack
<1>9. CASE Finish(th)
  <2> DEFINE t == Top(th).task
  <2>1. t \in Tasks
    BY <1>9, TopFrame DEF Finish, At, Top
  <2>2. CASE unseen
    BY <1>1, <2>2
  <2>3. CASE phase[t] = "Running" /\ RemoveLocked({t}) /\ UNCHANGED <<nextId, id, keys, stopped>>
    BY <2>1, <2>3, FinishRefines
  <2> QED
    BY <1>9, <2>2, <2>3 DEF Finish, Crash
<1> QED
    BY <1>2, <1>3, <1>4, <1>5, <1>7, <1>8, <1>9 DEF Proceed

\* Every step of the scheduler is a step of the region tasks or does not show.
LEMMA StepRefines ==
    TypeOK /\ RegionInv /\ StoppedHoldsNothing /\ [Next]_vars
        => [Regions!Next]_(Regions!abstractVars) /\ StoppedHoldsNothing'
<1> SUFFICES ASSUME TypeOK, RegionInv, StoppedHoldsNothing, [Next]_vars
             PROVE  [Regions!Next]_(Regions!abstractVars) /\ StoppedHoldsNothing'
    OBVIOUS
<1> DEFINE unseen == UNCHANGED <<id, nextId, keys, phase, stopped>>
<1>1. ASSUME unseen
      PROVE  [Regions!Next]_(Regions!abstractVars) /\ StoppedHoldsNothing'
    BY <1>1, StatusUntouched DEF StoppedHoldsNothing, Status
<1>2. ASSUME NEW th \in Threads, Call(th)
      PROVE  [Regions!Next]_(Regions!abstractVars) /\ StoppedHoldsNothing'
  <2>1. ASSUME NEW t \in Tasks, Submit(th, t) \/ SubmitRefused(th, t) \/ Cancel(th, t)
        PROVE  [Regions!Next]_(Regions!abstractVars) /\ StoppedHoldsNothing'
    <3>1. CASE Submit(th, t)
      BY <3>1, SubmitRefines
    <3>2. CASE SubmitRefused(th, t)
      BY <1>1, <3>2 DEF SubmitRefused, lockVars, taskVars
    <3>3. CASE Cancel(th, t)
      BY <3>3, CancelRefines DEF Cancel
    <3> QED
      BY <2>1, <3>1, <3>2, <3>3
  <2>2. CASE Prune(th)
    BY <2>2, {t \in Tasks : abort[t]} \in SUBSET Tasks, CancelRefines DEF Prune
  <2>3. CASE Shutdown(th)
    BY <2>3, CancelRefines DEF Shutdown
  <2>4. CASE StopPool(th)
    BY <1>1, <2>4 DEF StopPool, lockVars, taskVars
  <2> QED
    BY <1>2, <2>1, <2>2, <2>3, <2>4 DEF Call
<1>3. ASSUME NEW t \in Tasks, Abort(t)
      PROVE  [Regions!Next]_(Regions!abstractVars) /\ StoppedHoldsNothing'
    BY <1>1, <1>3 DEF Abort, lockVars, taskVars
<1>4. CASE UNCHANGED vars
    BY <1>1, <1>4 DEF vars, lockVars, taskVars
<1> QED
    BY <1>2, <1>3, <1>4, ProceedRefines DEF Next

\* The scheduler implements the abstract tasks: a task starts only when every task that
\* precedes it and shares a position has ended, and ends once, run or dropped.
THEOREM SchedulerImplementsRegionTasks == Spec => ImplementsRegionTasks
<1>1. Init => Regions!Init /\ StoppedHoldsNothing
  <2> SUFFICES ASSUME Init
               PROVE  Regions!Init /\ StoppedHoldsNothing
    OBVIOUS
  <2>1. [t \in Tasks |-> Status(t)] = [t \in Tasks |-> "new"]
    BY DEF Init, Status
  <2>2. nextId - 1 = 0 /\ ~stopped
    BY DEF Init
  <2> QED
    BY <2>1, <2>2 DEF Init, Regions!Init, StoppedHoldsNothing
<1>2. TypeOK /\ RegionInv /\ StoppedHoldsNothing /\ [Next]_vars
        => [Regions!Next]_(Regions!abstractVars) /\ StoppedHoldsNothing'
    BY StepRefines
<1> QED
    BY <1>1, <1>2, TypeCorrect, RegionInvariant, PTL
       DEF Spec, ImplementsRegionTasks, Regions!Spec

-----------------------------------------------------------------------------
(* Settling: what every task has been told, and who still has to tell it.  *)

Told == {"body", "cancelled", "callback", "settled"}

\* The tasks a call is settling: being executed, cancelled or called back, or still to be.
Has(f) == f.batch \cup (IF f.at \in Told THEN {f.task} ELSE {})

Calling == INSTANCE CallStacks WITH Held <- Has

Owned == Calling!AllHeld(stack)
Within == Calling!Within(stack)

\* Only the calls of _cancelPending have a batch.
Tidy(f) == f.at \notin {"settle", "settled"} => f.batch = {}
AllTidy == \A f \in Within : Tidy(f)

\* What task t of call f has been told, e times executed, c times cancelled and b times
\* called back, when it has number n and phase p.
Stage(f, t, n, p, e, c, b) ==
    /\ n # 0
    /\ IF f.at \in Told /\ t = f.task
       THEN /\ t \notin f.batch /\ e + c = 1
            /\ p = (IF f.at = "settled" THEN "Finished" ELSE "Running")
            /\ b = (IF f.at \in {"callback", "settled"} THEN 1 ELSE 0)
       ELSE p = "Finished" /\ e = 0 /\ c = 0 /\ b = 0

StagesOK == \A f \in Within : \A t \in Has(f) :
    Stage(f, t, id[t], phase[t], executes[t], cancels[t], callbacks[t])

\* ... and what any task has been told, whose body is bd and which is in somebody's hands
\* or not.
Rest(n, p, e, c, b, bd, mine) ==
    /\ e + c <= 1 /\ b <= 1
    /\ n = 0 => p = "Waiting" /\ e = 0 /\ (bd = "unborn" => c = 0 /\ b = 0)
    /\ n # 0 /\ p \in {"Waiting", "Scheduled"} => e = 0 /\ c = 0 /\ b = 0
    /\ p = "Running" => mine
    /\ p = "Finished" /\ ~mine => bd = "released" /\ b = 1

RestOK == \A t \in Tasks :
    Rest(id[t], phase[t], executes[t], cancels[t], callbacks[t], body[t], t \in Owned)

InTable == {t \in Tasks : Registered(t)}

CountOK == outstanding = Cardinality(InTable \cup Owned)

\* shutdown() has closed the scheduler before it waits, and waits for everybody.
ClosedOK ==
    /\ \A f \in Within : f.at = "closing" => stopped
    /\ closed => stopped /\ outstanding = 0

ToldInv == Calling!AllApart(stack) /\ AllTidy /\ StagesOK /\ RestOK
SettleInv == ToldInv /\ CountOK /\ ClosedOK

\* Nothing happens to the task but that its permit is given or taken and its body goes.
Quiet(t) ==
    /\ id'[t] = id[t] /\ executes'[t] = executes[t] /\ cancels'[t] = cancels[t]
    /\ callbacks'[t] = callbacks[t]
    /\ \/ phase'[t] = phase[t]
       \/ /\ id[t] # 0
          /\ phase[t] \in {"Waiting", "Scheduled"} /\ phase'[t] \in {"Waiting", "Scheduled"}
    /\ body'[t] = body[t] \/ body'[t] = "released"

\* What calls hold are tasks.
LEMMA HeldTasks ==
    ASSUME TypeOK
    PROVE  /\ \A f \in Frames : Has(f) \subseteq Tasks
           /\ Within \subseteq Frames /\ Owned \subseteq Tasks
           /\ \A f \in Within : Has(f) \subseteq Owned
           /\ \A t \in Owned : \E f \in Within : t \in Has(f)
<1>1. \A f \in Frames : Has(f) \subseteq Tasks
    BY DEF Frames, Has, Told
<1>2. Within \subseteq Frames
  <2>1. ASSUME NEW th \in Threads
        PROVE  Calling!Inside(stack[th]) \subseteq Frames
    BY DEF TypeOK, Calling!Inside
  <2> QED
    BY <2>1 DEF Within, Calling!Within
<1>3. /\ \A f \in Within : Has(f) \subseteq Owned
      /\ \A t \in Owned : \E f \in Within : t \in Has(f)
    BY Calling!HeldWithin DEF Within, Owned
<1> QED
    BY <1>1, <1>2, <1>3

\* What a task in somebody's hands has been told; it no longer waits.
LEMMA OwnedStage ==
    ASSUME TypeOK, StagesOK, NEW t \in Owned
    PROVE  id[t] # 0 /\ phase[t] \in {"Running", "Finished"} /\ t \in Tasks
<1>1. PICK f \in Within : t \in Has(f)
    BY HeldTasks
<1>2. Stage(f, t, id[t], phase[t], executes[t], cancels[t], callbacks[t])
    BY <1>1 DEF StagesOK
<1> QED
    BY <1>2, HeldTasks DEF Stage

\* Calls are exchanged for others: their tasks change as the new calls say, the tasks of
\* extra as told, and all others keep still.
LEMMA KeepsTold ==
    ASSUME TypeOK, TypeOK', ToldInv, NEW gone, NEW frames \in SUBSET Frames,
           Calling!Moved(stack, stack', gone, frames),
           NEW extra \in SUBSET Tasks, extra \cap Owned = {},
           \A g \in frames : Tidy(g),
           \A g \in frames : \A t \in Has(g) : 
               Stage(g, t, id'[t], phase'[t], executes'[t], cancels'[t], callbacks'[t]),
           \A t \in Tasks : t \notin gone /\ t \notin extra /\ t \notin Calling!Of(frames)
               => Quiet(t),
           \A t \in Tasks : t \in gone \cup extra /\ t \notin Calling!Of(frames)
               => Rest(id'[t], phase'[t], executes'[t], cancels'[t], callbacks'[t], body'[t], FALSE)
    PROVE  ToldInv' /\ Owned' = (Owned \ gone) \cup Calling!Of(frames)
<1>1. /\ Calling!AllApart(stack')
      /\ Calling!AllHeld(stack') = (Owned \ gone) \cup Calling!Of(frames)
      /\ \A f \in Calling!Within(stack') :
            f \in frames \/ (f \in Within /\ Has(f) \cap Calling!Of(frames) = {})
    BY DEF Calling!Moved, Owned, Within
<1>2. Owned' = (Owned \ gone) \cup Calling!Of(frames) /\ Within' = Calling!Within(stack')
    BY <1>1 DEF Owned, Within
<1>3. AllTidy'
    BY <1>1, <1>2 DEF ToldInv, AllTidy
<1>4. ASSUME NEW t \in Owned, t \notin gone, t \notin Calling!Of(frames)
      PROVE  /\ t \in Tasks /\ id'[t] = id[t] /\ phase'[t] = phase[t] /\ executes'[t] = executes[t]
             /\ cancels'[t] = cancels[t] /\ callbacks'[t] = callbacks[t]
  <2>1. t \in Tasks /\ phase[t] \in {"Running", "Finished"}
    BY OwnedStage DEF ToldInv
  <2> QED
    BY <1>4, <2>1 DEF Quiet
<1>5. ASSUME NEW f \in Within', NEW t \in Has(f)
      PROVE  Stage(f, t, id'[t], phase'[t], executes'[t], cancels'[t], callbacks'[t])
  <2>1. CASE f \in frames
    BY <2>1
  <2>2. CASE f \in Within /\ Has(f) \cap Calling!Of(frames) = {}
    <3>1. t \in Owned'
      <4>1. \A h \in Calling!Within(stack') : Has(h) \subseteq Calling!AllHeld(stack')
        BY Calling!HeldWithin
      <4> QED
        BY <4>1, <1>2 DEF Owned
    <3>2. t \in Owned /\ t \notin gone /\ t \notin Calling!Of(frames)
      BY <3>1, <2>2, <1>2
    <3>3. Stage(f, t, id[t], phase[t], executes[t], cancels[t], callbacks[t])
      BY <2>2 DEF ToldInv, StagesOK
    <3> QED
      BY <1>4, <3>2, <3>3
  <2> QED
    BY <2>1, <2>2, <1>1, <1>2
<1>6. StagesOK'
    BY <1>5 DEF StagesOK
<1>7. ASSUME NEW t \in Tasks
      PROVE  Rest(id'[t], phase'[t], executes'[t], cancels'[t], callbacks'[t], body'[t], t \in Owned')
  <2>1. CASE t \in Calling!Of(frames)
    <3>1. PICK g \in frames : t \in Has(g)
      BY <2>1 DEF Calling!Of
    <3>2. Stage(g, t, id'[t], phase'[t], executes'[t], cancels'[t], callbacks'[t])
      BY <3>1
    <3>3. executes'[t] \in Nat /\ cancels'[t] \in Nat
      BY DEF TypeOK
    <3>4. t \in Owned'
      BY <2>1, <1>2
    <3> QED
      BY <3>2, <3>3, <3>4 DEF Stage, Rest
  <2>2. CASE t \in gone \cup extra /\ t \notin Calling!Of(frames)
    <3>1. t \notin Owned'
      BY <2>2, <1>2
    <3>2. Rest(id'[t], phase'[t], executes'[t], cancels'[t], callbacks'[t], body'[t], FALSE)
      BY <2>2
    <3> QED
      BY <3>1, <3>2 DEF Rest
  <2>3. CASE t \notin gone /\ t \notin extra /\ t \notin Calling!Of(frames)
    <3>1. Quiet(t)
      BY <2>3
    <3>2. t \in Owned' <=> t \in Owned
      BY <2>3, <1>2
    <3>3. Rest(id[t], phase[t], executes[t], cancels[t], callbacks[t], body[t], t \in Owned)
      BY DEF ToldInv, RestOK
    <3> QED
      BY <3>1, <3>2, <3>3 DEF Quiet, Rest
  <2> QED
    BY <2>1, <2>2, <2>3
<1>8. RestOK'
    BY <1>7 DEF RestOK
<1> QED
    BY <1>1, <1>2, <1>3, <1>6, <1>8 DEF ToldInv, Owned

\* The same tasks stay in the table or in somebody's hands.
LEMMA KeepsSettling ==
    ASSUME TypeOK, TypeOK', SettleInv, NEW gone, NEW frames \in SUBSET Frames,
           Calling!Moved(stack, stack', gone, frames),
           gone \subseteq Calling!Of(frames), Calling!Of(frames) \subseteq InTable \cup Owned,
           \A g \in frames : Tidy(g) /\ (g.at = "closing" => stopped'),
           \A g \in frames : \A t \in Has(g) : 
               Stage(g, t, id'[t], phase'[t], executes'[t], cancels'[t], callbacks'[t]),
           \A t \in Tasks \ Calling!Of(frames) : Quiet(t),
           UNCHANGED outstanding, stopped => stopped',
           closed' => closed \/ (stopped /\ outstanding = 0)
    PROVE  SettleInv'
<1>1. ToldInv' /\ Owned' = (Owned \ gone) \cup Calling!Of(frames)
  <2> DEFINE extra == {}
  <2>1. extra \in SUBSET Tasks /\ extra \cap Owned = {} /\ \A g \in frames : Tidy(g)
    OBVIOUS
  <2>2. \A t \in Tasks : t \notin gone /\ t \notin extra /\ t \notin Calling!Of(frames) => Quiet(t)
    OBVIOUS
  <2>3. \A t \in Tasks : t \in gone \cup extra /\ t \notin Calling!Of(frames)
          => Rest(id'[t], phase'[t], executes'[t], cancels'[t], callbacks'[t], body'[t], FALSE)
    OBVIOUS
  <2>4. ToldInv
    BY DEF SettleInv
  <2> HIDE DEF extra
  <2> QED
    BY <2>1, <2>2, <2>3, <2>4, KeepsTold
<1>2. InTable' \cup Owned' = InTable \cup Owned
  <2>1. ASSUME NEW t \in Tasks, t \notin Calling!Of(frames)
        PROVE  t \in InTable' <=> t \in InTable
    BY <2>1 DEF Quiet, InTable, Registered
  <2>2. Owned \subseteq Tasks /\ Calling!Of(frames) \subseteq Tasks
    BY HeldTasks DEF InTable
  <2>3. \A t \in Tasks : t \in InTable' \cup Owned' <=> t \in InTable \cup Owned
    BY <1>1, <2>1
  <2>4. InTable' \subseteq Tasks /\ InTable \subseteq Tasks /\ Owned' \subseteq Tasks
    BY <1>1, <2>2 DEF InTable
  <2> QED
    BY <2>2, <2>3, <2>4
<1>3. ClosedOK'
  <2>1. \A f \in Within' : f \in frames \/ f \in Within
    BY DEF Calling!Moved, Within
  <2> QED
    BY <2>1 DEF SettleInv, ClosedOK
<1> QED
    BY <1>1, <1>2, <1>3 DEF SettleInv, CountOK

\* One task leaves them, settled.
LEMMA OneLeaves ==
    ASSUME TypeOK, TypeOK', SettleInv, NEW t \in Owned, NEW frames \in SUBSET Frames,
           t \notin Calling!Of(frames), Calling!Of(frames) \subseteq Owned,
           Calling!Moved(stack, stack', Calling!Of(frames) \cup {t}, frames),
           \A g \in frames : Tidy(g) /\ g.at # "closing",
           \A g \in frames : \A u \in Has(g) : 
               Stage(g, u, id'[u], phase'[u], executes'[u], cancels'[u], callbacks'[u]),
           \A u \in Tasks \ (Calling!Of(frames) \cup {t}) : Quiet(u),
           Rest(id'[t], phase'[t], executes'[t], cancels'[t], callbacks'[t], body'[t], FALSE),
           phase'[t] = "Finished",
           outstanding # 0, outstanding' = outstanding - 1, UNCHANGED <<closed, stopped>>
    PROVE  SettleInv'
<1> DEFINE gone == Calling!Of(frames) \cup {t}
<1>1. ToldInv' /\ Owned' = (Owned \ gone) \cup Calling!Of(frames)
  <2> DEFINE extra == {}
  <2>1. extra \in SUBSET Tasks /\ extra \cap Owned = {} /\ \A g \in frames : Tidy(g)
    OBVIOUS
  <2>2. \A u \in Tasks : u \notin gone /\ u \notin extra /\ u \notin Calling!Of(frames) => Quiet(u)
    OBVIOUS
  <2>3. \A u \in Tasks : u \in gone \cup extra /\ u \notin Calling!Of(frames)
          => Rest(id'[u], phase'[u], executes'[u], cancels'[u], callbacks'[u], body'[u], FALSE)
    OBVIOUS
  <2>4. ToldInv
    BY DEF SettleInv
  <2>5. Calling!Moved(stack, stack', gone, frames)
    OBVIOUS
  <2> HIDE DEF extra, gone
  <2> QED
    BY <2>1, <2>2, <2>3, <2>4, <2>5, KeepsTold
<1>2. Owned' = Owned \ {t}
    BY <1>1
<1>3. InTable' \cup Owned' = (InTable \cup Owned) \ {t}
  <2>1. ASSUME NEW u \in Tasks, u \notin Calling!Of(frames), u # t
        PROVE  u \in InTable' <=> u \in InTable
    BY <2>1 DEF Quiet, InTable, Registered
  <2>2. t \notin InTable' /\ t \in Tasks
    BY HeldTasks DEF InTable, Registered
  <2>3. Owned \subseteq Tasks /\ InTable' \subseteq Tasks /\ InTable \subseteq Tasks
    BY HeldTasks DEF InTable
  <2>4. \A u \in Tasks : u \in InTable' \cup Owned' <=> u \in (InTable \cup Owned) \ {t}
    BY <1>2, <2>1, <2>2
  <2> QED
    BY <1>2, <2>3, <2>4
<1>4. Cardinality((InTable \cup Owned) \ {t}) = Cardinality(InTable \cup Owned) - 1
  <2>1. IsFiniteSet(InTable \cup Owned)
    BY SchedulerAssumption, FS_Subset, HeldTasks DEF InTable
  <2> QED
    BY <2>1, FS_RemoveElement
<1>5. ClosedOK'
  <2>1. \A f \in Within' : f \in frames \/ f \in Within
    BY DEF Calling!Moved, Within
  <2> QED
    BY <2>1 DEF SettleInv, ClosedOK
<1> QED
    BY <1>1, <1>3, <1>4, <1>5 DEF SettleInv, CountOK

\* The tasks of a thread's innermost call.
LEMMA TopHas ==
    ASSUME TypeOK, SettleInv, NEW th \in Threads, stack[th] # <<>>
    PROVE  /\ Top(th) \in Within /\ Top(th) \in Frames /\ Has(Top(th)) \subseteq Owned
           /\ Top(th).at \notin {"settle", "settled"} => Top(th).batch = {}
           /\ Top(th).at \notin Told \cup {"settle"} => Has(Top(th)) = {}
           /\ Top(th).at \in Told =>
                 /\ Has(Top(th)) = Top(th).batch \cup {Top(th).task} /\ Top(th).task \in Tasks
                 /\ Top(th).task \notin Top(th).batch
           /\ Top(th).at = "settle" => Has(Top(th)) = Top(th).batch
           /\ \A t \in Has(Top(th)) :
                 Stage(Top(th), t, id[t], phase[t], executes[t], cancels[t], callbacks[t])
<1>1. Top(th) \in Within /\ Top(th) \in Frames /\ Has(Top(th)) \subseteq Owned
    BY Calling!Innermore, Frames = Frames DEF Within, Owned, Top, TypeOK
<1>2. Tidy(Top(th))
    BY <1>1 DEF SettleInv, ToldInv, AllTidy
<1>3. \A t \in Has(Top(th)) :
         Stage(Top(th), t, id[t], phase[t], executes[t], cancels[t], callbacks[t])
    BY <1>1 DEF SettleInv, ToldInv, StagesOK
<1>4. Top(th).at \in Told => Top(th).task \in Tasks /\ Top(th).task \in Has(Top(th))
    BY <1>1, SchedulerAssumption DEF Frames, Has, Told
<1>5. Top(th).at \in Told => Top(th).task \notin Top(th).batch
    BY <1>3, <1>4 DEF Stage
<1> QED
    BY <1>1, <1>2, <1>3, <1>4, <1>5 DEF Tidy, Has, Told

\* The moves of a thread, as exchanges of calls.
LEMMA Moves ==
    ASSUME TypeOK, SettleInv, NEW th \in Threads, NEW g \in Frames
    PROVE  /\ UNCHANGED stack => Calling!Moved(stack, stack', {}, {})
           /\ Push(th, g) /\ Has(g) \cap Owned = {} => Calling!Moved(stack, stack', {}, {g})
           /\ stack[th] # <<>> /\ Goto(th, g) /\ Has(g) \cap Owned \subseteq Has(Top(th))
                => Calling!Moved(stack, stack', Has(Top(th)), {g})
           /\ stack[th] # <<>> /\ Return(th) => Calling!Moved(stack, stack', Has(Top(th)), {})
<1>1. stack \in [Threads -> Seq(Frames)] /\ Calling!AllApart(stack)
    BY DEF TypeOK, SettleInv, ToldInv
<1>2. UNCHANGED stack => Calling!Moved(stack, stack', {}, {})
    BY <1>1 DEF Calling!Moved, Calling!Of
<1>3. Push(th, g) /\ Has(g) \cap Owned = {} => Calling!Moved(stack, stack', {}, {g})
    BY <1>1, Calling!Entered DEF Push, Owned
<1>4. stack[th] # <<>> /\ Goto(th, g) /\ Has(g) \cap Owned \subseteq Has(Top(th))
        => Calling!Moved(stack, stack', Has(Top(th)), {g})
    BY <1>1, Calling!WentOn DEF Goto, Owned, Top
<1>5. stack[th] # <<>> /\ Return(th) => Calling!Moved(stack, stack', Has(Top(th)), {})
    BY <1>1, Calling!Returned DEF Return, Top
<1> QED
    BY <1>2, <1>3, <1>4, <1>5

\* Nothing a call holds or has been told changes, and no body comes back.
LEMMA StaysSettling ==
    ASSUME TypeOK, TypeOK', SettleInv, UNCHANGED stack, \A t \in Tasks : Quiet(t),
           UNCHANGED <<outstanding, closed>>, stopped => stopped'
    PROVE  SettleInv'
<1> DEFINE none == {}
<1>1. Calling!Moved(stack, stack', none, none)
    BY DEF Calling!Moved, Calling!Of, SettleInv, ToldInv, TypeOK
<1>2. none \in SUBSET Frames /\ Calling!Of(none) = {}
    BY DEF Calling!Of
<1> HIDE DEF none
<1>3. none \subseteq Calling!Of(none)
    BY <1>2 DEF none
<1>4. \A g \in none : FALSE
    BY DEF none
<1>5. \A t \in Tasks \ Calling!Of(none) : Quiet(t)
    OBVIOUS
<1>6. closed' => closed \/ (stopped /\ outstanding = 0)
    OBVIOUS
<1> QED
    BY <1>1, <1>2, <1>3, <1>4, <1>5, <1>6, KeepsSettling

\* A thread goes on with the same tasks, or takes more from the table.
LEMMA GoesOn ==
    ASSUME TypeOK, TypeOK', SettleInv, NEW th \in Threads, stack[th] # <<>>, NEW g \in Frames,
           Goto(th, g), Has(Top(th)) \subseteq Has(g), Has(g) \subseteq InTable \cup Has(Top(th)),
           Has(g) \cap Owned \subseteq Has(Top(th)), Tidy(g), g.at # "closing",
           \A t \in Has(g) :
               Stage(g, t, id'[t], phase'[t], executes'[t], cancels'[t], callbacks'[t]),
           \A t \in Tasks \ Has(g) : Quiet(t),
           UNCHANGED <<outstanding, closed, stopped>>
    PROVE  SettleInv'
<1> DEFINE gone == Has(Top(th))
           frames == {g}
<1>1. Calling!Moved(stack, stack', gone, frames)
    BY Moves
<1>2. frames \in SUBSET Frames /\ Calling!Of(frames) = Has(g)
    BY DEF Calling!Of
<1>3. Has(Top(th)) \subseteq Owned
    BY TopHas
<1>4. gone \subseteq Calling!Of(frames) /\ Calling!Of(frames) \subseteq InTable \cup Owned
    BY <1>2, <1>3
<1>5. \A h \in frames : Tidy(h) /\ (h.at = "closing" => stopped')
    OBVIOUS
<1>6. \A h \in frames : \A t \in Has(h) :
          Stage(h, t, id'[t], phase'[t], executes'[t], cancels'[t], callbacks'[t])
    OBVIOUS
<1>7. \A t \in Tasks \ Calling!Of(frames) : Quiet(t)
    BY <1>2
<1>8. closed' => closed \/ (stopped /\ outstanding = 0)
    OBVIOUS
<1> HIDE DEF gone, frames
<1> QED
    BY <1>1, <1>2, <1>4, <1>5, <1>6, <1>7, <1>8, KeepsSettling

\* A thread enters a call that holds nothing.
LEMMA StepsIn ==
    ASSUME TypeOK, TypeOK', SettleInv, NEW th \in Threads, NEW g \in Frames, Push(th, g),
           Has(g) = {}, g.at # "closing", \A t \in Tasks : Quiet(t),
           UNCHANGED <<outstanding, closed, stopped>>
    PROVE  SettleInv'
<1> DEFINE gone == {}
           frames == {g}
<1>1. Calling!Moved(stack, stack', gone, frames)
    BY Moves
<1>2. frames \in SUBSET Frames /\ Calling!Of(frames) = {}
    BY DEF Calling!Of
<1>4. gone \subseteq Calling!Of(frames) /\ Calling!Of(frames) \subseteq InTable \cup Owned
    BY <1>2
<1>5. \A h \in frames : Tidy(h) /\ (h.at = "closing" => stopped')
    BY DEF Tidy, Has
<1>6. \A h \in frames : \A t \in Has(h) :
          Stage(h, t, id'[t], phase'[t], executes'[t], cancels'[t], callbacks'[t])
    OBVIOUS
<1>7. \A t \in Tasks \ Calling!Of(frames) : Quiet(t)
    OBVIOUS
<1>8. closed' => closed \/ (stopped /\ outstanding = 0)
    OBVIOUS
<1> HIDE DEF gone, frames
<1> QED
    BY <1>1, <1>2, <1>4, <1>5, <1>6, <1>7, <1>8, KeepsSettling

\* A thread returns from a call that holds nothing.
LEMMA StepsOut ==
    ASSUME TypeOK, TypeOK', SettleInv, NEW th \in Threads, stack[th] # <<>>, Return(th),
           Has(Top(th)) = {}, \A t \in Tasks : Quiet(t), UNCHANGED <<outstanding, stopped>>,
           closed' => closed \/ (stopped /\ outstanding = 0)
    PROVE  SettleInv'
<1> DEFINE gone == Has(Top(th))
           frames == {}
<1>1. Calling!Moved(stack, stack', gone, frames)
    BY Moves, TopHas
<1>2. frames \in SUBSET Frames /\ Calling!Of(frames) = {}
    BY DEF Calling!Of
<1>4. gone \subseteq Calling!Of(frames) /\ Calling!Of(frames) \subseteq InTable \cup Owned
    BY <1>2
<1>5. \A h \in frames : FALSE
    OBVIOUS
<1>7. \A t \in Tasks \ Calling!Of(frames) : Quiet(t)
    OBVIOUS
<1> HIDE DEF gone, frames
<1> QED
    BY <1>1, <1>2, <1>4, <1>5, <1>7, KeepsSettling

\* Tasks whose numbers, phases and history stay.
LEMMA StillQuiet ==
    ASSUME NEW t \in Tasks, UNCHANGED <<id, phase, executes, cancels, callbacks>>,
           body'[t] = body[t] \/ body'[t] = "released"
    PROVE  Quiet(t)
    BY DEF Quiet

\* Removal only lets other tasks of the table go.
LEMMA RemoveIsQuiet ==
    ASSUME TypeOK, RegionInv, NEW gone \in SUBSET Tasks, RemoveLocked(gone), UNCHANGED id,
           UNCHANGED told, NEW t \in Tasks \ gone, body'[t] = body[t] \/ body'[t] = "released"
    PROVE  Quiet(t)
<1>1. CASE phase'[t] = phase[t]
    BY <1>1 DEF Quiet, told
<1>2. CASE phase'[t] # phase[t]
  <2>1. phase[t] = "Waiting" /\ phase'[t] = "Scheduled" /\ Gained(t, gone) # {}
    BY <1>2 DEF RemoveLocked
  <2>2. id[t] # 0
    BY <2>1 DEF Gained, First, RegionInv, QueuesMatchKeys, TypeOK, Registered
  <2> QED
    BY <2>1, <2>2 DEF Quiet, told
<1> QED
    BY <1>1, <1>2

\* A cancellation takes what it selects into its hands.
LEMMA CancelSettles ==
    ASSUME TypeOK, TypeOK', RegionInv, SettleInv, NEW th \in Threads,
           NEW selected \in SUBSET Tasks, NEW stop, NEW below,
           CancelLocked(th, selected, stop, below),
           NEW g, g = Settling({t \in selected : Cancellable(t)}, Issued),
           NEW frames \in SUBSET Frames, g \in frames,
           \A h \in frames : h = g \/ (Has(h) = {} /\ (h.at = "closing" => stop)),
           Calling!Put(stack, stack', th, <<g>> \o below)
               => Calling!Moved(stack, stack', {}, frames)
    PROVE  SettleInv'
<1> DEFINE batch == {t \in selected : Cancellable(t)}
           none == {}
<1>1. batch \in SUBSET Tasks /\ batch \subseteq InTable /\ RemoveAsserts(batch)
    BY RemovalPermitted DEF Cancellable, InTable
<1>2. /\ RemoveLocked(batch) /\ Calling!Put(stack, stack', th, <<g>> \o below)
      /\ UNCHANGED <<id, outstanding, closed, bodyVars, told>> /\ stopped' = (stopped \/ stop)
    BY <1>1 DEF CancelLocked, Calling!Put
<1>3. g \in Frames /\ Has(g) = batch /\ Tidy(g) /\ g.at = "settle" /\ g.batch = batch
    BY <1>1, <1>2, RemoveTyped DEF Settling, Frame, Frames, Has, Told, Tidy
<1>4. Calling!Of(frames) = batch
    BY <1>3 DEF Calling!Of
<1>5. ASSUME NEW t \in batch
      PROVE  Stage(g, t, id'[t], phase'[t], executes'[t], cancels'[t], callbacks'[t])
  <2>1. id[t] # 0 /\ phase[t] \in {"Waiting", "Scheduled"} /\ t \in Tasks
    BY <1>1 DEF Cancellable, Registered, TypeOK
  <2>2. executes[t] = 0 /\ cancels[t] = 0 /\ callbacks[t] = 0
    BY <2>1 DEF SettleInv, ToldInv, RestOK, Rest
  <2>3. phase'[t] = "Finished"
    BY <1>2, <2>1 DEF RemoveLocked
  <2> QED
    BY <1>2, <1>3, <2>1, <2>2, <2>3 DEF Stage, Told, told
<1>6. \A t \in Tasks \ batch : Quiet(t)
    BY <1>1, <1>2, RemoveIsQuiet DEF bodyVars
<1>7. frames \in SUBSET Frames /\ \A h \in frames : Tidy(h) /\ (h.at = "closing" => stopped')
    BY <1>2, <1>3 DEF Tidy, Has
<1>8. \A h \in frames : \A t \in Has(h) :
          Stage(h, t, id'[t], phase'[t], executes'[t], cancels'[t], callbacks'[t])
    BY <1>3, <1>5
<1>9. /\ none \subseteq Calling!Of(frames) /\ Calling!Of(frames) \subseteq InTable \cup Owned
      /\ Calling!Moved(stack, stack', none, frames)
    BY <1>1, <1>2, <1>4
<1>10. /\ \A t \in Tasks \ Calling!Of(frames) : Quiet(t)
       /\ stopped => stopped' /\ (closed' => closed \/ (stopped /\ outstanding = 0))
    BY <1>2, <1>4, <1>6
<1>11. UNCHANGED outstanding /\ (stopped => stopped')
       /\ (closed' => closed \/ (stopped /\ outstanding = 0))
    BY <1>2
<1> HIDE DEF none, batch
<1> QED
    BY <1>7, <1>8, <1>9, <1>10, <1>11, KeepsSettling

\* What a cancellation selects is in nobody's hands.
LEMMA CancellableIsFree ==
    ASSUME TypeOK, SettleInv, NEW selected \in SUBSET Tasks, NEW ready,
           NEW g, g = Settling({t \in selected : Cancellable(t)}, ready)
    PROVE  Has(g) \cap Owned = {}
<1>1. Has(g) = {t \in selected : Cancellable(t)}
    BY DEF Settling, Frame, Has, Told
<1>2. \A t \in Owned : ~Cancellable(t)
    BY OwnedStage DEF SettleInv, ToldInv, Cancellable, Registered
<1> QED
    BY <1>1, <1>2

\* The four ways in which a thread comes to cancel: from outside, in shutdown(), and when
\* the pool turns out to be stopped, before and after it is asked.
LEMMA CancelFrom ==
    ASSUME TypeOK, TypeOK', RegionInv, SettleInv, NEW th \in Threads,
           NEW selected \in SUBSET Tasks, NEW stop, NEW h \in Frames, Has(h) = {},
           h.at = "closing" => stop,
           \/ CancelLocked(th, selected, stop, stack[th])
           \/ stack[th] = <<>> /\ CancelLocked(th, selected, stop, <<h>>)
           \/ /\ stack[th] # <<>> /\ Has(Top(th)) = {}
              /\ \/ CancelLocked(th, selected, stop, Tail(stack[th]))
                 \/ CancelLocked(th, selected, stop, <<h>> \o Tail(stack[th]))
    PROVE  SettleInv'
<1> DEFINE batch == {t \in selected : Cancellable(t)}
           g == Settling(batch, Issued)
<1>1. stack \in [Threads -> Seq(Frames)] /\ Calling!AllApart(stack)
    BY DEF TypeOK, SettleInv, ToldInv
<1>2. /\ g \in Frames /\ Has(g) \cap Owned = {} /\ Has(g) \cap Calling!AllHeld(stack) = {}
      /\ Has(g) \cap Has(h) = {} /\ Has(h) \cap Calling!AllHeld(stack) = {}
  <2>1. batch \in SUBSET Tasks /\ RemoveAsserts(batch)
    BY RemovalPermitted DEF Cancellable
  <2>2. RemoveLocked(batch)
    BY <2>1 DEF CancelLocked
  <2>3. Issued \in SUBSET Permits
    BY <2>1, <2>2, RemoveTyped
  <2>4. g \in Frames
    BY <2>1, <2>3 DEF Settling, Frame, Frames
  <2> QED
    BY <2>4, CancellableIsFree DEF Owned
<1>3. g = Settling({t \in selected : Cancellable(t)}, Issued)
    OBVIOUS
<1> HIDE DEF g, batch
<1> DEFINE one == {g}
           two == {g, h}
<1>4. /\ one \in SUBSET Frames /\ g \in one
      /\ \A f \in one : f = g \/ (Has(f) = {} /\ (f.at = "closing" => stop))
    BY <1>2
<1>5. /\ two \in SUBSET Frames /\ g \in two
      /\ \A f \in two : f = g \/ (Has(f) = {} /\ (f.at = "closing" => stop))
    BY <1>2
<1>6. CASE CancelLocked(th, selected, stop, stack[th])
  <2>1. Calling!Put(stack, stack', th, <<g>> \o stack[th]) => Calling!Moved(stack, stack', {}, one)
    BY <1>1, <1>2, Calling!Entered DEF Calling!Put
  <2> HIDE DEF one
  <2> QED
    BY <1>3, <1>4, <1>6, <2>1, CancelSettles
<1>7. CASE stack[th] = <<>> /\ CancelLocked(th, selected, stop, <<h>>)
  <2>1. <<g>> \o <<h>> = <<g, h>> \o stack[th]
    <3>1. \A s \in Seq(Frames) : <<g>> \o (<<h>> \o s) = <<g, h>> \o s
      BY <1>2
    <3>2. <<>> \in Seq(Frames) /\ <<h>> \o <<>> = <<h>>
      OBVIOUS
    <3> QED
      BY <3>1, <3>2, <1>7
  <2>2. Calling!Put(stack, stack', th, <<g>> \o <<h>>) => Calling!Moved(stack, stack', {}, two)
    BY <1>1, <1>2, <2>1, Calling!EnteredTwo DEF Calling!Put
  <2> HIDE DEF two
  <2> QED
    BY <1>3, <1>5, <1>7, <2>2, CancelSettles
<1>8. CASE /\ stack[th] # <<>> /\ Has(Top(th)) = {}
           /\ CancelLocked(th, selected, stop, Tail(stack[th]))
  <2>1. /\ Has(Head(stack[th])) = {}
        /\ Has(g) \cap Calling!AllHeld(stack) \subseteq Has(Head(stack[th]))
    BY <1>2, <1>8 DEF Top
  <2>2. Calling!Put(stack, stack', th, <<g>> \o Tail(stack[th]))
          => Calling!Moved(stack, stack', Has(Head(stack[th])), one)
    BY <1>1, <1>2, <1>8, <2>1, Calling!WentOn DEF Calling!Put
  <2>3. Calling!Put(stack, stack', th, <<g>> \o Tail(stack[th]))
          => Calling!Moved(stack, stack', {}, one)
    BY <2>1, <2>2
  <2> DEFINE rest == Tail(stack[th])
  <2>4. /\ CancelLocked(th, selected, stop, rest)
        /\ Calling!Put(stack, stack', th, <<g>> \o rest) => Calling!Moved(stack, stack', {}, one)
    BY <1>8, <2>3
  <2> HIDE DEF one, rest
  <2> QED
    BY <1>3, <1>4, <2>4, CancelSettles
<1>9. CASE /\ stack[th] # <<>> /\ Has(Top(th)) = {}
           /\ CancelLocked(th, selected, stop, <<h>> \o Tail(stack[th]))
  <2>1. <<g>> \o (<<h>> \o Tail(stack[th])) = <<g, h>> \o Tail(stack[th])
    <3>1. \A s \in Seq(Frames) : <<g>> \o (<<h>> \o s) = <<g, h>> \o s
      BY <1>2
    <3>2. Tail(stack[th]) \in Seq(Frames)
      BY <1>9, TopFrame
    <3> QED
      BY <3>1, <3>2
  <2>2. /\ Has(Head(stack[th])) = {}
        /\ Has(g) \cap Calling!AllHeld(stack) \subseteq Has(Head(stack[th]))
        /\ Has(h) \cap Calling!AllHeld(stack) \subseteq Has(Head(stack[th]))
    BY <1>2, <1>9 DEF Top
  <2>3. Calling!Put(stack, stack', th, <<g, h>> \o Tail(stack[th]))
          => Calling!Moved(stack, stack', Has(Head(stack[th])), two)
    BY <1>1, <1>2, <1>9, <2>2, Calling!WentOnTwo DEF Calling!Put
  <2>4. Calling!Put(stack, stack', th, <<g>> \o (<<h>> \o Tail(stack[th])))
          => Calling!Moved(stack, stack', {}, two)
    BY <2>1, <2>2, <2>3
  <2> DEFINE rest == <<h>> \o Tail(stack[th])
  <2>5. /\ CancelLocked(th, selected, stop, rest)
        /\ Calling!Put(stack, stack', th, <<g>> \o rest) => Calling!Moved(stack, stack', {}, two)
    BY <1>9, <2>4
  <2> HIDE DEF two, rest
  <2> QED
    BY <1>3, <1>5, <2>5, CancelSettles
<1> QED
    BY <1>6, <1>7, <1>8, <1>9

\* The tasks of the calls the actions build.
LEMMA HasOf ==
    ASSUME NEW d \in Permits, NEW t \in Tasks, NEW batch \in SUBSET Tasks,
           NEW ready \in SUBSET Permits
    PROVE  /\ Has(Dispatching(ready)) = {} /\ Dispatching(ready).at = "dispatch"
           /\ Has(Settling(batch, ready)) = batch /\ Settling(batch, ready).at = "settle"
           /\ \A at \in {"revoke", "checked", "submit", "execute", "onCancel"} :
                 Has(ForPermit(at, d, ready)) = {} /\ ForPermit(at, d, ready).at = at
           /\ \A at \in {"body", "cancelled", "callback"} :
                 /\ Has(ForPermit(at, d, ready)) = {d[1]} /\ ForPermit(at, d, ready).at = at
                 /\ ForPermit(at, d, ready).batch = {} /\ ForPermit(at, d, ready).task = d[1]
           /\ Has(Frame("settled", t, 0, batch, ready)) = batch \cup {t}
           /\ \A at \in {"closing", "stopping", "draining"} : Has(Frame(at, None, 0, {}, {})) = {}
    BY DEF Dispatching, Settling, ForPermit, Frame, Has, Told

\* One call of a task is counted, and none of the others.
LEMMA CountAt ==
    ASSUME NEW calls \in [Tasks -> Nat], NEW t \in Tasks
    PROVE  /\ Count(calls, t)[t] = calls[t] + 1
           /\ \A u \in Tasks \ {t} : Count(calls, t)[u] = calls[u]
    BY DEF Count

\* A crash moves nothing.
LEMMA CrashSettles ==
    ASSUME TypeOK, TypeOK', SettleInv, NEW how, Crash(how)
    PROVE  SettleInv'
<1>1. UNCHANGED <<stack, id, phase, executes, cancels, callbacks, body, outstanding, closed, stopped>>
    BY DEF Crash, lockVars, taskVars, bodyVars, told
<1>2. \A t \in Tasks : Quiet(t)
    BY <1>1, StillQuiet
<1> QED
    BY <1>1, <1>2, StaysSettling

\* _cancelPending, one task after the other.
LEMMA SettleCancelBodySettles ==
    ASSUME TypeOK, TypeOK', SettleInv, NEW th \in Threads, SettleCancelBody(th)
    PROVE  SettleInv'
<1> DEFINE f == Top(th)
<1>1. stack[th] # <<>> /\ f.at = "settle"
    BY DEF SettleCancelBody, At, Top
<1>2. PICK t \in f.batch :
        IF body[t] = "released" THEN Crash("body") ELSE
        /\ cancels' = Count(cancels, t) /\ callbacks' = Count(callbacks, t)
        /\ Goto(th, Frame("settled", t, 0, f.batch \ {t}, f.ready))
        /\ UNCHANGED <<lockVars, bodyVars, restVars, executes>>
    BY DEF SettleCancelBody
<1>3. CASE body[t] = "released"
    BY <1>2, <1>3, CrashSettles
<1>4. CASE body[t] # "released"
  <2> DEFINE g == Frame("settled", t, 0, f.batch \ {t}, f.ready)
  <2>1. /\ f.batch \in SUBSET Tasks /\ f.ready \in SUBSET Permits /\ t \in Tasks
        /\ Has(f) = f.batch /\ f.batch \subseteq Owned
        /\ \A u \in f.batch : Stage(f, u, id[u], phase[u], executes[u], cancels[u], callbacks[u])
    BY <1>1, <1>2, TopFrame, TopHas
  <2>2. g \in Frames /\ g.at = "settled" /\ g.batch = f.batch \ {t} /\ g.task = t
    BY <2>1 DEF Frame, Frames
  <2>3. Has(g) = f.batch /\ Tidy(g)
    BY <2>1, <2>2, <1>2 DEF Has, Told, Tidy
  <2>4. /\ Goto(th, g) /\ cancels' = Count(cancels, t) /\ callbacks' = Count(callbacks, t)
        /\ UNCHANGED <<id, phase, executes, body, outstanding, closed, stopped>>
    BY <1>2, <1>4 DEF lockVars, taskVars, bodyVars, restVars
  <2>5. /\ cancels'[t] = cancels[t] + 1 /\ callbacks'[t] = callbacks[t] + 1
        /\ \A u \in Tasks \ {t} : cancels'[u] = cancels[u] /\ callbacks'[u] = callbacks[u]
    <3>1. cancels \in [Tasks -> Nat] /\ callbacks \in [Tasks -> Nat]
      BY DEF TypeOK
    <3> HIDE DEF g
    <3> QED
      BY <3>1, <2>4, <2>1, CountAt
  <2>6. ASSUME NEW u \in Has(g)
        PROVE  Stage(g, u, id'[u], phase'[u], executes'[u], cancels'[u], callbacks'[u])
    <3>1. u \in f.batch /\ u \in Tasks /\ cancels[t] \in Nat /\ callbacks[t] \in Nat
      BY <2>1, <2>3 DEF TypeOK
    <3>2. /\ id[u] # 0 /\ phase[u] = "Finished" /\ executes[u] = 0 /\ cancels[u] = 0
          /\ callbacks[u] = 0
      BY <1>1, <2>1, <3>1 DEF Stage, Told
    <3> HIDE DEF g
    <3>3. CASE u = t
      BY <2>2, <2>4, <2>5, <3>1, <3>2, <3>3 DEF Stage, Told
    <3>4. CASE u # t
      BY <2>2, <2>4, <2>5, <3>1, <3>2, <3>4 DEF Stage, Told
    <3> QED
      BY <3>3, <3>4
  <2>7. ASSUME NEW u \in Tasks \ Has(g)
        PROVE  Quiet(u)
    BY <1>2, <2>3, <2>4, <2>5 DEF Quiet
  <2> HIDE DEF g
  <2> QED
    BY <1>1, <2>1, <2>2, <2>3, <2>4, <2>6, <2>7, GoesOn
<1> QED
    BY <1>3, <1>4

LEMMA SettledSettles ==
    ASSUME TypeOK, TypeOK', SettleInv, NEW th \in Threads, Settled(th)
    PROVE  SettleInv'
<1> DEFINE f == Top(th)
           t == f.task
           g == Settling(f.batch, f.ready)
           frames == {g}
<1>1. stack[th] # <<>> /\ f.at = "settled"
    BY DEF Settled, At, Top
<1>2. CASE Crash("assert")
    BY <1>2, CrashSettles
<1>3. CASE /\ outstanding # 0 /\ body' = [body EXCEPT ![t] = "released"]
           /\ outstanding' = outstanding - 1 /\ Goto(th, g)
           /\ UNCHANGED <<stopped, nextId, taskVars, positions, running, pendingBodies, restVars,
                          told>>
  <2>1. /\ f.batch \in SUBSET Tasks /\ f.ready \in SUBSET Permits /\ t \in Tasks
        /\ t \notin f.batch /\ Has(f) = f.batch \cup {t} /\ Has(f) \subseteq Owned
        /\ \A u \in Has(f) : Stage(f, u, id[u], phase[u], executes[u], cancels[u], callbacks[u])
    BY <1>1, TopFrame, TopHas DEF Told
  <2>2. g \in Frames /\ g.at = "settle" /\ Has(g) = f.batch
    BY <2>1 DEF Settling, Frame, Frames, Has, Told
  <2>3. /\ UNCHANGED <<id, phase, executes, cancels, callbacks, closed, stopped>>
        /\ body'[t] = "released" /\ \A u \in Tasks : body'[u] = body[u] \/ body'[u] = "released"
    BY <1>3, <2>1 DEF TypeOK, taskVars, restVars, told
  <2>4. frames \in SUBSET Frames /\ Calling!Of(frames) = f.batch
    BY <2>2 DEF Calling!Of
  <2>5. t \in Owned /\ t \notin Calling!Of(frames) /\ Calling!Of(frames) \subseteq Owned
    BY <2>1, <2>4
  <2>6. Calling!Moved(stack, stack', Has(f), frames)
    BY <1>1, <1>3, <2>1, <2>2, Moves
  <2>7. Calling!Moved(stack, stack', Calling!Of(frames) \cup {t}, frames)
    BY <2>1, <2>4, <2>6
  <2>8. \A h \in frames : Tidy(h) /\ h.at # "closing"
    BY <2>2 DEF Tidy
  <2>9. \A h \in frames : \A u \in Has(h) :
            Stage(h, u, id'[u], phase'[u], executes'[u], cancels'[u], callbacks'[u])
    BY <1>1, <2>1, <2>2, <2>3 DEF Stage, Told
  <2>10. \A u \in Tasks \ (Calling!Of(frames) \cup {t}) : Quiet(u)
    BY <2>3, StillQuiet
  <2>11. /\ Stage(f, t, id[t], phase[t], executes[t], cancels[t], callbacks[t])
         /\ executes[t] \in Nat /\ cancels[t] \in Nat
    BY <2>1 DEF TypeOK
  <2>12. /\ Rest(id'[t], phase'[t], executes'[t], cancels'[t], callbacks'[t], body'[t], FALSE)
         /\ phase'[t] = "Finished"
    BY <1>1, <2>1, <2>3, <2>11 DEF Stage, Rest, Told
  <2>13. outstanding # 0 /\ outstanding' = outstanding - 1 /\ UNCHANGED <<closed, stopped>>
    BY <1>3, <2>3
  <2> HIDE DEF t, g, frames
  <2> QED
    BY <2>4, <2>5, <2>7, <2>8, <2>9, <2>10, <2>12, <2>13, OneLeaves
<1> QED
    BY <1>2, <1>3 DEF Settled

\* A permit is claimed: its task goes from the table into the worker's hands.
LEMMA ClaimSettles ==
    ASSUME TypeOK, TypeOK', RegionInv, SettleInv, NEW th \in Threads, stack[th] # <<>>,
           Top(th).at \in {"execute", "onCancel"}, NEW place \in {"body", "cancelled"},
           Claim(th, place),
           crashed' # "no" => UNCHANGED <<executes, cancels>>,
           crashed' = "no" =>
             \/ executes' = Count(executes, Top(th).task) /\ UNCHANGED cancels
             \/ cancels' = Count(cancels, Top(th).task) /\ UNCHANGED executes,
           UNCHANGED callbacks, crashed = "no"
    PROVE  SettleInv'
<1> DEFINE f == Top(th)
           t == f.task
           g == ForPermit(place, Permit(f), {})
<1>1. /\ t \in Tasks /\ Permit(f) \in Permits /\ Permit(f)[1] = t /\ Has(f) = {}
    BY TopFrame, TopHas DEF Permit, Permits, Told
<1>2. phase[t] = "Scheduled" /\ ClaimAsserts(t)
    BY <1>1, PermitClaims DEF Claim, Valid
<1>3. CASE Crash("body")
    BY <1>3, CrashSettles
<1>4. CASE /\ phase' = [phase EXCEPT ![t] = "Running"]
           /\ Goto(th, g)
           /\ UNCHANGED <<stopped, nextId, outstanding, id, keys, waiting, generation, positions,
                          body, restVars>>
  <2>1. id[t] # 0 /\ t \in InTable /\ t \notin Owned
    BY <1>1, <1>2, OwnedStage DEF RegionInv, IdsUnique, InTable, Registered, SettleInv, ToldInv
  <2>2. executes[t] = 0 /\ cancels[t] = 0 /\ callbacks[t] = 0
    BY <1>1, <1>2, <2>1 DEF SettleInv, ToldInv, RestOK, Rest
  <2>3. /\ g \in Frames /\ Has(g) = {t} /\ g.at = place /\ g.batch = {} /\ g.task = t
        /\ Tidy(g)
    BY <1>1 DEF ForPermit, Frame, Frames, Has, Told, Tidy, Permits
  <2>4. /\ UNCHANGED <<id, callbacks, body, outstanding, closed, stopped>>
        /\ phase'[t] = "Running" /\ \A u \in Tasks \ {t} : phase'[u] = phase[u]
    BY <1>1, <1>4 DEF restVars, TypeOK
  <2>5. /\ executes'[t] + cancels'[t] = 1
        /\ \A u \in Tasks \ {t} : executes'[u] = executes[u] /\ cancels'[u] = cancels[u]
    <3>1. executes \in [Tasks -> Nat] /\ cancels \in [Tasks -> Nat]
      BY DEF TypeOK
    <3>2. \/ executes' = Count(executes, t) /\ UNCHANGED cancels
          \/ cancels' = Count(cancels, t) /\ UNCHANGED executes
      BY <1>4 DEF restVars
    <3> HIDE DEF t
    <3>3. CASE executes' = Count(executes, t) /\ UNCHANGED cancels
      BY <1>1, <2>2, <3>1, <3>3 DEF Count
    <3>4. CASE cancels' = Count(cancels, t) /\ UNCHANGED executes
      BY <1>1, <2>2, <3>1, <3>4 DEF Count
    <3> QED
      BY <3>2, <3>3, <3>4
  <2>6. ASSUME NEW u \in Has(g)
        PROVE  Stage(g, u, id'[u], phase'[u], executes'[u], cancels'[u], callbacks'[u])
    BY <2>1, <2>2, <2>3, <2>4, <2>5 DEF Stage, Told
  <2>7. ASSUME NEW u \in Tasks \ Has(g)
        PROVE  Quiet(u)
    BY <2>3, <2>4, <2>5 DEF Quiet
  <2>8. /\ Has(Top(th)) \subseteq Has(g) /\ Has(g) \subseteq InTable \cup Has(Top(th))
        /\ Has(g) \cap Owned \subseteq Has(Top(th)) /\ g.at # "closing"
    BY <1>1, <2>1, <2>3
  <2> HIDE DEF g, t, f
  <2> QED
    BY <1>4, <2>3, <2>4, <2>6, <2>7, <2>8, GoesOn
<1> QED
    BY <1>2, <1>3, <1>4 DEF Claim

\* A body returns or throws: its task stays with the thread, which calls back.
LEMMA BodyEndsSettles ==
    ASSUME TypeOK, TypeOK', SettleInv, NEW th \in Threads, BodyReturns(th) \/ BodyThrows(th)
    PROVE  SettleInv'
<1> DEFINE f == Top(th)
           t == f.task
           g == ForPermit("callback", Permit(f), {})
<1>1. stack[th] # <<>> /\ f.at \in {"body", "cancelled"} /\ Goto(th, g)
    BY DEF BodyReturns, BodyThrows, At, Top
<1>2. /\ t \in Tasks /\ f.gen \in Nat /\ f.batch = {} /\ Has(f) = {t} /\ Has(f) \subseteq Owned
      /\ Stage(f, t, id[t], phase[t], executes[t], cancels[t], callbacks[t])
    BY <1>1, TopFrame, TopHas DEF Told
<1>3. /\ g \in Frames /\ Has(g) = {t} /\ g.at = "callback" /\ g.batch = {} /\ g.task = t
      /\ Tidy(g)
    BY <1>2 DEF ForPermit, Permit, Frame, Frames, Has, Told, Tidy
<1>4. /\ UNCHANGED <<id, phase, executes, cancels, outstanding, closed, stopped>>
      /\ callbacks' = Count(callbacks, t)
      /\ \A u \in Tasks : body'[u] = body[u] \/ body'[u] = "released"
    BY <1>2 DEF BodyReturns, BodyThrows, ReleaseBody, lockVars, taskVars, bodyVars, restVars, TypeOK
<1> HIDE DEF g
<1>5. /\ callbacks'[t] = callbacks[t] + 1
      /\ \A u \in Tasks \ {t} : callbacks'[u] = callbacks[u]
  <2>1. callbacks \in [Tasks -> Nat]
    BY DEF TypeOK
  <2> QED
    BY <2>1, <1>2, <1>4, CountAt
<1>6. ASSUME NEW u \in Has(g)
      PROVE  Stage(g, u, id'[u], phase'[u], executes'[u], cancels'[u], callbacks'[u])
    BY <1>1, <1>2, <1>3, <1>4, <1>5 DEF Stage, Told
<1>7. ASSUME NEW u \in Tasks \ Has(g)
      PROVE  Quiet(u)
    BY <1>3, <1>4, <1>5 DEF Quiet
<1>8. /\ Has(Top(th)) \subseteq Has(g) /\ Has(g) \subseteq InTable \cup Has(Top(th))
      /\ Has(g) \cap Owned \subseteq Has(Top(th)) /\ g.at # "closing"
    BY <1>2, <1>3
<1> QED
    BY <1>1, <1>3, <1>4, <1>6, <1>7, <1>8, GoesOn

\* _finish: the task leaves the table, called back and without a body.
LEMMA FinishSettles ==
    ASSUME TypeOK, TypeOK', RegionInv, SettleInv, NEW th \in Threads, Finish(th)
    PROVE  SettleInv'
<1> DEFINE f == Top(th)
           t == f.task
           g == Dispatching(Issued)
           frames == {g}
<1>1. stack[th] # <<>> /\ f.at = "callback"
    BY DEF Finish, At, Top
<1>2. CASE Crash("assert")
    BY <1>2, CrashSettles
<1>3. CASE /\ outstanding # 0 /\ body[t] = "released" /\ RemoveAsserts({t}) /\ RemoveLocked({t})
           /\ outstanding' = outstanding - 1 /\ Goto(th, g)
           /\ UNCHANGED <<stopped, nextId, id, keys, bodyVars, restVars, told>>
  <2>1. /\ t \in Tasks /\ f.batch = {} /\ Has(f) = {t} /\ Has(f) \subseteq Owned
        /\ Stage(f, t, id[t], phase[t], executes[t], cancels[t], callbacks[t])
    BY <1>1, TopFrame, TopHas DEF Told
  <2>2. {t} \in SUBSET Tasks
    BY <2>1
  <2>3. Issued \in SUBSET Permits
    BY <1>3, <2>2, RemoveTyped
  <2>4. g \in Frames /\ g.at = "dispatch" /\ Has(g) = {}
    BY <2>3 DEF Dispatching, Frame, Frames, Has, Told
  <2>5. frames \in SUBSET Frames /\ Calling!Of(frames) = {}
    BY <2>4 DEF Calling!Of
  <2>6. t \in Owned /\ t \notin Calling!Of(frames) /\ Calling!Of(frames) \subseteq Owned
    BY <2>1, <2>5
  <2>7. Calling!Moved(stack, stack', Has(f), frames)
    BY <1>1, <1>3, <2>4, Moves
  <2>8. Calling!Moved(stack, stack', Calling!Of(frames) \cup {t}, frames)
    BY <2>1, <2>5, <2>7
  <2>9. \A h \in frames : Tidy(h) /\ h.at # "closing"
    BY <2>4 DEF Tidy, Has
  <2>10. \A h \in frames : \A u \in Has(h) :
            Stage(h, u, id'[u], phase'[u], executes'[u], cancels'[u], callbacks'[u])
    BY <2>4
  <2>11. \A u \in Tasks \ {t} : Quiet(u)
    BY <1>3, <2>2, RemoveIsQuiet DEF bodyVars
  <2>12. \A u \in Tasks \ (Calling!Of(frames) \cup {t}) : Quiet(u)
    BY <2>11
  <2>13. phase'[t] = "Finished" /\ UNCHANGED <<id, executes, cancels, callbacks, body>>
    BY <1>3, <2>1 DEF RemoveLocked, told, bodyVars
  <2>14. Rest(id'[t], phase'[t], executes'[t], cancels'[t], callbacks'[t], body'[t], FALSE)
    BY <1>1, <1>3, <2>1, <2>13 DEF Stage, Rest, Told
  <2>15. outstanding # 0 /\ outstanding' = outstanding - 1 /\ UNCHANGED <<closed, stopped>>
    BY <1>3 DEF restVars
  <2> HIDE DEF t, g, frames
  <2> QED
    BY <2>5, <2>6, <2>8, <2>9, <2>10, <2>12, <2>13, <2>14, <2>15, OneLeaves
<1> QED
    BY <1>2, <1>3 DEF Finish

\* The moves of a thread that holds nothing: the dispatch of permits, and the pool's.
LEMMA DispatchSettles ==
    ASSUME TypeOK, TypeOK', SettleInv, NEW th \in Threads, stack[th] # <<>>,
           \/ Return(th)
           \/ \E g \in Frames : Goto(th, g) /\ Has(g) = {} /\ g.at # "closing",
           Has(Top(th)) = {}, UNCHANGED <<id, phase, executes, cancels, callbacks>>,
           \A t \in Tasks : body'[t] = body[t] \/ body'[t] = "released",
           UNCHANGED <<outstanding, closed, stopped>>
    PROVE  SettleInv'
<1>1. \A t \in Tasks : Quiet(t)
    BY StillQuiet
<1>2. CASE Return(th)
    BY <1>1, <1>2, StepsOut
<1>3. ASSUME NEW g \in Frames, Goto(th, g), Has(g) = {}, g.at # "closing"
      PROVE  SettleInv'
  <2>1. /\ Has(Top(th)) \subseteq Has(g) /\ Has(g) \subseteq InTable \cup Has(Top(th))
        /\ Has(g) \cap Owned \subseteq Has(Top(th))
    BY <1>3
  <2>2. Tidy(g)
    BY <1>3 DEF Tidy, Has
  <2>3. \A t \in Has(g) :
            Stage(g, t, id'[t], phase'[t], executes'[t], cancels'[t], callbacks'[t])
    BY <1>3
  <2> QED
    BY <1>1, <1>3, <2>1, <2>2, <2>3, GoesOn
<1> QED
    BY <1>2, <1>3

\* Every step of a thread inside a call keeps the account of who tells which task what.
LEMMA ProceedSettles ==
    ASSUME TypeOK, TypeOK', RegionInv, SettleInv, crashed = "no", NEW th \in Threads, Proceed(th)
    PROVE  SettleInv'
<1> DEFINE still ==
        /\ UNCHANGED <<id, phase, executes, cancels, callbacks, outstanding, closed, stopped>>
        /\ \A t \in Tasks : body'[t] = body[t] \/ body'[t] = "released"
<1> USE DEF lockVars, taskVars, bodyVars, restVars, poolVars, told
<1>1. CASE SettleCancelBody(th) \/ Settled(th)
    BY <1>1, SettleCancelBodySettles, SettledSettles
<1>2. CASE BodyReturns(th) \/ BodyThrows(th) \/ Finish(th)
    BY <1>2, BodyEndsSettles, FinishSettles
<1>3. CASE SettleDone(th)
  <2>1. stack[th] # <<>> /\ Top(th).at = "settle" /\ Top(th).batch = {} /\ still
    BY <1>3 DEF SettleDone, At, Top, OnlyStack
  <2>2. Has(Top(th)) = {} /\ Top(th).ready \in SUBSET Permits
    BY <2>1, TopHas, TopFrame
  <2>3. Dispatching(Top(th).ready) \in Frames /\ Has(Dispatching(Top(th).ready)) = {}
        /\ Dispatching(Top(th).ready).at # "closing"
    BY <2>2 DEF Dispatching, Frame, Frames, Has, Told
  <2>4. Goto(th, Dispatching(Top(th).ready))
    BY <1>3 DEF SettleDone
  <2> QED
    BY <2>1, <2>2, <2>3, <2>4, DispatchSettles
<1>4. CASE DispatchCheck(th)
  <2>1. stack[th] # <<>> /\ Top(th).at = "dispatch" /\ still
    BY <1>4 DEF DispatchCheck, At, Top, OnlyStack
  <2>2. Has(Top(th)) = {} /\ Top(th).ready \in SUBSET Permits
    BY <2>1, TopHas, TopFrame DEF Told
  <2>3. PICK d \in Top(th).ready, at \in {"checked", "revoke"} :
           Goto(th, ForPermit(at, d, Top(th).ready \ {d}))
    BY <1>4 DEF DispatchCheck
  <2> DEFINE g == ForPermit(at, d, Top(th).ready \ {d})
  <2>4. g \in Frames /\ Has(g) = {} /\ g.at # "closing" /\ Goto(th, g)
    BY <2>2, <2>3 DEF ForPermit, Frame, Frames, Permits, Has, Told
  <2> HIDE DEF g
  <2> QED
    BY <2>1, <2>2, <2>4, DispatchSettles
<1>5. CASE PoolCheck(th) \/ HandOverRefused(th)
  <2>1. stack[th] # <<>> /\ Top(th).at \in {"checked", "submit"}
    BY <1>5 DEF PoolCheck, HandOverRefused, At, Top
  <2>2. Has(Top(th)) = {} /\ Top(th).ready \in SUBSET Permits /\ Permit(Top(th)) \in Permits
    BY <2>1, TopHas, TopFrame DEF Told, Permit, Permits
  <2> DEFINE g == ForPermit("submit", Permit(Top(th)), Top(th).ready)
             h == Dispatching(Top(th).ready)
             tail == Tail(stack[th])
             more == <<h>> \o Tail(stack[th])
  <2>3. g \in Frames /\ Has(g) = {} /\ g.at # "closing"
    BY <2>2 DEF ForPermit, Frame, Frames, Permits, Has, Told
  <2>4. h \in Frames /\ Has(h) = {} /\ h.at # "closing"
    BY <2>2 DEF Dispatching, Frame, Frames, Has, Told
  <2>5. \/ Goto(th, g) /\ still
        \/ CancelLocked(th, Tasks, TRUE, tail)
        \/ CancelLocked(th, Tasks, TRUE, more)
    BY <1>5 DEF PoolCheck, HandOverRefused, OnlyStack
  <2>6. CASE Goto(th, g) /\ still
    <3> HIDE DEF g
    <3> QED
      BY <2>1, <2>2, <2>3, <2>6, DispatchSettles
  <2>7. CASE CancelLocked(th, Tasks, TRUE, tail) \/ CancelLocked(th, Tasks, TRUE, more)
    <3> HIDE DEF h
    <3> QED
      BY <2>1, <2>2, <2>4, <2>7, CancelFrom
  <2> QED
    BY <2>5, <2>6, <2>7
<1>6. CASE DispatchDone(th) \/ Joined(th)
  <2>1. stack[th] # <<>> /\ Top(th).at \in {"dispatch", "draining"} /\ still /\ Return(th)
    BY <1>6 DEF DispatchDone, Joined, At, Top, OnlyStack
  <2> QED
    BY <2>1, TopHas, DispatchSettles DEF Told
<1>7. CASE Revoke(th) \/ HandOver(th)
  <2>1. stack[th] # <<>> /\ Top(th).at \in {"revoke", "submit"}
    BY <1>7 DEF Revoke, HandOver, At, Top
  <2>2. Has(Top(th)) = {} /\ Top(th).ready \in SUBSET Permits /\ Top(th).task \in Tasks
    BY <2>1, TopHas, TopFrame DEF Told
  <2> DEFINE g == Dispatching(Top(th).ready)
  <2>3. g \in Frames /\ Has(g) = {} /\ g.at # "closing"
    BY <2>2 DEF Dispatching, Frame, Frames, Has, Told
  <2>4. Goto(th, g) /\ still
    BY <1>7, <2>2 DEF Revoke, HandOver, TypeOK
  <2> HIDE DEF g
  <2> QED
    BY <2>1, <2>2, <2>3, <2>4, DispatchSettles
<1>8. CASE Take(th) \/ Drain(th)
  <2>1. PICK d \in queue, at \in {"execute", "onCancel"} : Push(th, ForPermit(at, d, {}))
    BY <1>8 DEF Take, Drain
  <2> DEFINE g == ForPermit(at, d, {})
  <2>2. g \in Frames /\ Has(g) = {} /\ g.at # "closing" /\ Push(th, g)
    BY <2>1 DEF ForPermit, Frame, Frames, Permits, Has, Told, TypeOK
  <2>3. still
    BY <1>8 DEF Take, Drain
  <2>4. \A t \in Tasks : Quiet(t)
    BY <2>3, StillQuiet
  <2> HIDE DEF g
  <2> QED
    BY <2>2, <2>3, <2>4, StepsIn
<1>9. CASE Execute(th)
  <2>1. stack[th] # <<>> /\ Top(th).at = "execute" /\ Claim(th, "body")
    BY <1>9 DEF Execute, At, Top
  <2> QED
    BY <2>1, <1>9, ClaimSettles DEF Execute
<1>10. CASE OnCancel(th)
  <2>1. stack[th] # <<>> /\ Top(th).at = "onCancel" /\ Claim(th, "cancelled")
    BY <1>10 DEF OnCancel, At, Top
  <2> QED
    BY <2>1, <1>10, ClaimSettles DEF OnCancel
<1>11. CASE ClaimFails(th)
  <2>1. stack[th] # <<>> /\ Top(th).at \in {"execute", "onCancel"}
    BY <1>11 DEF ClaimFails, At, Top
  <2>2. Has(Top(th)) = {} /\ Permit(Top(th)) \in Permits
    BY <2>1, TopHas, TopFrame DEF Told, Permit, Permits
  <2> DEFINE g == ForPermit("onCancel", Permit(Top(th)), {})
  <2>3. g \in Frames /\ Has(g) = {} /\ g.at # "closing"
    BY <2>2 DEF ForPermit, Frame, Frames, Permits, Has, Told
  <2>4. (Return(th) \/ Goto(th, g)) /\ still
    BY <1>11 DEF ClaimFails, OnlyStack
  <2> HIDE DEF g
  <2> QED
    BY <2>1, <2>2, <2>3, <2>4, DispatchSettles
<1>12. CASE StopWorkers(th)
  <2>1. stack[th] # <<>> /\ Top(th).at = "stopping" /\ still
    BY <1>12 DEF StopWorkers, At, Top, OnlyStack
  <2> DEFINE g == Frame("draining", None, 0, {}, {})
  <2>2. g \in Frames /\ Has(g) = {} /\ g.at # "closing" /\ Goto(th, g)
    BY <1>12 DEF StopWorkers, Frame, Frames, Has, Told
  <2>3. Has(Top(th)) = {}
    BY <2>1, TopHas DEF Told
  <2> HIDE DEF g
  <2> QED
    BY <2>1, <2>2, <2>3, DispatchSettles
<1>13. CASE Closed(th)
  <2>1. /\ stack[th] # <<>> /\ Top(th).at = "closing" /\ Return(th)
        /\ outstanding = 0 /\ UNCHANGED <<id, phase, executes, cancels, callbacks>>
        /\ UNCHANGED <<outstanding, stopped>>
        /\ \A t \in Tasks : body'[t] = body[t] \/ body'[t] = "released"
    BY <1>13 DEF Closed, At, Top
  <2>2. Has(Top(th)) = {} /\ Top(th) \in Within
    BY <2>1, TopHas DEF Told
  <2>3. stopped
    BY <2>1, <2>2 DEF SettleInv, ClosedOK
  <2>4. \A t \in Tasks : Quiet(t)
    BY <2>1, StillQuiet
  <2> QED
    BY <2>1, <2>2, <2>3, <2>4, StepsOut
<1> QED
    BY <1>1, <1>2, <1>3, <1>4, <1>5, <1>6, <1>7, <1>8, <1>9, <1>10, <1>11, <1>12, <1>13
       DEF Proceed

\* A task is accepted: it is counted and in the table, and nobody has told it anything.
LEMMA SubmitSettles ==
    ASSUME TypeOK, TypeOK', RegionInv, SettleInv, NEW th \in Threads, NEW t \in Tasks, Submit(th, t)
    PROVE  SettleInv'
<1> DEFINE own == IF abort[t] THEN {} ELSE Region[t]
           g == Dispatching(Issued)
           frames == {g}
           gone == {}
           extra == {t}
<1>1. /\ ~stopped /\ body[t] = "unborn" /\ AddLocked(t, own) /\ own \in SUBSET Keys
      /\ Push(th, g) /\ id' = [id EXCEPT ![t] = nextId] /\ outstanding' = outstanding + 1
      /\ body' = [body EXCEPT ![t] = "held"]
      /\ UNCHANGED <<stopped, closed, executes, cancels, callbacks>>
    BY SchedulerAssumption DEF Submit, restVars, told
<1>2. id[t] = 0 /\ phase[t] = "Waiting" /\ nextId \in Nat /\ nextId # 0
    BY <1>1 DEF RegionInv, IdsUnique, TypeOK
<1>3. t \notin Owned /\ t \notin InTable
    BY <1>2, OwnedStage DEF SettleInv, ToldInv, InTable, Registered
<1>4. Issued \in SUBSET Permits
    BY <1>1, AddTyped
<1>5. g \in Frames /\ g.at = "dispatch" /\ Has(g) = {}
    BY <1>4 DEF Dispatching, Frame, Frames, Has, Told
<1>6. frames \in SUBSET Frames /\ Calling!Of(frames) = {}
    BY <1>5 DEF Calling!Of
<1>7. Calling!Moved(stack, stack', gone, frames)
    BY <1>1, <1>5, Moves
<1>8. ASSUME NEW u \in Tasks, u # t
      PROVE  Quiet(u)
  <2>1. id'[u] = id[u] /\ body'[u] = body[u]
    BY <1>1, <1>8 DEF TypeOK
  <2>2. phase'[u] = phase[u] \/ (phase'[u] = "Waiting" /\ Lost(u, Taken(t, own)) # {})
    BY <1>1, <1>8 DEF AddLocked
  <2>3. Lost(u, Taken(t, own)) # {} => Registered(u) /\ phase[u] # "Running"
    BY <1>1, <1>2, OvertakenPending
  <2>4. phase[u] \in {"Waiting", "Scheduled", "Running", "Finished"}
    BY DEF TypeOK
  <2> QED
    BY <1>1, <2>1, <2>2, <2>3, <2>4 DEF Quiet, Registered
<1>9. /\ id'[t] # 0 /\ phase'[t] \in {"Waiting", "Scheduled"}
      /\ executes'[t] = 0 /\ cancels'[t] = 0 /\ callbacks'[t] = 0
  <2>1. Rest(id[t], phase[t], executes[t], cancels[t], callbacks[t], body[t], t \in Owned)
    BY DEF SettleInv, ToldInv, RestOK
  <2>2. executes[t] = 0 /\ cancels[t] = 0 /\ callbacks[t] = 0
    BY <1>1, <1>2, <2>1 DEF Rest
  <2> QED
    BY <1>1, <1>2, <2>2 DEF AddLocked, TypeOK
<1>10. Rest(id'[t], phase'[t], executes'[t], cancels'[t], callbacks'[t], body'[t], FALSE)
    BY <1>9 DEF Rest
<1>11. extra \in SUBSET Tasks /\ extra \cap Owned = {}
    BY <1>3
<1>12. \A h \in frames : Tidy(h)
    BY <1>5 DEF Tidy, Has
<1>13. \A h \in frames : \A u \in Has(h) :
          Stage(h, u, id'[u], phase'[u], executes'[u], cancels'[u], callbacks'[u])
    BY <1>5
<1>14. \A u \in Tasks : u \notin gone /\ u \notin extra /\ u \notin Calling!Of(frames) => Quiet(u)
    BY <1>8
<1>15. \A u \in Tasks : u \in gone \cup extra /\ u \notin Calling!Of(frames)
          => Rest(id'[u], phase'[u], executes'[u], cancels'[u], callbacks'[u], body'[u], FALSE)
    BY <1>10
<1>16. ToldInv
    BY DEF SettleInv
<1>17. ToldInv' /\ Owned' = (Owned \ gone) \cup Calling!Of(frames)
  <2> HIDE DEF gone, extra, frames
  <2> QED
    BY <1>6, <1>7, <1>11, <1>12, <1>13, <1>14, <1>15, <1>16, KeepsTold
<1>18. Owned' = Owned
    BY <1>6, <1>17
<1>19. InTable' \cup Owned' = (InTable \cup Owned) \cup {t}
  <2>1. \A u \in Tasks : u # t => (u \in InTable' <=> u \in InTable)
    BY <1>8 DEF Quiet, InTable, Registered
  <2>2. t \in InTable'
    BY <1>9 DEF InTable, Registered
  <2>3. InTable' \subseteq Tasks /\ InTable \subseteq Tasks /\ Owned \subseteq Tasks
    BY HeldTasks DEF InTable
  <2>4. \A u \in Tasks : u \in InTable' \cup Owned' <=> u \in (InTable \cup Owned) \cup {t}
    BY <1>18, <2>1, <2>2
  <2> QED
    BY <1>18, <2>3, <2>4
<1>20. Cardinality((InTable \cup Owned) \cup {t}) = Cardinality(InTable \cup Owned) + 1
  <2>1. IsFiniteSet(InTable \cup Owned)
    BY SchedulerAssumption, FS_Subset, HeldTasks DEF InTable
  <2>2. t \notin InTable \cup Owned
    BY <1>3
  <2> QED
    BY <2>1, <2>2, FS_AddElement
<1>21. ClosedOK'
  <2>1. \A f \in Within' : f \in frames \/ f \in Within
    BY <1>7 DEF Calling!Moved, Within
  <2> QED
    BY <2>1, <1>1, <1>5 DEF SettleInv, ClosedOK
<1> QED
    BY <1>1, <1>17, <1>19, <1>20, <1>21 DEF SettleInv, CountOK

\* A refused task is told on the spot, and never counted.
LEMMA RefusalSettles ==
    ASSUME TypeOK, TypeOK', RegionInv, SettleInv, NEW th \in Threads, NEW t \in Tasks,
           SubmitRefused(th, t)
    PROVE  SettleInv'
<1> DEFINE frames == {}
           gone == {}
           extra == {t}
<1>1. /\ body[t] = "unborn" /\ body' = [body EXCEPT ![t] = "released"]
      /\ cancels' = Count(cancels, t) /\ callbacks' = Count(callbacks, t)
      /\ UNCHANGED <<stack, id, phase, executes, outstanding, closed, stopped>>
    BY DEF SubmitRefused, lockVars, taskVars
<1>2. id[t] = 0 /\ phase[t] = "Waiting"
    BY <1>1 DEF RegionInv, IdsUnique
<1>3. t \notin Owned
    BY <1>2, OwnedStage DEF SettleInv, ToldInv
<1>4. executes[t] = 0 /\ cancels[t] = 0 /\ callbacks[t] = 0
  <2>1. Rest(id[t], phase[t], executes[t], cancels[t], callbacks[t], body[t], t \in Owned)
    BY DEF SettleInv, ToldInv, RestOK
  <2> QED
    BY <1>1, <1>2, <2>1 DEF Rest
<1>5. /\ cancels'[t] = 1 /\ callbacks'[t] = 1 /\ body'[t] = "released"
      /\ \A u \in Tasks \ {t} : /\ cancels'[u] = cancels[u] /\ callbacks'[u] = callbacks[u]
                                /\ body'[u] = body[u]
  <2>1. cancels \in [Tasks -> Nat] /\ callbacks \in [Tasks -> Nat]
    BY DEF TypeOK
  <2>2. body'[t] = "released" /\ \A u \in Tasks \ {t} : body'[u] = body[u]
    BY <1>1 DEF TypeOK
  <2> QED
    BY <2>1, <2>2, <1>1, <1>4, CountAt
<1>6. Rest(id'[t], phase'[t], executes'[t], cancels'[t], callbacks'[t], body'[t], FALSE)
    BY <1>1, <1>2, <1>4, <1>5 DEF Rest
<1>7. frames \in SUBSET Frames /\ Calling!Of(frames) = {} /\ \A h \in frames : FALSE
    BY DEF Calling!Of
<1>8. Calling!Moved(stack, stack', gone, frames)
    BY <1>1 DEF Calling!Moved, Calling!Of, SettleInv, ToldInv, TypeOK
<1>9. extra \in SUBSET Tasks /\ extra \cap Owned = {}
    BY <1>3
<1>10. \A u \in Tasks : u \notin gone /\ u \notin extra /\ u \notin Calling!Of(frames) => Quiet(u)
    BY <1>1, <1>5 DEF Quiet
<1>11. \A u \in Tasks : u \in gone \cup extra /\ u \notin Calling!Of(frames)
          => Rest(id'[u], phase'[u], executes'[u], cancels'[u], callbacks'[u], body'[u], FALSE)
    BY <1>6
<1>12. ToldInv
    BY DEF SettleInv
<1>13. ToldInv'
  <2> HIDE DEF gone, extra, frames
  <2> QED
    BY <1>7, <1>8, <1>9, <1>10, <1>11, <1>12, KeepsTold
<1>14. CountOK' /\ ClosedOK'
    BY <1>1 DEF SettleInv, CountOK, ClosedOK, InTable, Registered, Owned, Within
<1> QED
    BY <1>13, <1>14 DEF SettleInv

\* The calls of the public interface.
LEMMA CallSettles ==
    ASSUME TypeOK, TypeOK', RegionInv, SettleInv, NEW th \in Threads, Call(th)
    PROVE  SettleInv'
<1>1. \A t \in Tasks : Submit(th, t) => SettleInv'
    BY SubmitSettles
<1>2. \A t \in Tasks : SubmitRefused(th, t) => SettleInv'
    BY RefusalSettles
<1> DEFINE h == Frame("closing", None, 0, {}, {})
<1>3. h \in Frames /\ Has(h) = {}
    BY DEF Frame, Frames, Has, Told
<1>4. ASSUME NEW t \in Tasks, Cancel(th, t)
      PROVE  SettleInv'
  <2> DEFINE g == Dispatching({})
             selected == {t}
  <2>1. g \in Frames /\ Has(g) = {} /\ g.at # "closing"
    BY DEF Dispatching, Frame, Frames, Has, Told
  <2>2. CancelLocked(th, selected, FALSE, stack[th]) /\ selected \in SUBSET Tasks
    BY <1>4 DEF Cancel
  <2> HIDE DEF g, selected
  <2> QED
    BY <2>1, <2>2, CancelFrom
<1>5. CASE Prune(th)
  <2> DEFINE g == Dispatching({})
             selected == {t \in Tasks : abort[t]}
  <2>1. g \in Frames /\ Has(g) = {} /\ g.at # "closing"
    BY DEF Dispatching, Frame, Frames, Has, Told
  <2>2. CancelLocked(th, selected, FALSE, stack[th]) /\ selected \in SUBSET Tasks
    BY <1>5 DEF Prune
  <2> HIDE DEF g, selected
  <2> QED
    BY <2>1, <2>2, CancelFrom
<1>6. CASE Shutdown(th)
  <2>1. stack[th] = <<>> /\ CancelLocked(th, Tasks, TRUE, <<h>>)
    BY <1>6 DEF Shutdown
  <2> HIDE DEF h
  <2> QED
    BY <1>3, <2>1, CancelFrom
<1>7. CASE StopPool(th)
  <2> DEFINE g == Frame("stopping", None, 0, {}, {})
  <2>1. g \in Frames /\ Has(g) = {} /\ g.at # "closing" /\ Push(th, g)
    BY <1>7 DEF StopPool, Frame, Frames, Has, Told
  <2>2. UNCHANGED <<id, phase, executes, cancels, callbacks, body, outstanding, closed, stopped>>
    BY <1>7 DEF StopPool, lockVars, taskVars, bodyVars, told
  <2>3. \A t \in Tasks : Quiet(t)
    BY <2>2, StillQuiet
  <2> HIDE DEF g
  <2> QED
    BY <2>1, <2>2, <2>3, StepsIn
<1> QED
    BY <1>1, <1>2, <1>4, <1>5, <1>6, <1>7 DEF Call

LEMMA StepSettles ==
    TypeOK /\ TypeOK' /\ RegionInv /\ SettleInv /\ [Next]_vars => SettleInv'
<1> SUFFICES ASSUME TypeOK, TypeOK', RegionInv, SettleInv, [Next]_vars
             PROVE  SettleInv'
    OBVIOUS
<1>1. ASSUME UNCHANGED <<stack, id, phase, executes, cancels, callbacks, body, outstanding, closed,
                         stopped>>
      PROVE  SettleInv'
  <2>1. \A t \in Tasks : Quiet(t)
    BY <1>1, StillQuiet
  <2> QED
    BY <1>1, <2>1, StaysSettling
<1>2. ASSUME NEW t \in Tasks, Abort(t)
      PROVE  SettleInv'
    BY <1>1, <1>2 DEF Abort, lockVars, taskVars, bodyVars, told
<1>3. CASE UNCHANGED vars
    BY <1>1, <1>3 DEF vars, lockVars, taskVars, bodyVars, restVars, told
<1> QED
    BY <1>2, <1>3, ProceedSettles, CallSettles DEF Next

LEMMA InitSettles == Init => SettleInv
<1> SUFFICES ASSUME Init
             PROVE  SettleInv
    OBVIOUS
<1>1. \A th \in Threads : stack[th] = <<>>
    BY DEF Init
<1>2. \A th \in Threads : Calling!Mine(stack[th]) = {} /\ Calling!Apart(stack[th])
                          /\ Calling!Inside(stack[th]) = {}
    BY <1>1 DEF Calling!Mine, Calling!Apart, Calling!Inside
<1>3. Calling!AllApart(stack) /\ Owned = {} /\ Within = {}
    BY <1>2 DEF Calling!AllApart, Owned, Calling!AllHeld, Within, Calling!Within
<1>4. \A t \in Tasks : /\ id[t] = 0 /\ phase[t] = "Waiting" /\ body[t] = "unborn"
                       /\ executes[t] = 0 /\ cancels[t] = 0 /\ callbacks[t] = 0
    BY DEF Init
<1>5. AllTidy /\ StagesOK /\ RestOK
    BY <1>3, <1>4 DEF AllTidy, StagesOK, RestOK, Rest
<1>6. InTable = {}
    BY <1>4 DEF InTable, Registered
<1>7. CountOK
    BY <1>3, <1>6, FS_EmptySet DEF CountOK, Init
<1>8. ClosedOK
    BY <1>3 DEF ClosedOK, Init
<1> QED
    BY <1>3, <1>5, <1>7, <1>8 DEF SettleInv, ToldInv

\* The account of every task: no two calls settle the same one, a task has been told what
\* the call that settles it says, and outstanding counts the tasks of the table and of
\* those calls.
THEOREM SettlingInvariant == Spec => []SettleInv
<1>1. Init => SettleInv
    BY InitSettles
<1>2. TypeOK /\ TypeOK' /\ RegionInv /\ SettleInv /\ [Next]_vars => SettleInv'
    BY StepSettles
<1> QED
    BY <1>1, <1>2, TypeCorrect, RegionInvariant, PTL DEF Spec

\* A task is told once, whatever calls cancel, abort and run it: executed or cancelled,
\* and called back once.
THEOREM TasksToldOnce == Spec => []ToldOnce
<1>1. TypeOK /\ SettleInv => ToldOnce
    BY DEF SettleInv, ToldInv, RestOK, Rest, ToldOnce
<1> QED
    BY <1>1, TypeCorrect, SettlingInvariant, PTL

\* outstanding counts exactly the tasks that shutdown() has to wait for.
THEOREM OutstandingCorrect == Spec => []OutstandingIsExact
<1>1. TypeOK /\ SettleInv => OutstandingIsExact
  <2> SUFFICES ASSUME TypeOK, SettleInv
               PROVE  OutstandingIsExact
    OBVIOUS
  <2>1. \A th \in Threads : DOMAIN stack[th] = 1 .. Len(stack[th])
    BY DEF TypeOK
  <2>2. ASSUME NEW t \in Owned
        PROVE  Registered(t) \/ BeingSettled(t)
    <3>1. PICK f \in Within : t \in Has(f)
      BY HeldTasks
    <3>2. PICK th \in Threads : f \in Calling!Inside(stack[th])
      BY DEF Within, Calling!Within
    <3>3. PICK i \in 1 .. Len(stack[th]) : f = stack[th][i]
      BY <2>1, <3>2 DEF Calling!Inside
    <3>4. Stage(f, t, id[t], phase[t], executes[t], cancels[t], callbacks[t])
      BY <3>1 DEF SettleInv, ToldInv, StagesOK
    <3>5. CASE t \in f.batch \/ (f.at = "settled" /\ t = f.task)
      BY <3>3, <3>5 DEF BeingSettled
    <3>6. CASE f.at \in Told \ {"settled"} /\ t = f.task
      BY <3>4, <3>6 DEF Stage, Registered, Told
    <3> QED
      BY <3>1, <3>5, <3>6 DEF Has
  <2>3. ASSUME NEW t \in Tasks, BeingSettled(t)
        PROVE  t \in Owned
    <3>1. PICK th \in Threads : \E i \in 1 .. Len(stack[th]) :
             t \in stack[th][i].batch \/ (stack[th][i].at = "settled" /\ stack[th][i].task = t)
      BY <2>3 DEF BeingSettled
    <3>2. PICK i \in 1 .. Len(stack[th]) :
             t \in stack[th][i].batch \/ (stack[th][i].at = "settled" /\ stack[th][i].task = t)
      BY <3>1
    <3>3. stack[th][i] \in Within
      BY <2>1, <3>2 DEF Within, Calling!Within, Calling!Inside
    <3>4. t \in Has(stack[th][i])
      BY <3>2 DEF Has, Told
    <3> QED
      BY <3>3, <3>4, HeldTasks
  <2>4. InTable \cup Owned = {t \in Tasks : Registered(t) \/ BeingSettled(t)}
    BY <2>2, <2>3, HeldTasks DEF InTable
  <2> QED
    BY <2>4 DEF SettleInv, CountOK, OutstandingIsExact
<1> QED
    BY <1>1, TypeCorrect, SettlingInvariant, PTL

\* When shutdown() has returned, every accepted task has been called back and its body
\* destroyed, although the pool and other callers may still hold permits for it.
THEOREM ShutdownIsComplete == Spec => []ShutdownLeavesNothing
<1>1. TypeOK /\ SettleInv => ShutdownLeavesNothing
  <2> SUFFICES ASSUME TypeOK, SettleInv, closed, NEW t \in Tasks, id[t] # 0
               PROVE  body[t] = "released" /\ callbacks[t] = 1
    BY DEF ShutdownLeavesNothing
  <2>1. Cardinality(InTable \cup Owned) = 0
    BY DEF SettleInv, CountOK, ClosedOK
  <2>2. IsFiniteSet(InTable \cup Owned)
    BY SchedulerAssumption, FS_Subset, HeldTasks DEF InTable
  <2>3. t \notin InTable /\ t \notin Owned
    BY <2>1, <2>2, FS_EmptySet
  <2>4. phase[t] = "Finished"
    BY <2>3 DEF InTable, Registered
  <2> QED
    BY <2>3, <2>4 DEF SettleInv, ToldInv, RestOK, Rest
<1> QED
    BY <1>1, TypeCorrect, SettlingInvariant, PTL

-----------------------------------------------------------------------------
(* Permits.                                                                *)

\* The permit of task t: kept, taken back, or given anew under a new generation.
Aged(t) ==
    \/ generation'[t] = generation[t] /\ (phase'[t] = "Scheduled" => phase[t] = "Scheduled")
    \/ generation'[t] = generation[t] + 1

\* Insertions and removals give no permit under an old generation.
LEMMA QueuesAge ==
    ASSUME TypeOK, NEW t \in Tasks,
           \/ \E gone \in SUBSET Tasks : RemoveLocked(gone)
           \/ \E u \in Tasks, own \in SUBSET Keys : AddLocked(u, own)
    PROVE  Aged(t)
<1>1. ASSUME NEW gone \in SUBSET Tasks, RemoveLocked(gone)
      PROVE  Aged(t)
    BY <1>1 DEF RemoveLocked, Aged
<1>2. ASSUME NEW u \in Tasks, NEW own \in SUBSET Keys, AddLocked(u, own)
      PROVE  Aged(t)
    BY <1>2 DEF AddLocked, Aged
<1> QED
    BY <1>1, <1>2

\* ... nor does any other step.
LEMMA StepAges ==
    ASSUME TypeOK, [Next]_vars, NEW t \in Tasks
    PROVE  Aged(t)
<1>1. UNCHANGED <<generation, phase>> => Aged(t)
    BY DEF Aged
<1>2. ASSUME NEW th, NEW selected \in SUBSET Tasks, NEW stop, NEW below,
             CancelLocked(th, selected, stop, below)
      PROVE  Aged(t)
  <2> DEFINE gone == {u \in selected : Cancellable(u)}
  <2>1. gone \in SUBSET Tasks /\ (RemoveLocked(gone) \/ UNCHANGED taskVars)
    BY <1>2 DEF CancelLocked
  <2> QED
    BY <1>1, <2>1, QueuesAge DEF taskVars
<1>3. ASSUME NEW th \in Threads, Call(th)
      PROVE  Aged(t)
  <2>1. ASSUME NEW u \in Tasks, Submit(th, u) \/ SubmitRefused(th, u) \/ Cancel(th, u)
        PROVE  Aged(t)
    <3>1. CASE Submit(th, u)
      <4> DEFINE own == IF abort[u] THEN {} ELSE Region[u]
      <4>1. own \in SUBSET Keys /\ AddLocked(u, own)
        BY <3>1, SchedulerAssumption DEF Submit
      <4> HIDE DEF own
      <4> QED
        BY <4>1, QueuesAge
    <3>2. CASE SubmitRefused(th, u)
      BY <1>1, <3>2 DEF SubmitRefused, lockVars, taskVars
    <3>3. CASE Cancel(th, u)
      BY <1>2, <3>3 DEF Cancel
    <3> QED
      BY <2>1, <3>1, <3>2, <3>3
  <2>2. CASE Prune(th)
    BY <1>2, <2>2, {u \in Tasks : abort[u]} \in SUBSET Tasks DEF Prune
  <2>3. CASE Shutdown(th)
    BY <1>2, <2>3 DEF Shutdown
  <2>4. CASE StopPool(th)
    BY <1>1, <2>4 DEF StopPool, lockVars, taskVars
  <2> QED
    BY <1>3, <2>1, <2>2, <2>3, <2>4 DEF Call
<1>4. ASSUME NEW th \in Threads, Proceed(th)
      PROVE  Aged(t)
  <2> USE DEF lockVars, taskVars
  <2>1. CASE \/ SettleCancelBody(th) \/ Settled(th) \/ SettleDone(th) \/ DispatchCheck(th)
             \/ DispatchDone(th) \/ Revoke(th) \/ HandOver(th) \/ Take(th) \/ ClaimFails(th)
             \/ BodyReturns(th) \/ BodyThrows(th) \/ StopWorkers(th) \/ Drain(th)
             \/ Joined(th) \/ Closed(th)
    <3>1. UNCHANGED <<generation, phase>>
      BY <2>1 DEF SettleCancelBody, Settled, SettleDone, DispatchCheck, DispatchDone, Revoke,
                  HandOver, Take, ClaimFails, BodyReturns, BodyThrows, StopWorkers, Drain,
                  Joined, Closed, Crash, OnlyStack
    <3> QED
      BY <1>1, <3>1
  <2>2. CASE PoolCheck(th) \/ HandOverRefused(th)
    <3>1. \/ UNCHANGED <<generation, phase>>
          \/ CancelLocked(th, Tasks, TRUE, Tail(stack[th]))
          \/ CancelLocked(th, Tasks, TRUE, <<Dispatching(Top(th).ready)>> \o Tail(stack[th]))
      BY <2>2 DEF PoolCheck, HandOverRefused, OnlyStack
    <3> QED
      BY <1>1, <1>2, <3>1
  <2>3. CASE Execute(th) \/ OnCancel(th)
    <3>1. /\ UNCHANGED generation
          /\ UNCHANGED phase \/ phase' = [phase EXCEPT ![Top(th).task] = "Running"]
      BY <2>3 DEF Execute, OnCancel, Claim, Crash
    <3> QED
      BY <3>1 DEF Aged, TypeOK
  <2>4. CASE Finish(th)
    <3>1. stack[th] # <<>> /\ Top(th).task \in Tasks
      BY <2>4, TopFrame DEF Finish, At, Top
    <3>2. {Top(th).task} \in SUBSET Tasks
      BY <3>1
    <3>3. UNCHANGED <<generation, phase>> \/ RemoveLocked({Top(th).task})
      BY <2>4 DEF Finish, Crash
    <3> QED
      BY <1>1, <3>2, <3>3, QueuesAge
  <2> QED
    BY <1>4, <2>1, <2>2, <2>3, <2>4 DEF Proceed
<1>5. ASSUME NEW u \in Tasks, Abort(u)
      PROVE  Aged(t)
    BY <1>1, <1>5 DEF Abort, lockVars, taskVars
<1>6. CASE UNCHANGED vars
    BY <1>1, <1>6 DEF vars, lockVars, taskVars
<1> QED
    BY <1>3, <1>4, <1>5, <1>6 DEF Next

\* A permit that was overtaken or cancelled is never taken for valid again, however often
\* its task is scheduled anew: workers may bring it back at any time.
THEOREM StalePermitsStayStale == Spec => StalePermitStaysStale
<1>1. TypeOK /\ [Next]_vars
        => \A t \in Tasks : \A g \in 1 .. generation[t] : ~Valid(<<t, g>>) => ~Valid(<<t, g>>)'
  <2> SUFFICES ASSUME TypeOK, [Next]_vars, NEW t \in Tasks, NEW g \in 1 .. generation[t],
                      ~Valid(<<t, g>>)
               PROVE  ~Valid(<<t, g>>)'
    OBVIOUS
  <2>1. Aged(t)
    BY StepAges
  <2>2. generation[t] \in Nat /\ g \in Nat /\ g <= generation[t]
    BY DEF TypeOK
  <2>3. ~(phase[t] = "Scheduled" /\ generation[t] = g)
    BY DEF Valid
  <2>4. ~(phase'[t] = "Scheduled" /\ generation'[t] = g)
    BY <2>1, <2>2, <2>3 DEF Aged
  <2> QED
    BY <2>4 DEF Valid
<1> QED
    BY <1>1, TypeCorrect, PTL DEF Spec, StalePermitStaysStale

-----------------------------------------------------------------------------
(* Bodies, when all tasks have one priority: the server submits every area *)
(* task with TaskPriority::Normal.  Then no task is overtaken, no permit   *)
(* is revoked, and a body is reset only once its task runs or has ended.   *)

Uniform == \A t, u \in Tasks : Priority[t] = Priority[u]

\* A permit given under the phases p and generations gen, and not taken back.
Fresh(d, p, gen) == p[d[1]] # "Waiting" /\ gen[d[1]] = d[2]

Sound(f, p, gen) ==
    /\ \A d \in FramePermits(f) : Fresh(d, p, gen)
    /\ f.at = "revoke" => p[f.task] \in {"Running", "Finished"}

PermitsFresh ==
    /\ \A d \in queue : Fresh(d, phase, generation)
    /\ \A f \in Within : Sound(f, phase, generation)

BodiesKept ==
    /\ PermitsFresh /\ PendingKeepsBody
    /\ \A t \in pendingBodies : phase[t] \in {"Running", "Finished"}

\* A task goes forward: once it has a permit it keeps it until it starts.
Forward(t) ==
    /\ phase[t] # "Waiting" => phase'[t] # "Waiting" /\ generation'[t] = generation[t]
    /\ phase[t] \in {"Running", "Finished"} => phase'[t] \in {"Running", "Finished"}

\* What a task that waits or is scheduled after the step has kept.
BodyStays(t) ==
    id'[t] # 0 /\ phase'[t] \notin {"Running", "Finished"} =>
        body'[t] = "held" \/ (body'[t] = body[t] /\ Registered(t) /\ phase[t] # "Running")

\* New calls and queue entries have fresh permits, tasks go forward, bodies stay.
LEMMA KeepsBodies ==
    ASSUME TypeOK, TypeOK', BodiesKept, NEW frames, Within' \subseteq Within \cup frames,
           \A g \in frames : Sound(g, phase', generation'),
           \A d \in queue' : d \in queue \/ Fresh(d, phase', generation'),
           \A t \in Tasks : Forward(t) /\ BodyStays(t),
           \A t \in pendingBodies' : t \in pendingBodies \/ phase'[t] \in {"Running", "Finished"}
    PROVE  BodiesKept'
<1>1. ASSUME NEW d \in Permits, Fresh(d, phase, generation)
      PROVE  Fresh(d, phase', generation')
    BY <1>1 DEF Fresh, Forward, Permits
<1>2. ASSUME NEW f \in Within, Sound(f, phase, generation)
      PROVE  Sound(f, phase', generation')
  <2>1. f \in Frames
    BY HeldTasks
  <2>2. FramePermits(f) \subseteq Permits
    BY <2>1 DEF Frames, FramePermits, Permit, Permits
  <2>3. f.at = "revoke" => f.task \in Tasks
    BY <2>1 DEF Frames
  <2> QED
    BY <1>1, <1>2, <2>2, <2>3 DEF Sound, Forward
<1>3. PermitsFresh'
  <2>1. \A d \in queue' : Fresh(d, phase', generation')
    BY <1>1 DEF BodiesKept, PermitsFresh, TypeOK
  <2>2. \A f \in Within' : Sound(f, phase', generation')
    BY <1>2 DEF BodiesKept, PermitsFresh
  <2> QED
    BY <2>1, <2>2 DEF PermitsFresh
<1>4. PendingKeepsBody'
    BY DEF BodiesKept, PendingKeepsBody, BodyStays, Registered
<1>5. \A t \in pendingBodies' : phase'[t] \in {"Running", "Finished"}
    BY DEF BodiesKept, Forward, TypeOK
<1> QED
    BY <1>3, <1>4, <1>5 DEF BodiesKept

\* The calls a thread is in after a move.
LEMMA NewCalls ==
    ASSUME TypeOK, NEW th \in Threads, NEW new \in Seq(Frames), NEW rest \in Seq(Frames),
           Calling!Inside(rest) \subseteq Calling!Inside(stack[th]),
           Calling!Put(stack, stack', th, new \o rest)
    PROVE  Within' \subseteq Within \cup Calling!Inside(new)
<1>1. Calling!Inside(new \o rest) = Calling!Inside(new) \cup Calling!Inside(rest)
    BY Calling!Joined
<1>2. /\ stack'[th] = new \o rest /\ \A other \in Threads \ {th} : stack'[other] = stack[other]
    BY DEF Calling!Put, TypeOK
<1> QED
    BY <1>1, <1>2 DEF Within, Calling!Within

LEMMA NewCall ==
    ASSUME TypeOK, NEW th \in Threads, NEW g \in Frames,
           \/ UNCHANGED stack \/ Push(th, g)
           \/ stack[th] # <<>> /\ (Goto(th, g) \/ Return(th))
    PROVE  Within' \subseteq Within \cup {g}
<1> DEFINE one == <<g>>
           none == <<>>
           all == stack[th]
           below == Tail(stack[th])
<1>1. /\ one \in Seq(Frames) /\ Calling!Inside(one) = {g}
      /\ none \in Seq(Frames) /\ Calling!Inside(none) = {}
    BY Calling!Few
<1>2. all \in Seq(Frames)
    BY DEF TypeOK
<1>3. stack[th] # <<>> => /\ below \in Seq(Frames) /\ Calling!Inside(below) \subseteq Calling!Inside(all)
  <2> SUFFICES ASSUME all # <<>>
               PROVE  below \in Seq(Frames) /\ Calling!Inside(below) \subseteq Calling!Inside(all)
    OBVIOUS
  <2>1. /\ Head(all) \in Frames /\ below \in Seq(Frames) /\ all = <<Head(all)>> \o below
    BY <1>2, Calling!Innermost
  <2>2. <<Head(all)>> \in Seq(Frames)
    BY <2>1
  <2>3. Calling!Inside(<<Head(all)>> \o below)
          = Calling!Inside(<<Head(all)>>) \cup Calling!Inside(below)
    BY <2>1, <2>2, Calling!Joined
  <2> QED
    BY <2>1, <2>3
<1>4. CASE UNCHANGED stack
    BY <1>4 DEF Within
<1>5. CASE Push(th, g)
  <2>1. Calling!Put(stack, stack', th, one \o all)
    BY <1>5 DEF Push, Calling!Put
  <2> HIDE DEF one, all
  <2>2. Calling!Inside(all) \subseteq Calling!Inside(stack[th])
    BY DEF all
  <2> QED
    BY <1>1, <1>2, <2>1, <2>2, NewCalls
<1>6. CASE stack[th] # <<>> /\ Goto(th, g)
  <2>1. Calling!Put(stack, stack', th, one \o below)
    BY <1>6 DEF Goto, Calling!Put
  <2>2. below \in Seq(Frames) /\ Calling!Inside(below) \subseteq Calling!Inside(stack[th])
    BY <1>3, <1>6
  <2> HIDE DEF one, below
  <2> QED
    BY <1>1, <2>1, <2>2, NewCalls
<1>7. CASE stack[th] # <<>> /\ Return(th)
  <2>1. below \in Seq(Frames) /\ Calling!Inside(below) \subseteq Calling!Inside(stack[th])
    BY <1>3, <1>7
  <2>2. none \o below = below
    BY <2>1
  <2>3. Calling!Put(stack, stack', th, none \o below)
    BY <1>7, <2>2 DEF Return, Calling!Put
  <2> HIDE DEF none, below
  <2> QED
    BY <1>1, <2>1, <2>3, NewCalls
<1> QED
    BY <1>4, <1>5, <1>6, <1>7

\* With one priority a new task goes behind all others: it overtakes none.
LEMMA NobodyOvertaken ==
    ASSUME Uniform, TypeOK, RegionInv, NEW t \in Tasks, NEW own \in SUBSET Keys, NEW p \in Tasks
    PROVE  Lost(p, Taken(t, own)) = {}
<1> SUFFICES ASSUME NEW k \in Taken(t, own), Leads(p, k)
             PROVE  FALSE
    BY DEF Lost
<1>1. p \in positions[k] /\ Precedes(Priority[t], nextId, Priority[p], id[p])
    BY DEF Taken, Leads, First
<1>2. Priority[t] = Priority[p] /\ Priority[p] \in Nat
    BY SchedulerAssumption DEF Uniform
<1>3. id[p] < nextId /\ id[p] \in Nat /\ nextId \in Nat
    BY DEF RegionInv, IdsUnique, TypeOK
<1> QED
    BY <1>1, <1>2, <1>3 DEF Precedes

\* Removal gives permits and takes none back.
LEMMA RemovalGoesForward ==
    ASSUME TypeOK, RegionInv, BodiesKept, NEW gone \in SUBSET Tasks, RemoveLocked(gone),
           UNCHANGED <<id, body>>
    PROVE  /\ \A t \in Tasks : Forward(t) /\ BodyStays(t)
           /\ \A d \in Issued : Fresh(d, phase', generation')
<1>1. ASSUME NEW t \in Tasks
      PROVE  Forward(t)
    BY DEF RemoveLocked, Forward
<1>2. ASSUME NEW t \in Tasks
      PROVE  BodyStays(t)
  <2> SUFFICES ASSUME id'[t] # 0, phase'[t] \notin {"Running", "Finished"}
               PROVE  Registered(t) /\ phase[t] # "Running"
    BY DEF BodyStays
  <2> QED
    BY DEF RemoveLocked, Registered, TypeOK
<1>3. \A d \in Issued : Fresh(d, phase', generation')
    BY DEF Issued, Fresh
<1> QED
    BY <1>1, <1>2, <1>3

\* Two calls entered one after the other, or at once.
LEMMA TwoOnTop ==
    ASSUME NEW g, g \in Frames, NEW h \in Frames
    PROVE  \A s \in Seq(Frames) : <<g>> \o (<<h>> \o s) = <<g, h>> \o s
OBVIOUS

\* The calls a thread is in after a cancellation: its settlement g, and perhaps h.
LEMMA CancelCalls ==
    ASSUME TypeOK, NEW th \in Threads, NEW g \in Frames, NEW h \in Frames, NEW below,
           stack' = [stack EXCEPT ![th] = <<g>> \o below],
           \/ below = stack[th]
           \/ below = <<h>> \o stack[th]
           \/ stack[th] # <<>> /\ below \in {Tail(stack[th]), <<h>> \o Tail(stack[th])}
    PROVE  Within' \subseteq Within \cup {g, h}
<1> DEFINE one == <<g>>
           two == <<g, h>>
           all == stack[th]
           tail == Tail(stack[th])
<1>1. /\ one \in Seq(Frames) /\ Calling!Inside(one) = {g}
      /\ two \in Seq(Frames) /\ Calling!Inside(two) = {g, h}
    BY Calling!Few
<1>2. \A s \in Seq(Frames) : <<g>> \o (<<h>> \o s) = <<g, h>> \o s
    BY TwoOnTop
<1>3. all \in Seq(Frames) /\ Calling!Inside(all) \subseteq Calling!Inside(stack[th])
    BY DEF TypeOK
<1>4. all # <<>> => tail \in Seq(Frames) /\ Calling!Inside(tail) \subseteq Calling!Inside(stack[th])
  <2> SUFFICES ASSUME all # <<>>
               PROVE  tail \in Seq(Frames) /\ Calling!Inside(tail) \subseteq Calling!Inside(all)
    OBVIOUS
  <2>1. /\ Head(all) \in Frames /\ tail \in Seq(Frames) /\ all = <<Head(all)>> \o tail
    BY <1>3, Calling!Innermost
  <2>2. <<Head(all)>> \in Seq(Frames)
    BY <2>1
  <2>3. Calling!Inside(<<Head(all)>> \o tail)
          = Calling!Inside(<<Head(all)>>) \cup Calling!Inside(tail)
    BY <2>1, <2>2, Calling!Joined
  <2> QED
    BY <2>1, <2>3
<1>5. \/ Calling!Put(stack, stack', th, one \o all)
      \/ Calling!Put(stack, stack', th, two \o all)
      \/ all # <<>> /\ Calling!Put(stack, stack', th, one \o tail)
      \/ all # <<>> /\ Calling!Put(stack, stack', th, two \o tail)
    BY <1>2, <1>3, <1>4 DEF Calling!Put
<1> HIDE DEF one, two, all, tail
<1> QED
    BY <1>1, <1>3, <1>4, <1>5, NewCalls

\* A cancellation enters a settlement with fresh permits; h is a call entered with it.
LEMMA CancelKeepsBodies ==
    ASSUME TypeOK, TypeOK', RegionInv, BodiesKept, NEW th \in Threads,
           NEW selected \in SUBSET Tasks, NEW stop, NEW below, CancelLocked(th, selected, stop, below),
           NEW h \in Frames, Sound(h, phase, generation), h.at # "revoke",
           \/ below = stack[th]
           \/ below = <<h>> \o stack[th]
           \/ stack[th] # <<>> /\ below \in {Tail(stack[th]), <<h>> \o Tail(stack[th])}
    PROVE  BodiesKept'
<1> DEFINE gone == {t \in selected : Cancellable(t)}
           g == Settling(gone, Issued)
           frames == {g, h}
<1>1. gone \in SUBSET Tasks /\ RemoveAsserts(gone)
    BY RemovalPermitted DEF Cancellable
<1>2. /\ RemoveLocked(gone) /\ stack' = [stack EXCEPT ![th] = <<g>> \o below]
      /\ UNCHANGED <<id, body, pendingBodies, queue>>
    BY <1>1 DEF CancelLocked, bodyVars, poolVars
<1>3. /\ \A t \in Tasks : Forward(t) /\ BodyStays(t)
      /\ \A d \in Issued : Fresh(d, phase', generation')
    BY <1>1, <1>2, RemovalGoesForward
<1>4. g \in Frames /\ Sound(g, phase', generation')
  <2>1. Issued \in SUBSET Permits
    BY <1>1, <1>2, RemoveTyped
  <2>2. g \in Frames /\ FramePermits(g) = Issued /\ g.at = "settle"
    BY <1>1, <2>1 DEF Settling, Frame, Frames, FramePermits
  <2> QED
    BY <1>3, <2>2 DEF Sound
<1>5. Sound(h, phase', generation')
  <2>1. FramePermits(h) \subseteq Permits
    BY DEF Frames, FramePermits, Permit, Permits
  <2> QED
    BY <1>3, <2>1 DEF Sound, Fresh, Forward, Permits
<1>6. Within' \subseteq Within \cup frames
  <2> HIDE DEF g
  <2> QED
    BY <1>2, <1>4, CancelCalls
<1>7. /\ \A f \in frames : Sound(f, phase', generation')
      /\ \A d \in queue' : d \in queue
      /\ \A t \in pendingBodies' : t \in pendingBodies
    BY <1>2, <1>4, <1>5
<1> HIDE DEF frames
<1> QED
    BY <1>3, <1>6, <1>7, KeepsBodies

\* A thread enters a call, goes on or returns, and no task changes.
LEMMA CallKeepsBodies ==
    ASSUME TypeOK, TypeOK', BodiesKept, NEW th \in Threads, NEW g \in Frames,
           \/ UNCHANGED stack \/ Push(th, g)
           \/ stack[th] # <<>> /\ (Goto(th, g) \/ Return(th)),
           Sound(g, phase, generation), UNCHANGED <<id, phase, generation>>,
           \A t \in Tasks : body'[t] = body[t] \/ phase[t] \in {"Running", "Finished"} \/ id[t] = 0,
           \A d \in queue' : d \in queue \/ Fresh(d, phase, generation),
           pendingBodies' \subseteq pendingBodies
    PROVE  BodiesKept'
<1> DEFINE frames == {g}
<1>1. Within' \subseteq Within \cup frames
    BY NewCall
<1>2. \A f \in frames : Sound(f, phase', generation')
    OBVIOUS
<1>3. \A t \in Tasks : Forward(t) /\ BodyStays(t)
    BY DEF Forward, BodyStays, Registered
<1>4. \A d \in queue' : d \in queue \/ Fresh(d, phase', generation')
    OBVIOUS
<1>5. \A t \in pendingBodies' : t \in pendingBodies
    OBVIOUS
<1> HIDE DEF frames
<1> QED
    BY <1>1, <1>2, <1>3, <1>4, <1>5, KeepsBodies

\* The permits of a thread's innermost call are fresh.
LEMMA TopSound ==
    ASSUME TypeOK, BodiesKept, NEW th \in Threads, stack[th] # <<>>
    PROVE  /\ Sound(Top(th), phase, generation) /\ FramePermits(Top(th)) \subseteq Permits
           /\ \A d \in Top(th).ready : Fresh(d, phase, generation)
           /\ Top(th).at \in {"checked", "submit", "execute", "onCancel"}
                 => Fresh(Permit(Top(th)), phase, generation)
<1>1. Top(th) \in Within /\ Top(th) \in Frames
    BY Calling!Innermore DEF Within, Top, TypeOK
<1>2. Sound(Top(th), phase, generation) /\ FramePermits(Top(th)) \subseteq Permits
    BY <1>1 DEF BodiesKept, PermitsFresh, Frames, FramePermits, Permit, Permits
<1> QED
    BY <1>2 DEF Sound, FramePermits

\* A claim: the task held a fresh permit and runs now.
LEMMA ClaimKeepsBodies ==
    ASSUME TypeOK, TypeOK', RegionInv, BodiesKept, NEW th \in Threads, stack[th] # <<>>,
           Top(th).at \in {"execute", "onCancel"}, NEW place \in {"body", "cancelled"},
           Claim(th, place)
    PROVE  BodiesKept'
<1> DEFINE f == Top(th)
           t == f.task
           g == ForPermit(place, Permit(f), {})
           frames == {g}
<1>1. f \in Frames /\ t \in Tasks /\ f.gen \in Nat
    BY TopFrame
<1>2. CASE Crash("body") \/ Crash("assert")
  <2>1. UNCHANGED <<stack, id, phase, generation, body, pendingBodies, queue>>
    BY <1>2 DEF Crash, lockVars, taskVars, bodyVars, poolVars
  <2> QED
    BY <2>1, <1>1, TopSound, CallKeepsBodies
<1>3. CASE /\ phase' = [phase EXCEPT ![t] = "Running"]
           /\ pendingBodies' = pendingBodies \cup {t} /\ Goto(th, g)
           /\ UNCHANGED <<stopped, nextId, outstanding, id, keys, waiting, generation, positions,
                          body, restVars>>
  <2>1. phase[t] = "Scheduled" /\ id[t] # 0
    BY <1>1, <1>3 DEF Claim, Valid, Permit, RegionInv, IdsUnique
  <2>2. g \in Frames /\ Sound(g, phase', generation')
    BY <1>1 DEF ForPermit, Permit, Frame, Frames, Sound, FramePermits
  <2>3. Within' \subseteq Within \cup frames
    BY <1>3, <2>2, NewCall
  <2>4. /\ phase'[t] = "Running" /\ (\A u \in Tasks \ {t} : phase'[u] = phase[u])
        /\ UNCHANGED <<id, body, generation, queue>>
    BY <1>1, <1>3 DEF TypeOK, restVars, poolVars
  <2>5. \A u \in Tasks : Forward(u) /\ BodyStays(u)
    BY <2>1, <2>4 DEF Forward, BodyStays, Registered
  <2>6. /\ \A d \in queue' : d \in queue
        /\ \A u \in pendingBodies' : u \in pendingBodies \/ phase'[u] \in {"Running", "Finished"}
    BY <1>3, <2>4
  <2>7. \A h \in frames : Sound(h, phase', generation')
    BY <2>2
  <2> HIDE DEF frames
  <2> QED
    BY <2>3, <2>5, <2>6, <2>7, KeepsBodies
<1> QED
    BY <1>2, <1>3 DEF Claim

\* Every step of a thread inside a call leaves a task that waits its body.
LEMMA ProceedKeepsBodies ==
    ASSUME TypeOK, TypeOK', RegionInv, SettleInv, BodiesKept, NEW th \in Threads, Proceed(th)
    PROVE  BodiesKept'
<1> DEFINE still == UNCHANGED <<id, phase, generation, pendingBodies>>
           kept == still /\ UNCHANGED <<body, queue>>
<1> USE DEF lockVars, taskVars, bodyVars, restVars, poolVars, told
<1>1. ASSUME stack[th] # <<>>, NEW g \in Frames, Goto(th, g) \/ Return(th) \/ UNCHANGED stack,
             Sound(g, phase, generation), kept
      PROVE  BodiesKept'
    BY <1>1, CallKeepsBodies
<1>2. ASSUME stack[th] # <<>>, Return(th) \/ UNCHANGED stack, kept
      PROVE  BodiesKept'
    BY <1>1, <1>2, TopSound, TopFrame
<1>3. CASE SettleCancelBody(th) \/ SettleDone(th)
  <2>1. /\ stack[th] # <<>> /\ kept
        /\ \/ UNCHANGED stack
           \/ Goto(th, Dispatching(Top(th).ready))
           \/ \E t \in Top(th).batch :
                Goto(th, Frame("settled", t, 0, Top(th).batch \ {t}, Top(th).ready))
    BY <1>3 DEF SettleCancelBody, SettleDone, At, Crash, OnlyStack
  <2>2. Top(th).batch \subseteq Tasks /\ Top(th).ready \in SUBSET Permits
        /\ \A d \in Top(th).ready : Fresh(d, phase, generation)
    BY <2>1, TopFrame, TopSound
  <2> DEFINE g == Dispatching(Top(th).ready)
             h(t) == Frame("settled", t, 0, Top(th).batch \ {t}, Top(th).ready)
  <2>3. g \in Frames /\ Sound(g, phase, generation)
    BY <2>2 DEF Dispatching, Frame, Frames, Sound, FramePermits
  <2>4. \A t \in Top(th).batch : h(t) \in Frames /\ Sound(h(t), phase, generation)
    BY <2>2 DEF Frame, Frames, Sound, FramePermits
  <2>5. ASSUME NEW t \in Top(th).batch, Goto(th, h(t))
        PROVE  BodiesKept'
    <3> HIDE DEF h
    <3> QED
      BY <1>1, <2>1, <2>4, <2>5
  <2>6. CASE Goto(th, g)
    <3> HIDE DEF g
    <3> QED
      BY <1>1, <2>1, <2>3, <2>6
  <2> QED
    BY <1>2, <2>1, <2>5, <2>6
<1>4. CASE Settled(th)
  <2>1. /\ stack[th] # <<>> /\ Top(th).at = "settled"
        /\ \/ kept /\ UNCHANGED stack
           \/ /\ still /\ UNCHANGED queue /\ Goto(th, Settling(Top(th).batch, Top(th).ready))
              /\ body' = [body EXCEPT ![Top(th).task] = "released"]
    BY <1>4 DEF Settled, At, Top, Crash
  <2>2. /\ Top(th).batch \subseteq Tasks /\ Top(th).ready \in SUBSET Permits
        /\ Top(th).task \in Tasks /\ phase[Top(th).task] = "Finished"
        /\ \A d \in Top(th).ready : Fresh(d, phase, generation)
    BY <2>1, TopFrame, TopSound, TopHas DEF Stage, Told
  <2> DEFINE g == Settling(Top(th).batch, Top(th).ready)
  <2>3. g \in Frames /\ Sound(g, phase, generation)
    BY <2>2 DEF Settling, Frame, Frames, Sound, FramePermits
  <2>4. CASE /\ still /\ UNCHANGED queue /\ Goto(th, g)
             /\ body' = [body EXCEPT ![Top(th).task] = "released"]
    <3>1. \A t \in Tasks : body'[t] = body[t] \/ phase[t] \in {"Running", "Finished"}
      BY <2>2, <2>4 DEF TypeOK
    <3> HIDE DEF g
    <3> QED
      BY <2>1, <2>3, <2>4, <3>1, CallKeepsBodies
  <2> QED
    BY <1>2, <2>1, <2>4
<1>5. CASE DispatchCheck(th)
  <2>1. stack[th] # <<>> /\ kept
    BY <1>5 DEF DispatchCheck, At, OnlyStack
  <2>2. PICK d \in Top(th).ready :
          Goto(th, ForPermit(IF Valid(d) THEN "checked" ELSE "revoke", d, Top(th).ready \ {d}))
    BY <1>5 DEF DispatchCheck
  <2>3. /\ Top(th).ready \in SUBSET Permits /\ d \in Permits
        /\ \A e \in Top(th).ready : Fresh(e, phase, generation)
    BY <2>1, <2>2, TopFrame, TopSound
  <2> DEFINE g == ForPermit(IF Valid(d) THEN "checked" ELSE "revoke", d, Top(th).ready \ {d})
  <2>4. ~Valid(d) => phase[d[1]] \in {"Running", "Finished"}
  <3>1. Fresh(d, phase, generation) /\ d[1] \in Tasks
    BY <2>2, <2>3 DEF Permits
  <3> QED
    BY <3>1 DEF Valid, Fresh, TypeOK
  <2>5. /\ g \in Frames /\ g.ready = Top(th).ready \ {d} /\ g.task = d[1]
        /\ Permit(g) = d /\ g.at = (IF Valid(d) THEN "checked" ELSE "revoke")
    BY <2>3 DEF ForPermit, Frame, Frames, Permits, Permit
  <2>6. Sound(g, phase, generation)
    <3> HIDE DEF g
    <3> QED
      BY <2>2, <2>3, <2>4, <2>5 DEF Sound, FramePermits
  <2> HIDE DEF g
  <2> QED
    BY <1>1, <2>1, <2>2, <2>5, <2>6 DEF g
<1>6. CASE PoolCheck(th) \/ HandOverRefused(th)
  <2>1. stack[th] # <<>> /\ Top(th).at \in {"checked", "submit"}
    BY <1>6 DEF PoolCheck, HandOverRefused, At, Top
  <2>2. /\ Top(th).ready \in SUBSET Permits /\ Permit(Top(th)) \in Permits
        /\ Fresh(Permit(Top(th)), phase, generation)
        /\ \A d \in Top(th).ready : Fresh(d, phase, generation)
    BY <2>1, TopFrame, TopSound DEF Permit, Permits
  <2> DEFINE g == ForPermit("submit", Permit(Top(th)), Top(th).ready)
             h == Dispatching(Top(th).ready)
             tail == Tail(stack[th])
             more == <<h>> \o Tail(stack[th])
  <2>3. g \in Frames /\ Sound(g, phase, generation)
    BY <2>2 DEF ForPermit, Permit, Frame, Frames, Permits, Sound, FramePermits
  <2>4. h \in Frames /\ Sound(h, phase, generation) /\ h.at # "revoke"
    BY <2>2 DEF Dispatching, Frame, Frames, Sound, FramePermits
  <2>5. \/ Goto(th, g) /\ kept
        \/ CancelLocked(th, Tasks, TRUE, tail)
        \/ CancelLocked(th, Tasks, TRUE, more)
    BY <1>6 DEF PoolCheck, HandOverRefused, OnlyStack
  <2>6. CASE Goto(th, g) /\ kept
    <3> HIDE DEF g
    <3> QED
      BY <1>1, <2>1, <2>3, <2>6
  <2>7. ASSUME NEW below \in {tail, more}, CancelLocked(th, Tasks, TRUE, below)
        PROVE  BodiesKept'
    <3>1. stack[th] # <<>> /\ below \in {Tail(stack[th]), <<h>> \o Tail(stack[th])}
      BY <2>1, <2>7
    <3> HIDE DEF h, tail, more
    <3> QED
      BY <2>4, <2>7, <3>1, CancelKeepsBodies
  <2> QED
    BY <2>5, <2>6, <2>7
<1>7. CASE DispatchDone(th) \/ Joined(th)
  <2>1. stack[th] # <<>> /\ Return(th) /\ kept
    BY <1>7 DEF DispatchDone, Joined, At, OnlyStack
  <2> QED
    BY <1>2, <2>1
<1>8. CASE Revoke(th) \/ HandOver(th)
  <2>1. stack[th] # <<>> /\ Top(th).at \in {"revoke", "submit"}
    BY <1>8 DEF Revoke, HandOver, At, Top
  <2>2. /\ Top(th).ready \in SUBSET Permits /\ Permit(Top(th)) \in Permits /\ Top(th).task \in Tasks
        /\ Top(th).at = "submit" => Fresh(Permit(Top(th)), phase, generation)
        /\ Top(th).at = "revoke" => phase[Top(th).task] \in {"Running", "Finished"}
        /\ \A d \in Top(th).ready : Fresh(d, phase, generation)
    BY <2>1, TopFrame, TopSound DEF Permit, Permits, Sound
  <2> DEFINE g == Dispatching(Top(th).ready)
  <2>3. g \in Frames /\ Sound(g, phase, generation)
    BY <2>2 DEF Dispatching, Frame, Frames, Sound, FramePermits
  <2>4. /\ Goto(th, g) /\ still
        /\ \A t \in Tasks : body'[t] = body[t] \/ phase[t] \in {"Running", "Finished"}
        /\ \A d \in queue' : d \in queue \/ Fresh(d, phase, generation)
    BY <1>8, <2>2 DEF Revoke, HandOver, At, Top, TypeOK
  <2> HIDE DEF g
  <2> QED
    BY <2>1, <2>3, <2>4, CallKeepsBodies
<1>9. CASE Take(th) \/ Drain(th)
  <2>1. PICK d \in queue, at \in {"execute", "onCancel"} : Push(th, ForPermit(at, d, {}))
    BY <1>9 DEF Take, Drain
  <2> DEFINE g == ForPermit(at, d, {})
  <2>2. d \in Permits /\ Fresh(d, phase, generation)
    BY <2>1 DEF TypeOK, BodiesKept, PermitsFresh
  <2>3. g \in Frames /\ Sound(g, phase, generation)
    BY <2>2 DEF ForPermit, Permit, Frame, Frames, Permits, Sound, FramePermits
  <2>4. still /\ UNCHANGED body /\ \A e \in queue' : e \in queue
    BY <1>9 DEF Take, Drain
  <2> HIDE DEF g
  <2>5. Push(th, g)
    BY <2>1 DEF g
  <2> QED
    BY <2>3, <2>4, <2>5, CallKeepsBodies
<1>10. CASE Execute(th) \/ OnCancel(th)
  <2>1. /\ stack[th] # <<>> /\ Top(th).at \in {"execute", "onCancel"}
        /\ Claim(th, "body") \/ Claim(th, "cancelled")
    BY <1>10 DEF Execute, OnCancel, At, Top
  <2> QED
    BY <2>1, ClaimKeepsBodies
<1>11. CASE ClaimFails(th)
  <2>1. stack[th] # <<>> /\ Top(th).at \in {"execute", "onCancel"} /\ kept
    BY <1>11 DEF ClaimFails, At, Top, OnlyStack
  <2>2. Permit(Top(th)) \in Permits /\ Fresh(Permit(Top(th)), phase, generation)
    BY <2>1, TopFrame, TopSound DEF Permit, Permits
  <2> DEFINE g == ForPermit("onCancel", Permit(Top(th)), {})
  <2>3. g \in Frames /\ Sound(g, phase, generation)
    BY <2>2 DEF ForPermit, Permit, Frame, Frames, Permits, Sound, FramePermits
  <2>4. Return(th) \/ Goto(th, g)
    BY <1>11 DEF ClaimFails
  <2> HIDE DEF g
  <2> QED
    BY <1>1, <2>1, <2>3, <2>4
<1>12. CASE BodyReturns(th) \/ BodyThrows(th)
  <2>1. stack[th] # <<>> /\ Top(th).at \in {"body", "cancelled"}
    BY <1>12 DEF BodyReturns, BodyThrows, At, Top
  <2>2. Top(th).task \in Tasks /\ Top(th).gen \in Nat /\ phase[Top(th).task] = "Running"
    BY <2>1, TopFrame, TopHas DEF Stage, Told
  <2> DEFINE g == ForPermit("callback", Permit(Top(th)), {})
  <2>3. g \in Frames /\ Sound(g, phase, generation)
    BY <2>2 DEF ForPermit, Permit, Frame, Frames, Permits, Sound, FramePermits
  <2>4. /\ Goto(th, g) /\ UNCHANGED <<id, phase, generation, queue>>
        /\ pendingBodies' \subseteq pendingBodies
        /\ \A t \in Tasks : body'[t] = body[t] \/ phase[t] \in {"Running", "Finished"}
    BY <1>12, <2>2 DEF BodyReturns, BodyThrows, ReleaseBody, TypeOK
  <2> HIDE DEF g
  <2> QED
    BY <2>1, <2>3, <2>4, CallKeepsBodies
<1>13. CASE Finish(th)
  <2> DEFINE t == Top(th).task
             g == Dispatching(Issued)
             frames == {g}
  <2>1. stack[th] # <<>> /\ t \in Tasks
    BY <1>13, TopFrame DEF Finish, At, Top
  <2>2. CASE Crash("assert")
    BY <1>2, <2>1, <2>2 DEF Crash
  <2>3. CASE /\ RemoveAsserts({t}) /\ RemoveLocked({t}) /\ Goto(th, g)
             /\ UNCHANGED <<nextId, id, keys, bodyVars, restVars, told>>
    <3>1. {t} \in SUBSET Tasks
      BY <2>1
    <3>2. /\ Issued \in SUBSET Permits /\ \A u \in Tasks : Forward(u) /\ BodyStays(u)
          /\ \A d \in Issued : Fresh(d, phase', generation')
      BY <2>3, <3>1, RemoveTyped, RemovalGoesForward
    <3>3. g \in Frames /\ Sound(g, phase', generation')
      BY <3>2 DEF Dispatching, Frame, Frames, Sound, FramePermits
    <3>4. Within' \subseteq Within \cup frames
      BY <2>1, <2>3, <3>3, NewCall
    <3>5. /\ \A h \in frames : Sound(h, phase', generation')
          /\ \A d \in queue' : d \in queue
          /\ \A u \in pendingBodies' : u \in pendingBodies
      BY <2>3, <3>3
    <3> HIDE DEF frames
    <3> QED
      BY <3>2, <3>4, <3>5, KeepsBodies
  <2> QED
    BY <1>13, <2>2, <2>3 DEF Finish
<1>14. CASE StopWorkers(th)
  <2> DEFINE g == Frame("draining", None, 0, {}, {})
  <2>1. stack[th] # <<>> /\ Goto(th, g) /\ kept
    BY <1>14 DEF StopWorkers, At, OnlyStack
  <2>2. g \in Frames /\ Sound(g, phase, generation)
    BY DEF Frame, Frames, Sound, FramePermits
  <2> HIDE DEF g
  <2> QED
    BY <1>1, <2>1, <2>2
<1>15. CASE Closed(th)
  <2>1. /\ stack[th] # <<>> /\ Return(th) /\ UNCHANGED <<id, phase, generation, queue>>
        /\ pendingBodies' \subseteq pendingBodies
        /\ \A t \in Tasks : body'[t] = body[t] \/ t \in pendingBodies
    BY <1>15 DEF Closed, At
  <2>2. \A t \in Tasks : body'[t] = body[t] \/ phase[t] \in {"Running", "Finished"}
    BY <2>1 DEF BodiesKept
  <2> QED
    BY <2>1, <2>2, TopSound, TopFrame, CallKeepsBodies
<1> QED
    BY <1>3, <1>4, <1>5, <1>6, <1>7, <1>8, <1>9, <1>10, <1>11, <1>12, <1>13, <1>14, <1>15
       DEF Proceed

\* ... and so does every call of the public interface.
LEMMA CallsKeepBodies ==
    ASSUME Uniform, TypeOK, TypeOK', RegionInv, BodiesKept, NEW th \in Threads, Call(th)
    PROVE  BodiesKept'
<1> DEFINE h == Frame("closing", None, 0, {}, {})
<1>1. h \in Frames /\ Sound(h, phase, generation) /\ h.at # "revoke"
    BY DEF Frame, Frames, Sound, FramePermits
<1>2. ASSUME NEW selected \in SUBSET Tasks, NEW stop \in BOOLEAN,
             CancelLocked(th, selected, stop, stack[th])
      PROVE  BodiesKept'
  <2> DEFINE below == stack[th]
  <2>1. below = stack[th] /\ CancelLocked(th, selected, stop, below)
    BY <1>2
  <2> HIDE DEF h, below
  <2> QED
    BY <1>1, <2>1, CancelKeepsBodies
<1>3. ASSUME NEW t \in Tasks, Cancel(th, t)
      PROVE  BodiesKept'
    BY <1>2, <1>3, {t} \in SUBSET Tasks DEF Cancel
<1>4. CASE Prune(th)
    BY <1>2, <1>4, {t \in Tasks : abort[t]} \in SUBSET Tasks DEF Prune
<1>5. CASE Shutdown(th)
  <2> DEFINE below == <<h>>
  <2>1. stack[th] = <<>> /\ CancelLocked(th, Tasks, TRUE, below)
    BY <1>5 DEF Shutdown
  <2>2. <<h>> \o <<>> = <<h>>
    OBVIOUS
  <2>3. below = <<h>> \o stack[th]
    BY <2>1, <2>2
  <2> HIDE DEF h, below
  <2> QED
    BY <1>1, <2>1, <2>3, CancelKeepsBodies
<1>6. CASE StopPool(th)
  <2> DEFINE g == Frame("stopping", None, 0, {}, {})
  <2>1. g \in Frames /\ Sound(g, phase, generation)
    BY DEF Frame, Frames, Sound, FramePermits
  <2>2. Push(th, g) /\ UNCHANGED <<id, phase, generation, pendingBodies, body, queue>>
    BY <1>6 DEF StopPool, lockVars, taskVars, bodyVars
  <2> HIDE DEF g
  <2> QED
    BY <2>1, <2>2, CallKeepsBodies
<1>7. ASSUME NEW t \in Tasks, SubmitRefused(th, t)
      PROVE  BodiesKept'
  <2>1. /\ UNCHANGED <<stack, id, phase, generation, pendingBodies, queue>>
        /\ body[t] = "unborn" /\ body' = [body EXCEPT ![t] = "released"]
    BY <1>7 DEF SubmitRefused, lockVars, taskVars, poolVars
  <2>2. \A u \in Tasks : body'[u] = body[u] \/ id[u] = 0
    BY <2>1 DEF RegionInv, IdsUnique, TypeOK
  <2> HIDE DEF h
  <2> QED
    BY <1>1, <2>1, <2>2, CallKeepsBodies
<1>8. ASSUME NEW t \in Tasks, Submit(th, t)
      PROVE  BodiesKept'
  <2> DEFINE own == IF abort[t] THEN {} ELSE Region[t]
             g == Dispatching(Issued)
             frames == {g}
  <2>1. /\ AddLocked(t, own) /\ own \in SUBSET Keys /\ Push(th, g)
        /\ body[t] = "unborn" /\ id' = [id EXCEPT ![t] = nextId]
        /\ body' = [body EXCEPT ![t] = "held"] /\ UNCHANGED <<pendingBodies, queue>>
    BY <1>8, SchedulerAssumption DEF Submit, restVars, poolVars
  <2>2. id[t] = 0 /\ phase[t] = "Waiting"
    BY <2>1 DEF RegionInv, IdsUnique
  <2>3. \A p \in Tasks : Lost(p, Taken(t, own)) = {}
    BY <2>1, NobodyOvertaken
  <2>4. Issued \in SUBSET Permits
    BY <2>1, AddTyped
  <2>5. \A p \in Tasks \ {t} : phase'[p] = phase[p] /\ generation'[p] = generation[p]
    BY <2>1, <2>3 DEF AddLocked
  <2>6. \A p \in Tasks \ {t} : id'[p] = id[p] /\ body'[p] = body[p]
    BY <2>1 DEF TypeOK
  <2>7. body'[t] = "held"
    BY <2>1 DEF TypeOK
  <2>8. \A p \in Tasks : Forward(p)
    BY <2>2, <2>5 DEF Forward
  <2>9. \A p \in Tasks : BodyStays(p)
    BY <2>5, <2>6, <2>7 DEF BodyStays, Registered
  <2>10. g \in Frames /\ Sound(g, phase', generation')
    BY <2>4 DEF Issued, Fresh, Dispatching, Frame, Frames, Sound, FramePermits
  <2>11. Within' \subseteq Within \cup frames
    BY <2>1, <2>10, NewCall
  <2>12. /\ \A f \in frames : Sound(f, phase', generation')
         /\ \A d \in queue' : d \in queue
         /\ \A u \in pendingBodies' : u \in pendingBodies
    BY <2>1, <2>10
  <2> HIDE DEF frames
  <2> QED
    BY <2>8, <2>9, <2>11, <2>12, KeepsBodies
<1> QED
    BY <1>3, <1>4, <1>5, <1>6, <1>7, <1>8 DEF Call

LEMMA StepKeepsBodies ==
    ASSUME Uniform, TypeOK, TypeOK', RegionInv, SettleInv, BodiesKept, [Next]_vars
    PROVE  BodiesKept'
<1>1. ASSUME UNCHANGED <<stack, id, phase, generation, pendingBodies, body, queue>>
      PROVE  BodiesKept'
    BY <1>1 DEF BodiesKept, PermitsFresh, PendingKeepsBody, Registered, Within
<1>2. ASSUME NEW t \in Tasks, Abort(t)
      PROVE  BodiesKept'
    BY <1>1, <1>2 DEF Abort, lockVars, taskVars, bodyVars, poolVars
<1>3. CASE UNCHANGED vars
    BY <1>1, <1>3 DEF vars, lockVars, taskVars, bodyVars, restVars, poolVars
<1> QED
    BY <1>2, <1>3, ProceedKeepsBodies, CallsKeepBodies DEF Next

LEMMA InitKeepsBodies == Init => BodiesKept
<1> SUFFICES ASSUME Init
             PROVE  BodiesKept
    OBVIOUS
<1>1. \A th \in Threads : Calling!Inside(stack[th]) = {}
    BY DEF Init, Calling!Inside
<1>2. Within = {}
    BY <1>1 DEF Within, Calling!Within
<1> QED
    BY <1>2 DEF Init, BodiesKept, PermitsFresh, PendingKeepsBody, Registered

\* With one priority for all tasks no permit is revoked, and so no body is reset while
\* its task still waits for its turn: whatever is cancelled or executed has its body.
THEOREM WaitingTasksKeepBodies ==
    ASSUME Uniform
    PROVE  Spec => []PendingKeepsBody
<1>1. Init => BodiesKept
    BY InitKeepsBodies
<1>2. TypeOK /\ TypeOK' /\ RegionInv /\ SettleInv /\ BodiesKept /\ [Next]_vars => BodiesKept'
    BY StepKeepsBodies
<1>3. BodiesKept => PendingKeepsBody
    BY DEF BodiesKept
<1> QED
    BY <1>1, <1>2, <1>3, TypeCorrect, RegionInvariant, SettlingInvariant, PTL DEF Spec

-----------------------------------------------------------------------------
(* Assertions.                                                             *)

\* A task whose callback runs has no body any more.
CalledBackBare == \A f \in Within : f.at = "callback" => body[f.task] = "released"

AssertInv == CalledBackBare /\ crashed # "assert"

\* No body comes back.
LEMMA BodiesStayGone ==
    ASSUME TypeOK, [Next]_vars, NEW t \in Tasks, body[t] = "released"
    PROVE  body'[t] = "released"
<1> USE DEF bodyVars
<1>1. ASSUME NEW th, NEW selected, NEW stop, NEW below, CancelLocked(th, selected, stop, below)
      PROVE  UNCHANGED body
    BY <1>1 DEF CancelLocked
<1>2. ASSUME NEW th \in Threads, Call(th)
      PROVE  body'[t] = "released"
    BY <1>1, <1>2 DEF Call, Submit, SubmitRefused, Cancel, Prune, Shutdown, StopPool, TypeOK
<1>3. ASSUME NEW th \in Threads, Proceed(th)
      PROVE  body'[t] = "released"
  <2>1. CASE \/ SettleCancelBody(th) \/ SettleDone(th) \/ DispatchCheck(th) \/ DispatchDone(th)
             \/ HandOver(th) \/ Take(th) \/ ClaimFails(th) \/ BodyThrows(th) \/ StopWorkers(th)
             \/ Drain(th) \/ Joined(th) \/ Finish(th) \/ Execute(th) \/ OnCancel(th)
    BY <2>1 DEF SettleCancelBody, SettleDone, DispatchCheck, DispatchDone, HandOver, Take,
                ClaimFails, BodyThrows, StopWorkers, Drain, Joined, Finish, Execute, OnCancel,
                Claim, Crash, OnlyStack
  <2>2. CASE PoolCheck(th) \/ HandOverRefused(th)
    BY <1>1, <2>2 DEF PoolCheck, HandOverRefused, OnlyStack
  <2>3. CASE Settled(th) \/ Revoke(th) \/ BodyReturns(th) \/ Closed(th)
    BY <2>3 DEF Settled, Revoke, BodyReturns, ReleaseBody, Closed, Crash, TypeOK
  <2> QED
    BY <1>3, <2>1, <2>2, <2>3 DEF Proceed
<1>4. CASE UNCHANGED vars
    BY <1>4 DEF vars
<1> QED
    BY <1>2, <1>3, <1>4 DEF Next, Abort

\* A task in somebody's hands is counted.
LEMMA Counted ==
    ASSUME TypeOK, SettleInv, NEW t \in Owned
    PROVE  outstanding # 0
<1>1. IsFiniteSet(InTable \cup Owned) /\ t \in InTable \cup Owned
    BY SchedulerAssumption, FS_Subset, HeldTasks DEF InTable
<1> QED
    BY <1>1, FS_EmptySet DEF SettleInv, CountOK

\* A cancellation passes the assertions of _removeLocked and calls nobody back yet.
LEMMA CancelAsserts ==
    ASSUME TypeOK, RegionInv, AssertInv, NEW th \in Threads, NEW selected \in SUBSET Tasks,
           NEW stop, NEW below, CancelLocked(th, selected, stop, below),
           NEW h \in Frames, h.at # "callback",
           \/ below = stack[th]
           \/ below = <<h>> \o stack[th]
           \/ stack[th] # <<>> /\ below \in {Tail(stack[th]), <<h>> \o Tail(stack[th])}
    PROVE  /\ crashed' # "assert"
           /\ \A f \in Within' : f.at = "callback" => f \in Within
<1> DEFINE gone == {t \in selected : Cancellable(t)}
           g == Settling(gone, Issued)
<1>1. gone \in SUBSET Tasks /\ RemoveAsserts(gone)
    BY RemovalPermitted DEF Cancellable
<1>2. RemoveLocked(gone) /\ stack' = [stack EXCEPT ![th] = <<g>> \o below] /\ UNCHANGED crashed
    BY <1>1 DEF CancelLocked
<1>3. Issued \in SUBSET Permits
    BY <1>1, <1>2, RemoveTyped
<1>4. g \in Frames /\ g.at # "callback"
    BY <1>1, <1>3 DEF Settling, Frame, Frames
<1> HIDE DEF g
<1>5. Within' \subseteq Within \cup {g, h}
    BY <1>2, <1>4, CancelCalls
<1> QED
    BY <1>2, <1>4, <1>5 DEF AssertInv

\* The assertions of a step of a thread inside a call; a callback starts with no body.
LEMMA ProceedAsserts ==
    ASSUME Throwing = {}, TypeOK, TypeOK', RegionInv, SettleInv, AssertInv, NEW th \in Threads,
           Proceed(th)
    PROVE  /\ crashed' # "assert"
           /\ \A f \in Within' : f.at = "callback" => f \in Within \/ body'[f.task] = "released"
<1> DEFINE okay ==
        /\ crashed' # "assert"
        /\ \A f \in Within' : f.at = "callback" => f \in Within \/ body'[f.task] = "released"
<1> USE DEF lockVars, taskVars, bodyVars, restVars, poolVars, told
<1>1. ASSUME NEW g \in Frames, UNCHANGED stack \/ Push(th, g)
                               \/ (stack[th] # <<>> /\ (Goto(th, g) \/ Return(th))),
             g.at # "callback", crashed' # "assert"
      PROVE  okay
  <2>1. Within' \subseteq Within \cup {g}
    BY <1>1, NewCall
  <2> QED
    BY <1>1, <2>1
<1> DEFINE idle == Frame("draining", None, 0, {}, {})
<1>2. idle \in Frames /\ idle.at # "callback"
    BY DEF Frame, Frames
<1>3. ASSUME UNCHANGED stack \/ (stack[th] # <<>> /\ Return(th)), crashed' # "assert"
      PROVE  okay
  <2> HIDE DEF idle
  <2> QED
    BY <1>1, <1>2, <1>3
<1>4. CASE SettleCancelBody(th) \/ SettleDone(th)
  <2>1. /\ stack[th] # <<>>
        /\ \/ UNCHANGED stack /\ crashed' = "body"
           \/ Goto(th, Dispatching(Top(th).ready)) /\ UNCHANGED crashed
           \/ /\ UNCHANGED crashed
              /\ \E t \in Top(th).batch :
                   Goto(th, Frame("settled", t, 0, Top(th).batch \ {t}, Top(th).ready))
    BY <1>4 DEF SettleCancelBody, SettleDone, At, Crash, OnlyStack
  <2>2. Top(th).batch \subseteq Tasks /\ Top(th).ready \in SUBSET Permits
    BY <2>1, TopFrame
  <2> DEFINE g == Dispatching(Top(th).ready)
             h(t) == Frame("settled", t, 0, Top(th).batch \ {t}, Top(th).ready)
  <2>3. g \in Frames /\ g.at # "callback"
    BY <2>2 DEF Dispatching, Frame, Frames
  <2>4. \A t \in Top(th).batch : h(t) \in Frames /\ h(t).at # "callback"
    BY <2>2 DEF Frame, Frames
  <2>5. ASSUME NEW t \in Top(th).batch, Goto(th, h(t)), UNCHANGED crashed
        PROVE  okay
    <3> HIDE DEF h
    <3> QED
      BY <1>1, <2>1, <2>4, <2>5 DEF AssertInv
  <2>6. CASE Goto(th, g) /\ UNCHANGED crashed
    <3> HIDE DEF g
    <3> QED
      BY <1>1, <2>1, <2>3, <2>6 DEF AssertInv
  <2> QED
    BY <1>3, <2>1, <2>5, <2>6
<1>5. CASE Settled(th)
  <2>1. stack[th] # <<>> /\ Top(th).at = "settled"
    BY <1>5 DEF Settled, At, Top
  <2>2. Top(th).task \in Owned
    BY <2>1, TopHas DEF Told
  <2>3. outstanding # 0
    BY <2>2, Counted
  <2> DEFINE g == Settling(Top(th).batch, Top(th).ready)
  <2>4. Goto(th, g) /\ UNCHANGED crashed
    BY <1>5, <2>3 DEF Settled
  <2>5. g \in Frames /\ g.at # "callback"
    BY <2>1, TopFrame DEF Settling, Frame, Frames
  <2> HIDE DEF g
  <2> QED
    BY <1>1, <2>1, <2>4, <2>5 DEF AssertInv
<1>6. CASE DispatchCheck(th)
  <2>1. stack[th] # <<>> /\ UNCHANGED crashed
    BY <1>6 DEF DispatchCheck, At, OnlyStack
  <2>2. PICK d \in Top(th).ready, at \in {"checked", "revoke"} :
          Goto(th, ForPermit(at, d, Top(th).ready \ {d}))
    BY <1>6 DEF DispatchCheck
  <2> DEFINE g == ForPermit(at, d, Top(th).ready \ {d})
  <2>3. g \in Frames /\ g.at # "callback"
    BY <2>1, <2>2, TopFrame DEF ForPermit, Frame, Frames, Permits
  <2>4. Goto(th, g)
    BY <2>2
  <2> HIDE DEF g
  <2> QED
    BY <1>1, <2>1, <2>3, <2>4 DEF AssertInv
<1>7. CASE PoolCheck(th) \/ HandOverRefused(th)
  <2>1. stack[th] # <<>> /\ Top(th).at \in {"checked", "submit"}
    BY <1>7 DEF PoolCheck, HandOverRefused, At, Top
  <2>2. Top(th).ready \in SUBSET Permits /\ Permit(Top(th)) \in Permits
    BY <2>1, TopFrame DEF Permit, Permits
  <2> DEFINE g == ForPermit("submit", Permit(Top(th)), Top(th).ready)
             h == Dispatching(Top(th).ready)
             tail == Tail(stack[th])
             more == <<h>> \o Tail(stack[th])
  <2>3. g \in Frames /\ g.at # "callback" /\ h \in Frames /\ h.at # "callback"
    BY <2>2 DEF ForPermit, Permit, Dispatching, Frame, Frames, Permits
  <2>4. \/ Goto(th, g) /\ UNCHANGED crashed
        \/ CancelLocked(th, Tasks, TRUE, tail)
        \/ CancelLocked(th, Tasks, TRUE, more)
    BY <1>7 DEF PoolCheck, HandOverRefused, OnlyStack
  <2>5. CASE Goto(th, g) /\ UNCHANGED crashed
    <3> HIDE DEF g
    <3> QED
      BY <1>1, <2>1, <2>3, <2>5 DEF AssertInv
  <2>6. ASSUME NEW below \in {tail, more}, CancelLocked(th, Tasks, TRUE, below)
        PROVE  okay
    <3>1. stack[th] # <<>> /\ below \in {Tail(stack[th]), <<h>> \o Tail(stack[th])}
      BY <2>1, <2>6
    <3> HIDE DEF h, tail, more
    <3> QED
      BY <2>3, <2>6, <3>1, CancelAsserts
  <2> QED
    BY <2>4, <2>5, <2>6
<1>8. CASE DispatchDone(th) \/ Joined(th) \/ Closed(th)
    BY <1>3, <1>8 DEF DispatchDone, Joined, Closed, At, OnlyStack, AssertInv
<1>9. CASE Revoke(th) \/ HandOver(th)
  <2>1. stack[th] # <<>> /\ Goto(th, Dispatching(Top(th).ready)) /\ crashed' # "assert"
    BY <1>9 DEF Revoke, HandOver, At, AssertInv
  <2> DEFINE g == Dispatching(Top(th).ready)
  <2>2. g \in Frames /\ g.at # "callback"
    BY <2>1, TopFrame DEF Dispatching, Frame, Frames
  <2> HIDE DEF g
  <2> QED
    BY <1>1, <2>1, <2>2 DEF g
<1>10. CASE Take(th) \/ Drain(th)
  <2>1. PICK d \in queue, at \in {"execute", "onCancel"} : Push(th, ForPermit(at, d, {}))
    BY <1>10 DEF Take, Drain
  <2> DEFINE g == ForPermit(at, d, {})
  <2>2. g \in Frames /\ g.at # "callback" /\ Push(th, g)
    BY <2>1 DEF ForPermit, Frame, Frames, Permits, TypeOK
  <2>3. UNCHANGED crashed
    BY <1>10 DEF Take, Drain
  <2> HIDE DEF g
  <2> QED
    BY <1>1, <2>2, <2>3 DEF AssertInv
<1>11. CASE Execute(th) \/ OnCancel(th)
  <2>1. PICK place \in {"body", "cancelled"} : Claim(th, place)
    BY <1>11 DEF Execute, OnCancel
  <2>2. stack[th] # <<>> /\ Top(th).at \in {"execute", "onCancel"}
    BY <1>11 DEF Execute, OnCancel, At, Top
  <2>3. Top(th).task \in Tasks /\ Top(th).gen \in Nat
    BY <2>2, TopFrame
  <2>4. ClaimAsserts(Top(th).task)
    BY <2>1, <2>3, PermitClaims DEF Claim, Valid, Permit
  <2> DEFINE g == ForPermit(place, Permit(Top(th)), {})
  <2>5. g \in Frames /\ g.at # "callback"
    BY <2>3 DEF ForPermit, Permit, Frame, Frames
  <2>6. CASE body[Top(th).task] = "released"
    <3>1. Crash("body")
      BY <2>1, <2>4, <2>6 DEF Claim
    <3> QED
      BY <1>3, <3>1 DEF Crash
  <2>7. CASE body[Top(th).task] # "released"
    <3>1. Goto(th, g) /\ UNCHANGED restVars
      BY <2>1, <2>4, <2>7 DEF Claim
    <3> HIDE DEF g
    <3> QED
      BY <1>1, <2>2, <2>5, <3>1 DEF AssertInv
  <2> QED
    BY <2>6, <2>7
<1>12. CASE ClaimFails(th)
  <2>1. stack[th] # <<>> /\ Top(th).at \in {"execute", "onCancel"} /\ UNCHANGED crashed
    BY <1>12 DEF ClaimFails, At, Top, OnlyStack
  <2> DEFINE g == ForPermit("onCancel", Permit(Top(th)), {})
  <2>2. g \in Frames /\ g.at # "callback"
    BY <2>1, TopFrame DEF ForPermit, Permit, Frame, Frames
  <2>3. Return(th) \/ Goto(th, g)
    BY <1>12 DEF ClaimFails
  <2> HIDE DEF g
  <2> QED
    BY <1>1, <2>1, <2>2, <2>3 DEF AssertInv
<1>13. CASE BodyReturns(th) \/ BodyThrows(th)
  <2>1. BodyReturns(th) /\ stack[th] # <<>> /\ Top(th).at \in {"body", "cancelled"}
    BY <1>13 DEF BodyReturns, BodyThrows, At, Top
  <2>2. Top(th).task \in Tasks /\ Top(th).gen \in Nat
    BY <2>1, TopFrame
  <2> DEFINE g == ForPermit("callback", Permit(Top(th)), {})
  <2>3. g \in Frames /\ g.task = Top(th).task
    BY <2>2 DEF ForPermit, Permit, Frame, Frames
  <2>4. body'[Top(th).task] = "released" /\ UNCHANGED crashed
    BY <2>1, <2>2 DEF BodyReturns, ReleaseBody, TypeOK
  <2>5. Goto(th, g)
    BY <2>1 DEF BodyReturns
  <2> HIDE DEF g
  <2>6. Within' \subseteq Within \cup {g}
    BY <2>1, <2>3, <2>5, NewCall
  <2> QED
    BY <2>3, <2>4, <2>6 DEF AssertInv
<1>14. CASE Finish(th)
  <2> DEFINE t == Top(th).task
             g == Dispatching(Issued)
  <2>1. stack[th] # <<>> /\ Top(th).at = "callback"
    BY <1>14 DEF Finish, At, Top
  <2>2. /\ t \in Tasks /\ t \in Owned /\ phase[t] = "Running" /\ id[t] # 0 /\ Top(th) \in Within
    BY <2>1, TopFrame, TopHas DEF Stage, Told
  <2>3. body[t] = "released"
    BY <2>1, <2>2 DEF AssertInv, CalledBackBare
  <2>4. {t} \in SUBSET Tasks /\ RemoveAsserts({t})
    BY <2>2, RemovalPermitted DEF Registered
  <2>5. outstanding # 0
    BY <2>2, Counted
  <2>6. Goto(th, g) /\ RemoveLocked({t}) /\ UNCHANGED crashed
    BY <1>14, <2>2, <2>3, <2>4, <2>5 DEF Finish
  <2>7. Issued \in SUBSET Permits
    BY <2>4, <2>6, RemoveTyped
  <2>8. g \in Frames /\ g.at # "callback"
    BY <2>7 DEF Dispatching, Frame, Frames
  <2> HIDE DEF g, t
  <2> QED
    BY <1>1, <2>1, <2>6, <2>8 DEF AssertInv
<1>15. CASE StopWorkers(th)
  <2>1. stack[th] # <<>> /\ Goto(th, idle) /\ UNCHANGED crashed
    BY <1>15 DEF StopWorkers, At, OnlyStack
  <2> HIDE DEF idle
  <2> QED
    BY <1>1, <1>2, <2>1 DEF AssertInv
<1> QED
    BY <1>4, <1>5, <1>6, <1>7, <1>8, <1>9, <1>10, <1>11, <1>12, <1>13, <1>14, <1>15 DEF Proceed

\* ... and so does every call of the public interface.
LEMMA CallAsserts ==
    ASSUME TypeOK, RegionInv, AssertInv, NEW th \in Threads, Call(th)
    PROVE  /\ crashed' # "assert"
           /\ \A f \in Within' : f.at = "callback" => f \in Within
<1> DEFINE okay ==
        /\ crashed' # "assert"
        /\ \A f \in Within' : f.at = "callback" => f \in Within
<1> DEFINE h == Frame("closing", None, 0, {}, {})
<1>1. h \in Frames /\ h.at # "callback"
    BY DEF Frame, Frames
<1>2. ASSUME NEW g \in Frames, UNCHANGED stack \/ Push(th, g), g.at # "callback",
             UNCHANGED crashed
      PROVE  okay
  <2>1. Within' \subseteq Within \cup {g}
    BY <1>2, NewCall
  <2> QED
    BY <1>2, <2>1 DEF AssertInv
<1>3. ASSUME NEW selected \in SUBSET Tasks, NEW stop \in BOOLEAN,
             CancelLocked(th, selected, stop, stack[th])
      PROVE  okay
  <2> DEFINE below == stack[th]
  <2>1. below = stack[th] /\ CancelLocked(th, selected, stop, below)
    BY <1>3
  <2> HIDE DEF h, below
  <2> QED
    BY <1>1, <2>1, CancelAsserts
<1>4. CASE \E t \in Tasks : Cancel(th, t)
    BY <1>3, <1>4, \A t \in Tasks : {t} \in SUBSET Tasks DEF Cancel
<1>5. CASE Prune(th)
    BY <1>3, <1>5, {t \in Tasks : abort[t]} \in SUBSET Tasks DEF Prune
<1>6. CASE Shutdown(th)
  <2> DEFINE below == <<h>>
  <2>1. stack[th] = <<>> /\ CancelLocked(th, Tasks, TRUE, below)
    BY <1>6 DEF Shutdown
  <2>2. <<h>> \o <<>> = <<h>>
    OBVIOUS
  <2>3. below = <<h>> \o stack[th]
    BY <2>1, <2>2
  <2> HIDE DEF h, below
  <2> QED
    BY <1>1, <2>1, <2>3, CancelAsserts
<1>7. CASE StopPool(th)
  <2> DEFINE g == Frame("stopping", None, 0, {}, {})
  <2>1. g \in Frames /\ g.at # "callback"
    BY DEF Frame, Frames
  <2>2. Push(th, g) /\ UNCHANGED crashed
    BY <1>7 DEF StopPool
  <2> HIDE DEF g
  <2> QED
    BY <1>2, <2>1, <2>2
<1>8. CASE \E t \in Tasks : SubmitRefused(th, t)
  <2> HIDE DEF h
  <2> QED
    BY <1>1, <1>2, <1>8 DEF SubmitRefused
<1>9. ASSUME NEW t \in Tasks, Submit(th, t)
      PROVE  okay
  <2> DEFINE own == IF abort[t] THEN {} ELSE Region[t]
             g == Dispatching(Issued)
  <2>1. AddLocked(t, own) /\ own \in SUBSET Keys /\ Push(th, g) /\ UNCHANGED crashed
    BY <1>9, SchedulerAssumption DEF Submit, restVars
  <2>2. Issued \in SUBSET Permits
    BY <2>1, AddTyped
  <2>3. g \in Frames /\ g.at # "callback"
    BY <2>2 DEF Dispatching, Frame, Frames
  <2> HIDE DEF g
  <2> QED
    BY <1>2, <2>1, <2>3
<1> QED
    BY <1>4, <1>5, <1>6, <1>7, <1>8, <1>9 DEF Call

LEMMA StepAsserts ==
    ASSUME Throwing = {}, TypeOK, TypeOK', RegionInv, SettleInv, AssertInv, [Next]_vars
    PROVE  AssertInv'
<1>1. ASSUME crashed' # "assert",
             \A f \in Within' : f.at = "callback" => f \in Within \/ body'[f.task] = "released"
      PROVE  AssertInv'
  <2> SUFFICES ASSUME NEW f \in Within', f.at = "callback", f \in Within
               PROVE  body'[f.task] = "released"
    BY <1>1 DEF AssertInv, CalledBackBare
  <2>1. f.task \in Has(f)
    BY DEF Has, Told
  <2>2. f.task \in Tasks
    BY <2>1, HeldTasks
  <2> QED
    BY <2>2, BodiesStayGone DEF AssertInv, CalledBackBare
<1>2. ASSUME UNCHANGED <<stack, crashed>>
      PROVE  AssertInv'
    BY <1>1, <1>2 DEF AssertInv, Within
<1>3. ASSUME NEW t \in Tasks, Abort(t)
      PROVE  AssertInv'
    BY <1>2, <1>3 DEF Abort
<1>4. CASE UNCHANGED vars
    BY <1>2, <1>4 DEF vars, restVars
<1>5. ASSUME NEW th \in Threads, Proceed(th)
      PROVE  AssertInv'
    BY <1>1, <1>5, ProceedAsserts
<1>6. ASSUME NEW th \in Threads, Call(th)
      PROVE  AssertInv'
    BY <1>1, <1>6, CallAsserts
<1> QED
    BY <1>3, <1>4, <1>5, <1>6 DEF Next

\* When no task body throws, none of the MC_ASSERT_RELEASE of the scheduler fires: those
\* of _removeLocked, of _claim, of _finish and of _cancelPending.
THEOREM NoAssertionFires ==
    ASSUME Throwing = {}
    PROVE  Spec => []AssertionsHold
<1>1. Init => AssertInv
  <2> SUFFICES ASSUME Init
               PROVE  AssertInv
    OBVIOUS
  <2>1. \A th \in Threads : Calling!Inside(stack[th]) = {}
    BY DEF Init, Calling!Inside
  <2>2. Within = {}
    BY <2>1 DEF Within, Calling!Within
  <2> QED
    BY <2>2 DEF Init, AssertInv, CalledBackBare
<1>2. TypeOK /\ TypeOK' /\ RegionInv /\ SettleInv /\ AssertInv /\ [Next]_vars => AssertInv'
    BY StepAsserts
<1>3. AssertInv => AssertionsHold
    BY DEF AssertInv, AssertionsHold
<1> QED
    BY <1>1, <1>2, <1>3, TypeCorrect, RegionInvariant, SettlingInvariant, PTL DEF Spec

-----------------------------------------------------------------------------
(* No permit is lost: the permits under way, in the calls and in the       *)
(* pool's queue.                                                           *)

Carrying == INSTANCE CallStacks WITH Held <- FramePermits

Carried == Carrying!AllHeld(stack)
UnderWay == Carried \cup queue

\* Only what dispatches, or will, has permits left to look at; the one in its hands is not
\* among them.
Lean(f) ==
    /\ f.at \notin {"dispatch", "settle", "settled", "revoke", "checked", "submit"} => f.ready = {}
    /\ f.at \in {"checked", "submit"} => Permit(f) \notin f.ready

\* A permit is in one place, no permit is of a generation to come, and that of a scheduled
\* task is under way.
PermitsApart ==
    /\ Carrying!AllApart(stack) /\ Carried \cap queue = {}
    /\ \A f \in Carrying!Within(stack) : Lean(f)
PermitsPast == \A d \in UnderWay : d[2] <= generation[d[1]]
PermitsOut == \A t \in Tasks : phase[t] = "Scheduled" => <<t, generation[t]>> \in UnderWay

\* A waiting task waits for somebody.
WaitersBlocked == \A t \in Tasks : Registered(t) /\ phase[t] = "Waiting" => waiting[t] > 0

PermitInv == PermitsApart /\ PermitsPast /\ PermitsOut /\ WaitersBlocked

\* What is carried are permits, of the calls the threads are in.
LEMMA CarriedPermits ==
    ASSUME TypeOK
    PROVE  /\ \A f \in Frames : FramePermits(f) \subseteq Permits
           /\ Carrying!Within(stack) \subseteq Frames /\ Carried \subseteq Permits
           /\ UnderWay \subseteq Permits
<1>1. \A f \in Frames : FramePermits(f) \subseteq Permits
    BY DEF Frames, FramePermits, Permit, Permits
<1>2. Carrying!Within(stack) \subseteq Frames
  <2>1. ASSUME NEW th \in Threads
        PROVE  Carrying!Inside(stack[th]) \subseteq Frames
    BY DEF TypeOK, Carrying!Inside
  <2> QED
    BY <2>1 DEF Carrying!Within
<1>3. \A d \in Carried : \E f \in Carrying!Within(stack) : d \in FramePermits(f)
    BY Carrying!HeldWithin DEF Carried
<1>4. Carried \subseteq Permits
    BY <1>1, <1>2, <1>3
<1> QED
    BY <1>1, <1>2, <1>4 DEF UnderWay, TypeOK

\* Permits change hands; one that is dropped is not valid afterwards.
LEMMA PermitsMove ==
    ASSUME TypeOK, TypeOK', PermitInv, NEW gone, NEW frames \in SUBSET Frames,
           Carrying!Moved(stack, stack', gone, frames), \A g \in frames : Lean(g),
           gone \subseteq Carried, Carrying!Of(frames) \subseteq gone \cup queue,
           queue' \subseteq queue \cup gone, Carrying!Of(frames) \cap queue' = {},
           queue \subseteq queue' \cup Carrying!Of(frames),
           \A d \in gone : d \in Carrying!Of(frames) \cup queue' \/ ~Valid(d)',
           UNCHANGED <<id, generation, waiting>>,
           \A t \in Tasks : phase'[t] = phase[t] \/ phase'[t] \in {"Running", "Finished"}
    PROVE  PermitInv'
<1> DEFINE new == Carrying!Of(frames)
<1>1. /\ Carrying!AllApart(stack') /\ Carried' = (Carried \ gone) \cup new
      /\ \A f \in Carrying!Within(stack') : f \in frames \/ f \in Carrying!Within(stack)
    BY DEF Carrying!Moved, Carried
<1> HIDE DEF new
<1>2. Carried \cap queue = {} /\ \A f \in Carrying!Within(stack) : Lean(f)
    BY DEF PermitInv, PermitsApart
<1>3. Carried' \cap queue' = {} /\ UnderWay' \subseteq UnderWay
    BY <1>1, <1>2 DEF UnderWay, new
<1>4. \A d \in UnderWay : d \in UnderWay' \/ ~Valid(d)'
    BY <1>1, <1>2 DEF UnderWay, new
<1>5. PermitsApart'
    BY <1>1, <1>2, <1>3 DEF PermitsApart
<1>6. PermitsPast'
    BY <1>3 DEF PermitInv, PermitsPast
<1>7. PermitsOut'
  <2> SUFFICES ASSUME NEW t \in Tasks, phase'[t] = "Scheduled"
               PROVE  <<t, generation'[t]>> \in UnderWay'
    BY DEF PermitsOut
  <2>1. phase[t] = "Scheduled" /\ generation'[t] = generation[t]
    OBVIOUS
  <2>2. <<t, generation[t]>> \in UnderWay
    BY <2>1 DEF PermitInv, PermitsOut
  <2>3. Valid(<<t, generation[t]>>)'
    BY <2>1 DEF Valid
  <2> QED
    BY <1>4, <2>1, <2>2, <2>3
<1>8. WaitersBlocked'
    BY DEF PermitInv, WaitersBlocked, Registered, TypeOK
<1> QED
    BY <1>5, <1>6, <1>7, <1>8 DEF PermitInv

\* The moves of a thread, as exchanges of calls and of their permits.
LEMMA CarryingMoves ==
    ASSUME TypeOK, PermitInv, NEW th \in Threads, NEW g \in Frames
    PROVE  /\ UNCHANGED stack => Carrying!Moved(stack, stack', {}, {})
           /\ Push(th, g) /\ FramePermits(g) \cap Carried = {}
                => Carrying!Moved(stack, stack', {}, {g})
           /\ (stack[th] # <<>> /\ Goto(th, g)
                 /\ FramePermits(g) \cap Carried \subseteq FramePermits(Top(th)))
                 => Carrying!Moved(stack, stack', FramePermits(Top(th)), {g})
           /\ stack[th] # <<>> /\ Return(th)
                => Carrying!Moved(stack, stack', FramePermits(Top(th)), {})
           /\ stack[th] # <<>> => /\ FramePermits(Top(th)) \subseteq Carried /\ Top(th) \in Frames
                                  /\ Lean(Top(th))
           /\ Carrying!Of({g}) = FramePermits(g) /\ Carrying!Of({}) = {}
<1>1. stack \in [Threads -> Seq(Frames)] /\ Carrying!AllApart(stack)
    BY DEF TypeOK, PermitInv, PermitsApart
<1>2. UNCHANGED stack => Carrying!Moved(stack, stack', {}, {})
    BY <1>1 DEF Carrying!Moved, Carrying!Of
<1>3. Push(th, g) /\ FramePermits(g) \cap Carried = {} => Carrying!Moved(stack, stack', {}, {g})
    BY <1>1, Carrying!Entered DEF Push, Carried
<1>4. (stack[th] # <<>> /\ Goto(th, g)
         /\ FramePermits(g) \cap Carried \subseteq FramePermits(Top(th)))
         => Carrying!Moved(stack, stack', FramePermits(Top(th)), {g})
  <2> SUFFICES ASSUME stack[th] # <<>>, Goto(th, g),
                      FramePermits(g) \cap Carried \subseteq FramePermits(Top(th))
               PROVE  Carrying!Moved(stack, stack', FramePermits(Top(th)), {g})
    OBVIOUS
  <2>1. FramePermits(g) \cap Carrying!AllHeld(stack) \subseteq FramePermits(Head(stack[th]))
    BY DEF Carried, Top
  <2>2. stack' = [stack EXCEPT ![th] = <<g>> \o Tail(stack[th])]
    BY DEF Goto
  <2>3. Carrying!Moved(stack, stack', FramePermits(Head(stack[th])), {g})
    BY <1>1, <2>1, <2>2, Carrying!WentOn
  <2> QED
    BY <2>3 DEF Top
<1>5. stack[th] # <<>> /\ Return(th) => Carrying!Moved(stack, stack', FramePermits(Top(th)), {})
    BY <1>1, Carrying!Returned DEF Return, Top
<1>6. stack[th] # <<>> => /\ FramePermits(Top(th)) \subseteq Carried /\ Top(th) \in Frames
                          /\ Top(th) \in Carrying!Within(stack)
    BY <1>1, Carrying!Innermore DEF Carried, Top
<1>7. stack[th] # <<>> => Lean(Top(th))
    BY <1>6 DEF PermitInv, PermitsApart
<1>8. Carrying!Of({g}) = FramePermits(g) /\ Carrying!Of({}) = {}
    BY DEF Carrying!Of
<1> QED
    BY <1>2, <1>3, <1>4, <1>5, <1>6, <1>7, <1>8

\* Whoever does something else than handing over: its permits stay, but for invalid ones.
LEMMA PermitsKept ==
    ASSUME TypeOK, TypeOK', PermitInv, NEW th \in Threads, NEW g \in Frames,
           \/ UNCHANGED stack
           \/ Push(th, g) /\ FramePermits(g) = {} /\ Lean(g)
           \/ /\ stack[th] # <<>> /\ Goto(th, g) /\ Lean(g)
              /\ FramePermits(g) \subseteq FramePermits(Top(th))
              /\ \A d \in FramePermits(Top(th)) : d \in FramePermits(g) \/ ~Valid(d)'
           \/ stack[th] # <<>> /\ Return(th) /\ \A d \in FramePermits(Top(th)) : ~Valid(d)',
           UNCHANGED <<id, generation, waiting, queue>>,
           \A t \in Tasks : phase'[t] = phase[t] \/ phase'[t] \in {"Running", "Finished"}
    PROVE  PermitInv'
<1> DEFINE none == {}
           one == {g}
           mine == FramePermits(Top(th))
<1>1. /\ none \in SUBSET Frames /\ one \in SUBSET Frames /\ \A h \in none : Lean(h)
      /\ Carrying!Of(one) = FramePermits(g) /\ Carrying!Of(none) = {} /\ Carried \cap queue = {}
      /\ none = {}
    BY CarryingMoves DEF PermitInv, PermitsApart
<1>2. CASE UNCHANGED stack
  <2>1. Carrying!Moved(stack, stack', none, none)
    BY <1>2, CarryingMoves
  <2> HIDE DEF none
  <2> QED
    BY <1>1, <2>1, PermitsMove
<1>3. CASE Push(th, g) /\ FramePermits(g) = {} /\ Lean(g)
  <2>1. Carrying!Moved(stack, stack', none, one) /\ \A h \in one : Lean(h)
    BY <1>3, CarryingMoves
  <2> HIDE DEF none, one
  <2> QED
    BY <1>1, <1>3, <2>1, PermitsMove
<1>4. CASE /\ stack[th] # <<>> /\ Goto(th, g) /\ Lean(g)
           /\ FramePermits(g) \subseteq FramePermits(Top(th))
           /\ \A d \in FramePermits(Top(th)) : d \in FramePermits(g) \/ ~Valid(d)'
  <2>1. /\ Carrying!Moved(stack, stack', mine, one) /\ \A h \in one : Lean(h)
        /\ mine \subseteq Carried
    BY <1>4, CarryingMoves
  <2>2. /\ \A d \in mine : d \in FramePermits(g) \/ ~Valid(d)'
        /\ FramePermits(g) \subseteq mine
    BY <1>4
  <2> HIDE DEF one, mine
  <2> QED
    BY <1>1, <2>1, <2>2, PermitsMove
<1>5. CASE stack[th] # <<>> /\ Return(th) /\ \A d \in FramePermits(Top(th)) : ~Valid(d)'
  <2>1. Carrying!Moved(stack, stack', mine, none) /\ mine \subseteq Carried
    BY <1>5, CarryingMoves
  <2>2. \A d \in mine : ~Valid(d)'
    BY <1>5
  <2> HIDE DEF none, mine
  <2> QED
    BY <1>1, <2>1, <2>2, PermitsMove
<1> QED
    BY <1>2, <1>3, <1>4, <1>5

\* The permits of a thread's innermost call.
LEMMA TopPermits ==
    ASSUME TypeOK, PermitInv, NEW th \in Threads, stack[th] # <<>>
    PROVE  /\ Top(th).ready \in SUBSET Permits /\ Top(th).batch \in SUBSET Tasks
           /\ Lean(Top(th)) /\ FramePermits(Top(th)) \subseteq Carried
           /\ Top(th).at \in {"checked", "submit", "execute", "onCancel"} =>
                 FramePermits(Top(th)) = Top(th).ready \cup {Permit(Top(th))}
           /\ Top(th).at \notin {"checked", "submit", "execute", "onCancel"} =>
                 FramePermits(Top(th)) = Top(th).ready
           /\ Top(th).at \in {"revoke", "checked", "submit", "settled", "execute", "onCancel",
                              "body", "cancelled", "callback"} =>
                 Permit(Top(th)) \in Permits /\ Permit(Top(th))[1] = Top(th).task
           /\ Top(th).at \notin {"dispatch", "settle", "settled", "revoke", "checked", "submit"}
                 => Top(th).ready = {}
           /\ Top(th).at \in {"checked", "submit"} => Permit(Top(th)) \notin Top(th).ready
<1>1. Lean(Top(th)) /\ FramePermits(Top(th)) \subseteq Carried /\ Top(th) \in Frames
    BY CarryingMoves, TopFrame
<1> QED
    BY <1>1, TopFrame DEF Lean, FramePermits, Permit, Permits

\* _cancelPending and _dispatch look at one permit after the other.
LEMMA DispatchKeepsPermits ==
    ASSUME TypeOK, TypeOK', PermitInv, NEW th \in Threads,
           \/ SettleCancelBody(th) \/ Settled(th) \/ SettleDone(th) \/ DispatchCheck(th)
           \/ DispatchDone(th) \/ Revoke(th)
    PROVE  PermitInv'
<1> DEFINE still == UNCHANGED <<id, phase, generation, waiting, queue>>
           ready == Top(th).ready
           mine == FramePermits(Top(th))
<1> USE DEF lockVars, taskVars, restVars, poolVars
<1>1. /\ stack[th] # <<>>
      /\ Top(th).at \in {"settle", "settled", "dispatch", "revoke"}
    BY DEF SettleCancelBody, Settled, SettleDone, DispatchCheck, DispatchDone, Revoke, At, Top
<1>2. /\ ready \in SUBSET Permits /\ Top(th).batch \in SUBSET Tasks /\ mine = ready
      /\ Top(th).at = "settled" => Top(th).task \in Tasks
    BY <1>1, TopPermits, TopFrame
<1>3. ASSUME NEW g \in Frames, Goto(th, g), Lean(g), FramePermits(g) \subseteq ready, still,
             \A d \in ready : d \in FramePermits(g) \/ ~Valid(d)
      PROVE  PermitInv'
  <2>1. \A d \in ready : d \in FramePermits(g) \/ ~Valid(d)'
    BY <1>3 DEF Valid
  <2> QED
    BY <1>1, <1>2, <1>3, <2>1, PermitsKept
<1>4. CASE UNCHANGED stack /\ still
    BY <1>4, <1>1, TopFrame, PermitsKept
<1>5. CASE SettleCancelBody(th)
  <2>1. CASE UNCHANGED stack
    BY <1>4, <1>5, <2>1 DEF SettleCancelBody, Crash
  <2>2. CASE stack' # stack
    <3>1. PICK t \in Top(th).batch :
            Goto(th, Frame("settled", t, 0, Top(th).batch \ {t}, ready)) /\ still
      BY <1>5, <2>2 DEF SettleCancelBody, Crash
    <3> DEFINE g == Frame("settled", t, 0, Top(th).batch \ {t}, ready)
    <3>2. t \in Tasks /\ Top(th).batch \ {t} \in SUBSET Tasks
      BY <1>2
    <3>3. g \in Frames
      BY <1>2, <3>2 DEF Frame, Frames
    <3>4. FramePermits(g) = ready /\ Lean(g)
      BY DEF Frame, FramePermits, Lean
    <3>5. Goto(th, g) /\ still
      BY <3>1
    <3> HIDE DEF g
    <3> QED
      BY <1>3, <3>3, <3>4, <3>5
  <2> QED
    BY <2>1, <2>2
<1>6. CASE Settled(th)
  <2>1. CASE UNCHANGED stack /\ still
    BY <1>4, <2>1
  <2> DEFINE g == Settling(Top(th).batch, ready)
  <2>2. g \in Frames /\ FramePermits(g) = ready /\ Lean(g)
    BY <1>2 DEF Settling, Frame, Frames, FramePermits, Lean
  <2>3. (UNCHANGED stack /\ still) \/ (Goto(th, g) /\ still)
    BY <1>6 DEF Settled, Crash
  <2> HIDE DEF g
  <2> QED
    BY <1>3, <2>1, <2>2, <2>3
<1>7. CASE SettleDone(th) \/ Revoke(th)
  <2> DEFINE g == Dispatching(ready)
  <2>1. g \in Frames /\ FramePermits(g) = ready /\ Lean(g)
    BY <1>2 DEF Dispatching, Frame, Frames, FramePermits, Lean
  <2>2. Goto(th, g) /\ still
    BY <1>7 DEF SettleDone, Revoke, OnlyStack
  <2> HIDE DEF g
  <2> QED
    BY <1>3, <2>1, <2>2
<1>8. CASE DispatchCheck(th)
  <2>1. still
    BY <1>8 DEF DispatchCheck, OnlyStack
  <2>2. PICK d \in ready :
          Goto(th, ForPermit(IF Valid(d) THEN "checked" ELSE "revoke", d, ready \ {d}))
    BY <1>8 DEF DispatchCheck
  <2>3. d \in Permits /\ ready \ {d} \in SUBSET Permits
    BY <1>2, <2>2
  <2> DEFINE g == ForPermit(IF Valid(d) THEN "checked" ELSE "revoke", d, ready \ {d})
  <2>4. g \in Frames
    BY <2>3 DEF ForPermit, Frame, Frames, Permits
  <2>5. /\ g.ready = ready \ {d} /\ Permit(g) = d
        /\ g.at = (IF Valid(d) THEN "checked" ELSE "revoke")
    BY <2>3 DEF ForPermit, Frame, Permits, Permit
  <2>6. Goto(th, g)
    BY <2>2
  <2> HIDE DEF g
  <2>7. FramePermits(g) = IF Valid(d) THEN ready ELSE ready \ {d}
    BY <2>2, <2>5 DEF FramePermits
  <2>8. Lean(g)
    BY <2>5 DEF Lean
  <2> QED
    BY <1>3, <2>1, <2>4, <2>6, <2>7, <2>8
<1>9. CASE DispatchDone(th)
  <2>1. still /\ Return(th) /\ mine = {}
    BY <1>2, <1>9 DEF DispatchDone, OnlyStack
  <2> QED
    BY <1>1, <2>1, TopFrame, PermitsKept
<1> QED
    BY <1>5, <1>6, <1>7, <1>8, <1>9

\* A worker claims what its permit is for, or finds it stale.
LEMMA ClaimKeepsPermits ==
    ASSUME TypeOK, TypeOK', PermitInv, NEW th \in Threads,
           Execute(th) \/ OnCancel(th) \/ ClaimFails(th)
    PROVE  PermitInv'
<1> DEFINE mine == FramePermits(Top(th))
           fixed == UNCHANGED <<id, generation, waiting, queue>>
<1> USE DEF lockVars, taskVars, restVars, poolVars
<1>1. stack[th] # <<>> /\ Top(th).at \in {"execute", "onCancel"}
    BY DEF Execute, OnCancel, ClaimFails, At, Top
<1>2. PICK d \in Permits : mine = {d} /\ d[1] = Top(th).task /\ d = Permit(Top(th))
  <2>1. /\ mine = Top(th).ready \cup {Permit(Top(th))} /\ Top(th).ready = {}
        /\ Permit(Top(th)) \in Permits /\ Permit(Top(th))[1] = Top(th).task
    BY <1>1, TopPermits
  <2> QED
    BY <2>1
<1>3. CASE UNCHANGED <<stack, id, phase, generation, waiting, queue>>
    BY <1>1, <1>3, TopFrame, PermitsKept
<1>4. CASE Execute(th) \/ OnCancel(th)
  <2>1. PICK place \in {"body", "cancelled"} : Claim(th, place)
    BY <1>4 DEF Execute, OnCancel
  <2>2. CASE Crash("assert") \/ Crash("body")
    BY <1>3, <2>2 DEF Crash
  <2>3. CASE ~Crash("assert") /\ ~Crash("body")
    <3>1. /\ phase' = [phase EXCEPT ![d[1]] = "Running"] /\ fixed
          /\ Goto(th, ForPermit(place, d, {}))
      BY <1>2, <2>1, <2>3 DEF Claim
    <3> DEFINE g == ForPermit(place, d, {})
    <3>2. g \in Frames /\ FramePermits(g) = {} /\ Lean(g)
      BY <1>2 DEF ForPermit, Frame, Frames, Permits, FramePermits, Lean
    <3>3. d[1] \in Tasks
      BY <1>2 DEF Permits
    <3>4. \A t \in Tasks : phase'[t] = phase[t] \/ phase'[t] \in {"Running", "Finished"}
      BY <3>1, <3>3 DEF TypeOK
    <3>5. ~Valid(d)'
      BY <3>1, <3>3 DEF Valid, TypeOK
    <3>6. FramePermits(g) \subseteq mine /\ \A e \in mine : e \in FramePermits(g) \/ ~Valid(e)'
      BY <1>2, <3>2, <3>5
    <3>7. Goto(th, g)
      BY <3>1
    <3> HIDE DEF g
    <3> QED
      BY <1>1, <3>1, <3>2, <3>4, <3>6, <3>7, PermitsKept
  <2> QED
    BY <2>2, <2>3
<1>5. CASE ClaimFails(th)
  <2>1. /\ ~Valid(d) /\ UNCHANGED phase /\ fixed
        /\ Goto(th, ForPermit("onCancel", d, {})) \/ Return(th)
    BY <1>2, <1>5 DEF ClaimFails, OnlyStack
  <2>2. ~Valid(d)'
    BY <2>1 DEF Valid
  <2>3. \A t \in Tasks : phase'[t] = phase[t] \/ phase'[t] \in {"Running", "Finished"}
    BY <2>1
  <2> DEFINE g == ForPermit("onCancel", d, {})
  <2>4. g \in Frames /\ FramePermits(g) = {d} /\ Lean(g)
    <3>1. d = <<d[1], d[2]>>
      BY <1>2 DEF Permits
    <3> QED
      BY <1>2, <3>1 DEF ForPermit, Frame, Frames, Permits, FramePermits, Permit, Lean
  <2>5. Goto(th, g) \/ Return(th)
    BY <2>1
  <2>6. FramePermits(g) \subseteq mine /\ \A e \in mine : e \in FramePermits(g) \/ ~Valid(e)'
    BY <1>2, <2>4
  <2>7. \A e \in mine : ~Valid(e)'
    BY <1>2, <2>2
  <2> HIDE DEF g
  <2> QED
    BY <1>1, <2>1, <2>3, <2>4, <2>5, <2>6, <2>7, PermitsKept
<1> QED
    BY <1>4, <1>5

\* Bodies end and shutdowns go on: no permit is about.
LEMMA OthersKeepPermits ==
    ASSUME TypeOK, TypeOK', PermitInv, NEW th \in Threads,
           \/ BodyReturns(th) \/ BodyThrows(th) \/ StopWorkers(th) \/ Joined(th) \/ Closed(th)
    PROVE  PermitInv'
<1> DEFINE still == UNCHANGED <<id, phase, generation, waiting, queue>>
           d == Permit(Top(th))
           g == ForPermit("callback", d, {})
           h == Frame("draining", None, 0, {}, {})
<1> USE DEF lockVars, taskVars, restVars, poolVars
<1>1. /\ stack[th] # <<>>
      /\ Top(th).at \in {"body", "cancelled", "stopping", "draining", "closing"}
      /\ BodyReturns(th) \/ BodyThrows(th) => Top(th).at \in {"body", "cancelled"}
    BY DEF BodyReturns, BodyThrows, StopWorkers, Joined, Closed, At, Top
<1>2. FramePermits(Top(th)) = {} /\ Top(th) \in Frames
    BY <1>1, TopPermits, TopFrame
<1>3. still
    BY DEF BodyReturns, BodyThrows, StopWorkers, Joined, Closed, OnlyStack
<1>4. h \in Frames /\ FramePermits(h) = {} /\ Lean(h)
    BY DEF Frame, Frames, FramePermits, Lean
<1>5. BodyReturns(th) \/ BodyThrows(th) => g \in Frames /\ FramePermits(g) = {} /\ Lean(g)
  <2> SUFFICES ASSUME BodyReturns(th) \/ BodyThrows(th)
               PROVE  g \in Frames /\ FramePermits(g) = {} /\ Lean(g)
    OBVIOUS
  <2>1. d \in Permits
    BY <1>1, TopPermits
  <2> QED
    BY <2>1 DEF ForPermit, Frame, Frames, Permits, FramePermits, Lean
<1>6. \/ (BodyReturns(th) \/ BodyThrows(th)) /\ Goto(th, g)
      \/ Goto(th, h) \/ Return(th)
    BY DEF BodyReturns, BodyThrows, StopWorkers, Joined, Closed
<1> HIDE DEF d, g, h
<1> QED
    BY <1>1, <1>2, <1>3, <1>4, <1>5, <1>6, PermitsKept

\* A permit goes to the pool's queue, and from there to a thread.
LEMMA QueueKeepsPermits ==
    ASSUME TypeOK, TypeOK', PermitInv, NEW th \in Threads,
           HandOver(th) \/ Take(th) \/ Drain(th)
    PROVE  PermitInv'
<1> DEFINE fixed == UNCHANGED <<id, phase, generation, waiting>>
           none == {}
<1> USE DEF lockVars, taskVars, restVars, poolVars
<1>1. fixed
    BY DEF HandOver, Take, Drain
<1>2. \A t \in Tasks : phase'[t] = phase[t] \/ phase'[t] \in {"Running", "Finished"}
    BY <1>1
<1>3. Carried \cap queue = {} /\ queue \subseteq Permits
    BY DEF PermitInv, PermitsApart, TypeOK
<1>4. CASE HandOver(th)
  <2> DEFINE f == Top(th)
             mine == FramePermits(f)
             d == Permit(f)
             g == Dispatching(f.ready)
             one == {g}
  <2>1. stack[th] # <<>> /\ f.at = "submit"
    BY <1>4 DEF HandOver, At, Top
  <2>2. /\ mine = f.ready \cup {d} /\ d \notin f.ready /\ f.ready \in SUBSET Permits
        /\ mine \subseteq Carried /\ d \in Permits
    BY <2>1, TopPermits
  <2>3. g \in Frames /\ FramePermits(g) = f.ready /\ Lean(g)
    BY <2>2 DEF Dispatching, Frame, Frames, FramePermits, Lean
  <2>4. Goto(th, g) /\ queue' = queue \cup {d}
    BY <1>4 DEF HandOver
  <2> HIDE DEF g
  <2>5. Carrying!Moved(stack, stack', mine, one) /\ Carrying!Of(one) = f.ready
    BY <2>1, <2>2, <2>3, <2>4, CarryingMoves
  <2>6. one \in SUBSET Frames /\ \A h \in one : Lean(h)
    BY <2>3
  <2>7. /\ Carrying!Of(one) \subseteq mine \cup queue /\ queue' \subseteq queue \cup mine
        /\ Carrying!Of(one) \cap queue' = {} /\ queue \subseteq queue' \cup Carrying!Of(one)
        /\ mine \subseteq Carrying!Of(one) \cup queue'
    BY <1>3, <2>2, <2>4, <2>5
  <2> HIDE DEF one, mine
  <2> QED
    BY <1>1, <1>2, <2>2, <2>5, <2>6, <2>7, PermitsMove
<1>5. CASE Take(th) \/ Drain(th)
  <2>1. PICK d \in queue, at \in {"execute", "onCancel"} :
          queue' = queue \ {d} /\ Push(th, ForPermit(at, d, {}))
    BY <1>5 DEF Take, Drain
  <2> DEFINE g == ForPermit(at, d, {})
             one == {g}
  <2>2. g \in Frames /\ FramePermits(g) = {d} /\ Lean(g)
    <3>1. d \in Permits /\ d = <<d[1], d[2]>>
      BY <1>3, <2>1 DEF Permits
    <3> QED
      BY <3>1 DEF ForPermit, Frame, Frames, Permits, FramePermits, Permit, Lean
  <2>3. Push(th, g)
    BY <2>1
  <2> HIDE DEF g
  <2>4. FramePermits(g) \cap Carried = {}
    BY <1>3, <2>1, <2>2
  <2>5. Carrying!Moved(stack, stack', none, one) /\ Carrying!Of(one) = {d}
    BY <2>2, <2>3, <2>4, CarryingMoves
  <2>6. one \in SUBSET Frames /\ \A h \in one : Lean(h)
    BY <2>2
  <2>7. /\ Carrying!Of(one) \subseteq none \cup queue /\ queue' \subseteq queue \cup none
        /\ Carrying!Of(one) \cap queue' = {} /\ queue \subseteq queue' \cup Carrying!Of(one)
        /\ none \subseteq Carried /\ \A e \in none : FALSE
    BY <2>1, <2>5
  <2> HIDE DEF one, none
  <2> QED
    BY <1>1, <1>2, <2>5, <2>6, <2>7, PermitsMove
<1> QED
    BY <1>4, <1>5

\* A permit just issued is of a new generation, and under way nowhere.
LEMMA IssuedIsNew ==
    ASSUME TypeOK, TypeOK', PermitInv, \A t \in Tasks : Aged(t)
    PROVE  /\ Issued \subseteq Permits /\ Issued \cap UnderWay = {}
           /\ \A d \in Issued : d[2] = generation'[d[1]]
           /\ \A d \in UnderWay : d[2] <= generation'[d[1]]
<1>1. Issued \subseteq Permits /\ \A d \in Issued : d[2] = generation'[d[1]]
    BY DEF Issued, Permits, TypeOK
<1>2. ASSUME NEW d \in UnderWay
      PROVE  d[2] <= generation[d[1]] /\ d[2] <= generation'[d[1]] /\ d \notin Issued
  <2>1. d[1] \in Tasks /\ d[2] \in Nat
    BY CarriedPermits DEF Permits
  <2>2. d[2] <= generation[d[1]]
    BY DEF PermitInv, PermitsPast
  <2>3. /\ generation[d[1]] \in Nat /\ generation'[d[1]] \in Nat
        /\ generation'[d[1]] = generation[d[1]] \/ generation'[d[1]] = generation[d[1]] + 1
    BY <2>1 DEF Aged, TypeOK
  <2>4. d[2] <= generation'[d[1]]
    BY <2>1, <2>2, <2>3
  <2>5. ASSUME d \in Issued
        PROVE  FALSE
    <3>1. generation'[d[1]] # generation[d[1]] /\ d[2] = generation'[d[1]]
      BY <2>5 DEF Issued
    <3> QED
      BY <3>1, <2>1, <2>2, <2>3
  <2> QED
    BY <2>2, <2>4, <2>5
<1> QED
    BY <1>1, <1>2

\* Permits are issued to one thread; one that goes with a call is not valid afterwards.
LEMMA PermitsIssue ==
    ASSUME TypeOK, TypeOK', PermitInv, NEW gone, NEW frames \in SUBSET Frames,
           Carrying!Moved(stack, stack', gone, frames), \A g \in frames : Lean(g),
           gone \subseteq Carried, Issued \subseteq Carrying!Of(frames),
           Carrying!Of(frames) \subseteq gone \cup Issued,
           \A d \in gone : d \in Carrying!Of(frames) \/ ~Valid(d)',
           UNCHANGED queue, \A t \in Tasks : Aged(t), WaitersBlocked'
    PROVE  PermitInv'
<1> DEFINE new == Carrying!Of(frames)
<1>1. /\ Carrying!AllApart(stack') /\ Carried' = (Carried \ gone) \cup new
      /\ \A f \in Carrying!Within(stack') : f \in frames \/ f \in Carrying!Within(stack)
    BY DEF Carrying!Moved, Carried
<1> HIDE DEF new
<1>2. Carried \cap queue = {} /\ \A f \in Carrying!Within(stack) : Lean(f)
    BY DEF PermitInv, PermitsApart
<1>3. /\ Issued \subseteq Permits /\ Issued \cap UnderWay = {}
      /\ \A d \in Issued : d[2] = generation'[d[1]]
      /\ \A d \in UnderWay : d[2] <= generation'[d[1]]
    BY IssuedIsNew
<1>4. Carried' \cap queue' = {} /\ UnderWay' \subseteq UnderWay \cup Issued
      /\ Issued \subseteq UnderWay'
    BY <1>1, <1>2, <1>3 DEF UnderWay, new
<1>5. \A d \in UnderWay : d \in UnderWay' \/ ~Valid(d)'
    BY <1>1, <1>2 DEF UnderWay, new
<1>6. PermitsApart'
    BY <1>1, <1>2, <1>4 DEF PermitsApart
<1>7. PermitsPast'
  <2> SUFFICES ASSUME NEW d \in UnderWay'
               PROVE  d[2] <= generation'[d[1]]
    BY DEF PermitsPast
  <2>1. CASE d \in UnderWay
    BY <1>3, <2>1
  <2>2. CASE d \in Issued
    <3>1. d[2] = generation'[d[1]]
      BY <1>3, <2>2
    <3>2. d \in Permits
      BY <1>3, <2>2
    <3>3. d[2] \in Nat
      BY <3>2 DEF Permits
    <3> QED
      BY <3>1, <3>3
  <2> QED
    BY <1>4, <2>1, <2>2
<1>8. PermitsOut'
  <2> SUFFICES ASSUME NEW t \in Tasks, phase'[t] = "Scheduled"
               PROVE  <<t, generation'[t]>> \in UnderWay'
    BY DEF PermitsOut
  <2>1. CASE generation'[t] # generation[t]
    BY <1>4, <2>1 DEF Issued
  <2>2. CASE generation'[t] = generation[t]
    <3>1. phase[t] = "Scheduled"
      BY <2>2 DEF Aged, TypeOK
    <3>2. <<t, generation[t]>> \in UnderWay
      BY <3>1 DEF PermitInv, PermitsOut
    <3>3. Valid(<<t, generation[t]>>)'
      BY <2>2 DEF Valid
    <3> QED
      BY <1>5, <2>2, <3>2, <3>3
  <2> QED
    BY <2>1, <2>2
<1> QED
    BY <1>6, <1>7, <1>8 DEF PermitInv

\* A task that still waits after a removal waits for somebody: one that gained all it
\* waited for is scheduled, unless the scheduler is closed, and then nothing waits.
LEMMA RemovalLeavesBlocked ==
    ASSUME TypeOK, TypeOK', RegionInv, StoppedHoldsNothing', WaitersBlocked,
           NEW gone \in SUBSET Tasks, \A t \in gone : Registered(t),
           RemoveLocked(gone), UNCHANGED <<id, keys>>
    PROVE  WaitersBlocked'
<1> SUFFICES ASSUME NEW t \in Tasks, Registered(t)', phase'[t] = "Waiting"
             PROVE  waiting'[t] > 0
    BY DEF WaitersBlocked
<1>1. t \notin gone /\ phase[t] = "Waiting" /\ id'[t] = id[t]
    BY DEF RemoveLocked
<1>2. Registered(t)
    BY <1>1 DEF Registered
<1>3. waiting[t] \in Nat /\ waiting[t] > 0 /\ waiting'[t] \in Nat
    BY <1>1, <1>2 DEF WaitersBlocked, TypeOK
<1>4. /\ waiting'[t] = waiting[t] - Cardinality(Gained(t, gone))
      /\ Cardinality(Gained(t, gone)) \in Nat
  <2>1. waiting'[t] = waiting[t] - Cardinality(Gained(t, gone))
    BY <1>1 DEF RemoveLocked
  <2> QED
    BY <1>1, <1>2, <2>1, RemoveKeepsCounts
<1>5. ~stopped'
  <2>1. Status(t)' = "pending"
    BY <1>1, <1>2 DEF Status, Registered
  <2> QED
    BY <2>1 DEF StoppedHoldsNothing
<1>6. waiting[t] # Cardinality(Gained(t, gone))
  <2> SUFFICES ASSUME waiting[t] = Cardinality(Gained(t, gone))
               PROVE  FALSE
    OBVIOUS
  <2>1. Gained(t, gone) # {}
    BY <1>3, FS_EmptySet
  <2>2. phase'[t] = "Scheduled"
    BY <1>1, <1>5, <2>1 DEF RemoveLocked
  <2> QED
    BY <2>2
<1> QED
    BY <1>3, <1>4, <1>6

\* A task that still waits after an insertion does so as well: the new one because it did
\* not get all its positions, one that was overtaken because it lost some.
LEMMA InsertionLeavesBlocked ==
    ASSUME TypeOK, TypeOK', RegionInv, WaitersBlocked, NEW t \in Tasks, id[t] = 0,
           NEW own \in SUBSET Keys, AddLocked(t, own), id' = [id EXCEPT ![t] = nextId]
    PROVE  WaitersBlocked'
<1> DEFINE taken == Taken(t, own)
<1>1. taken \in SUBSET own
    BY DEF Taken
<1>2. SUFFICES ASSUME NEW p \in Tasks, Registered(p)', phase'[p] = "Waiting"
               PROVE  waiting'[p] > 0
    BY DEF WaitersBlocked
<1>3. CASE p = t
  <2>1. Lost(p, taken) = {}
    BY <1>3, OvertakenPending
  <2>2. taken # own
    BY <1>3, <1>2 DEF AddLocked
  <2>3. own \ taken # {} /\ own \ taken \in SUBSET Keys
    BY <1>1, <2>2
  <2>4. waiting'[p] = Cardinality(own \ taken)
    BY <1>3 DEF AddLocked
  <2>5. IsFiniteSet(own \ taken) /\ Cardinality(own \ taken) \in Nat
    BY <2>3, KeySets
  <2>6. Cardinality(own \ taken) # 0
    BY <2>3, <2>5, FS_EmptySet
  <2> QED
    BY <2>4, <2>5, <2>6
<1>4. CASE p # t
  <2>1. id'[p] = id[p] /\ waiting'[p] = waiting[p] + Cardinality(Lost(p, taken))
    BY <1>4 DEF AddLocked, TypeOK
  <2>2. Lost(p, taken) \in SUBSET Keys
    BY <1>1 DEF Lost
  <2>3. IsFiniteSet(Lost(p, taken)) /\ Cardinality(Lost(p, taken)) \in Nat /\ waiting[p] \in Nat
    BY <2>2, KeySets DEF TypeOK
  <2>4. CASE Lost(p, taken) # {}
    <3>1. Cardinality(Lost(p, taken)) # 0
      BY <2>3, <2>4, FS_EmptySet
    <3> QED
      BY <2>1, <2>3, <3>1
  <2>5. CASE Lost(p, taken) = {}
    <3>1. phase[p] = "Waiting"
      BY <1>2, <1>4, <2>5 DEF AddLocked
    <3>2. Registered(p)
      BY <1>2, <2>1, <3>1 DEF Registered
    <3>3. waiting[p] > 0
      BY <3>1, <3>2 DEF WaitersBlocked
    <3> QED
      BY <2>1, <2>3, <3>3
  <2> QED
    BY <2>4, <2>5
<1> QED
    BY <1>3, <1>4

\* submit(): the new task's permit is for its caller to dispatch.
LEMMA SubmitKeepsPermits ==
    ASSUME TypeOK, TypeOK', RegionInv, PermitInv, \A u \in Tasks : Aged(u), NEW th \in Threads,
           NEW t \in Tasks, Submit(th, t)
    PROVE  PermitInv'
<1> DEFINE own == IF abort[t] THEN {} ELSE Region[t]
           g == Dispatching(Issued)
           one == {g}
           none == {}
<1>1. /\ own \in SUBSET Keys /\ AddLocked(t, own) /\ id[t] = 0
      /\ id' = [id EXCEPT ![t] = nextId] /\ UNCHANGED queue /\ Push(th, g)
  <2>1. own \in SUBSET Keys
    BY SchedulerAssumption
  <2>2. id[t] = 0
    BY DEF Submit, RegionInv, IdsUnique
  <2> QED
    BY <2>1, <2>2 DEF Submit, restVars, poolVars
<1>2. Issued \subseteq Permits /\ Issued \cap UnderWay = {}
    BY IssuedIsNew
<1>3. g \in Frames /\ FramePermits(g) = Issued /\ Lean(g)
    BY <1>2 DEF Dispatching, Frame, Frames, FramePermits, Lean
<1>4. WaitersBlocked'
  <2> HIDE DEF own
  <2> QED
    BY <1>1, InsertionLeavesBlocked DEF PermitInv
<1>5. FramePermits(g) \cap Carried = {}
    BY <1>2, <1>3 DEF UnderWay
<1> HIDE DEF g
<1>6. Carrying!Moved(stack, stack', none, one) /\ Carrying!Of(one) = Issued
    BY <1>1, <1>3, <1>5, CarryingMoves
<1>7. one \in SUBSET Frames /\ (\A h \in one : Lean(h)) /\ none \subseteq Carried
      /\ (\A d \in none : FALSE) /\ Issued \subseteq none \cup Issued
    BY <1>3
<1> HIDE DEF one, none
<1> QED
    BY <1>1, <1>4, <1>6, <1>7, PermitsIssue

\* _finish: successors get their permits, for the finishing thread to dispatch.
LEMMA FinishKeepsPermits ==
    ASSUME TypeOK, TypeOK', RegionInv, StoppedHoldsNothing', PermitInv, \A u \in Tasks : Aged(u),
           NEW th \in Threads, Finish(th)
    PROVE  PermitInv'
<1> DEFINE t == Top(th).task
           g == Dispatching(Issued)
           one == {g}
           mine == FramePermits(Top(th))
<1>1. stack[th] # <<>> /\ Top(th).at = "callback" /\ t \in Tasks
    BY TopFrame DEF Finish, At, Top
<1>2. mine = {} /\ Top(th) \in Frames
    BY <1>1, TopPermits, TopFrame
<1>3. CASE Crash("assert")
  <2>1. UNCHANGED <<stack, id, phase, generation, waiting, queue>>
    BY <1>3 DEF Crash, lockVars, taskVars, poolVars
  <2> QED
    BY <1>2, <2>1, PermitsKept
<1>4. CASE ~Crash("assert")
  <2>1. /\ phase[t] = "Running" /\ RemoveLocked({t}) /\ UNCHANGED <<id, keys, queue>>
        /\ Goto(th, g)
    BY <1>4 DEF Finish, restVars, poolVars
  <2>2. Issued \subseteq Permits /\ Issued \cap UnderWay = {}
    BY IssuedIsNew
  <2>3. g \in Frames /\ FramePermits(g) = Issued /\ Lean(g)
    BY <2>2 DEF Dispatching, Frame, Frames, FramePermits, Lean
  <2>4. WaitersBlocked'
    <3>1. \A u \in {t} : Registered(u)
      BY <1>1, <2>1 DEF Registered, RegionInv, IdsUnique
    <3>2. {t} \in SUBSET Tasks
      BY <1>1
    <3> QED
      BY <2>1, <3>1, <3>2, RemovalLeavesBlocked DEF PermitInv
  <2>5. FramePermits(g) \cap Carried \subseteq mine
    BY <2>2, <2>3 DEF UnderWay
  <2> HIDE DEF g
  <2>6. Carrying!Moved(stack, stack', mine, one) /\ Carrying!Of(one) = Issued
    BY <1>1, <2>1, <2>3, <2>5, CarryingMoves
  <2>7. one \in SUBSET Frames /\ (\A h \in one : Lean(h)) /\ mine \subseteq Carried
        /\ (\A d \in mine : FALSE) /\ Issued \subseteq mine \cup Issued
    BY <1>2, <2>3
  <2> HIDE DEF one, mine
  <2> QED
    BY <2>1, <2>4, <2>6, <2>7, PermitsIssue
<1> QED
    BY <1>3, <1>4

\* The critical section of a cancellation, whose permits are for the calls frames.
LEMMA CancelIssues ==
    ASSUME TypeOK, TypeOK', RegionInv, RegionInv', StoppedHoldsNothing', PermitInv,
           \A u \in Tasks : Aged(u), NEW th \in Threads, NEW selected \in SUBSET Tasks, NEW stop,
           NEW below, CancelLocked(th, selected, stop, below),
           NEW gone, gone \subseteq Carried, gone # {} => stop, NEW frames \in SUBSET Frames,
           Carrying!Moved(stack, stack', gone, frames), \A f \in frames : Lean(f),
           Issued \subseteq Carrying!Of(frames), Carrying!Of(frames) \subseteq gone \cup Issued
    PROVE  PermitInv'
<1> DEFINE batch == {t \in selected : Cancellable(t)}
<1>1. /\ batch \in SUBSET Tasks /\ RemoveAsserts(batch) /\ \A t \in batch : Registered(t)
    BY RemovalPermitted DEF Cancellable
<1>2. RemoveLocked(batch) /\ UNCHANGED <<id, keys, queue>> /\ stopped' = (stopped \/ stop)
    BY <1>1 DEF CancelLocked, poolVars
<1>3. WaitersBlocked'
  <2> HIDE DEF batch
  <2> QED
    BY <1>1, <1>2, RemovalLeavesBlocked DEF PermitInv
<1>4. ASSUME stop, NEW d \in Permits
      PROVE  ~Valid(d)'
  <2>1. stopped' /\ d[1] \in Tasks
    BY <1>2, <1>4 DEF Permits
  <2>2. ASSUME phase'[d[1]] = "Scheduled"
        PROVE  FALSE
    <3>1. id'[d[1]] # 0
      BY <2>1, <2>2 DEF RegionInv, IdsUnique
    <3>2. Status(d[1])' = "pending"
      BY <2>2, <3>1 DEF Status
    <3> QED
      BY <2>1, <3>2 DEF StoppedHoldsNothing
  <2> QED
    BY <2>2 DEF Valid
<1>5. gone \subseteq Permits
    BY CarriedPermits
<1>6. \A d \in gone : d \in Carrying!Of(frames) \/ ~Valid(d)'
    BY <1>4, <1>5
<1> QED
    BY <1>2, <1>3, <1>6, PermitsIssue

\* The four ways in which a thread comes to cancel.  A call that is given up on the way, or
\* goes on as h, may leave permits behind: they are of a closed scheduler.
LEMMA CancelKeepsPermits ==
    ASSUME TypeOK, TypeOK', RegionInv, RegionInv', StoppedHoldsNothing', PermitInv,
           \A u \in Tasks : Aged(u), NEW th \in Threads, NEW selected \in SUBSET Tasks, NEW stop,
           NEW h \in Frames, Lean(h),
           \/ CancelLocked(th, selected, stop, stack[th])
           \/ /\ stack[th] = <<>> /\ FramePermits(h) = {}
              /\ CancelLocked(th, selected, stop, <<h>>)
           \/ /\ stack[th] # <<>> /\ stop /\ FramePermits(h) \subseteq FramePermits(Top(th))
              /\ \/ CancelLocked(th, selected, stop, Tail(stack[th]))
                 \/ CancelLocked(th, selected, stop, <<h>> \o Tail(stack[th]))
    PROVE  PermitInv'
<1> DEFINE batch == {t \in selected : Cancellable(t)}
           g == Settling(batch, Issued)
           one == {g}
           two == {g, h}
           none == {}
           mine == FramePermits(Head(stack[th]))
<1>1. stack \in [Threads -> Seq(Frames)] /\ Carrying!AllApart(stack)
    BY DEF TypeOK, PermitInv, PermitsApart
<1>2. batch \in SUBSET Tasks /\ RemoveAsserts(batch)
    BY RemovalPermitted DEF Cancellable
<1>3. Issued \subseteq Permits /\ Issued \cap Carried = {}
    BY IssuedIsNew DEF UnderWay
<1>4. /\ g \in Frames /\ FramePermits(g) = Issued /\ Lean(g)
      /\ FramePermits(g) \cap Carrying!AllHeld(stack) = {}
  <2>1. g \in Frames /\ FramePermits(g) = Issued /\ Lean(g)
    BY <1>2, <1>3 DEF Settling, Frame, Frames, FramePermits, Lean
  <2> QED
    BY <1>3, <2>1 DEF Carried
<1>5. /\ one \in SUBSET Frames /\ (\A f \in one : Lean(f)) /\ Carrying!Of(one) = Issued
      /\ two \in SUBSET Frames /\ (\A f \in two : Lean(f))
      /\ Carrying!Of(two) = Issued \cup FramePermits(h)
    BY <1>4 DEF Carrying!Of
<1>6. \A below : CancelLocked(th, selected, stop, below)
         => stack' = [stack EXCEPT ![th] = <<g>> \o below]
    BY <1>2 DEF CancelLocked
<1>7. none \subseteq Carried /\ (none # {} => stop)
    OBVIOUS
<1>8. stack[th] # <<>> => mine \subseteq Carried /\ mine = FramePermits(Top(th))
    BY TopPermits DEF Top
<1>9. CASE CancelLocked(th, selected, stop, stack[th])
  <2>1. Carrying!Moved(stack, stack', none, one)
    BY <1>1, <1>4, <1>6, <1>9, Carrying!Entered
  <2>2. Issued \subseteq Carrying!Of(one) /\ Carrying!Of(one) \subseteq none \cup Issued
    BY <1>5
  <2> DEFINE below == stack[th]
  <2>3. CancelLocked(th, selected, stop, below)
    BY <1>9
  <2> HIDE DEF one, none, below
  <2> QED
    BY <1>5, <1>7, <2>1, <2>2, <2>3, CancelIssues
<1>10. CASE /\ stack[th] = <<>> /\ FramePermits(h) = {}
            /\ CancelLocked(th, selected, stop, <<h>>)
  <2>1. <<g>> \o <<h>> = <<g, h>> \o stack[th]
    <3>1. \A s \in Seq(Frames) : <<g>> \o (<<h>> \o s) = <<g, h>> \o s
      BY <1>4, TwoOnTop
    <3>2. <<>> \in Seq(Frames) /\ <<h>> \o <<>> = <<h>>
      OBVIOUS
    <3> QED
      BY <3>1, <3>2, <1>10
  <2>2. stack' = [stack EXCEPT ![th] = <<g, h>> \o stack[th]]
    BY <1>6, <1>10, <2>1
  <2>3. FramePermits(h) \cap Carrying!AllHeld(stack) = {} /\ FramePermits(g) \cap FramePermits(h) = {}
    BY <1>10
  <2> HIDE DEF g
  <2>4. Carrying!Moved(stack, stack', none, two)
    BY <1>1, <1>4, <2>2, <2>3, Carrying!EnteredTwo
  <2>5. Issued \subseteq Carrying!Of(two) /\ Carrying!Of(two) \subseteq none \cup Issued
    BY <1>5, <1>10
  <2> DEFINE below == <<h>>
  <2>6. CancelLocked(th, selected, stop, below)
    BY <1>10
  <2> HIDE DEF two, none, below
  <2> QED
    BY <1>5, <1>7, <2>4, <2>5, <2>6, CancelIssues
<1>11. CASE stack[th] # <<>> /\ stop /\ CancelLocked(th, selected, stop, Tail(stack[th]))
  <2>1. /\ stack' = [stack EXCEPT ![th] = <<g>> \o Tail(stack[th])]
        /\ FramePermits(g) \cap Carrying!AllHeld(stack) \subseteq FramePermits(Head(stack[th]))
    BY <1>4, <1>6, <1>11
  <2> HIDE DEF g
  <2>2. Carrying!Moved(stack, stack', mine, one)
    BY <1>1, <1>4, <1>11, <2>1, Carrying!WentOn
  <2>3. Issued \subseteq Carrying!Of(one) /\ Carrying!Of(one) \subseteq mine \cup Issued
    BY <1>5
  <2>4. mine \subseteq Carried /\ (mine # {} => stop)
    BY <1>8, <1>11
  <2> DEFINE below == Tail(stack[th])
  <2>5. CancelLocked(th, selected, stop, below)
    BY <1>11
  <2> HIDE DEF one, mine, below
  <2> QED
    BY <1>5, <2>2, <2>3, <2>4, <2>5, CancelIssues
<1>12. CASE /\ stack[th] # <<>> /\ stop /\ FramePermits(h) \subseteq FramePermits(Top(th))
            /\ CancelLocked(th, selected, stop, <<h>> \o Tail(stack[th]))
  <2>1. <<g>> \o (<<h>> \o Tail(stack[th])) = <<g, h>> \o Tail(stack[th])
    <3>1. \A s \in Seq(Frames) : <<g>> \o (<<h>> \o s) = <<g, h>> \o s
      BY <1>4, TwoOnTop
    <3>2. Tail(stack[th]) \in Seq(Frames)
      BY <1>12, TopFrame
    <3> QED
      BY <3>1, <3>2
  <2>2. stack' = [stack EXCEPT ![th] = <<g, h>> \o Tail(stack[th])]
    BY <1>6, <1>12, <2>1
  <2>3. FramePermits(h) \subseteq mine /\ mine \subseteq Carried
    BY <1>8, <1>12
  <2>4. /\ FramePermits(g) \cap FramePermits(h) = {}
        /\ FramePermits(g) \cap Carrying!AllHeld(stack) \subseteq mine
        /\ FramePermits(h) \cap Carrying!AllHeld(stack) \subseteq mine
    BY <1>4, <2>3 DEF Carried
  <2> HIDE DEF g
  <2>5. Carrying!Moved(stack, stack', mine, two)
    BY <1>1, <1>4, <1>12, <2>2, <2>4, Carrying!WentOnTwo
  <2>6. Issued \subseteq Carrying!Of(two) /\ Carrying!Of(two) \subseteq mine \cup Issued
    BY <1>5, <2>3
  <2>7. mine # {} => stop
    BY <1>12
  <2> DEFINE below == <<h>> \o Tail(stack[th])
  <2>8. CancelLocked(th, selected, stop, below)
    BY <1>12
  <2> HIDE DEF two, mine, below
  <2> QED
    BY <1>5, <2>3, <2>5, <2>6, <2>7, <2>8, CancelIssues
<1> QED
    BY <1>9, <1>10, <1>11, <1>12

\* A permit goes on to a pool that runs; the pool that has stopped has everything cancelled,
\* and what is left to dispatch is of a closed scheduler.
LEMMA HandingKeepsPermits ==
    ASSUME TypeOK, TypeOK', RegionInv, RegionInv', StoppedHoldsNothing', PermitInv,
           \A u \in Tasks : Aged(u), NEW th \in Threads, PoolCheck(th) \/ HandOverRefused(th)
    PROVE  PermitInv'
<1> DEFINE f == Top(th)
           mine == FramePermits(f)
           d == Permit(f)
           g == ForPermit("submit", d, f.ready)
           h == Dispatching(f.ready)
<1>1. stack[th] # <<>> /\ f.at \in {"checked", "submit"}
    BY DEF PoolCheck, HandOverRefused, At, Top
<1>2. /\ mine = f.ready \cup {d} /\ d \notin f.ready /\ f.ready \in SUBSET Permits
      /\ d \in Permits /\ d[1] = f.task
    BY <1>1, TopPermits
<1>3. d = <<d[1], d[2]>>
    BY <1>2 DEF Permits
<1>4. g \in Frames /\ FramePermits(g) = mine /\ Lean(g)
    BY <1>2, <1>3 DEF ForPermit, Frame, Frames, Permits, FramePermits, Permit, Lean
<1>5. h \in Frames /\ FramePermits(h) \subseteq mine /\ Lean(h)
    BY <1>2 DEF Dispatching, Frame, Frames, FramePermits, Lean
<1>6. \/ Goto(th, g) /\ UNCHANGED <<id, phase, generation, waiting, queue>>
      \/ CancelLocked(th, Tasks, TRUE, Tail(stack[th]))
      \/ CancelLocked(th, Tasks, TRUE, <<h>> \o Tail(stack[th]))
  <2>1. CASE PoolCheck(th)
    BY <2>1 DEF PoolCheck, OnlyStack, lockVars, taskVars, restVars, poolVars
  <2>2. CASE HandOverRefused(th)
    BY <2>2 DEF HandOverRefused
  <2> QED
    BY <2>1, <2>2
<1> HIDE DEF g, h
<1>7. CASE Goto(th, g) /\ UNCHANGED <<id, phase, generation, waiting, queue>>
    BY <1>1, <1>4, <1>7, PermitsKept
<1>8. CASE \/ CancelLocked(th, Tasks, TRUE, Tail(stack[th]))
           \/ CancelLocked(th, Tasks, TRUE, <<h>> \o Tail(stack[th]))
    BY <1>1, <1>5, <1>8, Tasks \in SUBSET Tasks, CancelKeepsPermits
<1> QED
    BY <1>6, <1>7, <1>8

\* Threads proceed.
LEMMA ProceedKeepsPermits ==
    ASSUME TypeOK, TypeOK', RegionInv, RegionInv', StoppedHoldsNothing', PermitInv,
           \A u \in Tasks : Aged(u), NEW th \in Threads, Proceed(th)
    PROVE  PermitInv'
<1>1. CASE \/ SettleCancelBody(th) \/ Settled(th) \/ SettleDone(th) \/ DispatchCheck(th)
           \/ DispatchDone(th) \/ Revoke(th)
    BY <1>1, DispatchKeepsPermits
<1>2. CASE PoolCheck(th) \/ HandOverRefused(th)
    BY <1>2, HandingKeepsPermits
<1>3. CASE HandOver(th) \/ Take(th) \/ Drain(th)
    BY <1>3, QueueKeepsPermits
<1>4. CASE Execute(th) \/ OnCancel(th) \/ ClaimFails(th)
    BY <1>4, ClaimKeepsPermits
<1>5. CASE \/ BodyReturns(th) \/ BodyThrows(th) \/ StopWorkers(th) \/ Joined(th) \/ Closed(th)
    BY <1>5, OthersKeepPermits
<1>6. CASE Finish(th)
    BY <1>6, FinishKeepsPermits
<1> QED
    BY <1>1, <1>2, <1>3, <1>4, <1>5, <1>6 DEF Proceed

\* Callers call.
LEMMA CallKeepsPermits ==
    ASSUME TypeOK, TypeOK', RegionInv, RegionInv', StoppedHoldsNothing', PermitInv,
           \A u \in Tasks : Aged(u), NEW th \in Threads, Call(th)
    PROVE  PermitInv'
<1> DEFINE g == Frame("stopping", None, 0, {}, {})
           h == Frame("closing", None, 0, {}, {})
<1>1. /\ g \in Frames /\ FramePermits(g) = {} /\ Lean(g)
      /\ h \in Frames /\ FramePermits(h) = {} /\ Lean(h)
    BY DEF Frame, Frames, FramePermits, Lean
<1>2. ASSUME NEW t \in Tasks, Submit(th, t) \/ SubmitRefused(th, t) \/ Cancel(th, t)
      PROVE  PermitInv'
  <2>1. CASE Submit(th, t)
    BY <2>1, SubmitKeepsPermits
  <2>2. CASE SubmitRefused(th, t)
    <3>1. UNCHANGED <<stack, id, phase, generation, waiting, queue>>
      BY <2>2 DEF SubmitRefused, lockVars, taskVars, poolVars
    <3> HIDE DEF g, h
    <3> QED
      BY <1>1, <3>1, PermitsKept
  <2>3. CASE Cancel(th, t)
    <3>1. CancelLocked(th, {t}, FALSE, stack[th]) /\ {t} \in SUBSET Tasks
      BY <2>3 DEF Cancel
    <3> HIDE DEF g, h
    <3> QED
      BY <1>1, <3>1, CancelKeepsPermits
  <2> QED
    BY <1>2, <2>1, <2>2, <2>3
<1>3. CASE Prune(th)
  <2>1. /\ CancelLocked(th, {t \in Tasks : abort[t]}, FALSE, stack[th])
        /\ {t \in Tasks : abort[t]} \in SUBSET Tasks
    BY <1>3 DEF Prune
  <2> HIDE DEF g, h
  <2> QED
    BY <1>1, <2>1, CancelKeepsPermits
<1>4. CASE Shutdown(th)
  <2>1. stack[th] = <<>> /\ CancelLocked(th, Tasks, TRUE, <<h>>) /\ Tasks \in SUBSET Tasks
    BY <1>4 DEF Shutdown
  <2> HIDE DEF g, h
  <2> QED
    BY <1>1, <2>1, CancelKeepsPermits
<1>5. CASE StopPool(th)
  <2>1. Push(th, g) /\ UNCHANGED <<id, phase, generation, waiting, queue>>
    BY <1>5 DEF StopPool, lockVars, taskVars
  <2> HIDE DEF g, h
  <2> QED
    BY <1>1, <2>1, PermitsKept
<1> QED
    BY <1>2, <1>3, <1>4, <1>5 DEF Call

\* Every step keeps track of the permits.
LEMMA StepKeepsPermits ==
    TypeOK /\ RegionInv /\ StoppedHoldsNothing /\ PermitInv /\ [Next]_vars => PermitInv'
<1> SUFFICES ASSUME TypeOK, RegionInv, StoppedHoldsNothing, PermitInv, [Next]_vars
             PROVE  PermitInv'
    OBVIOUS
<1>1. TypeOK' /\ RegionInv' /\ StoppedHoldsNothing' /\ \A u \in Tasks : Aged(u)
    BY StepTyped, StepKeepsRegions, StepRefines, StepAges
<1>2. ASSUME UNCHANGED <<stack, id, phase, generation, waiting, queue>>
      PROVE  PermitInv'
  <2> DEFINE h == Frame("closing", None, 0, {}, {})
  <2>1. h \in Frames
    BY DEF Frame, Frames
  <2>2. Threads # {}
    BY ThreadsAssumption DEF Threads
  <2> HIDE DEF h
  <2> QED
    BY <1>1, <1>2, <2>1, <2>2, PermitsKept
<1>3. ASSUME NEW t \in Tasks, Abort(t)
      PROVE  PermitInv'
    BY <1>2, <1>3 DEF Abort, lockVars, taskVars, poolVars
<1>4. CASE UNCHANGED vars
    BY <1>2, <1>4 DEF vars, lockVars, taskVars, restVars, poolVars
<1> QED
    BY <1>1, <1>3, <1>4, ProceedKeepsPermits, CallKeepsPermits DEF Next

\* No permits are about in the empty scheduler.
LEMMA InitPermits == Init => PermitInv
<1> SUFFICES ASSUME Init
             PROVE  PermitInv
    OBVIOUS
<1>1. \A th \in Threads : stack[th] = <<>>
    BY DEF Init
<1>2. <<>> \in Seq(Frames) /\ DOMAIN <<>> = {}
    OBVIOUS
<1>3. /\ \A th \in Threads : Carrying!Inside(stack[th]) = {} /\ Carrying!Mine(stack[th]) = {}
      /\ \A th \in Threads : Carrying!Apart(stack[th])
    BY <1>1, <1>2 DEF Carrying!Inside, Carrying!Mine, Carrying!Apart
<1>4. Carrying!Within(stack) = {} /\ Carried = {} /\ Carrying!AllApart(stack)
    BY <1>3 DEF Carrying!Within, Carrying!AllHeld, Carrying!AllApart, Carried
<1>5. queue = {} /\ UnderWay = {}
    BY <1>4 DEF Init, UnderWay
<1>6. WaitersBlocked /\ PermitsOut
    BY DEF Init, WaitersBlocked, Registered, PermitsOut
<1> QED
    BY <1>4, <1>5, <1>6 DEF PermitInv, PermitsApart, PermitsPast

\* A closed scheduler holds nothing that has not started.
THEOREM StoppedIsEmpty == Spec => []StoppedHoldsNothing
<1>1. Init => StoppedHoldsNothing
    BY DEF Init, StoppedHoldsNothing
<1>2. TypeOK /\ RegionInv /\ StoppedHoldsNothing /\ [Next]_vars => StoppedHoldsNothing'
    BY StepRefines
<1> QED
    BY <1>1, <1>2, TypeCorrect, RegionInvariant, PTL DEF Spec

\* The permits under way are known in every reachable state.
THEOREM PermitsAccountedFor == Spec => []PermitInv
<1> QED
    BY InitPermits, StepKeepsPermits, TypeCorrect, RegionInvariant, StoppedIsEmpty, PTL DEF Spec

\* A permit is held by one call at most, by that of one thread.
LEMMA OneHolder ==
    ASSUME TypeOK, PermitInv, NEW d
    PROVE  /\ d \in Carried => \E p : Holders(d) = {p}
           /\ d \notin Carried => Holders(d) = {}
<1> DEFINE Here(th) == {j \in 1 .. Len(stack[th]) : d \in FramePermits(stack[th][j])}
<1>1. \A th \in Threads : DOMAIN stack[th] = 1 .. Len(stack[th])
    BY DEF TypeOK
<1>2. /\ \A p \in Holders(d) : \E th \in Threads : \E i \in Here(th) : p = <<th, i>>
      /\ \A th \in Threads : \A i \in Here(th) : <<th, i>> \in Holders(d)
    BY DEF Holders
<1>3. ASSUME NEW th \in Threads, NEW i \in Here(th)
      PROVE  d \in Carried /\ d \in Carrying!Mine(stack[th])
  <2>1. i \in DOMAIN stack[th] /\ d \in FramePermits(stack[th][i])
    BY <1>1
  <2>2. d \in Carrying!Mine(stack[th])
    BY <2>1 DEF Carrying!Mine, Carrying!Inside
  <2> QED
    BY <2>2 DEF Carried, Carrying!AllHeld
<1>4. CASE d \notin Carried
    BY <1>2, <1>3, <1>4
<1>5. CASE d \in Carried
  <2>1. PICK th \in Threads : d \in Carrying!Mine(stack[th])
    BY <1>5 DEF Carried, Carrying!AllHeld
  <2>2. PICK i \in Here(th) : TRUE
    BY <1>1, <2>1 DEF Carrying!Mine, Carrying!Inside
  <2>3. ASSUME NEW u \in Threads, NEW j \in Here(u)
        PROVE  <<u, j>> = <<th, i>>
    <3>1. u = th
      BY <1>3, <2>1, <2>3 DEF PermitInv, PermitsApart, Carrying!AllApart
    <3>2. /\ i \in DOMAIN stack[th] /\ j \in DOMAIN stack[th]
          /\ d \in FramePermits(stack[th][i]) /\ d \in FramePermits(stack[th][j])
      BY <1>1, <2>2, <2>3, <3>1
    <3>3. Carrying!Apart(stack[th])
      BY DEF PermitInv, PermitsApart, Carrying!AllApart
    <3>4. i = j
      BY <3>2, <3>3 DEF Carrying!Apart
    <3> QED
      BY <3>1, <3>4
  <2>4. \A p \in Holders(d) : p = <<th, i>>
    BY <1>2, <2>3
  <2>5. <<th, i>> \in Holders(d)
    BY <1>2, <2>2
  <2>6. Holders(d) = {<<th, i>>}
    BY <2>4, <2>5
  <2> QED
    BY <1>5, <2>6
<1> QED
    BY <1>4, <1>5

\* A Scheduled task has exactly one valid permit under way, through revocations, refused
\* hand-overs and shutdowns, and a waiting task waits for somebody.
THEOREM PermitsNeverLost == Spec => []NoPermitLost
<1>1. TypeOK /\ StoppedHoldsNothing /\ PermitInv => NoPermitLost
  <2> SUFFICES ASSUME TypeOK, StoppedHoldsNothing, PermitInv, NEW t \in Tasks, Registered(t)
               PROVE  /\ phase[t] = "Scheduled" =>
                            LET d == <<t, generation[t]>> IN
                            Cardinality(Holders(d)) + (IF d \in queue THEN 1 ELSE 0) = 1
                      /\ phase[t] = "Waiting" => waiting[t] > 0 /\ ~stopped
    BY DEF NoPermitLost
  <2>1. ASSUME phase[t] = "Waiting"
        PROVE  waiting[t] > 0 /\ ~stopped
    BY <2>1 DEF StoppedHoldsNothing, PermitInv, WaitersBlocked, Status, Registered
  <2>2. ASSUME phase[t] = "Scheduled", NEW d, d = <<t, generation[t]>>
        PROVE  Cardinality(Holders(d)) + (IF d \in queue THEN 1 ELSE 0) = 1
    <3>1. d \in Carried \cup queue /\ Carried \cap queue = {}
      BY <2>2 DEF PermitInv, PermitsOut, PermitsApart, UnderWay
    <3>2. CASE d \in Carried
      <4>1. PICK p : Holders(d) = {p}
        BY <3>2, OneHolder
      <4>2. Cardinality(Holders(d)) = 1
        BY <4>1, FS_Singleton
      <4>3. d \notin queue
        BY <3>1, <3>2
      <4> QED
        BY <4>2, <4>3
    <3>3. CASE d \notin Carried
      <4>1. Cardinality(Holders(d)) = 0
        BY <3>3, OneHolder, FS_EmptySet
      <4>2. d \in queue
        BY <3>1, <3>3
      <4> QED
        BY <4>1, <4>2
    <3> QED
      BY <3>2, <3>3
  <2> QED
    BY <2>1, <2>2
<1> QED
    BY <1>1, TypeCorrect, StoppedIsEmpty, PermitsAccountedFor, PTL

-----------------------------------------------------------------------------
(* The scheduler at rest: the shutdowns under way.                         *)

\* The calls that wait for others.
Waits(f) == f.at \in {"closing", "stopping", "draining"}

\* They are the outermost calls of clients.
Shaped(th, s) == \A i \in DOMAIN s : Waits(s[i]) => i = Len(s) /\ th \in Clients

\* Somebody shuts the pool down.
Serving(s) == \E f \in Calling!Inside(s) : f.at \in {"stopping", "draining"}

\* What a stopped pool has left in its queue is for the thread that stops it.
BottomInv ==
    /\ \A th \in Threads : Shaped(th, stack[th])
    /\ queue # {} => poolRunning \/ \E th \in Threads : Serving(stack[th])

\* A call entered is a call.
LEMMA PushedFrame ==
    ASSUME NEW s \in Seq(Frames), NEW g, <<g>> \o s \in Seq(Frames)
    PROVE  g \in Frames
<1> DEFINE all == Frames \cup {g}
           one == <<g>>
           q == one \o s
<1>1. one \in Seq(all) /\ s \in Seq(all) /\ one[1] = g /\ Len(one) = 1 /\ Len(s) \in Nat
    OBVIOUS
<1>2. /\ Len(q) = Len(one) + Len(s)
      /\ \A i \in 1 .. Len(one) + Len(s) : q[i] = IF i <= Len(one) THEN one[i] ELSE s[i - Len(one)]
  <2> HIDE DEF all, one
  <2> QED
    BY <1>1, ConcatProperties
<1>3. 1 \in 1 .. Len(q) /\ q[1] = g
  <2> HIDE DEF one, q
  <2>1. 1 \in 1 .. Len(one) + Len(s)
    BY <1>1
  <2> QED
    BY <1>1, <1>2, <2>1
<1> QED
  <2> HIDE DEF q
  <2>1. q \in Seq(Frames)
    BY DEF q
  <2> QED
    BY <1>3, <2>1

\* The calls of a stack with one more, and with one less.
LEMMA InsideMoves ==
    ASSUME NEW s \in Seq(Frames), NEW g \in Frames
    PROVE  /\ Calling!Inside(<<g>> \o s) = {g} \cup Calling!Inside(s)
           /\ s # <<>> => Calling!Inside(s) = {Head(s)} \cup Calling!Inside(Tail(s))
<1>1. ASSUME NEW f \in Frames, NEW r \in Seq(Frames)
      PROVE  Calling!Inside(<<f>> \o r) = {f} \cup Calling!Inside(r)
  <2>1. <<f>> \in Seq(Frames) /\ Calling!Inside(<<f>>) = {f}
    BY Calling!Few
  <2> DEFINE one == <<f>>
  <2>2. one \in Seq(Frames) /\ Calling!Inside(one) = {f}
    BY <2>1
  <2> HIDE DEF one
  <2>3. Calling!Inside(one \o r) = Calling!Inside(one) \cup Calling!Inside(r)
    BY <2>2, Calling!Joined
  <2> QED
    BY <2>2, <2>3 DEF one
<1>2. ASSUME s # <<>>
      PROVE  Calling!Inside(s) = {Head(s)} \cup Calling!Inside(Tail(s))
  <2>1. Head(s) \in Frames /\ Tail(s) \in Seq(Frames) /\ s = <<Head(s)>> \o Tail(s)
    BY <1>2, Calling!Innermost
  <2> QED
    BY <1>1, <2>1
<1> QED
    BY <1>1, <1>2

\* A stack is still well shaped with one call more, if that one waits only at the bottom.
LEMMA ShapedPush ==
    ASSUME NEW th, NEW s \in Seq(Frames), Shaped(th, s), NEW g \in Frames,
           Waits(g) => s = <<>> /\ th \in Clients
    PROVE  Shaped(th, <<g>> \o s)
<1> DEFINE q == <<g>> \o s
<1>1. /\ Len(q) = Len(s) + 1 /\ DOMAIN q = 1 .. Len(s) + 1 /\ DOMAIN s = 1 .. Len(s)
      /\ Len(s) \in Nat /\ q[1] = g /\ \A i \in DOMAIN s : q[i + 1] = s[i]
    OBVIOUS
<1>2. s = <<>> => Len(s) = 0
    OBVIOUS
<1> HIDE DEF q
<1>3. ASSUME NEW i \in DOMAIN q, Waits(q[i])
      PROVE  i = Len(q) /\ th \in Clients
  <2>1. CASE i = 1
    BY <2>1, <1>1, <1>2, <1>3
  <2>2. CASE i # 1
    <3>1. i - 1 \in DOMAIN s /\ (i - 1) + 1 = i
      BY <1>1, <2>2
    <3>2. q[i] = s[i - 1]
      BY <3>1, <1>1
    <3>3. i - 1 = Len(s) /\ th \in Clients
      BY <3>1, <3>2, <1>3 DEF Shaped
    <3> QED
      BY <3>3, <1>1
  <2> QED
    BY <2>1, <2>2
<1>4. Shaped(th, q)
    BY <1>3 DEF Shaped
<1> QED
    BY <1>4 DEF q

\* ... and with one call less.
LEMMA ShapedPop ==
    ASSUME NEW th, NEW s \in Seq(Frames), Shaped(th, s), s # <<>>
    PROVE  /\ Tail(s) \in Seq(Frames) /\ Shaped(th, Tail(s))
           /\ Waits(Head(s)) => Tail(s) = <<>> /\ th \in Clients
<1> DEFINE q == Tail(s)
<1>1. /\ q \in Seq(Frames) /\ Len(s) = Len(q) + 1 /\ DOMAIN q = 1 .. Len(q)
      /\ DOMAIN s = 1 .. Len(q) + 1 /\ Len(q) \in Nat
      /\ \A i \in DOMAIN q : q[i] = s[i + 1]
    OBVIOUS
<1>2. s[1] = Head(s)
    OBVIOUS
<1>3. Len(q) = 0 <=> q = <<>>
    BY <1>1
<1> HIDE DEF q
<1>4. ASSUME NEW i \in DOMAIN q, Waits(q[i])
      PROVE  i = Len(q) /\ th \in Clients
  <2>1. i + 1 \in DOMAIN s /\ Waits(s[i + 1])
    BY <1>1, <1>4
  <2>2. i + 1 = Len(s) /\ th \in Clients
    BY <2>1 DEF Shaped
  <2> QED
    BY <2>2, <1>1
<1>5. Waits(Head(s)) => q = <<>> /\ th \in Clients
  <2>1. 1 \in DOMAIN s
    BY <1>1
  <2> QED
    BY <1>1, <1>2, <1>3, <2>1 DEF Shaped
<1>6. Shaped(th, q)
    BY <1>4 DEF Shaped
<1> QED
    BY <1>1, <1>5, <1>6 DEF q

\* One thread's stack changes; who shuts the pool down goes on doing so.
LEMMA BottomStep ==
    ASSUME TypeOK, BottomInv, NEW th \in Threads, NEW q, stack' = [stack EXCEPT ![th] = q],
           Shaped(th, q),
           queue' # {} => \/ poolRunning' \/ Serving(q)
                          \/ /\ queue # {} \/ poolRunning
                             /\ UNCHANGED poolRunning /\ (Serving(stack[th]) => Serving(q))
    PROVE  BottomInv'
<1>1. stack'[th] = q /\ \A other \in Threads \ {th} : stack'[other] = stack[other]
    BY DEF TypeOK
<1>2. \A other \in Threads : Shaped(other, stack'[other])
    BY <1>1 DEF BottomInv
<1>3. ASSUME queue' # {}, ~poolRunning'
      PROVE  \E other \in Threads : Serving(stack'[other])
  <2>1. CASE Serving(q)
    BY <1>1, <2>1
  <2>2. CASE ~Serving(q)
    <3>1. queue # {} /\ ~poolRunning /\ ~Serving(stack[th])
      BY <1>3, <2>2
    <3>2. PICK other \in Threads : Serving(stack[other])
      BY <3>1 DEF BottomInv
    <3>3. other # th
      BY <3>1, <3>2
    <3> QED
      BY <1>1, <3>2, <3>3
  <2> QED
    BY <2>1, <2>2
<1> QED
    BY <1>2, <1>3 DEF BottomInv

\* A step of a call that waits for nobody: it returns or not, and enters g, or h and g.
LEMMA OrdinaryStep ==
    ASSUME TypeOK, TypeOK', BottomInv, NEW th \in Threads, NEW base, NEW g, NEW h \in Frames,
           \/ base = stack[th]
           \/ stack[th] # <<>> /\ base = Tail(stack[th]) /\ ~Waits(Top(th)),
           ~Waits(g), ~Waits(h),
           \/ stack' = [stack EXCEPT ![th] = base]
           \/ stack' = [stack EXCEPT ![th] = <<g>> \o base]
           \/ stack' = [stack EXCEPT ![th] = <<g>> \o (<<h>> \o base)],
           UNCHANGED poolRunning, queue' # {} => queue # {} \/ poolRunning
    PROVE  BottomInv'
<1> DEFINE s == stack[th]
           q == <<h>> \o base
<1>1. s \in Seq(Frames) /\ Shaped(th, s)
    BY DEF TypeOK, BottomInv
<1>2. base \in Seq(Frames) /\ Shaped(th, base) /\ (Serving(s) => Serving(base))
  <2>1. CASE base = s
    BY <1>1, <2>1
  <2>2. CASE s # <<>> /\ base = Tail(s) /\ ~Waits(Top(th))
    <3>1. base \in Seq(Frames) /\ Shaped(th, base)
      BY <1>1, <2>2, ShapedPop
    <3>2. Calling!Inside(s) = {Head(s)} \cup Calling!Inside(base)
      BY <1>1, <2>2, InsideMoves
    <3> QED
      BY <2>2, <3>1, <3>2 DEF Serving, Top, Waits
  <2> QED
    BY <2>1, <2>2
<1> HIDE DEF s
<1>3. q \in Seq(Frames) /\ Shaped(th, q) /\ (Serving(base) => Serving(q))
  <2>1. Calling!Inside(q) = {h} \cup Calling!Inside(base)
    BY <1>2, InsideMoves
  <2>2. Shaped(th, q)
    BY <1>2, ShapedPush
  <2> QED
    BY <1>2, <2>1, <2>2, StackMoves DEF Serving
<1> HIDE DEF q
<1>4. ASSUME NEW b \in Seq(Frames), Shaped(th, b), stack' = [stack EXCEPT ![th] = <<g>> \o b]
      PROVE  Shaped(th, <<g>> \o b) /\ (Serving(b) => Serving(<<g>> \o b))
  <2>1. stack'[th] = <<g>> \o b /\ stack'[th] \in Seq(Frames)
    BY <1>4 DEF TypeOK
  <2>2. g \in Frames
    BY <2>1, PushedFrame
  <2>3. Calling!Inside(<<g>> \o b) = {g} \cup Calling!Inside(b)
    BY <2>2, InsideMoves
  <2>4. Shaped(th, <<g>> \o b)
    BY <1>4, <2>2, ShapedPush
  <2> QED
    BY <2>3, <2>4 DEF Serving
<1>5. PICK r : /\ stack' = [stack EXCEPT ![th] = r] /\ Shaped(th, r)
               /\ Serving(s) => Serving(r)
  <2>1. CASE stack' = [stack EXCEPT ![th] = base]
    BY <1>2, <2>1
  <2>2. CASE stack' = [stack EXCEPT ![th] = <<g>> \o base]
    BY <1>2, <1>4, <2>2
  <2>3. CASE stack' = [stack EXCEPT ![th] = <<g>> \o q]
    BY <1>2, <1>3, <1>4, <2>3
  <2> QED
    BY <2>1, <2>2, <2>3 DEF q
<1>6. Serving(stack[th]) => Serving(r)
    BY <1>5 DEF s
<1> QED
    BY <1>5, <1>6, BottomStep

\* Threads proceed.
LEMMA ProceedKeepsBottom ==
    ASSUME TypeOK, TypeOK', RegionInv, BottomInv, NEW th \in Threads, Proceed(th)
    PROVE  BottomInv'
<1> DEFINE s == stack[th]
           calm == UNCHANGED poolRunning /\ (queue' # {} => queue # {} \/ poolRunning)
           h == Dispatching({})
<1> USE DEF lockVars, taskVars, restVars, poolVars
<1>1. h \in Frames /\ ~Waits(h)
    BY DEF Dispatching, Frame, Frames, Waits
<1> HIDE DEF h
<1>2. ASSUME UNCHANGED <<stack, queue, poolRunning>>
      PROVE  BottomInv'
    BY <1>2 DEF BottomInv
<1>3. ASSUME NEW g, ~Waits(g), s # <<>>, ~Waits(Top(th)), Goto(th, g), calm
      PROVE  BottomInv'
  <2> DEFINE base == Tail(s)
  <2>1. stack' = [stack EXCEPT ![th] = <<g>> \o base] /\ base = Tail(stack[th])
    BY <1>3 DEF Goto
  <2> HIDE DEF base
  <2> QED
    BY <1>1, <1>3, <2>1, OrdinaryStep
<1>4. ASSUME NEW g, ~Waits(g), Push(th, g), calm
      PROVE  BottomInv'
  <2> DEFINE base == s
  <2>1. stack' = [stack EXCEPT ![th] = <<g>> \o base] /\ base = stack[th]
    BY <1>4 DEF Push
  <2> HIDE DEF base
  <2> QED
    BY <1>1, <1>4, <2>1, OrdinaryStep
<1>5. ASSUME s # <<>>, ~Waits(Top(th)), Return(th), calm
      PROVE  BottomInv'
  <2> DEFINE base == Tail(s)
  <2>1. stack' = [stack EXCEPT ![th] = base] /\ base = Tail(stack[th])
    BY <1>5 DEF Return
  <2> HIDE DEF base
  <2> QED
    BY <1>1, <1>5, <2>1, OrdinaryStep
<1>6. CASE SettleCancelBody(th) \/ Settled(th) \/ SettleDone(th)
  <2>1. s # <<>> /\ ~Waits(Top(th))
    BY <1>6 DEF SettleCancelBody, Settled, SettleDone, At, Top, Waits
  <2>2. PICK g : /\ ~Waits(g)
                 /\ \/ UNCHANGED <<stack, queue, poolRunning>>
                    \/ Goto(th, g) /\ calm
    <3>1. CASE SettleCancelBody(th)
      <4>1. PICK t \in Top(th).batch :
              \/ Crash("body")
              \/ Goto(th, Frame("settled", t, 0, Top(th).batch \ {t}, Top(th).ready)) /\ calm
        BY <3>1 DEF SettleCancelBody
      <4> DEFINE g == Frame("settled", t, 0, Top(th).batch \ {t}, Top(th).ready)
      <4>2. ~Waits(g)
        BY DEF Frame, Waits
      <4> QED
        BY <4>1, <4>2 DEF Crash
    <3>2. CASE Settled(th)
      <4> DEFINE g == Settling(Top(th).batch, Top(th).ready)
      <4>1. ~Waits(g)
        BY DEF Settling, Frame, Waits
      <4> QED
        BY <3>2, <4>1 DEF Settled, Crash
    <3>3. CASE SettleDone(th)
      <4> DEFINE g == Dispatching(Top(th).ready)
      <4>1. ~Waits(g)
        BY DEF Dispatching, Frame, Waits
      <4> QED
        BY <3>3, <4>1 DEF SettleDone, OnlyStack
    <3> QED
      BY <1>6, <3>1, <3>2, <3>3
  <2> QED
    BY <1>2, <1>3, <2>1, <2>2
<1>7. CASE DispatchCheck(th) \/ Revoke(th) \/ HandOver(th) \/ BodyReturns(th) \/ BodyThrows(th)
  <2>1. s # <<>> /\ ~Waits(Top(th))
    BY <1>7 DEF DispatchCheck, Revoke, HandOver, BodyReturns, BodyThrows, At, Top, Waits
  <2>2. PICK g : ~Waits(g) /\ Goto(th, g) /\ calm
    <3>1. CASE DispatchCheck(th)
      <4>1. PICK at \in {"checked", "revoke"}, d \in Top(th).ready :
              Goto(th, ForPermit(at, d, Top(th).ready \ {d})) /\ calm
        BY <3>1 DEF DispatchCheck, OnlyStack
      <4>2. ~Waits(ForPermit(at, d, Top(th).ready \ {d}))
        BY DEF ForPermit, Frame, Waits
      <4> QED
        BY <4>1, <4>2
    <3>2. CASE Revoke(th) \/ HandOver(th)
      <4> DEFINE g == Dispatching(Top(th).ready)
      <4>1. ~Waits(g)
        BY DEF Dispatching, Frame, Waits
      <4>2. Goto(th, g) /\ calm
        BY <3>2 DEF Revoke, HandOver
      <4> QED
        BY <4>1, <4>2
    <3>3. CASE BodyReturns(th) \/ BodyThrows(th)
      <4> DEFINE g == ForPermit("callback", Permit(Top(th)), {})
      <4>1. ~Waits(g)
        BY DEF ForPermit, Frame, Waits
      <4>2. Goto(th, g) /\ calm
        BY <3>3 DEF BodyReturns, BodyThrows
      <4> QED
        BY <4>1, <4>2
    <3> QED
      BY <1>7, <3>1, <3>2, <3>3
  <2> QED
    BY <1>3, <2>1, <2>2
<1>8. CASE DispatchDone(th)
    BY <1>5, <1>8 DEF DispatchDone, OnlyStack, At, Top, Waits
<1>9. CASE PoolCheck(th) \/ HandOverRefused(th)
  <2> DEFINE d == Permit(Top(th))
             g == ForPermit("submit", d, Top(th).ready)
             k == Dispatching(Top(th).ready)
             e == Settling({t \in Tasks : Cancellable(t)}, Issued)
  <2>1. s # <<>> /\ ~Waits(Top(th)) /\ k \in Frames
    BY <1>9, TopFrame DEF PoolCheck, HandOverRefused, At, Top, Waits, Dispatching, Frame, Frames
  <2>2. ~Waits(g) /\ ~Waits(k) /\ ~Waits(e)
    BY DEF ForPermit, Dispatching, Settling, Frame, Waits
  <2>3. \/ Goto(th, g) /\ calm
        \/ CancelLocked(th, Tasks, TRUE, Tail(s))
        \/ CancelLocked(th, Tasks, TRUE, <<k>> \o Tail(s))
    <3>1. CASE PoolCheck(th)
      BY <3>1 DEF PoolCheck, OnlyStack
    <3>2. CASE HandOverRefused(th)
      BY <3>2 DEF HandOverRefused
    <3> QED
      BY <1>9, <3>1, <3>2
  <2>4. ASSUME NEW below, CancelLocked(th, Tasks, TRUE, below)
        PROVE  calm /\ (UNCHANGED stack \/ stack' = [stack EXCEPT ![th] = <<e>> \o below])
    BY <2>4 DEF CancelLocked
  <2> HIDE DEF g, k, e
  <2>5. CASE Goto(th, g) /\ calm
    BY <1>3, <2>1, <2>2, <2>5
  <2>6. CASE UNCHANGED stack /\ calm /\ UNCHANGED queue
    BY <1>2, <2>6
  <2> DEFINE base == Tail(s)
  <2>7. CASE /\ calm
             /\ \/ stack' = [stack EXCEPT ![th] = <<e>> \o base]
                \/ stack' = [stack EXCEPT ![th] = <<e>> \o (<<k>> \o base)]
    <3>1. base = Tail(stack[th])
      OBVIOUS
    <3> HIDE DEF base
    <3> QED
      BY <2>1, <2>2, <2>7, <3>1, OrdinaryStep
  <2>8. (Goto(th, g) /\ calm) \/ UNCHANGED queue
    BY <2>3 DEF CancelLocked
  <2> QED
    BY <2>3, <2>4, <2>5, <2>6, <2>7, <2>8
<1>10. CASE Take(th) \/ Drain(th)
  <2>1. PICK d \in queue, at \in {"execute", "onCancel"} : Push(th, ForPermit(at, d, {})) /\ calm
    BY <1>10 DEF Take, Drain
  <2>2. ~Waits(ForPermit(at, d, {}))
    BY DEF ForPermit, Frame, Waits
  <2> QED
    BY <1>4, <2>1, <2>2
<1>11. CASE Execute(th) \/ OnCancel(th)
  <2>1. PICK at \in {"body", "cancelled"} : Claim(th, at) /\ s # <<>> /\ ~Waits(Top(th))
    BY <1>11 DEF Execute, OnCancel, At, Top, Waits
  <2> DEFINE g == ForPermit(at, Permit(Top(th)), {})
  <2>2. ~Waits(g)
    BY DEF ForPermit, Frame, Waits
  <2>3. UNCHANGED <<stack, queue, poolRunning>> \/ (Goto(th, g) /\ calm)
    BY <2>1 DEF Claim, Crash
  <2> QED
    BY <1>2, <1>3, <2>1, <2>2, <2>3
<1>12. CASE ClaimFails(th)
  <2>1. s # <<>> /\ ~Waits(Top(th)) /\ calm
    BY <1>12 DEF ClaimFails, OnlyStack, At, Top, Waits
  <2> DEFINE g == ForPermit("onCancel", Permit(Top(th)), {})
  <2>2. ~Waits(g)
    BY DEF ForPermit, Frame, Waits
  <2>3. Goto(th, g) \/ Return(th)
    BY <1>12 DEF ClaimFails
  <2> QED
    BY <1>3, <1>5, <2>1, <2>2, <2>3
<1>13. CASE Finish(th)
  <2>1. s # <<>> /\ ~Waits(Top(th))
    BY <1>13 DEF Finish, At, Top, Waits
  <2> DEFINE g == Dispatching(Issued)
  <2>2. ~Waits(g)
    BY DEF Dispatching, Frame, Waits
  <2>3. UNCHANGED <<stack, queue, poolRunning>> \/ (Goto(th, g) /\ calm)
    BY <1>13 DEF Finish, Crash
  <2> QED
    BY <1>2, <1>3, <2>1, <2>2, <2>3
<1>14. CASE StopWorkers(th) \/ Joined(th) \/ Closed(th)
  <2> DEFINE g == Frame("draining", None, 0, {}, {})
             base == Tail(s)
             one == <<g>> \o base
  <2>1. s # <<>> /\ s \in Seq(Frames) /\ Waits(Head(s)) /\ Shaped(th, s)
    BY <1>14 DEF StopWorkers, Joined, Closed, At, Waits, TypeOK, BottomInv
  <2>2. base = <<>> /\ base \in Seq(Frames) /\ Shaped(th, base) /\ th \in Clients
    BY <2>1, ShapedPop
  <2>3. g \in Frames /\ g.at = "draining"
    BY DEF Frame, Frames
  <2>4. Shaped(th, one) /\ Serving(one)
    <3>1. Calling!Inside(one) = {g} \cup Calling!Inside(base)
      BY <2>2, <2>3, InsideMoves
    <3> HIDE DEF g, base
    <3>2. Shaped(th, one)
      BY <2>2, <2>3, ShapedPush
    <3> QED
      BY <2>3, <3>1, <3>2 DEF Serving
  <2>5. CASE StopWorkers(th)
    <3>1. stack' = [stack EXCEPT ![th] = one] /\ UNCHANGED <<queue, poolRunning>>
      BY <2>5 DEF StopWorkers, Goto, OnlyStack
    <3> HIDE DEF one
    <3> QED
      BY <2>4, <3>1, BottomStep
  <2>6. CASE Joined(th)
    <3>1. stack' = [stack EXCEPT ![th] = base] /\ queue' = {}
      BY <2>6 DEF Joined, Return, OnlyStack
    <3> HIDE DEF base
    <3> QED
      BY <2>2, <3>1, BottomStep
  <2>7. CASE Closed(th)
    <3>1. /\ stack' = [stack EXCEPT ![th] = base] /\ UNCHANGED <<queue, poolRunning>>
          /\ Head(s).at = "closing"
      BY <2>7 DEF Closed, Return, At
    <3>2. Calling!Inside(s) = {Head(s)} \cup Calling!Inside(base)
      BY <2>1, <2>3, InsideMoves
    <3>3. Serving(stack[th]) => Serving(base)
      BY <3>1, <3>2 DEF Serving
    <3> HIDE DEF base
    <3> QED
      BY <2>2, <3>1, <3>3, BottomStep
  <2> QED
    BY <1>14, <2>5, <2>6, <2>7
<1> QED
    BY <1>6, <1>7, <1>8, <1>9, <1>10, <1>11, <1>12, <1>13, <1>14 DEF Proceed

\* Callers call.
LEMMA CallKeepsBottom ==
    ASSUME TypeOK, TypeOK', BottomInv, NEW th \in Threads, Call(th)
    PROVE  BottomInv'
<1> DEFINE s == stack[th]
           h == Dispatching({})
<1> USE DEF restVars, poolVars
<1>1. h \in Frames /\ ~Waits(h)
    BY DEF Dispatching, Frame, Frames, Waits
<1> HIDE DEF h
<1>2. ASSUME UNCHANGED <<stack, queue, poolRunning>>
      PROVE  BottomInv'
    BY <1>2 DEF BottomInv
<1>3. ASSUME NEW g, ~Waits(g), stack' = [stack EXCEPT ![th] = <<g>> \o s],
             UNCHANGED <<queue, poolRunning>>
      PROVE  BottomInv'
  <2> DEFINE base == s
  <2>1. stack' = [stack EXCEPT ![th] = <<g>> \o base] /\ base = stack[th]
    BY <1>3
  <2> HIDE DEF base
  <2> QED
    BY <1>1, <1>3, <2>1, OrdinaryStep
<1>4. ASSUME NEW selected, NEW stop, CancelLocked(th, selected, stop, s)
      PROVE  BottomInv'
  <2> DEFINE g == Settling({t \in selected : Cancellable(t)}, Issued)
  <2>1. ~Waits(g)
    BY DEF Settling, Frame, Waits
  <2>2. /\ UNCHANGED <<queue, poolRunning>>
        /\ UNCHANGED stack \/ stack' = [stack EXCEPT ![th] = <<g>> \o s]
    BY <1>4 DEF CancelLocked
  <2> QED
    BY <1>2, <1>3, <2>1, <2>2
<1>5. ASSUME NEW t \in Tasks, Submit(th, t) \/ SubmitRefused(th, t) \/ Cancel(th, t)
      PROVE  BottomInv'
  <2>1. CASE Submit(th, t)
    <3> DEFINE g == Dispatching(Issued)
    <3>1. ~Waits(g) /\ stack' = [stack EXCEPT ![th] = <<g>> \o s] /\ UNCHANGED <<queue, poolRunning>>
      BY <2>1 DEF Submit, Push, Dispatching, Frame, Waits
    <3> QED
      BY <1>3, <3>1
  <2>2. CASE SubmitRefused(th, t)
    BY <1>2, <2>2 DEF SubmitRefused
  <2>3. CASE Cancel(th, t)
    BY <1>4, <2>3 DEF Cancel
  <2> QED
    BY <1>5, <2>1, <2>2, <2>3
<1>6. CASE Prune(th)
    BY <1>4, <1>6 DEF Prune
<1>7. CASE Shutdown(th)
  <2> DEFINE k == Frame("closing", None, 0, {}, {})
             g == Settling({t \in Tasks : Cancellable(t)}, Issued)
             base == <<k>>
             q == <<g>> \o base
  <2>1. s = <<>> /\ th \in Clients /\ CancelLocked(th, Tasks, TRUE, base)
    BY <1>7 DEF Shutdown
  <2>2. /\ UNCHANGED <<queue, poolRunning>>
        /\ UNCHANGED stack \/ stack' = [stack EXCEPT ![th] = q]
    BY <2>1 DEF CancelLocked
  <2>3. k \in Frames /\ ~Waits(g)
    BY DEF Frame, Frames, Settling, Waits
  <2>4. base \in Seq(Frames) /\ Shaped(th, base) /\ ~Serving(s)
    <3>1. base \in Seq(Frames) /\ Len(base) = 1 /\ DOMAIN base = {1}
      BY <2>3
    <3>2. Calling!Inside(s) = {}
      BY <2>1 DEF Calling!Inside
    <3> QED
      BY <2>1, <3>1, <3>2 DEF Shaped, Serving
  <2>5. CASE stack' = [stack EXCEPT ![th] = q]
    <3>1. stack'[th] \in Seq(Frames) /\ stack'[th] = q
      BY <2>5 DEF TypeOK
    <3> HIDE DEF k, g, base
    <3>2. g \in Frames
      BY <2>4, <3>1, PushedFrame
    <3>3. Shaped(th, q)
      BY <2>3, <2>4, <3>2, ShapedPush
    <3> HIDE DEF q
    <3> QED
      BY <2>2, <2>4, <2>5, <3>3, BottomStep
  <2> QED
    BY <1>2, <2>2, <2>5
<1>8. CASE StopPool(th)
  <2> DEFINE g == Frame("stopping", None, 0, {}, {})
             q == <<g>> \o s
  <2>1. s = <<>> /\ th \in Clients /\ s \in Seq(Frames) /\ Shaped(th, s)
    BY <1>8 DEF StopPool, TypeOK, BottomInv
  <2>2. stack' = [stack EXCEPT ![th] = q]
    BY <1>8 DEF StopPool, Push
  <2>3. g \in Frames /\ g.at = "stopping"
    BY DEF Frame, Frames
  <2> HIDE DEF g
  <2>4. Calling!Inside(q) = {g} \cup Calling!Inside(s)
    BY <2>1, <2>3, InsideMoves
  <2>5. Shaped(th, q)
    BY <2>1, <2>3, ShapedPush
  <2>6. Serving(q)
    BY <2>3, <2>4 DEF Serving
  <2> HIDE DEF q
  <2> QED
    BY <2>2, <2>5, <2>6, BottomStep
<1> QED
    BY <1>5, <1>6, <1>7, <1>8 DEF Call

\* Waiting calls are at the bottom, and a stopped pool's queue is somebody's, in every
\* reachable state.
THEOREM ShutdownsAtBottom == Spec => []BottomInv
<1>1. Init => BottomInv
  <2> SUFFICES ASSUME Init
               PROVE  BottomInv
    OBVIOUS
  <2>1. (\A th \in Threads : stack[th] = <<>>) /\ queue = {}
    BY DEF Init
  <2> QED
    BY <2>1 DEF BottomInv, Shaped
<1>2. TypeOK /\ RegionInv /\ BottomInv /\ [Next]_vars => BottomInv'
  <2> SUFFICES ASSUME TypeOK, RegionInv, BottomInv, [Next]_vars
               PROVE  BottomInv'
    OBVIOUS
  <2>1. TypeOK'
    BY StepTyped
  <2>2. UNCHANGED <<stack, queue, poolRunning>> => BottomInv'
    BY DEF BottomInv
  <2>3. ASSUME NEW t \in Tasks, Abort(t)
        PROVE  BottomInv'
    BY <2>2, <2>3 DEF Abort, poolVars
  <2>4. CASE UNCHANGED vars
    BY <2>2, <2>4 DEF vars, restVars, poolVars
  <2> QED
    BY <2>1, <2>3, <2>4, ProceedKeepsBottom, CallKeepsBottom DEF Next
<1> QED
    BY <1>1, <1>2, TypeCorrect, RegionInvariant, PTL DEF Spec

-----------------------------------------------------------------------------
(* The scheduler at rest: nothing waits for nobody.                        *)

\* A set of numbers has a least one.
LEMMA LeastExists ==
    ASSUME NEW S, S \subseteq Nat, S # {}
    PROVE  \E x \in S : \A y \in S : x <= y
<1> DEFINE R == OpToRel(<, Nat)
<1>1. IsWellFoundedOn(R, Nat)
    BY NatLessThanWellFounded
<1>2. \E x \in S : \A y \in S : ~(<<y, x>> \in R)
  <2> HIDE DEF R
  <2> QED
    BY <1>1, WFMin, Zenon
<1>3. ASSUME NEW x \in Nat, NEW y \in Nat, ~(<<y, x>> \in R)
      PROVE  x <= y
  <2>1. ~(y < x)
    BY <1>3, Zenon DEF OpToRel
  <2> QED
    BY <2>1
<1> HIDE DEF R
<1> QED
    BY <1>2, <1>3

\* Among the registered tasks one comes before all others.
LEMMA ForemostExists ==
    ASSUME TypeOK, IdsUnique, NEW t \in Tasks, Registered(t)
    PROVE  \E u \in Tasks : Registered(u) /\ \A v \in Tasks \ {u} : Registered(v) => Before(u, v)
<1> DEFINE P == {Priority[v] : v \in {w \in Tasks : Registered(w)}}
<1>1. P \subseteq Nat /\ P # {}
    BY SchedulerAssumption
<1>2. PICK p \in P : \A x \in P : p <= x
  <2> HIDE DEF P
  <2> QED
    BY <1>1, LeastExists
<1> DEFINE N == {id[v] : v \in {w \in Tasks : Registered(w) /\ Priority[w] = p}}
<1>3. N \subseteq Nat /\ N # {}
    BY <1>2 DEF TypeOK
<1>4. PICK n \in N : \A x \in N : n <= x
  <2> HIDE DEF N
  <2> QED
    BY <1>3, LeastExists
<1>5. PICK u \in Tasks : Registered(u) /\ Priority[u] = p /\ id[u] = n
    BY <1>4
<1>6. ASSUME NEW v \in Tasks \ {u}, Registered(v)
      PROVE  Before(u, v)
  <2>1. Priority[v] \in Nat /\ p \in Nat /\ p <= Priority[v]
    BY <1>1, <1>2, <1>6, SchedulerAssumption
  <2>2. id[v] \in Nat /\ id[u] \in Nat /\ id[u] # id[v]
    BY <1>5, <1>6 DEF TypeOK, IdsUnique, Registered
  <2>3. Priority[v] = p => id[u] <= id[v]
    BY <1>4, <1>5, <1>6
  <2> QED
    BY <1>5, <2>1, <2>2, <2>3 DEF Before, Precedes
<1> QED
    BY <1>5, <1>6

\* When nobody runs, not everybody can wait: the foremost task leads all its positions.
LEMMA SomebodyLeads ==
    ASSUME TypeOK, RegionInv, WaitersBlocked, \A t \in Tasks : phase[t] # "Running",
           \A t \in Tasks : phase[t] # "Scheduled"
    PROVE  \A t \in Tasks : ~Registered(t)
<1> SUFFICES ASSUME NEW t \in Tasks, Registered(t)
             PROVE  FALSE
    OBVIOUS
<1>1. PICK u \in Tasks : /\ Registered(u)
                         /\ \A v \in Tasks \ {u} : Registered(v) => Before(u, v)
    BY ForemostExists DEF RegionInv
<1>2. ASSUME NEW k \in keys[u]
      PROVE  Leads(u, k)
  <2>1. k \in Keys
    BY DEF TypeOK
  <2>2. running[k] = None
    BY <2>1 DEF RegionInv, RunningMatchesPhase, TypeOK
  <2>3. u \in positions[k] /\ \A v \in positions[k] : v \in Tasks /\ Registered(v)
    BY <1>1, <2>1 DEF RegionInv, QueuesMatchKeys, TypeOK
  <2> QED
    BY <1>1, <2>2, <2>3 DEF Leads, First
<1>3. BlockedKeys(u) = {}
    BY <1>2 DEF BlockedKeys
<1>4. waiting[u] = Cardinality(BlockedKeys(u))
    BY <1>1 DEF RegionInv, WaitingCountsBlockers
<1>5. waiting[u] = 0
    BY <1>3, <1>4, FS_EmptySet
<1>6. phase[u] = "Waiting"
    BY <1>1 DEF Registered, TypeOK
<1> QED
    BY <1>1, <1>5, <1>6 DEF WaitersBlocked

\* At rest every thread is idle or waits in shutdown() for the tasks outstanding, and
\* no permit is left in the queue.
LEMMA RestingThreads ==
    ASSUME TypeOK, BottomInv, AtRest
    PROVE  /\ \A th \in Threads : \/ stack[th] = <<>>
                                  \/ At(th, "closing") /\ outstanding # 0 /\ Tail(stack[th]) = <<>>
           /\ \A f \in Within : f.at = "closing"
           /\ queue = {}
<1>1. ASSUME NEW th \in Threads, stack[th] # <<>>, Waits(Head(stack[th]))
      PROVE  th \in Clients /\ Tail(stack[th]) = <<>>
  <2>1. stack[th] \in Seq(Frames) /\ Shaped(th, stack[th])
    BY DEF TypeOK, BottomInv
  <2> QED
    BY <1>1, <2>1, ShapedPop
<1>2. ASSUME NEW w \in Workers
      PROVE  stack[w] = <<>>
  <2>1. w \in Threads /\ w \notin Clients
    BY ThreadsAssumption DEF Threads
  <2> QED
    BY <1>1, <2>1 DEF AtRest, At, Waits
<1>3. \A th \in Threads : \/ stack[th] = <<>>
                          \/ At(th, "closing") /\ outstanding # 0 /\ Tail(stack[th]) = <<>>
  <2> SUFFICES ASSUME NEW th \in Threads, stack[th] # <<>>
               PROVE  At(th, "closing") /\ outstanding # 0 /\ Tail(stack[th]) = <<>>
    OBVIOUS
  <2>1. At(th, "closing") /\ outstanding # 0
    BY <1>2 DEF AtRest
  <2> QED
    BY <1>1, <2>1 DEF At, Waits
<1>4. ASSUME NEW th \in Threads, NEW f \in Calling!Inside(stack[th])
      PROVE  f.at = "closing"
  <2>1. stack[th] \in Seq(Frames) /\ stack[th] # <<>>
    BY DEF TypeOK, Calling!Inside
  <2>2. Head(stack[th]).at = "closing" /\ Tail(stack[th]) = <<>> /\ Head(stack[th]) \in Frames
    BY <1>3, <2>1, Calling!Innermost DEF At
  <2>3. Calling!Inside(stack[th]) = {Head(stack[th])} \cup Calling!Inside(Tail(stack[th]))
    BY <2>1, <2>2, InsideMoves
  <2>4. Calling!Inside(Tail(stack[th])) = {}
    BY <2>2, Calling!Few
  <2> QED
    BY <2>2, <2>3, <2>4
<1>5. \A f \in Within : f.at = "closing"
    BY <1>4 DEF Within, Calling!Within
<1>6. \A th \in Threads : ~Serving(stack[th])
    BY <1>4 DEF Serving
<1>7. queue = {}
  <2>1. PICK w \in Workers : TRUE
    BY ThreadsAssumption
  <2>2. w \in Threads /\ stack[w] = <<>>
    BY <1>2 DEF Threads
  <2>3. queue = {} \/ ~poolRunning
    BY <2>1, <2>2 DEF AtRest, At
  <2> QED
    BY <1>6, <2>3 DEF BottomInv
<1> QED
    BY <1>3, <1>5, <1>7

\* The scheduler comes to rest only when no shutdown is under way and every accepted task
\* has been settled and called back, whoever may have overtaken it, whatever was cancelled
\* and whenever the pool was stopped: there is no deadlock, and no task is stranded.
THEOREM SchedulerRestsOnlySettled == Spec => []RestsOnlySettled
<1>1. TypeOK /\ RegionInv /\ SettleInv /\ PermitInv /\ BottomInv => RestsOnlySettled
  <2> SUFFICES ASSUME TypeOK, RegionInv, SettleInv, PermitInv, BottomInv, AtRest
               PROVE  /\ \A th \in Threads : stack[th] = <<>>
                      /\ \A t \in Tasks : id[t] # 0 => phase[t] = "Finished" /\ callbacks[t] = 1
    BY DEF RestsOnlySettled
  <2>1. \A f \in Within : f.at = "closing"
    BY RestingThreads
  <2>2. Owned = {}
    <3>1. \A f \in Within : Has(f) = {}
      BY <2>1 DEF SettleInv, ToldInv, AllTidy, Tidy, Has, Told
    <3> QED
      BY <3>1, HeldTasks
  <2>3. Carried = {} /\ queue = {}
    <3>1. Carrying!Within(stack) = Within
      BY DEF Carrying!Within, Carrying!Inside, Within, Calling!Within, Calling!Inside
    <3>2. \A f \in Carrying!Within(stack) : FramePermits(f) = {}
      BY <2>1, <3>1 DEF PermitInv, PermitsApart, Lean, FramePermits
    <3>3. Carried = {}
      BY <3>2, Carrying!HeldWithin DEF Carried
    <3> QED
      BY <3>3, RestingThreads
  <2>4. \A t \in Tasks : phase[t] # "Scheduled"
    BY <2>3 DEF PermitInv, PermitsOut, UnderWay
  <2>5. \A t \in Tasks : phase[t] # "Running"
    BY <2>2 DEF SettleInv, ToldInv, RestOK, Rest
  <2>6. \A t \in Tasks : ~Registered(t)
    BY <2>4, <2>5, SomebodyLeads DEF PermitInv
  <2>7. outstanding = 0
    <3>1. InTable \cup Owned = {}
      BY <2>2, <2>6 DEF InTable
    <3> QED
      BY <3>1, FS_EmptySet DEF SettleInv, CountOK
  <2>8. \A th \in Threads : stack[th] = <<>>
    BY <2>7, RestingThreads
  <2>9. ASSUME NEW t \in Tasks, id[t] # 0
        PROVE  phase[t] = "Finished" /\ callbacks[t] = 1
    <3>1. phase[t] = "Finished"
      BY <2>6, <2>9 DEF Registered
    <3> QED
      BY <2>2, <3>1 DEF SettleInv, ToldInv, RestOK, Rest
  <2> QED
    BY <2>8, <2>9
<1> QED
    BY <1>1, TypeCorrect, RegionInvariant, SettlingInvariant, PermitsAccountedFor,
       ShutdownsAtBottom, PTL
=============================================================================
