----------------------- MODULE MCChunkTaskScheduler -----------------------
(* Small instances of ChunkTaskScheduler for TLC.                          *)
EXTENDS ChunkTaskSchedulerProps, TLC

CONSTANTS c1, c2, r1, r2

Two == {c1, c2}

\* The step to the last status reads its neighbours at the one before, and writes to them.
ReadsLast(cs, top) ==
    [s \in 1 .. top |-> [p \in cs \X cs |-> IF s = top /\ s > 1 /\ p[1] # p[2] THEN s - 1 ELSE -1]]
WritesLast(cs, top) == [s \in 0 .. top |-> [c \in cs |-> IF s = top THEN cs ELSE {c}]]

Required2 == ReadsLast(Two, 2)
Area2 == WritesLast(Two, 2)

Rising == c1 :> <<2>> @@ c2 :> <<1>>
Falling == c1 :> <<2, -1, 2>> @@ c2 :> <<2, 0>>
WantNext == r1 :> [chunk |-> c2, status |-> 2]
Leaving == c1 :> <<2, -1>> @@ c2 :> <<1>>
Still == c1 :> <<>> @@ c2 :> <<>>
WantNothing == <<>>
WantTwice == [r \in {r1, r2} |-> [chunk |-> c1, status |-> 2]]
WantLess == r1 :> [chunk |-> c1, status |-> 1]

WorkerSymmetry == Permutations(Workers)
=============================================================================
