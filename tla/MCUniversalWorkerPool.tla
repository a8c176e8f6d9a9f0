----------------------- MODULE MCUniversalWorkerPool -----------------------
(* Small instances of UniversalWorkerPool for TLC. *)
EXTENDS UniversalWorkerPoolProps, TLC

CONSTANTS a, b

TwoTasks == {a, b}

\* The second task is the more urgent.
Urgent == a :> 1 @@ b :> 0

WorkerSymmetry == Permutations(Workers)
=============================================================================
