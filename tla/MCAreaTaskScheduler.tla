------------------------ MODULE MCAreaTaskScheduler ------------------------
(* Small instances of AreaTaskScheduler for TLC. *)
EXTENDS AreaTaskSchedulerProps, TLC

CONSTANTS a, b, c, x, y

MCTasks == {a, b, c}
MCKeys == {x, y}

\* b bridges the positions of a and c.
Bridge == a :> {x} @@ b :> {x, y} @@ c :> {y}

\* The bridge is the most urgent, then c.
Urgent == a :> 2 @@ b :> 0 @@ c :> 1

\* Every caller in the server submits with Normal.
Normal == [t \in MCTasks |-> 1]

(* Workers are interchangeable; only safety runs use this. *)
WorkerSymmetry == Permutations(Workers)
=============================================================================
