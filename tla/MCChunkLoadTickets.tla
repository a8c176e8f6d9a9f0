------------------------ MODULE MCChunkLoadTickets ------------------------
(* Small instances of ChunkLoadTickets for TLC: chunks in a row.           *)
EXTENDS ChunkLoadTicketsProps, TLC

CONSTANTS forced, portal, cooldown

Apart(i, j) == IF i < j THEN j - i ELSE i - j
InARow(n) == [i \in 1 .. n |-> [j \in 1 .. n |-> Apart(i, j)]]

Row4 == 1 .. 4
Distance4 == InARow(4)
Kinds == {forced, portal, cooldown}
LevelOf == forced :> 1 @@ portal :> 1 @@ cooldown :> 2
LifespanOf == forced :> 0 @@ portal :> 2 @@ cooldown :> 1
TimedAtTwo == [c \in Row4 |-> IF c = 2 THEN {portal, cooldown} ELSE {}]
=============================================================================
