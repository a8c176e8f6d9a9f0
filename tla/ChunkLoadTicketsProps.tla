----------------------- MODULE ChunkLoadTicketsProps -----------------------
(* What tickets and the distance graph promise.                            *)
EXTENDS ChunkLoadTickets

Levels == 0 .. Unreached

(* Types; a ticket that runs out has ticks left, and a pump that runs has  *)
(* a chunk to take or one to come back from.                               *)
TypeOK ==
    /\ tickets \in [Chunks -> SUBSET Tickets]
    /\ ticksLeft \in [Chunks -> [Tickets -> Nat]]
    /\ \A c \in Chunks : \A t \in Timed(tickets[c]) : ticksLeft[c][t] > 0
    /\ expiring \subseteq Chunks
    /\ center \in [Players -> Spots \cup {None}]
    /\ tracked \in [Players -> SUBSET Chunks]
    /\ trackers \in [Chunks -> SUBSET Players]
    /\ requested \in [Players -> ViewDistances \cup {None}]
    /\ viewDistance \in ViewDistances
    /\ sourceCount \in [Chunks -> Nat]
    /\ dirty \subseteq Chunks /\ queue \in Seq(Chunks)
    /\ ticking \in [Chunks -> Levels] /\ source \in [Chunks -> Levels] /\ level \in [Chunks -> Levels]
    /\ propagating \in Chunks \cup {None}
    /\ pump \in {"idle", "first", "more"}
    /\ IF pump = "idle" THEN ~InCallback ELSE InCallback \/ queue # <<>>
    /\ calls \in 0 .. MaxCalls

(* A level is what its source and its neighbours make it, unless the chunk *)
(* is queued or about to be: no change is ever left without a follow-up,   *)
(* though the pump may stop after any chunk and ticket calls come from     *)
(* inside the callback.                                                    *)
LevelsFollow ==
    \A c \in Chunks :
        \/ c \in ToSet(queue)
        \/ InCallback /\ c \in Affected(propagating)
        \/ level[c] = Recomputed(c)

\* What the tickets and the players themselves ask of a chunk.
Demand(c) == AsSource(AskedLevel(tickets[c], Cardinality(PlayersAt(c)), viewDistance))

(* A chunk that is not marked is a source at least as strong as its        *)
(* tickets and players ask: none of them is ever forgotten.                *)
DemandCovered == \A c \in Chunks \ dirty : source[c] <= Demand(c)

ExpiringAgrees == expiring = {c \in Chunks : Timed(tickets[c]) # {}}
CountsAgree == \A c \in Chunks : sourceCount[c] = Cardinality(PlayersAt(c))
TrackersAgree ==
    /\ \A c \in Chunks : trackers[c] = {p \in Players : c \in tracked[p]}
    /\ \A p \in Players : tracked[p] = TrackedAt(center[p], requested[p], viewDistance)

(* The tables kept beside the tickets and positions agree with them: which *)
(* chunks hold a ticket that runs out, how many players stand where, who   *)
(* follows what.  tick only looks at the first, the refresh at the second, *)
(* sending and unloading at the third.                                     *)
TablesAgree == ExpiringAgrees /\ CountsAgree /\ TrackersAgree

Settled == queue = <<>> /\ ~InCallback

(* Once the queue is empty a level is the distance from the nearest        *)
(* source, counted from the source's own level, and out of reach beyond    *)
(* the rim: whatever came and went in between, no level stays behind.      *)
SettledIsNearest ==
    Settled =>
        \A c \in Chunks :
            LET near == Lowest({source[d] + Distance[d][c] : d \in Chunks})
            IN  level[c] = IF near <= MaxLevel THEN near ELSE Unreached

(* When the calls stop, ticks bring the graph to rest, though every one of *)
(* them may run out of time after a single chunk.                          *)
Settles == <>[](Settled /\ dirty = {})

(* A ticket with a lifespan ends, without being released.                  *)
TimedTicketsEnd ==
    \A c \in Chunks, t \in Timed(Tickets) : t \in tickets[c] ~> t \notin tickets[c]

(* A chunk at rest is wanted as much as its strongest ticket or player     *)
(* asks, no more ("最终 ticket 级别由最小 level 决定", ChunkLoadTicket.hpp).  *)
SourcesExact ==
    Settled => \A c \in Chunks \ dirty : source[c] = Demand(c)
=============================================================================
