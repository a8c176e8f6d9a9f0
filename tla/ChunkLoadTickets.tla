------------------------- MODULE ChunkLoadTickets -------------------------
(***************************************************************************)
(* Which chunks are wanted, and how much: ChunkLoadTicketManager and the   *)
(* ChunkDistanceGraph under it.                                            *)
(*                                                                         *)
(* A level is a distance from need: 0 is most wanted, MaxLevel is the rim, *)
(* Unreached is beyond.  Tickets and players make a chunk a source; each   *)
(* step away from a source costs a level.  What changes a ticket, a player *)
(* or the view distance only marks chunks dirty.  processUpdates turns the *)
(* dirty chunks into sources and then recomputes queued chunks one by one, *)
(* each change queueing the chunks around; it may run out of time after    *)
(* any chunk and leaves the rest of the queue to the next call.            *)
(*                                                                         *)
(* All of this runs on the main thread, so a call is one action up to its  *)
(* first recomputation.  Between the store of a level and the queueing of  *)
(* the chunks around lies the callback onLevelChanged: the ticket calls    *)
(* that may come from there are allowed there, and find m_processing set.  *)
(*                                                                         *)
(* Chunks that join the queue together join it in any order: the dirty     *)
(* ones stand in a hash set.  Left out: the queries, the centre callback.  *)
(* A definition named like the one after it with a suffix is a slip of     *)
(* that code which the properties must notice; nothing uses it.            *)
(***************************************************************************)
EXTENDS Integers, FiniteSets, FiniteSetsExt, SequencesExt

CONSTANTS
    Chunks,
    Distance,       \* Distance[c][d]: steps between two chunks, diagonals included
    MaxLevel,       \* ChunkDistanceGraph::MAX_LEVEL
    Full,           \* ChunkLoadLevel::Full; a block ticks at Full - 1
    Tickets,        \* kinds of explicit tickets
    Level,          \* their level
    Lifespan,       \* the ticks they last, 0 for ever
    Forced,         \* the kind forceChunk uses
    Registrable,    \* Registrable[c]: the kinds registerTicket is called with for c
    Players,
    Spots,          \* where players stand
    ViewDistances,  \* of the server and the clients, within the bounds set to them
    FirstView,      \* m_viewDistance of a new manager
    MaxCalls,       \* bound: calls other than tick in a behaviour
    None

\* Distances are those of a king on a board without holes.
ASSUME DistanceAssumption ==
    /\ Distance \in [Chunks -> [Chunks -> Nat]]
    /\ \A c, d \in Chunks : Distance[c][d] = 0 <=> c = d
    /\ \A c, d \in Chunks : Distance[c][d] = Distance[d][c]
    /\ \A c, d, e \in Chunks : Distance[c][e] <= Distance[c][d] + Distance[d][e]
    /\ \A c, d \in Chunks : c # d =>
          \E e \in Chunks : Distance[e][d] = 1 /\ Distance[c][e] + 1 = Distance[c][d]

ASSUME TicketAssumption ==
    /\ IsFiniteSet(Chunks) /\ IsFiniteSet(Players)
    /\ MaxLevel \in Nat /\ Full \in 0 .. MaxLevel
    /\ Level \in [Tickets -> 0 .. MaxLevel] /\ Lifespan \in [Tickets -> Nat]
    /\ Forced \in Tickets /\ Registrable \in [Chunks -> SUBSET Tickets]
    /\ Spots \subseteq Chunks
    /\ ViewDistances \subseteq 0 .. Full /\ FirstView \in ViewDistances
    /\ MaxCalls \in Nat
    /\ None \notin Chunks \cup ViewDistances

VARIABLES
    tickets,        \* m_chunkTickets
    ticksLeft,      \* of each ticket
    expiring,       \* m_expiringChunks
    center,         \* where each player stands, None before the first position
    tracked,        \* the chunks each player follows
    trackers,       \* m_chunkTrackingPlayers, per chunk
    requested,      \* m_playerViewDistances, None without an entry
    viewDistance,
    sourceCount,    \* m_playerSourceCounts
    dirty,          \* m_dirtyChunks
    ticking,        \* m_tickingTicketSources, Unreached without an entry
    source,         \* m_sourceLevels, Unreached without an entry
    level,          \* m_levels, Unreached without an entry
    queue,          \* m_updateQueue; m_pendingKeys are the chunks in it
    propagating,    \* the chunk whose change is being told, or None
    pump,           \* processUpdates: "idle", "first" before its first chunk, "more" after
    calls

ticketVars == <<tickets, ticksLeft, expiring>>
playerVars == <<center, tracked, trackers, requested, viewDistance, sourceCount>>
graphVars == <<dirty, ticking, source, level, queue, propagating, pump>>
vars == <<ticketVars, playerVars, graphVars, calls>>

Unreached == MaxLevel + 1
Lowest(levels) == Min(levels \cup {Unreached})
Neighbours(c) == {d \in Chunks : Distance[c][d] = 1}

-----------------------------------------------------------------------------
(* What tickets and players ask of a chunk.                                *)

TicketLevel(ts) == Lowest({Level[t] : t \in ts})
PlayerLevel(view) == Full - view
Timed(ts) == {t \in ts : Lifespan[t] > 0}

\* The level a set of tickets and a number of players ask for.
AskedLevel(ts, players, view) ==
    Lowest({TicketLevel(ts)} \cup IF players > 0 THEN {PlayerLevel(view)} ELSE {})

\* A source at MaxLevel or beyond is no source.
AsSource(n) == IF n < MaxLevel THEN n ELSE Unreached

\* The level processUpdates recomputes.  A chunk on the rim offers its neighbours Unreached.
RecomputedCapped(c) ==
    Lowest({source[c]} \cup {IF level[d] < MaxLevel THEN level[d] + 1 ELSE level[d] : d \in Neighbours(c)})
Recomputed(c) == Lowest({source[c]} \cup {level[d] + 1 : d \in Neighbours(c)})

\* The chunks to look at again when the level of c has changed.
Affected(c) == Neighbours(c)

-----------------------------------------------------------------------------
(* processUpdates.  A call from the callback refreshes and then finds      *)
(* m_processing set; any other starts the pump.                            *)

InCallback == propagating # None
Outside == pump = "idle"

\* updateSourceLevel: below the chunk's level a source can only fall, else it is replaced.
SourceAfter(c, asked) == AsSource(IF asked < level[c] THEN Lowest({source[c], asked}) ELSE asked)

\* _enqueueUpdate of some chunks: those in the queue keep their place.
Orders(S) == {o \in [1 .. Cardinality(S) -> S] : \A c \in S : \E i \in DOMAIN o : o[i] = c}
Enqueue(chunks, q) == \E o \in Orders(chunks \ ToSet(q)) : queue' = q \o o

\* _refreshChunkSourceLevel of each dirty chunk
Refresh(chunks) ==
    LET asked(c) == AskedLevel(tickets'[c], sourceCount'[c], viewDistance')
        byTicket(c) == TicketLevel(tickets'[c])
    IN  /\ source' = [c \in Chunks |-> IF c \in chunks THEN SourceAfter(c, asked(c)) ELSE source[c]]
        /\ ticking' = [c \in Chunks |->
              IF c \notin chunks THEN ticking[c] ELSE IF byTicket(c) < Full THEN byTicket(c) ELSE Unreached]
        /\ dirty' = {}
        /\ Enqueue({c \in chunks : source'[c] # source[c]}, queue)

PumpAfterDirty(chunks) == IF InCallback \/ queue' = <<>> \/ chunks = {} THEN pump ELSE "first"
PumpAfter(chunks) == IF InCallback \/ queue' = <<>> THEN pump ELSE "first"

Process(chunks) ==
    /\ Refresh(chunks)
    /\ pump' = PumpAfter(chunks)
    /\ UNCHANGED <<level, propagating>>

Mark(chunks) ==
    /\ dirty' = dirty \cup chunks
    /\ UNCHANGED <<ticking, source, level, queue, propagating, pump>>

ProcessUpdates ==
    /\ Outside \/ InCallback
    /\ dirty # {} \/ queue # <<>>
    /\ UNCHANGED <<ticketVars, playerVars, calls>>
    /\ Process(dirty)

\* One chunk of ChunkDistanceGraph::processUpdates, up to the callback.
Step ==
    /\ pump # "idle" /\ ~InCallback
    /\ queue' = Tail(queue)
    /\ level' = [level EXCEPT ![Head(queue)] = Recomputed(Head(queue))]
    /\ propagating' = IF level' # level THEN Head(queue) ELSE None
    /\ pump' = IF queue' = <<>> /\ propagating' = None THEN "idle" ELSE "more"
    /\ UNCHANGED <<ticketVars, playerVars, dirty, ticking, source, calls>>

\* Back from the callback: _propagateToNeighbors.
Propagate ==
    /\ InCallback
    /\ Enqueue(Affected(propagating), queue)
    /\ propagating' = None
    /\ pump' = IF queue' = <<>> THEN "idle" ELSE pump
    /\ UNCHANGED <<ticketVars, playerVars, dirty, ticking, source, level, calls>>

\* The time or the thousand chunks of one call are over.
StopPump ==
    /\ pump = "more" /\ ~InCallback
    /\ pump' = "idle"
    /\ UNCHANGED <<ticketVars, playerVars, dirty, ticking, source, level, queue, propagating, calls>>

-----------------------------------------------------------------------------
(* Tickets.                                                                *)

Call ==
    /\ calls < MaxCalls
    /\ calls' = calls + 1

\* A ticket that is there already keeps the ticks it has left.
PutTicket(c, t) ==
    /\ tickets' = [tickets EXCEPT ![c] = @ \cup {t}]
    /\ ticksLeft' = [ticksLeft EXCEPT ![c][t] = IF t \in tickets[c] THEN @ ELSE Lifespan[t]]
    /\ expiring' = IF t \notin tickets[c] /\ Lifespan[t] > 0 THEN expiring \cup {c} ELSE expiring

\* The index after a ticket has gone: _refreshExpiringIndex.
IndexAfterEager(c, gone, ts) == IF Lifespan[gone] > 0 THEN expiring \ {c} ELSE expiring
IndexAfter(c, gone, ts) == IF Lifespan[gone] > 0 /\ Timed(ts) = {} THEN expiring \ {c} ELSE expiring

DropTicket(c, t) ==
    /\ tickets' = [tickets EXCEPT ![c] = @ \ {t}]
    /\ ticksLeft' = [ticksLeft EXCEPT ![c][t] = 0]
    /\ expiring' = IF t \in tickets[c] THEN IndexAfter(c, t, tickets[c] \ {t}) ELSE expiring

RegisterTicket(c, t) ==
    /\ Outside \/ InCallback
    /\ Call
    /\ PutTicket(c, t)
    /\ Mark({c})
    /\ UNCHANGED playerVars

ReleaseTicket(c, t) ==
    /\ Outside \/ InCallback
    /\ t \in tickets[c]
    /\ Call
    /\ DropTicket(c, t)
    /\ Mark({c})
    /\ UNCHANGED playerVars

ForceChunk(c, force) ==
    /\ Outside
    /\ force <=> Forced \notin tickets[c]
    /\ Call
    /\ IF force THEN PutTicket(c, Forced) ELSE DropTicket(c, Forced)
    /\ UNCHANGED playerVars
    /\ Process(dirty \cup {c})

\* The tickets whose last tick this is.
Ending(c) == IF c \in expiring THEN {t \in Timed(tickets[c]) : ticksLeft[c][t] = 1} ELSE {}

Tick ==
    /\ Outside
    /\ tickets' = [c \in Chunks |-> tickets[c] \ Ending(c)]
    /\ ticksLeft' = [c \in Chunks |-> [t \in Tickets |->
          IF c \in expiring /\ t \in Timed(tickets[c]) THEN ticksLeft[c][t] - 1 ELSE ticksLeft[c][t]]]
    /\ expiring' = {c \in expiring : Timed(tickets[c]) # Ending(c)}
    /\ UNCHANGED <<playerVars, calls>>
    /\ Process(dirty \cup {c \in Chunks : Ending(c) # {}})

-----------------------------------------------------------------------------
(* Players.                                                                *)

Around(c, far) == {d \in Chunks : Distance[c][d] <= far}

\* _buildTrackedChunkSet
TrackedAt(c, request, view) ==
    IF c = None THEN {} ELSE Around(c, IF request = None THEN view ELSE Min({view, request}))

\* _applyTrackingDelta of all players
Follow(now) ==
    /\ tracked' = now
    /\ trackers' = [c \in Chunks |->
          (trackers[c] \ {p \in Players : c \in tracked[p] \ now[p]})
              \cup {p \in Players : c \in now[p] \ tracked[p]}]

PlayersAt(c) == {p \in Players : center[p] = c}
At(p, c) == IF c = center[p] THEN 1 ELSE 0

\* m_playerSourceCounts without a player that stood somewhere: _updatePlayerSourceCenter.
CountWithoutAny(p) == [c \in Chunks |-> IF c = center[p] THEN 0 ELSE sourceCount[c]]
CountWithout(p) == [c \in Chunks |-> sourceCount[c] - At(p, c)]

UpdatePlayerPosition(p, c) ==
    /\ Outside
    /\ center[p] # c
    /\ Call
    /\ sourceCount' = [CountWithout(p) EXCEPT ![c] = @ + 1]
    /\ center' = [center EXCEPT ![p] = c]
    /\ Follow([tracked EXCEPT ![p] = TrackedAt(c, requested[p], viewDistance)])
    /\ UNCHANGED <<ticketVars, requested, viewDistance>>
    /\ Process(dirty \cup ({center[p], c} \ {None}))

RemovePlayer(p) ==
    /\ Outside
    /\ center[p] # None
    /\ Call
    /\ requested' = [requested EXCEPT ![p] = None]
    /\ sourceCount' = CountWithout(p)
    /\ center' = [center EXCEPT ![p] = None]
    /\ Follow([tracked EXCEPT ![p] = {}])
    /\ UNCHANGED <<ticketVars, viewDistance>>
    /\ Process(dirty \cup {center[p]})

\* _rebuildAllPlayerSources counts the players afresh.
SetViewDistance(view) ==
    /\ Outside
    /\ view # viewDistance
    /\ Call
    /\ viewDistance' = view
    /\ sourceCount' = [c \in Chunks |-> Cardinality(PlayersAt(c))]
    /\ Follow([p \in Players |-> TrackedAt(center[p], requested[p], view)])
    /\ UNCHANGED <<ticketVars, center, requested>>
    /\ Process(dirty \cup {c \in Chunks : sourceCount[c] > 0 \/ PlayersAt(c) # {}})

\* A client's wish changes what it follows, not what is loaded.
SetPlayerViewDistance(p, view) ==
    /\ Outside
    /\ requested[p] # view
    /\ Call
    /\ requested' = [requested EXCEPT ![p] = view]
    /\ Follow([tracked EXCEPT ![p] = TrackedAt(center[p], view, viewDistance)])
    /\ UNCHANGED <<ticketVars, center, viewDistance, sourceCount, graphVars>>

-----------------------------------------------------------------------------
Init ==
    /\ tickets = [c \in Chunks |-> {}]
    /\ ticksLeft = [c \in Chunks |-> [t \in Tickets |-> 0]]
    /\ expiring = {}
    /\ center = [p \in Players |-> None]
    /\ tracked = [p \in Players |-> {}]
    /\ trackers = [c \in Chunks |-> {}]
    /\ requested = [p \in Players |-> None]
    /\ viewDistance = FirstView
    /\ sourceCount = [c \in Chunks |-> 0]
    /\ dirty = {}
    /\ ticking = [c \in Chunks |-> Unreached]
    /\ source = [c \in Chunks |-> Unreached]
    /\ level = [c \in Chunks |-> Unreached]
    /\ queue = <<>>
    /\ propagating = None
    /\ pump = "idle"
    /\ calls = 0

TicketCall ==
    \/ \E c \in Chunks : \E t \in Registrable[c] : RegisterTicket(c, t) \/ ReleaseTicket(c, t)
    \/ \E c \in Spots, force \in BOOLEAN : ForceChunk(c, force)

PlayerCall ==
    \/ \E p \in Players : RemovePlayer(p)
    \/ \E p \in Players, c \in Spots : UpdatePlayerPosition(p, c)
    \/ \E view \in ViewDistances : SetViewDistance(view)
    \/ \E p \in Players, view \in ViewDistances : SetPlayerViewDistance(p, view)

Next ==
    \/ TicketCall \/ PlayerCall
    \/ Tick \/ ProcessUpdates
    \/ Step \/ Propagate \/ StopPump

(* The server ticks (ServerChunkManager::tick) and the main thread goes on *)
(* with what it has begun.                                                 *)
Fairness == WF_vars(Tick) /\ WF_vars(Step \/ Propagate \/ StopPump)

Spec == Init /\ [][Next]_vars /\ Fairness
=============================================================================
