--------------------------- MODULE ChunkDelivery ---------------------------
(***************************************************************************)
(* How the chunk at one position of a dimension reaches the clients: what  *)
(* ServerChunkManager, ServerWorld, ChunkSendManager,                      *)
(* BlockUpdateSyncManager and ServerDimensionManager do from the           *)
(* publication of the chunk to the packets.                                *)
(*                                                                         *)
(* A published chunk joins the post-processing queue; its item takes a     *)
(* LIGHT ticket and makes a light task; that task's end asks for the       *)
(* chunk to be sent to the players that track it and the ticket released.  *)
(* A player that comes to track a chunk in memory is sent it at once.      *)
(* Sending is a build task, which takes a snapshot and lays it ready, and  *)
(* processPendingSends.  Edits are gathered and flushed as updates.        *)
(*                                                                         *)
(* The main thread does all of it but the tasks, which the area scheduler  *)
(* runs one after the other, as they overlap at the position.  What a tick *)
(* drains may here be drained in any order and in part, between any two    *)
(* packets of players: the post-processing queue has a budget indeed.      *)
(*                                                                         *)
(* A connection keeps its packets in order, so a packet arrives when it is *)
(* sent.  A chunk is the number of its edits and whether its light is      *)
(* right.  Tickets and levels (ChunkLoadTickets) and the stages of an      *)
(* unload (ChunkUnload) are reduced to what shows here; a save never       *)
(* fails.  The other dimensions do as this one does and are only places    *)
(* where players are.  Left out: light updates, entities, tasks cancelled  *)
(* by a shutdown and the path of a server without worker pool.             *)
(* A definition named like the one after it with a suffix is a slip of     *)
(* that code which the properties must notice; nothing uses it.            *)
(***************************************************************************)
EXTENDS Integers, Sequences

CONSTANTS
    Players,
    MaxCalls,       \* bound: what players do, edits, unloads, failed requests, odd levels
    None

ASSUME DeliveryAssumption == MaxCalls \in Nat

VARIABLES
    at,             \* m_playerDimensions: "here", "away", or "gone"
    tracking,       \* m_chunkTrackingPlayers of the position
    near,           \* the level of the position is one to load at
    present,        \* m_chunks has a chunk there
    edits,          \* how often the chunk, in memory or stored, has been edited
    lit,            \* its isLightCorrect
    raw,            \* it is yet to be generated or to be post-processed after that
    shaped,         \* what its edits were after post-processing changed it (no code)
    backlog,        \* its items in m_pendingPostProcess
    processed,      \* m_postProcessedChunks holds it
    ticket,         \* it has a LIGHT ticket
    tasks,          \* its light and build tasks in the area scheduler, in order
    sends,          \* its entries in m_pendingChunkSends
    asked,          \* the sends that wait for a requested chunk
    ready,          \* its entries in m_readyChunks
    updates,        \* m_pendingBlockUpdates has an edit of it
    settled,        \* the edits up to this one are not among them (no code)
    client,         \* the copy each player's client has from here, or None
    owed,           \* who began to track and has not been served (no code)
    stale,          \* whose copy the code is known to leave wrong (no code)
    skipped,        \* a light task was made without a chunk (no code)
    calls

chunkVars == <<near, present, edits, lit, raw, shaped>>
lightVars == <<backlog, processed, ticket, sends, skipped>>
sendVars == <<tasks, asked, ready, updates, settled>>
clientVars == <<client, owed, stale>>
vars == <<at, tracking, chunkVars, lightVars, sendVars, clientVars, calls>>

Call == calls < MaxCalls /\ calls' = calls + 1

-----------------------------------------------------------------------------
(* Tasks, snapshots and copies.                                            *)

Snapshot == [content |-> edits, lit |-> lit]
NoSnapshot == [content |-> 0, lit |-> FALSE]

\* A light task has the chunk it was made for, "live" or "gone", or "none" at all.
Light(of) == [kind |-> "light", of |-> of, taken |-> FALSE, seen |-> NoSnapshot, to |-> {}, checked |-> TRUE]

\* A build task has the chunk, then its snapshot; checked is validateTracking.
Build(players, checked) ==
    [kind |-> "build", of |-> "live", taken |-> FALSE, seen |-> NoSnapshot, to |-> players, checked |-> checked]

Request(players, checked) == [to |-> players, checked |-> checked]
Ready(seen, request) == [seen |-> seen, to |-> request.to, checked |-> request.checked]
Copy(r) == [content |-> r.seen.content, lit |-> r.seen.lit, checked |-> r.checked]

\* sendChunkToPlayers, the chunk being there or not
BuildsFor(players, checked) == IF present /\ players # {} THEN <<Build(players, checked)>> ELSE <<>>
RequestsFor(players, checked) == IF ~present /\ players # {} THEN <<Request(players, checked)>> ELSE <<>>

\* The clients without the copies of some players
Without(players) == [p \in Players |-> IF p \in players THEN None ELSE client[p]]

-----------------------------------------------------------------------------
(* Players.                                                                *)

\* A player comes to track the position: onPlayerTrackingChange
Enter(p) ==
    /\ at[p] = "here" /\ p \notin tracking
    /\ Call
    /\ tracking' = tracking \cup {p}
    /\ tasks' = tasks \o BuildsFor({p}, TRUE)
    /\ owed' = owed \cup {p}
    /\ UNCHANGED <<at, chunkVars, lightVars, asked, ready, updates, settled, client, stale>>

Depart(p) ==
    /\ at[p] = "here" /\ p \in tracking
    /\ Call
    /\ tracking' = tracking \ {p}
    /\ client' = Without({p})
    /\ owed' = owed \ {p}
    /\ UNCHANGED <<at, chunkVars, lightVars, sendVars, stale>>

\* transferPlayerToDimension away from here: the client drops its world, but
\* the manager of tickets is not told that the player has gone.
TransferAway(p) ==
    /\ at[p] = "here"
    /\ Call
    /\ at' = [at EXCEPT ![p] = "away"]
    /\ client' = Without({p})
    /\ owed' = owed \ {p}
    /\ UNCHANGED <<tracking, chunkVars, lightVars, sendVars, stale>>

\* The same to here, with the new position of the player: what lies within the
\* circle around it is sent without validation, what lies in view is tracked.
TransferHere(p, within, view) ==
    /\ at[p] = "away"
    /\ Call
    /\ at' = [at EXCEPT ![p] = "here"]
    /\ client' = Without({p})
    /\ tracking' = IF view THEN tracking \cup {p} ELSE tracking \ {p}
    /\ tasks' = tasks \o (IF within THEN BuildsFor({p}, FALSE) ELSE <<>>)
                      \o (IF view /\ p \notin tracking THEN BuildsFor({p}, TRUE) ELSE <<>>)
    /\ asked' = asked \o (IF within THEN RequestsFor({p}, FALSE) ELSE <<>>)
    /\ owed' = IF view /\ p \notin tracking THEN owed \cup {p} ELSE owed
    /\ UNCHANGED <<chunkVars, lightVars, ready, updates, settled, stale>>

\* releasePlayerChunkResources, of the dimension the player is in
Disconnect(p) ==
    /\ at[p] # "gone"
    /\ Call
    /\ at' = [at EXCEPT ![p] = "gone"]
    /\ client' = Without({p})
    /\ owed' = owed \ {p}
    /\ IF at[p] = "here"
       THEN /\ tracking' = tracking \ {p}
            /\ ready' = [i \in DOMAIN ready |-> [ready[i] EXCEPT !.to = @ \ {p}]]
       ELSE UNCHANGED <<tracking, ready>>
    /\ UNCHANGED <<chunkVars, lightVars, tasks, asked, updates, settled, stale>>

-----------------------------------------------------------------------------
(* The chunk comes and goes.                                               *)

Wanted == tracking # {} \/ ticket

\* The graph may want the position for other reasons, and while it spreads a
\* change it may for a time not want what it does again later.
Raise ==
    /\ ~near
    /\ near' = TRUE
    /\ IF Wanted THEN UNCHANGED calls ELSE Call
    /\ UNCHANGED <<at, tracking, present, edits, lit, raw, shaped, lightVars, sendVars, clientVars>>

Lower ==
    /\ near
    /\ near' = FALSE
    /\ IF Wanted THEN Call ELSE UNCHANGED calls
    /\ UNCHANGED <<at, tracking, present, edits, lit, raw, shaped, lightVars, sendVars, clientVars>>

\* A chunk is loaded or generated, its light right or not, and whoever asked
\* for it has a snapshot built at once.
Publish(right) ==
    /\ ~present
    /\ near \/ asked # <<>>
    /\ present' = TRUE
    /\ lit' = right
    /\ backlog' = backlog + 1
    /\ ready' = ready \o [i \in DOMAIN asked |-> Ready([content |-> edits, lit |-> right], asked[i])]
    /\ asked' = <<>>
    /\ UNCHANGED <<at, tracking, near, edits, raw, shaped, processed, ticket, sends, skipped, tasks, updates, settled,
                   clientVars, calls>>

\* The load fails, or an unload of the holder cancels the request.
FailRequests ==
    /\ ~present /\ asked # <<>>
    /\ Call
    /\ asked' = <<>>
    /\ UNCHANGED <<at, tracking, chunkVars, lightVars, tasks, ready, updates, settled, clientVars>>

\* A task keeps the chunk it has, as it was when it went.
Frozen(t) ==
    IF t.kind = "light" THEN [t EXCEPT !.of = IF @ = "live" THEN "gone" ELSE @]
    ELSE IF t.taken THEN t ELSE [t EXCEPT !.taken = TRUE, !.seen = Snapshot]

UnloadProcessed ==
    /\ present /\ ~near
    /\ Call
    /\ client' = Without(tracking)
    /\ owed' = owed \cup {p \in tracking : at[p] = "here"}
    /\ present' = FALSE
    /\ raw' = FALSE
    /\ tasks' = [i \in DOMAIN tasks |-> Frozen(tasks[i])]
    /\ UNCHANGED <<at, tracking, near, edits, lit, shaped, lightVars, asked, ready, updates, settled, stale>>

\* The end of _finalizeUnloadAfterSave.  What is left of the post-processing of
\* a generated chunk is not stored.
Unload ==
    /\ present /\ ~near
    /\ Call
    /\ client' = Without(tracking)
    /\ owed' = owed \cup {p \in tracking : at[p] = "here"}
    /\ present' = FALSE
    /\ processed' = FALSE
    /\ raw' = FALSE
    /\ tasks' = [i \in DOMAIN tasks |-> Frozen(tasks[i])]
    /\ UNCHANGED <<at, tracking, near, edits, lit, shaped, backlog, ticket, sends, skipped,
                   asked, ready, updates, settled, stale>>

-----------------------------------------------------------------------------
(* Light.                                                                  *)

PostProcessAgain ==
    /\ backlog > 0
    /\ backlog' = backlog - 1
    /\ processed' = TRUE
    /\ ticket' = TRUE
    /\ tasks' = Append(tasks, Light(IF present THEN "live" ELSE "none"))
    /\ skipped' = (skipped \/ ~present)
    /\ UNCHANGED <<at, tracking, chunkVars, sends, asked, ready, updates, settled, clientVars, calls>>

\* _postProcessChunk of a generated chunk: it gives blocks at marked places the
\* shape their neighbours call for, and no client is told of it.
PostProcessChunk ==
    \/ UNCHANGED <<edits, shaped, settled, owed, stale>>
    \/ /\ present /\ raw /\ ~processed
       /\ edits' = edits + 1 /\ shaped' = edits + 1 /\ settled' = edits + 1
       /\ owed' = owed \cup {p \in tracking : at[p] = "here"}
       /\ stale' = stale \cup {p \in Players : client[p] # None}

\* _drainPendingPostProcess of an item, with enqueueChunkLoadLight
PostProcess ==
    /\ backlog > 0
    /\ backlog' = backlog - 1
    /\ processed' = TRUE
    /\ ticket' = (ticket \/ ~processed)
    /\ tasks' = IF processed THEN tasks ELSE Append(tasks, Light(IF present THEN "live" ELSE "none"))
    /\ skipped' = (skipped \/ (~processed /\ ~present))
    /\ PostProcessChunk
    /\ raw' = (raw /\ ~present)
    /\ UNCHANGED <<at, tracking, near, present, lit, sends, asked, ready, updates, client, calls>>

First(kind) == tasks # <<>> /\ Head(tasks).kind = kind

\* ChunkLoadLightTask::execute; without a chunk it just ends.
RunLight ==
    /\ First("light")
    /\ tasks' = Tail(tasks)
    /\ lit' = (lit \/ Head(tasks).of = "live")
    /\ sends' = IF Head(tasks).of = "none" THEN sends ELSE sends + 1
    /\ UNCHANGED <<at, tracking, near, present, edits, raw, shaped, backlog, processed, ticket, skipped,
                   asked, ready, updates, settled, clientVars, calls>>

DrainSendTracked ==
    /\ sends > 0
    /\ sends' = sends - 1
    /\ tasks' = tasks \o BuildsFor(tracking, TRUE)
    /\ asked' = asked \o RequestsFor(tracking, TRUE)
    /\ ticket' = (ticket /\ tracking = {})
    /\ UNCHANGED <<at, tracking, chunkVars, backlog, processed, skipped, ready, updates, settled, clientVars, calls>>

DrainSendEmpty ==
    /\ sends' = sends - 1
    /\ tasks' = tasks \o BuildsFor(tracking, TRUE)
    /\ asked' = asked \o RequestsFor(tracking, TRUE)
    /\ ticket' = FALSE
    /\ UNCHANGED <<at, tracking, chunkVars, backlog, processed, skipped, ready, updates, settled, clientVars, calls>>

\* _drainPendingChunkSends, one entry
DrainSend ==
    /\ sends > 0
    /\ sends' = sends - 1
    /\ tasks' = tasks \o BuildsFor(tracking, TRUE)
    /\ asked' = asked \o RequestsFor(tracking, TRUE)
    /\ ticket' = FALSE
    /\ UNCHANGED <<at, tracking, chunkVars, backlog, processed, skipped, ready, updates, settled, clientVars, calls>>

-----------------------------------------------------------------------------
(* Snapshots and packets.                                                  *)

\* buildLevelChunkWithLightIR of a chunk still in memory
TakeSnapshot ==
    /\ First("build") /\ ~Head(tasks).taken
    /\ tasks' = [tasks EXCEPT ![1] = [@ EXCEPT !.taken = TRUE, !.seen = Snapshot]]
    /\ UNCHANGED <<at, tracking, chunkVars, lightVars, asked, ready, updates, settled, clientVars, calls>>

\* submitChunkData
Submit ==
    /\ First("build") /\ Head(tasks).taken
    /\ tasks' = Tail(tasks)
    /\ ready' = Append(ready, Ready(Head(tasks).seen, Head(tasks)))
    /\ UNCHANGED <<at, tracking, chunkVars, lightVars, asked, updates, settled, clientVars, calls>>

ReceiversUnchecked(r) == {p \in r.to : at[p] # "gone"}

\* Whom processPendingSends sends a snapshot
Receivers(r) == {p \in r.to : at[p] # "gone" /\ (r.checked => p \in tracking)}

\* A snapshot older than what no update brings any more leaves a copy wrong, and
\* one from before post-processing does not serve.
Deliver ==
    /\ ready # <<>>
    /\ ready' = Tail(ready)
    /\ \E r \in {Head(ready)} :
          /\ client' = [p \in Players |-> IF p \in Receivers(r) THEN Copy(r) ELSE client[p]]
          /\ owed' = owed \ {p \in Receivers(r) : r.seen.lit /\ r.seen.content >= shaped}
          /\ stale' = IF r.seen.content \in settled .. edits THEN stale \ Receivers(r) ELSE stale \cup Receivers(r)
    /\ UNCHANGED <<at, tracking, chunkVars, lightVars, tasks, asked, updates, settled, calls>>

EditProcessed ==
    /\ present
    /\ Call
    /\ edits' = edits + 1
    /\ updates' = (updates \/ processed)
    /\ UNCHANGED <<at, tracking, near, present, lit, raw, shaped, lightVars, tasks, asked, ready, settled, clientVars>>

\* setBlockState and its onBlockChanged
Edit ==
    /\ present
    /\ Call
    /\ edits' = edits + 1
    /\ updates' = TRUE
    /\ UNCHANGED <<at, tracking, near, present, lit, raw, shaped, lightVars, tasks, asked, ready, settled, clientVars>>

\* flushPendingUpdates: what waits is sent, block by block, and mends no copy
\* that lacks more than that.
FlushUpdates ==
    /\ updates
    /\ updates' = FALSE
    /\ settled' = edits
    /\ client' = [p \in Players |->
          IF p \in tracking \ stale /\ client[p] # None THEN [client[p] EXCEPT !.content = edits] ELSE client[p]]
    /\ UNCHANGED <<at, tracking, chunkVars, lightVars, tasks, asked, ready, owed, stale, calls>>

-----------------------------------------------------------------------------
Init ==
    /\ at \in [Players -> {"here", "away"}]
    /\ tracking = {}
    /\ near = FALSE /\ present = FALSE
    /\ edits = 0 /\ lit = FALSE /\ raw \in BOOLEAN /\ shaped = 0
    /\ backlog = 0 /\ processed = FALSE /\ ticket = FALSE /\ sends = 0 /\ skipped = FALSE
    /\ tasks = <<>> /\ asked = <<>> /\ ready = <<>> /\ updates = FALSE /\ settled = 0
    /\ client = [p \in Players |-> None]
    /\ owed = {} /\ stale = {}
    /\ calls = 0

PlayerStep(p) ==
    \/ Enter(p) \/ Depart(p) \/ TransferAway(p) \/ Disconnect(p)
    \/ \E within, view \in BOOLEAN : TransferHere(p, within, view)

Load == \E right \in BOOLEAN : Publish(right)
Task == RunLight \/ TakeSnapshot \/ Submit
Drain == PostProcess \/ DrainSend \/ Deliver \/ FlushUpdates

Next ==
    \/ \E p \in Players : PlayerStep(p)
    \/ Raise \/ Lower \/ Load \/ FailRequests \/ Unload \/ Edit
    \/ Task \/ Drain

(* What is wanted comes to be near and is loaded, workers run the tasks,   *)
(* and the ticks drain every queue.                                        *)
Fairness ==
    /\ WF_vars(Wanted /\ Raise) /\ WF_vars(near /\ Load)
    /\ WF_vars(Task)
    /\ WF_vars(PostProcess) /\ WF_vars(DrainSend) /\ WF_vars(Deliver) /\ WF_vars(FlushUpdates)

Spec == Init /\ [][Next]_vars /\ Fairness
=============================================================================
