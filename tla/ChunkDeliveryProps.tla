------------------------- MODULE ChunkDeliveryProps -------------------------
(***************************************************************************)
(* What the path from a chunk to the clients promises.                     *)
(***************************************************************************)
EXTENDS ChunkDelivery

Snapshots == [content : Nat, lit : BOOLEAN]

Requests == [to : SUBSET Players, checked : BOOLEAN]

Readies == [seen : Snapshots, to : SUBSET Players, checked : BOOLEAN]

Copies == [content : Nat, lit : BOOLEAN, checked : BOOLEAN]

Tasks == [kind : {"light", "build"}, of : {"live", "gone", "none"}, taken : BOOLEAN, seen : Snapshots,
          to : SUBSET Players, checked : BOOLEAN]

\* What the queues hold is of the shapes the code gives it, and no queue gives
\* out more than it was given.
TypeOK ==
    /\ at \in [Players -> {"here", "away", "gone"}]
    /\ tracking \subseteq Players
    /\ near \in BOOLEAN /\ present \in BOOLEAN /\ edits \in Nat /\ lit \in BOOLEAN
    /\ raw \in BOOLEAN /\ shaped \in Nat /\ settled \in Nat
    /\ backlog \in Nat /\ processed \in BOOLEAN /\ ticket \in BOOLEAN /\ sends \in Nat /\ skipped \in BOOLEAN
    /\ tasks \in Seq(Tasks) /\ asked \in Seq(Requests) /\ ready \in Seq(Readies) /\ updates \in BOOLEAN
    /\ client \in [Players -> Copies \cup {None}]
    /\ owed \subseteq Players /\ stale \subseteq Players
    /\ calls \in 0 .. MaxCalls

\* No ghost chunks: a client has a chunk that was sent with validation only as
\* long as the server has its player down as tracking it, however long the
\* snapshot was under way (processPendingSends).
NoGhost == \A p \in Players : client[p] # None /\ client[p].checked => p \in tracking

\* An edit reaches every client that has the chunk: a copy is out of date only
\* while the edit waits for flushPendingUpdates, or because it was delivered
\* from a snapshot older than what was flushed before it, or stood there when
\* post-processing changed the chunk.
UpToDate == \A p \in Players :
    client[p] # None /\ client[p].checked /\ p \notin stale => client[p].content = edits \/ updates

LightPending == sends > 0 \/ \E i \in DOMAIN tasks : tasks[i].kind = "light"

\* A LIGHT ticket never outlives the light task it was taken for and the entry
\* of m_pendingChunkSends the task leaves, or the chunk could not go any more
\* (enqueueChunkLoadLight, _drainPendingChunkSends) -- unless the task was made
\* after its chunk had gone.
TicketIsOwed == ticket /\ ~skipped => LightPending

LiveLight(t) == t.kind = "light" /\ t.of = "live"

\* However often the position has joined the post-processing queue, the chunk
\* in memory has one light task at most, and only after its post-processing.
LitOnce ==
    /\ \A i, j \in DOMAIN tasks : LiveLight(tasks[i]) /\ LiveLight(tasks[j]) => i = j
    /\ \A i \in DOMAIN tasks : LiveLight(tasks[i]) => present /\ processed

\* Who begins to track the position, or tracks it when its chunk is unloaded or
\* silently changed by post-processing, is sent the chunk as it is after that
\* and with its light right, or stops tracking it -- unless a post-processing
\* item has met an absent chunk.
Delivered == \A p \in Players : p \in owed ~> p \notin owed \/ skipped

\* Every dimension has synchronisation managers of its own, so that their data
\* are isolated (network/sync/README.md): what the managers of this one send to
\* the players they have down as tracking goes to players who are here.
Isolated == \A p \in Players : client[p] # None /\ client[p].checked => at[p] = "here"

\* The LIGHT ticket of a task that found no chunk is released elsewhere
\* (ChunkLoadLightTask.cpp, execute).
TicketAlwaysOwed == ticket => LightPending
=============================================================================
