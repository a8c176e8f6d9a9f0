---------------------- MODULE ChunkLoadTicketsProofs ----------------------
(***************************************************************************)
(* That demand reaches the graph and the graph settles on distances, for   *)
(* any chunks, tickets, players, view distances and number of calls.       *)
(***************************************************************************)
EXTENDS ChunkLoadTicketsProps, FiniteSetTheorems, SequenceTheorems, WellFoundedInduction, TLAPS

-----------------------------------------------------------------------------
(* The least of some numbers.                                              *)

(* A set of naturals has a minimum. *)
LEMMA MinOfNats ==
    ASSUME NEW S, S \subseteq Nat, S # {}
    PROVE  Min(S) \in S /\ \A x \in S : Min(S) <= x
<1> DEFINE R == OpToRel(<, Nat)
<1>1. IsWellFoundedOn(R, Nat)
  BY NatLessThanWellFounded
<1>2. \E x \in S : \A y \in S : ~ (<<y, x>> \in R)
  <2> HIDE DEF R
  <2> QED BY <1>1, WFMin, Zenon
<1>3. ASSUME NEW x \in Nat, NEW y \in Nat, ~(<<y, x>> \in R) PROVE x <= y
  <2>1. ~(y < x) BY <1>3, Zenon DEF OpToRel
  <2> QED BY <2>1
<1>4. PICK x \in S : \A y \in S : x <= y
  <2> HIDE DEF R
  <2> QED BY <1>2, <1>3
<1> QED BY <1>4, Zenon DEF Min

(* Lowest is a level, no more than any level given, and one of them unless it is Unreached. *)
LEMMA LowestOfNats ==
    ASSUME NEW S, S \subseteq Nat
    PROVE  /\ Lowest(S) \in Levels
           /\ Lowest(S) \in S \cup {Unreached}
           /\ \A x \in S : Lowest(S) <= x
<1>1. Unreached \in Nat
  BY TicketAssumption DEF Unreached
<1> DEFINE T == S \cup {Unreached}
<1>2. Min(T) \in T /\ \A x \in T : Min(T) <= x
  <2>1. T \subseteq Nat /\ T # {}
    BY <1>1
  <2> HIDE DEF T
  <2> QED BY <2>1, MinOfNats
<1>3. Lowest(S) = Min(T)
  BY DEF Lowest
<1>4. Min(T) \in Nat /\ Min(T) <= Unreached
  BY <1>1, <1>2
<1>5. Min(T) \in S \cup {Unreached} /\ \A x \in S : Min(T) <= x
  BY <1>2
<1> HIDE DEF T
<1> QED BY <1>1, <1>3, <1>4, <1>5 DEF Levels

LEMMA AskedTypes ==
    ASSUME NEW ts \in SUBSET Tickets, NEW n, NEW view \in ViewDistances
    PROVE  AskedLevel(ts, n, view) \in Levels /\ TicketLevel(ts) \in Levels
<1>1. TicketLevel(ts) \in Levels
  <2>1. {Level[t] : t \in ts} \subseteq Nat
    BY TicketAssumption
  <2> QED BY <2>1, LowestOfNats DEF TicketLevel
<1>2. PlayerLevel(view) \in Nat
  BY TicketAssumption DEF PlayerLevel
<1> DEFINE S == {TicketLevel(ts)} \cup IF n > 0 THEN {PlayerLevel(view)} ELSE {}
<1>3. S \subseteq Nat
  BY <1>1, <1>2, TicketAssumption DEF Levels, Unreached
<1>4. Lowest(S) \in Levels
  <2> HIDE DEF S
  <2> QED BY <1>3, LowestOfNats
<1> QED BY <1>1, <1>4 DEF AskedLevel

(* A source is never weaker than what was asked. *)
LEMMA SourceAfterCovers ==
    ASSUME NEW c \in Chunks, NEW asked \in Levels, source[c] \in Levels, level[c] \in Levels
    PROVE  SourceAfter(c, asked) \in Levels /\ SourceAfter(c, asked) <= AsSource(asked)
<1>1. {source[c], asked} \subseteq Nat
  BY TicketAssumption DEF Levels, Unreached
<1>2. Lowest({source[c], asked}) \in Levels /\ Lowest({source[c], asked}) <= asked
  BY <1>1, LowestOfNats
<1> QED BY <1>2, TicketAssumption DEF SourceAfter, AsSource, Levels, Unreached

LEMMA RecomputedType ==
    ASSUME NEW c \in Chunks, source \in [Chunks -> Levels], level \in [Chunks -> Levels]
    PROVE  Recomputed(c) \in Levels
<1> DEFINE S == {source[c]} \cup {level[d] + 1 : d \in Neighbours(c)}
<1>1. S \subseteq Nat
  BY TicketAssumption DEF Levels, Unreached, Neighbours
<1>2. Lowest(S) \in Levels
  <2> HIDE DEF S
  <2> QED BY <1>1, LowestOfNats
<1> QED BY <1>2 DEF Recomputed

-----------------------------------------------------------------------------
(* The queue.                                                              *)

LEMMA InToSet ==
    ASSUME NEW q \in Seq(Chunks), NEW x
    PROVE  x \in ToSet(q) <=> \E i \in 1 .. Len(q) : x = q[i]
BY DEF ToSet

(* Joining the queue. *)
LEMMA Enqueued ==
    ASSUME NEW S, S \subseteq Chunks, NEW q \in Seq(Chunks), Enqueue(S, q)
    PROVE  queue' \in Seq(Chunks) /\ ToSet(queue') = ToSet(q) \cup S
<1> DEFINE N == S \ ToSet(q)
<1>1. Cardinality(N) \in Nat
  BY TicketAssumption, FS_Subset, FS_CardinalityType
<1>2. PICK o \in Orders(N) : queue' = q \o o
  BY Zenon DEF Enqueue
<1>3. o \in Seq(Chunks) /\ Len(o) = Cardinality(N) /\ ToSet(o) = N
  <2> HIDE DEF N
  <2>1. o \in [1 .. Cardinality(N) -> N] /\ \A c \in N : \E i \in DOMAIN o : o[i] = c
    BY DEF Orders
  <2>2. N \subseteq Chunks
    BY DEF N
  <2> QED BY <1>1, <2>1, <2>2 DEF ToSet
<1>4. ToSet(q \o o) = ToSet(q) \cup ToSet(o)
  <2> HIDE DEF N
  <2>1. q \o o \in Seq(Chunks) /\ Len(q \o o) = Len(q) + Len(o)
    BY <1>3
  <2>2. \A i \in 1 .. Len(q) : i \in 1 .. Len(q \o o) /\ (q \o o)[i] = q[i]
    BY <1>3
  <2>3. \A i \in 1 .. Len(o) : Len(q) + i \in 1 .. Len(q \o o) /\ (q \o o)[Len(q) + i] = o[i]
    BY <1>3
  <2>4. ASSUME NEW i \in 1 .. Len(q \o o)
        PROVE  (q \o o)[i] \in ToSet(q) \cup ToSet(o)
    <3>1. CASE i <= Len(q)
      BY <1>3, <2>2, <3>1, InToSet
    <3>2. CASE i > Len(q)
      <4>1. i - Len(q) \in 1 .. Len(o) /\ i = Len(q) + (i - Len(q))
        BY <1>3, <2>1, <3>2
      <4> QED BY <1>3, <2>3, <4>1, InToSet
    <3> QED BY <1>3, <3>1, <3>2
  <2>5. ASSUME NEW x \in ToSet(q \o o) PROVE x \in ToSet(q) \cup ToSet(o)
    <3>1. PICK i \in 1 .. Len(q \o o) : x = (q \o o)[i]
      BY <2>1, InToSet
    <3> QED BY <2>4, <3>1
  <2>6. ASSUME NEW x \in ToSet(q) PROVE x \in ToSet(q \o o)
    <3>1. PICK i \in 1 .. Len(q) : x = q[i]
      BY InToSet
    <3> QED BY <2>1, <2>2, <3>1, InToSet
  <2>7. ASSUME NEW x \in ToSet(o) PROVE x \in ToSet(q \o o)
    <3>1. PICK i \in 1 .. Len(o) : x = o[i]
      BY <1>3, InToSet
    <3> QED BY <2>1, <2>3, <3>1, InToSet
  <2> QED BY <2>5, <2>6, <2>7
<1> QED BY <1>2, <1>3, <1>4

(* Leaving it. *)
LEMMA Dequeued ==
    ASSUME NEW q \in Seq(Chunks), q # <<>>
    PROVE  /\ Head(q) \in Chunks /\ Tail(q) \in Seq(Chunks)
           /\ ToSet(q) \ {Head(q)} \subseteq ToSet(Tail(q))
           /\ ToSet(Tail(q)) \subseteq ToSet(q)
<1>1. Head(q) = q[1] /\ Head(q) \in Chunks /\ Tail(q) \in Seq(Chunks) /\ Len(Tail(q)) = Len(q) - 1
  OBVIOUS
<1>2. \A i \in 1 .. Len(q) : i = 1 \/ (i - 1 \in 1 .. Len(Tail(q)) /\ Tail(q)[i - 1] = q[i])
  OBVIOUS
<1>3. \A i \in 1 .. Len(Tail(q)) : i + 1 \in 1 .. Len(q) /\ Tail(q)[i] = q[i + 1]
  OBVIOUS
<1>4. ASSUME NEW x \in ToSet(q) \ {Head(q)} PROVE x \in ToSet(Tail(q))
  <2>1. PICK i \in 1 .. Len(q) : x = q[i]
    BY InToSet
  <2>2. i - 1 \in 1 .. Len(Tail(q)) /\ Tail(q)[i - 1] = x
    BY <1>1, <1>2, <2>1
  <2> QED BY <1>1, <2>2, InToSet
<1>5. ASSUME NEW x \in ToSet(Tail(q)) PROVE x \in ToSet(q)
  <2>1. PICK i \in 1 .. Len(Tail(q)) : x = Tail(q)[i]
    BY <1>1, InToSet
  <2> QED BY <1>3, <2>1, InToSet
<1> QED BY <1>1, <1>4, <1>5
-----------------------------------------------------------------------------
(* The graph.                                                              *)

GraphOK ==
    /\ dirty \subseteq Chunks /\ queue \in Seq(Chunks)
    /\ ticking \in [Chunks -> Levels] /\ source \in [Chunks -> Levels] /\ level \in [Chunks -> Levels]
    /\ propagating \in Chunks \cup {None}
    /\ pump \in {"idle", "first", "more"}
    /\ IF pump = "idle" THEN ~InCallback ELSE InCallback \/ queue # <<>>

(* What processUpdates does to the dirty chunks: each becomes a source     *)
(* that covers what it is asked for, and what changed is queued.           *)
LEMMA ProcessKeeps ==
    ASSUME GraphOK, LevelsFollow, Outside \/ InCallback, NEW S, S \subseteq Chunks, Process(S),
           tickets' \in [Chunks -> SUBSET Tickets], viewDistance' \in ViewDistances
    PROVE  /\ GraphOK' /\ LevelsFollow' /\ dirty' = {}
           /\ \A c \in S : source'[c] <= AsSource(AskedLevel(tickets'[c], sourceCount'[c], viewDistance'))
           /\ \A c \in Chunks \ S : source'[c] = source[c]
<1> DEFINE asked(c) == AskedLevel(tickets'[c], sourceCount'[c], viewDistance')
           changed == {c \in S : source'[c] # source[c]}
<1>1. \A c \in Chunks : asked(c) \in Levels /\ TicketLevel(tickets'[c]) \in Levels
  BY AskedTypes
<1>2. /\ source' = [c \in Chunks |-> IF c \in S THEN SourceAfter(c, asked(c)) ELSE source[c]]
      /\ ticking' = [c \in Chunks |-> IF c \notin S THEN ticking[c]
                        ELSE IF TicketLevel(tickets'[c]) < Full THEN TicketLevel(tickets'[c]) ELSE Unreached]
      /\ dirty' = {} /\ Enqueue(changed, queue)
      /\ pump' = PumpAfter(S) /\ level' = level /\ propagating' = propagating
  BY DEF Process, Refresh
<1> HIDE DEF asked
<1>3. \A c \in Chunks : SourceAfter(c, asked(c)) \in Levels /\ SourceAfter(c, asked(c)) <= AsSource(asked(c))
  BY <1>1, SourceAfterCovers DEF GraphOK
<1>4. source' \in [Chunks -> Levels]
  BY <1>2, <1>3 DEF GraphOK
<1>5. ticking' \in [Chunks -> Levels]
  <2>1. Unreached \in Levels
    BY TicketAssumption DEF Levels, Unreached
  <2> QED BY <1>1, <1>2, <2>1 DEF GraphOK
<1>6. queue' \in Seq(Chunks) /\ ToSet(queue') = ToSet(queue) \cup changed
  <2>1. changed \subseteq Chunks
    OBVIOUS
  <2> HIDE DEF changed
  <2> QED BY <1>2, <2>1, Enqueued DEF GraphOK
<1>7. GraphOK'
  <2>1. IF pump' = "idle" THEN ~(propagating' # None) ELSE propagating' # None \/ queue' # <<>>
    BY <1>2 DEF GraphOK, PumpAfter, InCallback, Outside
  <2>2. pump' \in {"idle", "first", "more"}
    BY <1>2 DEF GraphOK, PumpAfter
  <2> QED BY <1>2, <1>4, <1>5, <1>6, <2>1, <2>2 DEF GraphOK, InCallback
<1>8. LevelsFollow'
  <2> SUFFICES ASSUME NEW c \in Chunks, c \notin ToSet(queue'), ~(propagating' # None /\ c \in Affected(propagating)')
               PROVE  level'[c] = Recomputed(c)'
    BY DEF LevelsFollow, InCallback
  <2>1. source'[c] = source[c]
    BY <1>2, <1>6
  <2>2. Affected(propagating)' = Affected(propagating)
    BY <1>2 DEF Affected
  <2>3. level[c] = Recomputed(c)
    BY <1>2, <1>6, <2>2 DEF LevelsFollow, InCallback
  <2> QED BY <1>2, <2>1, <2>3 DEF Recomputed
<1>9. \A c \in S : source'[c] <= AsSource(asked(c))
  BY <1>2, <1>3
<1>10. \A c \in Chunks \ S : source'[c] = source[c]
  BY <1>2
<1> QED BY <1>2, <1>7, <1>8, <1>9, <1>10 DEF asked

(* Marking a chunk. *)
LEMMA MarkKeeps ==
    ASSUME GraphOK, LevelsFollow, NEW S, S \subseteq Chunks, Mark(S)
    PROVE  GraphOK' /\ LevelsFollow' /\ dirty' = dirty \cup S /\ source' = source
<1>1. UNCHANGED <<ticking, source, level, queue, propagating, pump>> /\ dirty' = dirty \cup S
  BY DEF Mark
<1>2. GraphOK'
  BY <1>1 DEF GraphOK, InCallback
<1>3. LevelsFollow'
  BY <1>1 DEF LevelsFollow, InCallback, Affected, Recomputed
<1> QED BY <1>1, <1>2, <1>3

(* Two chunks are neighbours of each other. *)
LEMMA NeighboursSymmetric ==
    \A c, d \in Chunks : c \in Neighbours(d) => d \in Neighbours(c)
BY DistanceAssumption DEF Neighbours

(* A chunk is recomputed; the chunks around it have to be looked at again. *)
LEMMA StepKeeps ==
    ASSUME GraphOK, LevelsFollow, Step
    PROVE  GraphOK' /\ LevelsFollow'
<1> DEFINE h == Head(queue)
<1>1. /\ pump # "idle" /\ ~InCallback /\ queue' = Tail(queue)
      /\ level' = [level EXCEPT ![h] = Recomputed(h)]
      /\ propagating' = IF level' # level THEN h ELSE None
      /\ pump' = IF queue' = <<>> /\ propagating' = None THEN "idle" ELSE "more"
      /\ dirty' = dirty /\ ticking' = ticking /\ source' = source
  BY DEF Step
<1>2. /\ h \in Chunks /\ Tail(queue) \in Seq(Chunks)
      /\ ToSet(queue) \ {h} \subseteq ToSet(Tail(queue))
  BY <1>1, Dequeued DEF GraphOK
<1> HIDE DEF h
<1>3. Recomputed(h) \in Levels
  BY <1>2, RecomputedType DEF GraphOK
<1>4. level' \in [Chunks -> Levels]
  BY <1>1, <1>2, <1>3 DEF GraphOK
<1>5. GraphOK'
  <2>1. IF pump' = "idle" THEN ~(propagating' # None) ELSE propagating' # None \/ queue' # <<>>
    BY <1>1
  <2>2. propagating' \in Chunks \cup {None} /\ pump' \in {"idle", "first", "more"}
    BY <1>1, <1>2
  <2> QED BY <1>1, <1>2, <1>4, <2>1, <2>2 DEF GraphOK, InCallback
<1>6. LevelsFollow'
  <2> SUFFICES ASSUME NEW c \in Chunks, c \notin ToSet(queue'), ~(propagating' # None /\ c \in Affected(propagating)')
               PROVE  level'[c] = Recomputed(c)'
    BY DEF LevelsFollow, InCallback
  <2>1. c = h \/ level[c] = Recomputed(c)
    BY <1>1, <1>2 DEF LevelsFollow
  <2>2. level'[c] = Recomputed(c)
    BY <1>1, <1>2, <2>1 DEF GraphOK
  <2>3. \A d \in Neighbours(c) : level'[d] = level[d]
    <3> SUFFICES ASSUME NEW d \in Neighbours(c), level'[d] # level[d]
                 PROVE  FALSE
      OBVIOUS
    <3>1. d = h /\ level' # level
      BY <1>1, <1>2 DEF GraphOK, Neighbours
    <3>2. propagating' = h /\ h # None
      BY <1>1, <1>2, <3>1, TicketAssumption
    <3>3. c \in Neighbours(h)
      BY <1>2, <3>1, NeighboursSymmetric DEF Neighbours
    <3> QED BY <3>2, <3>3 DEF Affected
  <2>4. {level'[d] + 1 : d \in Neighbours(c)} = {level[d] + 1 : d \in Neighbours(c)}
    BY <2>3
  <2> QED BY <1>1, <2>2, <2>4, Zenon DEF Recomputed
<1> QED BY <1>5, <1>6

(* The chunks around are queued. *)
LEMMA PropagateKeeps ==
    ASSUME GraphOK, LevelsFollow, Propagate
    PROVE  GraphOK' /\ LevelsFollow'
<1>1. /\ InCallback /\ Enqueue(Affected(propagating), queue) /\ propagating' = None
      /\ pump' = IF queue' = <<>> THEN "idle" ELSE pump
      /\ dirty' = dirty /\ ticking' = ticking /\ source' = source /\ level' = level
  BY DEF Propagate
<1>2. queue' \in Seq(Chunks) /\ ToSet(queue') = ToSet(queue) \cup Affected(propagating)
  <2>1. Affected(propagating) \subseteq Chunks
    BY DEF Affected, Neighbours
  <2> QED BY <1>1, <2>1, Enqueued DEF GraphOK
<1>3. GraphOK'
  BY <1>1, <1>2 DEF GraphOK, InCallback
<1>4. LevelsFollow'
  <2> SUFFICES ASSUME NEW c \in Chunks, c \notin ToSet(queue')
               PROVE  level'[c] = Recomputed(c)'
    BY DEF LevelsFollow
  <2>1. level[c] = Recomputed(c)
    BY <1>2 DEF LevelsFollow
  <2> QED BY <1>1, <2>1 DEF Recomputed
<1> QED BY <1>3, <1>4

(* The pump stops. *)
LEMMA StopPumpKeeps ==
    ASSUME GraphOK, LevelsFollow, StopPump
    PROVE  GraphOK' /\ LevelsFollow'
<1>1. GraphOK'
  BY DEF GraphOK, StopPump, InCallback
<1>2. LevelsFollow'
  BY DEF StopPump, LevelsFollow, InCallback, Affected, Recomputed
<1> QED BY <1>1, <1>2
-----------------------------------------------------------------------------
(* The tables.                                                             *)

TicketsOK ==
    /\ tickets \in [Chunks -> SUBSET Tickets]
    /\ ticksLeft \in [Chunks -> [Tickets -> Nat]]
    /\ \A c \in Chunks : \A t \in Timed(tickets[c]) : ticksLeft[c][t] > 0
    /\ expiring \subseteq Chunks

PlayersOK ==
    /\ center \in [Players -> Spots \cup {None}]
    /\ tracked \in [Players -> SUBSET Chunks]
    /\ trackers \in [Chunks -> SUBSET Players]
    /\ requested \in [Players -> ViewDistances \cup {None}]
    /\ viewDistance \in ViewDistances
    /\ sourceCount \in [Chunks -> Nat]

LEMMA PutTicketKeeps ==
    ASSUME TicketsOK, ExpiringAgrees, NEW c \in Chunks, NEW t \in Tickets, PutTicket(c, t)
    PROVE  TicketsOK' /\ ExpiringAgrees' /\ \A d \in Chunks \ {c} : tickets'[d] = tickets[d]
<1>1. tickets' = [tickets EXCEPT ![c] = tickets[c] \cup {t}]
  BY DEF PutTicket
<1>2. tickets' \in [Chunks -> SUBSET Tickets] /\ tickets'[c] = tickets[c] \cup {t}
  BY <1>1 DEF TicketsOK
<1>3. \A d \in Chunks \ {c} : tickets'[d] = tickets[d]
  BY <1>1 DEF TicketsOK
<1>4. /\ ticksLeft' \in [Chunks -> [Tickets -> Nat]]
      /\ \A d \in Chunks : \A u \in Tickets :
            ticksLeft'[d][u] = IF d = c /\ u = t /\ t \notin tickets[c] THEN Lifespan[t] ELSE ticksLeft[d][u]
  BY TicketAssumption DEF TicketsOK, PutTicket
<1>5. expiring' = IF t \notin tickets[c] /\ Lifespan[t] > 0 THEN expiring \cup {c} ELSE expiring
  BY DEF PutTicket
<1>6. ExpiringAgrees'
  <2>1. Timed(tickets'[c]) # {} <=> (Timed(tickets[c]) # {} \/ Lifespan[t] > 0)
    BY <1>2 DEF Timed
  <2>2. t \in tickets[c] /\ Lifespan[t] > 0 => Timed(tickets[c]) # {}
    BY DEF Timed
  <2>3. \A d \in Chunks : d \in expiring' <=> Timed(tickets'[d]) # {}
    BY <1>3, <1>5, <2>1, <2>2 DEF ExpiringAgrees
  <2>4. expiring' \subseteq Chunks
    BY <1>5 DEF TicketsOK
  <2> QED BY <2>3, <2>4 DEF ExpiringAgrees
<1>7. expiring' \subseteq Chunks
  BY <1>5 DEF TicketsOK
<1>8. ASSUME NEW d \in Chunks, NEW u \in Timed(tickets'[d]) PROVE ticksLeft'[d][u] > 0
  <2>1. u \in Tickets /\ Lifespan[u] > 0 /\ (u \in Timed(tickets[d]) \/ (d = c /\ u = t /\ t \notin tickets[c]))
    BY <1>2, <1>3 DEF Timed, TicketsOK
  <2> QED BY <1>4, <2>1 DEF TicketsOK, Timed
<1> QED BY <1>2, <1>3, <1>4, <1>6, <1>7, <1>8 DEF TicketsOK

LEMMA DropTicketKeeps ==
    ASSUME TicketsOK, ExpiringAgrees, NEW c \in Chunks, NEW t \in Tickets, DropTicket(c, t)
    PROVE  TicketsOK' /\ ExpiringAgrees' /\ \A d \in Chunks \ {c} : tickets'[d] = tickets[d]
<1>1. tickets' = [tickets EXCEPT ![c] = tickets[c] \ {t}]
  BY DEF DropTicket
<1>2. tickets' \in [Chunks -> SUBSET Tickets] /\ tickets'[c] = tickets[c] \ {t}
  BY <1>1 DEF TicketsOK
<1>3. \A d \in Chunks \ {c} : tickets'[d] = tickets[d]
  BY <1>1 DEF TicketsOK
<1>4. /\ ticksLeft' \in [Chunks -> [Tickets -> Nat]]
      /\ \A d \in Chunks : \A u \in Tickets : d # c \/ u # t => ticksLeft'[d][u] = ticksLeft[d][u]
  BY DEF TicketsOK, DropTicket
<1>5. expiring' = IF t \in tickets[c] /\ Lifespan[t] > 0 /\ Timed(tickets'[c]) = {}
                  THEN expiring \ {c} ELSE expiring
  BY <1>2 DEF DropTicket, IndexAfter
<1>6. ExpiringAgrees'
  <2>1. t \notin tickets[c] \/ ~(Lifespan[t] > 0) => Timed(tickets'[c]) = Timed(tickets[c])
    BY <1>2 DEF Timed
  <2>2. Timed(tickets'[c]) # {} => Timed(tickets[c]) # {}
    BY <1>2 DEF Timed
  <2>3. \A d \in Chunks : d \in expiring' <=> Timed(tickets'[d]) # {}
    BY <1>3, <1>5, <2>1, <2>2 DEF ExpiringAgrees
  <2>4. expiring' \subseteq Chunks
    BY <1>5 DEF TicketsOK
  <2> QED BY <2>3, <2>4 DEF ExpiringAgrees
<1>7. expiring' \subseteq Chunks
  BY <1>5 DEF TicketsOK
<1>8. ASSUME NEW d \in Chunks, NEW u \in Timed(tickets'[d]) PROVE ticksLeft'[d][u] > 0
  <2>1. u \in Tickets /\ u \in Timed(tickets[d]) /\ (d # c \/ u # t)
    BY <1>2, <1>3 DEF Timed, TicketsOK
  <2> QED BY <1>4, <2>1 DEF TicketsOK
<1> QED BY <1>2, <1>3, <1>4, <1>6, <1>7, <1>8 DEF TicketsOK

(* A tick of the tickets. *)
LEMMA TickKeeps ==
    ASSUME TicketsOK, ExpiringAgrees, Tick
    PROVE  /\ TicketsOK' /\ ExpiringAgrees'
           /\ \A c \in Chunks : Ending(c) = {} => tickets'[c] = tickets[c]
<1>1. /\ tickets' = [c \in Chunks |-> tickets[c] \ Ending(c)]
      /\ ticksLeft' = [c \in Chunks |-> [t \in Tickets |->
            IF c \in expiring /\ t \in Timed(tickets[c]) THEN ticksLeft[c][t] - 1 ELSE ticksLeft[c][t]]]
      /\ expiring' = {c \in expiring : Timed(tickets[c]) # Ending(c)}
  BY DEF Tick
<1>2. tickets' \in [Chunks -> SUBSET Tickets]
  BY <1>1 DEF TicketsOK
<1>3. ASSUME NEW c \in Chunks, NEW t \in Timed(tickets[c])
      PROVE  /\ c \in expiring /\ t \in Tickets /\ ticksLeft[c][t] \in Nat \ {0}
             /\ t \in Ending(c) <=> ticksLeft[c][t] = 1
  BY DEF TicketsOK, ExpiringAgrees, Timed, Ending
<1>4. \A c \in Chunks : Timed(tickets'[c]) = Timed(tickets[c]) \ Ending(c) /\ Ending(c) \subseteq Timed(tickets[c])
  BY <1>1 DEF Timed, Ending
<1>5. ticksLeft' \in [Chunks -> [Tickets -> Nat]]
  <2>1. \A c \in Chunks : \A t \in Tickets :
            (IF c \in expiring /\ t \in Timed(tickets[c]) THEN ticksLeft[c][t] - 1 ELSE ticksLeft[c][t]) \in Nat
    BY <1>3 DEF TicketsOK
  <2> QED BY <1>1, <2>1
<1>6. ASSUME NEW c \in Chunks, NEW t \in Timed(tickets'[c]) PROVE ticksLeft'[c][t] > 0
  <2>1. t \in Timed(tickets[c]) /\ t \notin Ending(c)
    BY <1>4
  <2>2. ticksLeft'[c][t] = ticksLeft[c][t] - 1
    BY <1>1, <1>3, <2>1
  <2> QED BY <1>3, <2>1, <2>2
<1>7. ExpiringAgrees'
  <2>1. \A c \in Chunks : c \in expiring' <=> Timed(tickets'[c]) # {}
    BY <1>1, <1>4 DEF ExpiringAgrees
  <2>2. expiring' \subseteq Chunks
    BY <1>1 DEF TicketsOK
  <2> QED BY <2>1, <2>2 DEF ExpiringAgrees
<1>8. expiring' \subseteq Chunks
  BY <1>1 DEF TicketsOK
<1>9. \A c \in Chunks : Ending(c) = {} => tickets'[c] = tickets[c]
  BY <1>1
<1> QED BY <1>2, <1>5, <1>6, <1>7, <1>8, <1>9 DEF TicketsOK

(* What players follow. *)
LEMMA FollowKeeps ==
    ASSUME PlayersOK, \A c \in Chunks : trackers[c] = {p \in Players : c \in tracked[p]},
           NEW now \in [Players -> SUBSET Chunks], Follow(now)
    PROVE  /\ tracked' = now /\ trackers' \in [Chunks -> SUBSET Players]
           /\ \A c \in Chunks : trackers'[c] = {p \in Players : c \in tracked'[p]}
<1>1. tracked' = now
  BY DEF Follow
<1>2. \A c \in Chunks : trackers'[c] = (trackers[c] \ {p \in Players : c \in tracked[p] \ now[p]})
                                          \cup {p \in Players : c \in now[p] \ tracked[p]}
  BY DEF Follow
<1>3. trackers' \in [Chunks -> SUBSET Players]
  BY DEF Follow, PlayersOK
<1> QED BY <1>1, <1>2, <1>3

LEMMA TrackedType ==
    ASSUME NEW c \in Chunks \cup {None}, NEW request, NEW view
    PROVE  TrackedAt(c, request, view) \in SUBSET Chunks
BY DEF TrackedAt, Around

(* One player stands elsewhere. *)
LEMMA Recounted ==
    ASSUME PlayersOK, CountsAgree, NEW p \in Players, NEW c \in Spots \cup {None}, c # center[p],
           center' = [center EXCEPT ![p] = c]
    PROVE  \A d \in Chunks :
              /\ Cardinality(PlayersAt(d)') \in Nat
              /\ Cardinality(PlayersAt(d)') = sourceCount[d] - At(p, d) + IF d = c THEN 1 ELSE 0
              /\ d \notin {center[p], c} => PlayersAt(d)' = PlayersAt(d)
<1> SUFFICES ASSUME NEW d \in Chunks
             PROVE  /\ Cardinality(PlayersAt(d)') \in Nat
                    /\ Cardinality(PlayersAt(d)') = sourceCount[d] - At(p, d) + IF d = c THEN 1 ELSE 0
                    /\ d \notin {center[p], c} => PlayersAt(d)' = PlayersAt(d)
  OBVIOUS
<1>1. IsFiniteSet(PlayersAt(d)) /\ sourceCount[d] = Cardinality(PlayersAt(d))
  BY TicketAssumption, FS_Subset DEF PlayersAt, CountsAgree
<1>2. Cardinality(PlayersAt(d)) \in Nat
  BY <1>1, FS_CardinalityType
<1>3. CASE d = center[p]
  <2>1. PlayersAt(d)' = PlayersAt(d) \ {p} /\ p \in PlayersAt(d)
    BY <1>3 DEF PlayersAt, PlayersOK
  <2>2. Cardinality(PlayersAt(d) \ {p}) = Cardinality(PlayersAt(d)) - 1
    BY <1>1, <2>1, FS_RemoveElement
  <2>3. Cardinality(PlayersAt(d) \ {p}) \in Nat
    BY <1>1, FS_RemoveElement, FS_CardinalityType
  <2> QED BY <1>1, <1>2, <1>3, <2>1, <2>2, <2>3 DEF At
<1>4. CASE d = c
  <2>1. PlayersAt(d)' = PlayersAt(d) \cup {p} /\ p \notin PlayersAt(d)
    BY <1>4 DEF PlayersAt, PlayersOK
  <2>2. Cardinality(PlayersAt(d) \cup {p}) = Cardinality(PlayersAt(d)) + 1
    BY <1>1, <2>1, FS_AddElement
  <2> QED BY <1>1, <1>2, <1>4, <2>1, <2>2 DEF At
<1>5. CASE d # center[p] /\ d # c
  <2>1. PlayersAt(d)' = PlayersAt(d)
    BY <1>5 DEF PlayersAt, PlayersOK
  <2> QED BY <1>1, <1>2, <1>5, <2>1 DEF At
<1> QED BY <1>3, <1>4, <1>5
-----------------------------------------------------------------------------
(* Demand.                                                                 *)

(* Without players the view distance does not matter. *)
LEMMA NobodyThere ==
    \A ts, v, w : AskedLevel(ts, 0, v) = AskedLevel(ts, 0, w)
BY DEF AskedLevel

(* A chunk keeps its demand. *)
SameDemand(c) ==
    /\ tickets'[c] = tickets[c] /\ PlayersAt(c)' = PlayersAt(c)
    /\ viewDistance' = viewDistance \/ PlayersAt(c) = {}

LEMMA SameDemandSame ==
    ASSUME NEW c, SameDemand(c)
    PROVE  Demand(c)' = Demand(c)
<1>1. CASE viewDistance' = viewDistance
  BY <1>1 DEF SameDemand, Demand
<1>2. CASE PlayersAt(c) = {}
  <2>1. Cardinality(PlayersAt(c)) = 0
    BY <1>2, FS_EmptySet
  <2>2. Demand(c) = AsSource(AskedLevel(tickets[c], 0, viewDistance))
    BY <2>1 DEF Demand
  <2>3. Demand(c)' = AsSource(AskedLevel(tickets[c], 0, viewDistance'))
    BY <2>1 DEF Demand, SameDemand
  <2> QED BY <2>2, <2>3, NobodyThere
<1> QED BY <1>1, <1>2 DEF SameDemand

Rest == TicketsOK /\ PlayersOK /\ TablesAgree
Graph == GraphOK /\ LevelsFollow /\ DemandCovered

(* A call that synchronises its chunks with the graph. *)
LEMMA CallProcesses ==
    ASSUME Rest, Graph, Rest', NEW S, S \subseteq Chunks, Outside \/ InCallback, Process(dirty \cup S),
           \A c \in Chunks \ S : SameDemand(c)
    PROVE  Graph'
<1> DEFINE T == dirty \cup S
<1>1. T \subseteq Chunks
  BY DEF Graph, GraphOK
<1>2. tickets' \in [Chunks -> SUBSET Tickets] /\ viewDistance' \in ViewDistances
  BY DEF Rest, TicketsOK, PlayersOK
<1>3. Process(T)
  OBVIOUS
<1> HIDE DEF T
<1>4. /\ GraphOK' /\ LevelsFollow' /\ dirty' = {}
      /\ \A c \in T : source'[c] <= AsSource(AskedLevel(tickets'[c], sourceCount'[c], viewDistance'))
      /\ \A c \in Chunks \ T : source'[c] = source[c]
  BY <1>1, <1>2, <1>3, ProcessKeeps DEF Graph
<1>5. ASSUME NEW c \in Chunks PROVE source'[c] <= Demand(c)'
  <2>1. CASE c \in T
    <3>1. sourceCount'[c] = Cardinality(PlayersAt(c)')
      BY DEF Rest, TablesAgree, CountsAgree
    <3> QED BY <1>4, <2>1, <3>1 DEF Demand
  <2>2. CASE c \notin T
    <3>1. c \notin dirty /\ c \notin S
      BY <2>2 DEF T
    <3>2. source[c] <= Demand(c)
      BY <3>1 DEF Graph, DemandCovered
    <3>3. Demand(c)' = Demand(c)
      BY <3>1, SameDemandSame
    <3> QED BY <1>4, <2>2, <3>2, <3>3
  <2> QED BY <2>1, <2>2
<1> QED BY <1>4, <1>5 DEF Graph, DemandCovered

(* A call that only marks its chunk. *)
LEMMA CallMarks ==
    ASSUME Graph, NEW S, S \subseteq Chunks, Mark(S), \A c \in Chunks \ S : SameDemand(c)
    PROVE  Graph'
<1>1. GraphOK' /\ LevelsFollow' /\ dirty' = dirty \cup S /\ source' = source
  BY MarkKeeps DEF Graph
<1>2. ASSUME NEW c \in Chunks \ dirty' PROVE source'[c] <= Demand(c)'
  <2>1. source[c] <= Demand(c)
    BY <1>1, <1>2 DEF Graph, DemandCovered
  <2>2. Demand(c)' = Demand(c)
    BY <1>1, <1>2, SameDemandSame
  <2> QED BY <1>1, <2>1, <2>2
<1> QED BY <1>1, <1>2 DEF Graph, DemandCovered

(* A step of the pump leaves sources and demand alone. *)
LEMMA PumpKeepsDemand ==
    ASSUME DemandCovered, UNCHANGED <<ticketVars, playerVars, dirty, source>>
    PROVE  DemandCovered'
BY DEF DemandCovered, Demand, PlayersAt, ticketVars, playerVars

(* A call about tickets leaves the players alone. *)
LEMMA PlayersKeep ==
    ASSUME PlayersOK, CountsAgree, TrackersAgree, UNCHANGED playerVars
    PROVE  /\ PlayersOK' /\ CountsAgree' /\ TrackersAgree' /\ viewDistance' = viewDistance
           /\ \A c \in Chunks : PlayersAt(c)' = PlayersAt(c)
<1>1. UNCHANGED <<center, tracked, trackers, requested, viewDistance, sourceCount>>
  BY DEF playerVars
<1> QED BY <1>1 DEF PlayersOK, CountsAgree, TrackersAgree, PlayersAt

LEMMA TicketsKeep ==
    ASSUME TicketsOK, ExpiringAgrees, UNCHANGED ticketVars
    PROVE  TicketsOK' /\ ExpiringAgrees' /\ tickets' = tickets
<1>1. UNCHANGED <<tickets, ticksLeft, expiring>>
  BY DEF ticketVars
<1> QED BY <1>1 DEF TicketsOK, ExpiringAgrees

-----------------------------------------------------------------------------
(* The calls.                                                              *)

LEMMA RegisterTicketKeeps ==
    ASSUME Rest, Graph, NEW c \in Chunks, NEW t \in Tickets, RegisterTicket(c, t)
    PROVE  Rest' /\ Graph'
<1>1. TicketsOK' /\ ExpiringAgrees' /\ \A d \in Chunks \ {c} : tickets'[d] = tickets[d]
  BY PutTicketKeeps DEF Rest, TablesAgree, RegisterTicket
<1>2. /\ PlayersOK' /\ CountsAgree' /\ TrackersAgree' /\ viewDistance' = viewDistance
      /\ \A d \in Chunks : PlayersAt(d)' = PlayersAt(d)
  BY PlayersKeep DEF Rest, TablesAgree, RegisterTicket
<1>3. Graph'
  BY <1>1, <1>2, CallMarks DEF SameDemand, RegisterTicket
<1> QED BY <1>1, <1>2, <1>3 DEF Rest, TablesAgree

LEMMA ReleaseTicketKeeps ==
    ASSUME Rest, Graph, NEW c \in Chunks, NEW t \in Tickets, ReleaseTicket(c, t)
    PROVE  Rest' /\ Graph'
<1>1. TicketsOK' /\ ExpiringAgrees' /\ \A d \in Chunks \ {c} : tickets'[d] = tickets[d]
  BY DropTicketKeeps DEF Rest, TablesAgree, ReleaseTicket
<1>2. /\ PlayersOK' /\ CountsAgree' /\ TrackersAgree' /\ viewDistance' = viewDistance
      /\ \A d \in Chunks : PlayersAt(d)' = PlayersAt(d)
  BY PlayersKeep DEF Rest, TablesAgree, ReleaseTicket
<1>3. Graph'
  BY <1>1, <1>2, CallMarks DEF SameDemand, ReleaseTicket
<1> QED BY <1>1, <1>2, <1>3 DEF Rest, TablesAgree

LEMMA ForceChunkKeeps ==
    ASSUME Rest, Graph, NEW c \in Spots, NEW force \in BOOLEAN, ForceChunk(c, force)
    PROVE  Rest' /\ Graph'
<1>0. c \in Chunks /\ Forced \in Tickets
  BY TicketAssumption
<1>1. TicketsOK' /\ ExpiringAgrees' /\ \A d \in Chunks \ {c} : tickets'[d] = tickets[d]
  <2>1. CASE PutTicket(c, Forced)
    BY <1>0, <2>1, PutTicketKeeps DEF Rest, TablesAgree
  <2>2. CASE DropTicket(c, Forced)
    BY <1>0, <2>2, DropTicketKeeps DEF Rest, TablesAgree
  <2> QED BY <2>1, <2>2 DEF ForceChunk
<1>2. /\ PlayersOK' /\ CountsAgree' /\ TrackersAgree' /\ viewDistance' = viewDistance
      /\ \A d \in Chunks : PlayersAt(d)' = PlayersAt(d)
  BY PlayersKeep DEF Rest, TablesAgree, ForceChunk
<1>3. Rest'
  BY <1>1, <1>2 DEF Rest, TablesAgree
<1>4. Process(dirty \cup {c}) /\ Outside /\ \A d \in Chunks \ {c} : SameDemand(d)
  BY <1>1, <1>2 DEF ForceChunk, SameDemand
<1>5. Graph'
  BY <1>0, <1>3, <1>4, CallProcesses
<1> QED BY <1>3, <1>5

LEMMA TickKeepsAll ==
    ASSUME Rest, Graph, Tick
    PROVE  Rest' /\ Graph'
<1> DEFINE S == {c \in Chunks : Ending(c) # {}}
<1>1. TicketsOK' /\ ExpiringAgrees' /\ \A c \in Chunks : Ending(c) = {} => tickets'[c] = tickets[c]
  BY TickKeeps DEF Rest, TablesAgree
<1>2. /\ PlayersOK' /\ CountsAgree' /\ TrackersAgree' /\ viewDistance' = viewDistance
      /\ \A c \in Chunks : PlayersAt(c)' = PlayersAt(c)
  BY PlayersKeep DEF Rest, TablesAgree, Tick
<1>3. Rest'
  BY <1>1, <1>2 DEF Rest, TablesAgree
<1>4. S \subseteq Chunks /\ Process(dirty \cup S) /\ Outside /\ \A c \in Chunks \ S : SameDemand(c)
  BY <1>1, <1>2 DEF Tick, SameDemand
<1> HIDE DEF S
<1>5. Graph'
  BY <1>3, <1>4, CallProcesses
<1> QED BY <1>3, <1>5

LEMMA ProcessUpdatesKeeps ==
    ASSUME Rest, Graph, ProcessUpdates
    PROVE  Rest' /\ Graph'
<1> DEFINE S == {}
<1>1. TicketsOK' /\ ExpiringAgrees' /\ tickets' = tickets
  BY TicketsKeep DEF Rest, TablesAgree, ProcessUpdates
<1>2. /\ PlayersOK' /\ CountsAgree' /\ TrackersAgree' /\ viewDistance' = viewDistance
      /\ \A c \in Chunks : PlayersAt(c)' = PlayersAt(c)
  BY PlayersKeep DEF Rest, TablesAgree, ProcessUpdates
<1>3. Rest'
  BY <1>1, <1>2 DEF Rest, TablesAgree
<1>4. S \subseteq Chunks /\ dirty \cup S = dirty
  OBVIOUS
<1>5. Process(dirty) /\ (Outside \/ InCallback) /\ \A c \in Chunks \ S : SameDemand(c)
  BY <1>1, <1>2 DEF ProcessUpdates, SameDemand
<1> HIDE DEF S
<1>6. Graph'
  BY <1>3, <1>4, <1>5, CallProcesses
<1> QED BY <1>3, <1>6
(* A player comes, walks or leaves: what the three have in common.         *)
LEMMA PlayerMoves ==
    ASSUME Rest, Graph, Outside, NEW p \in Players, NEW c \in Spots \cup {None}, c # center[p],
           UNCHANGED <<ticketVars, viewDistance>>,
           center' = [center EXCEPT ![p] = c],
           sourceCount' = [d \in Chunks |-> sourceCount[d] - At(p, d) + IF d = c THEN 1 ELSE 0],
           requested' \in [Players -> ViewDistances \cup {None}],
           \A q \in Players \ {p} : requested'[q] = requested[q],
           Follow([tracked EXCEPT ![p] = TrackedAt(c, requested'[p], viewDistance)]),
           Process(dirty \cup ({center[p], c} \ {None}))
    PROVE  Rest' /\ Graph'
<1> DEFINE now == [tracked EXCEPT ![p] = TrackedAt(c, requested'[p], viewDistance)]
           S == {center[p], c} \ {None}
<1>0. Spots \subseteq Chunks /\ center \in [Players -> Spots \cup {None}]
  BY TicketAssumption DEF Rest, PlayersOK
<1>1. TicketsOK' /\ ExpiringAgrees' /\ tickets' = tickets
  BY TicketsKeep DEF Rest, TablesAgree
<1>2. \A d \in Chunks :
         /\ Cardinality(PlayersAt(d)') \in Nat
         /\ Cardinality(PlayersAt(d)') = sourceCount[d] - At(p, d) + IF d = c THEN 1 ELSE 0
         /\ d \notin {center[p], c} => PlayersAt(d)' = PlayersAt(d)
  BY Recounted DEF Rest, TablesAgree
<1>3. CountsAgree' /\ sourceCount' \in [Chunks -> Nat]
  BY <1>2 DEF CountsAgree
<1>4. now \in [Players -> SUBSET Chunks]
  <2>1. TrackedAt(c, requested'[p], viewDistance) \in SUBSET Chunks
    BY <1>0, TrackedType
  <2> QED BY <2>1 DEF Rest, PlayersOK
<1>5. /\ tracked' = now /\ trackers' \in [Chunks -> SUBSET Players]
      /\ \A d \in Chunks : trackers'[d] = {q \in Players : d \in tracked'[q]}
  <2> HIDE DEF now
  <2>1. Follow(now)
    BY DEF now
  <2> QED BY <1>4, <2>1, FollowKeeps DEF Rest, TablesAgree, TrackersAgree
<1>6. \A q \in Players : tracked'[q] = TrackedAt(center'[q], requested'[q], viewDistance')
  <2>1. tracked'[p] = TrackedAt(c, requested'[p], viewDistance) /\ center'[p] = c
    BY <1>0, <1>5 DEF Rest, PlayersOK
  <2>2. \A q \in Players \ {p} : tracked'[q] = tracked[q] /\ center'[q] = center[q]
    BY <1>0, <1>5 DEF Rest, PlayersOK
  <2> QED BY <2>1, <2>2 DEF Rest, TablesAgree, TrackersAgree
<1>7. PlayersOK'
  <2>1. center' \in [Players -> Spots \cup {None}]
    BY <1>0
  <2>2. tracked' \in [Players -> SUBSET Chunks]
    BY <1>4, <1>5
  <2> QED BY <1>3, <1>5, <2>1, <2>2 DEF PlayersOK, Rest
<1>8. Rest'
  BY <1>1, <1>3, <1>5, <1>6, <1>7 DEF Rest, TablesAgree, TrackersAgree
<1>9. S \subseteq Chunks
  BY <1>0
<1>10. \A d \in Chunks \ S : SameDemand(d)
  BY <1>1, <1>2, TicketAssumption DEF SameDemand
<1>11. Process(dirty \cup S)
  OBVIOUS
<1> HIDE DEF S, now
<1>12. Graph'
  BY <1>8, <1>9, <1>10, <1>11, CallProcesses
<1> QED BY <1>8, <1>12

LEMMA UpdatePlayerPositionKeeps ==
    ASSUME Rest, Graph, NEW p \in Players, NEW c \in Spots, UpdatePlayerPosition(p, c)
    PROVE  Rest' /\ Graph'
<1>1. /\ Outside /\ c # center[p] /\ UNCHANGED <<ticketVars, viewDistance>> /\ requested' = requested
      /\ center' = [center EXCEPT ![p] = c]
      /\ Follow([tracked EXCEPT ![p] = TrackedAt(c, requested[p], viewDistance)])
      /\ Process(dirty \cup ({center[p], c} \ {None}))
      /\ sourceCount' = [CountWithout(p) EXCEPT ![c] = CountWithout(p)[c] + 1]
  BY DEF UpdatePlayerPosition
<1>2. sourceCount' = [d \in Chunks |-> sourceCount[d] - At(p, d) + IF d = c THEN 1 ELSE 0]
  <2> DEFINE n(d) == sourceCount[d] - At(p, d)
  <2>1. \A d \in Chunks : n(d) \in Int
    BY DEF Rest, PlayersOK, At
  <2>2. CountWithout(p) = [d \in Chunks |-> n(d)] /\ c \in Chunks
    BY TicketAssumption DEF CountWithout
  <2> HIDE DEF n
  <2>3. sourceCount' = [d \in Chunks |-> n(d) + IF d = c THEN 1 ELSE 0]
    BY <1>1, <2>1, <2>2
  <2> QED BY <2>3 DEF n
<1>3. requested' \in [Players -> ViewDistances \cup {None}]
  BY <1>1 DEF Rest, PlayersOK
<1>4. /\ c \in Spots \cup {None} /\ \A q \in Players \ {p} : requested'[q] = requested[q]
      /\ Follow([tracked EXCEPT ![p] = TrackedAt(c, requested'[p], viewDistance)])
  BY <1>1
<1> QED BY <1>1, <1>2, <1>3, <1>4, PlayerMoves, Zenon

LEMMA RemovePlayerKeeps ==
    ASSUME Rest, Graph, NEW p \in Players, RemovePlayer(p)
    PROVE  Rest' /\ Graph'
<1>1. /\ Outside /\ None # center[p] /\ UNCHANGED <<ticketVars, viewDistance>>
      /\ center' = [center EXCEPT ![p] = None]
      /\ requested' = [requested EXCEPT ![p] = None]
      /\ Follow([tracked EXCEPT ![p] = {}])
      /\ Process(dirty \cup {center[p]})
      /\ sourceCount' = [d \in Chunks |-> sourceCount[d] - At(p, d)]
  BY DEF RemovePlayer, CountWithout
<1>2. {center[p]} = {center[p], None} \ {None}
  BY <1>1
<1>3. sourceCount' = [d \in Chunks |-> sourceCount[d] - At(p, d) + IF d = None THEN 1 ELSE 0]
  <2>1. \A d \in Chunks : sourceCount[d] - At(p, d) \in Int /\ d # None
    BY TicketAssumption DEF Rest, PlayersOK, At
  <2> QED BY <1>1, <2>1
<1>4. TrackedAt(None, requested'[p], viewDistance) = {}
  BY DEF TrackedAt
<1>5. /\ requested' \in [Players -> ViewDistances \cup {None}]
      /\ \A q \in Players \ {p} : requested'[q] = requested[q]
  BY <1>1 DEF Rest, PlayersOK
<1>6. /\ Follow([tracked EXCEPT ![p] = TrackedAt(None, requested'[p], viewDistance)])
      /\ Process(dirty \cup ({center[p], None} \ {None}))
      /\ None \in Spots \cup {None}
  BY <1>1, <1>2, <1>4
<1> QED BY <1>1, <1>3, <1>5, <1>6, PlayerMoves, Zenon

LEMMA SetViewDistanceKeeps ==
    ASSUME Rest, Graph, NEW view \in ViewDistances, SetViewDistance(view)
    PROVE  Rest' /\ Graph'
<1> DEFINE now == [p \in Players |-> TrackedAt(center[p], requested[p], view)]
           S == {c \in Chunks : sourceCount[c] > 0 \/ PlayersAt(c) # {}}
<1>1. /\ Outside /\ UNCHANGED <<ticketVars, center, requested>> /\ viewDistance' = view
      /\ sourceCount' = [c \in Chunks |-> Cardinality(PlayersAt(c))]
      /\ Follow(now) /\ Process(dirty \cup S)
  BY DEF SetViewDistance
<1>2. TicketsOK' /\ ExpiringAgrees' /\ tickets' = tickets
  BY <1>1, TicketsKeep DEF Rest, TablesAgree
<1>3. now \in [Players -> SUBSET Chunks]
  <2>1. \A p \in Players : center[p] \in Chunks \cup {None}
    BY TicketAssumption DEF Rest, PlayersOK
  <2> QED BY <2>1, TrackedType
<1>4. /\ tracked' = now /\ trackers' \in [Chunks -> SUBSET Players]
      /\ \A c \in Chunks : trackers'[c] = {p \in Players : c \in tracked'[p]}
  <2> HIDE DEF now
  <2> QED BY <1>1, <1>3, FollowKeeps DEF Rest, TablesAgree, TrackersAgree
<1>5. TrackersAgree'
  BY <1>1, <1>4 DEF TrackersAgree
<1>6. \A c \in Chunks : PlayersAt(c)' = PlayersAt(c)
  BY <1>1 DEF PlayersAt
<1>7. sourceCount' = sourceCount
  BY <1>1 DEF Rest, TablesAgree, CountsAgree, PlayersOK
<1>8. Rest'
  BY <1>1, <1>2, <1>3, <1>4, <1>5, <1>6, <1>7 DEF Rest, TablesAgree, CountsAgree, PlayersOK
<1>9. S \subseteq Chunks /\ \A c \in Chunks \ S : SameDemand(c)
  BY <1>2, <1>6 DEF SameDemand
<1> HIDE DEF S
<1>10. Graph'
  BY <1>1, <1>8, <1>9, CallProcesses
<1> QED BY <1>8, <1>10

LEMMA SetPlayerViewDistanceKeeps ==
    ASSUME Rest, Graph, NEW p \in Players, NEW view \in ViewDistances, SetPlayerViewDistance(p, view)
    PROVE  Rest' /\ Graph'
<1> DEFINE now == [tracked EXCEPT ![p] = TrackedAt(center[p], view, viewDistance)]
<1>1. /\ requested' = [requested EXCEPT ![p] = view] /\ Follow(now)
      /\ UNCHANGED <<ticketVars, center, viewDistance, sourceCount, graphVars>>
  BY DEF SetPlayerViewDistance
<1>2. TicketsOK' /\ ExpiringAgrees' /\ tickets' = tickets
  BY <1>1, TicketsKeep DEF Rest, TablesAgree
<1>3. now \in [Players -> SUBSET Chunks]
  <2>1. center[p] \in Chunks \cup {None}
    BY TicketAssumption DEF Rest, PlayersOK
  <2>2. TrackedAt(center[p], view, viewDistance) \in SUBSET Chunks
    BY <2>1, TrackedType
  <2> QED BY <2>2 DEF Rest, PlayersOK
<1>4. /\ tracked' = now /\ trackers' \in [Chunks -> SUBSET Players]
      /\ \A c \in Chunks : trackers'[c] = {q \in Players : c \in tracked'[q]}
  <2> HIDE DEF now
  <2> QED BY <1>1, <1>3, FollowKeeps DEF Rest, TablesAgree, TrackersAgree
<1>5. \A q \in Players : tracked'[q] = TrackedAt(center'[q], requested'[q], viewDistance')
  BY <1>1, <1>4 DEF Rest, TablesAgree, TrackersAgree, PlayersOK
<1>6. PlayersOK'
  BY <1>1, <1>3, <1>4 DEF PlayersOK, Rest
<1>7. CountsAgree'
  BY <1>1 DEF Rest, TablesAgree, CountsAgree, PlayersAt
<1>8. Rest'
  BY <1>2, <1>4, <1>5, <1>6, <1>7 DEF Rest, TablesAgree, TrackersAgree
<1>9. UNCHANGED <<dirty, ticking, source, level, queue, propagating, pump>>
  BY <1>1 DEF graphVars
<1>10. GraphOK' /\ LevelsFollow'
  BY <1>9 DEF Graph, GraphOK, InCallback, LevelsFollow, Affected, Recomputed
<1>11. DemandCovered'
  BY <1>1, <1>2, <1>9 DEF Graph, DemandCovered, Demand, PlayersAt
<1> QED BY <1>8, <1>10, <1>11 DEF Graph
-----------------------------------------------------------------------------
(* The invariant of the whole.                                             *)

TicketInv == TypeOK /\ LevelsFollow /\ TablesAgree /\ DemandCovered

LEMMA InvParts ==
    TicketInv <=> Rest /\ Graph /\ calls \in 0 .. MaxCalls
BY DEF TicketInv, TypeOK, Rest, Graph, TicketsOK, PlayersOK, GraphOK

LEMMA NothingAsked ==
    ASSUME NEW view
    PROVE  AsSource(AskedLevel({}, 0, view)) = Unreached
<1> DEFINE none == {Level[t] : t \in {}}
<1>1. none \subseteq Nat /\ none = {}
  OBVIOUS
<1>2. TicketLevel({}) = Unreached
  <2> HIDE DEF none
  <2>1. Lowest(none) = Unreached
    BY <1>1, LowestOfNats
  <2> QED BY <2>1 DEF TicketLevel, none
<1>3. {Unreached} \subseteq Nat /\ {TicketLevel({})} \cup (IF 0 > 0 THEN {PlayerLevel(view)} ELSE {}) = {Unreached}
  BY <1>2, TicketAssumption DEF Unreached
<1>4. Lowest({Unreached}) = Unreached
  BY <1>3, LowestOfNats
<1> QED BY <1>3, <1>4, TicketAssumption DEF AskedLevel, AsSource, Unreached

LEMMA InitInv ==
    ASSUME Init
    PROVE  TicketInv
<1>1. Unreached \in Levels
  BY TicketAssumption DEF Levels, Unreached
<1>2. \A c \in Chunks : PlayersAt(c) = {}
  BY TicketAssumption DEF Init, PlayersAt
<1>3. Cardinality({}) = 0
  BY FS_EmptySet
<1>4. \A c \in Chunks : Recomputed(c) = Unreached
  <2> SUFFICES ASSUME NEW c \in Chunks PROVE Recomputed(c) = Unreached
    OBVIOUS
  <2> DEFINE S == {source[c]} \cup {level[d] + 1 : d \in Neighbours(c)}
  <2>1. \A x \in S : x \in Nat /\ x >= Unreached
    BY TicketAssumption DEF Init, Unreached, Neighbours
  <2>2. Lowest(S) = Unreached
    <3>1. S \subseteq Nat
      BY <2>1
    <3> HIDE DEF S
    <3>2. Lowest(S) \in Levels /\ Lowest(S) \in S \cup {Unreached}
      BY <3>1, LowestOfNats
    <3> QED BY <2>1, <3>2, TicketAssumption DEF Levels, Unreached
  <2> QED BY <2>2 DEF Recomputed
<1>5. LevelsFollow
  BY <1>4 DEF LevelsFollow, Init
<1>6. DemandCovered
  <2>1. \A c \in Chunks : Demand(c) = Unreached
    BY <1>2, <1>3, NothingAsked DEF Demand, Init
  <2> QED BY <1>1, <2>1 DEF DemandCovered, Init, Levels
<1>7. TablesAgree
  <2>1. ExpiringAgrees
    BY DEF Init, ExpiringAgrees, Timed
  <2>2. CountsAgree
    BY <1>2, <1>3 DEF Init, CountsAgree
  <2>3. TrackersAgree
    BY DEF Init, TrackersAgree, TrackedAt
  <2> QED BY <2>1, <2>2, <2>3 DEF TablesAgree
<1>8. TicketsOK
  BY DEF TicketsOK, Init, Timed
<1>9. PlayersOK
  BY TicketAssumption DEF PlayersOK, Init
<1>10. GraphOK
  <2>1. queue \in Seq(Chunks)
    BY DEF Init
  <2> QED BY <1>1, <2>1 DEF GraphOK, Init, InCallback
<1> QED BY <1>5, <1>6, <1>7, <1>8, <1>9, <1>10, InvParts, TicketAssumption DEF Rest, Graph, Init

LEMMA CallsCounted ==
    ASSUME calls \in 0 .. MaxCalls, Call
    PROVE  calls' \in 0 .. MaxCalls
BY TicketAssumption DEF Call

LEMMA NextInv ==
    ASSUME TicketInv, [Next]_vars
    PROVE  TicketInv'
<1>0. Rest /\ Graph /\ calls \in 0 .. MaxCalls
  BY InvParts
<1> SUFFICES Rest' /\ Graph' /\ calls' \in 0 .. MaxCalls
  BY DEF TicketInv, TypeOK, Rest, Graph, TicketsOK, PlayersOK, GraphOK
<1>1. CASE TicketCall
  <2>1. ASSUME NEW c \in Chunks, NEW t \in Registrable[c], RegisterTicket(c, t) PROVE Rest' /\ Graph' /\ Call
    <3>1. t \in Tickets
      BY TicketAssumption
    <3> QED BY <1>0, <2>1, <3>1, RegisterTicketKeeps DEF RegisterTicket
  <2>2. ASSUME NEW c \in Chunks, NEW t \in Registrable[c], ReleaseTicket(c, t) PROVE Rest' /\ Graph' /\ Call
    <3>1. t \in Tickets
      BY TicketAssumption
    <3> QED BY <1>0, <2>2, <3>1, ReleaseTicketKeeps DEF ReleaseTicket
  <2>3. ASSUME NEW c \in Spots, NEW force \in BOOLEAN, ForceChunk(c, force) PROVE Rest' /\ Graph' /\ Call
    BY <1>0, <2>3, ForceChunkKeeps DEF ForceChunk
  <2> QED BY <1>0, <1>1, <2>1, <2>2, <2>3, CallsCounted DEF TicketCall
<1>2. CASE PlayerCall
  <2>1. ASSUME NEW p \in Players, RemovePlayer(p) PROVE Rest' /\ Graph' /\ Call
    BY <1>0, <2>1, RemovePlayerKeeps DEF RemovePlayer
  <2>2. ASSUME NEW p \in Players, NEW c \in Spots, UpdatePlayerPosition(p, c) PROVE Rest' /\ Graph' /\ Call
    BY <1>0, <2>2, UpdatePlayerPositionKeeps DEF UpdatePlayerPosition
  <2>3. ASSUME NEW view \in ViewDistances, SetViewDistance(view) PROVE Rest' /\ Graph' /\ Call
    BY <1>0, <2>3, SetViewDistanceKeeps DEF SetViewDistance
  <2>4. ASSUME NEW p \in Players, NEW view \in ViewDistances, SetPlayerViewDistance(p, view)
        PROVE  Rest' /\ Graph' /\ Call
    BY <1>0, <2>4, SetPlayerViewDistanceKeeps DEF SetPlayerViewDistance
  <2> QED BY <1>0, <1>2, <2>1, <2>2, <2>3, <2>4, CallsCounted DEF PlayerCall
<1>3. CASE Tick
  <2>1. calls' = calls
    BY <1>3 DEF Tick
  <2> QED BY <1>0, <1>3, <2>1, TickKeepsAll
<1>4. CASE ProcessUpdates
  <2>1. calls' = calls
    BY <1>4 DEF ProcessUpdates
  <2> QED BY <1>0, <1>4, <2>1, ProcessUpdatesKeeps
<1>5. ASSUME GraphOK', LevelsFollow', UNCHANGED <<ticketVars, playerVars, dirty, source, calls>>
      PROVE  Rest' /\ Graph' /\ calls' \in 0 .. MaxCalls
  <2>1. TicketsOK' /\ ExpiringAgrees'
    BY <1>0, <1>5, TicketsKeep DEF Rest, TablesAgree
  <2>2. PlayersOK' /\ CountsAgree' /\ TrackersAgree'
    BY <1>0, <1>5, PlayersKeep DEF Rest, TablesAgree
  <2>3. DemandCovered'
    BY <1>0, <1>5, PumpKeepsDemand DEF Graph
  <2> QED BY <1>0, <1>5, <2>1, <2>2, <2>3 DEF Rest, TablesAgree, Graph
<1>6. CASE Step
  BY <1>0, <1>5, <1>6, StepKeeps DEF Graph, Step
<1>7. CASE Propagate
  BY <1>0, <1>5, <1>7, PropagateKeeps DEF Graph, Propagate
<1>8. CASE StopPump
  BY <1>0, <1>5, <1>8, StopPumpKeeps DEF Graph, StopPump
<1>9. CASE UNCHANGED vars
  <2>1. UNCHANGED <<ticketVars, playerVars, dirty, source, calls>> /\ UNCHANGED <<ticking, level, queue, propagating, pump>>
    BY <1>9 DEF vars, graphVars
  <2>2. GraphOK' /\ LevelsFollow'
    BY <1>0, <2>1 DEF Graph, GraphOK, InCallback, LevelsFollow, Affected, Recomputed
  <2> QED BY <1>5, <2>1, <2>2
<1> QED BY <1>1, <1>2, <1>3, <1>4, <1>6, <1>7, <1>8, <1>9 DEF Next

(* The demand of every ticket and player is in the graph or marked for it, *)
(* the tables agree with the tickets and players, and no level change is   *)
(* left without a follow-up: inductive together.                           *)
THEOREM TicketsCorrect == Spec => []TicketInv
<1>1. Init => TicketInv
  BY InitInv
<1>2. TicketInv /\ [Next]_vars => TicketInv'
  BY NextInv
<1> QED BY <1>1, <1>2, PTL DEF Spec

-----------------------------------------------------------------------------
(* Levels are distances.  Both halves take a least counterexample.         *)

LEMMA RestingLevels ==
    ASSUME TicketInv, Settled
    PROVE  /\ \A c \in Chunks : source[c] \in Levels /\ level[c] \in Levels
           /\ \A c \in Chunks : level[c] <= source[c]
           /\ \A c \in Chunks : \A d \in Neighbours(c) : level[c] <= level[d] + 1
           /\ \A c \in Chunks : \/ level[c] = source[c] \/ level[c] = Unreached
                                \/ \E d \in Neighbours(c) : level[c] = level[d] + 1
<1>1. source \in [Chunks -> Levels] /\ level \in [Chunks -> Levels]
  BY DEF TicketInv, TypeOK
<1>2. \A c \in Chunks : level[c] = Recomputed(c)
  <2>1. ToSet(queue) = {}
    BY DEF Settled, ToSet
  <2> QED BY <2>1 DEF TicketInv, LevelsFollow, Settled
<1> SUFFICES ASSUME NEW c \in Chunks
             PROVE  /\ level[c] <= source[c]
                    /\ \A d \in Neighbours(c) : level[c] <= level[d] + 1
                    /\ \/ level[c] = source[c] \/ level[c] = Unreached
                       \/ \E d \in Neighbours(c) : level[c] = level[d] + 1
  BY <1>1
<1> DEFINE S == {source[c]} \cup {level[d] + 1 : d \in Neighbours(c)}
<1>3. S \subseteq Nat
  BY <1>1, TicketAssumption DEF Levels, Unreached, Neighbours
<1>4. level[c] = Lowest(S)
  BY <1>2 DEF Recomputed
<1>5. Lowest(S) \in S \cup {Unreached} /\ \A x \in S : Lowest(S) <= x
  <2> HIDE DEF S
  <2> QED BY <1>3, LowestOfNats
<1>6. \A x \in S : level[c] <= x
  <2> HIDE DEF S
  <2> QED BY <1>4, <1>5
<1>7. level[c] \in S \/ level[c] = Unreached
  <2> HIDE DEF S
  <2> QED BY <1>4, <1>5
<1> QED BY <1>6, <1>7

(* No chunk is wanted less than a source and the way from it say. *)
LEMMA NoLevelTooHigh ==
    ASSUME TicketInv, Settled, NEW d \in Chunks
    PROVE  \A c \in Chunks : level[c] <= source[d] + Distance[d][c]
<1> DEFINE Bad == {c \in Chunks : level[c] > source[d] + Distance[d][c]}
           B == {Distance[d][c] : c \in Bad}
<1> SUFFICES ASSUME Bad # {} PROVE FALSE
  <2>1. \A c \in Chunks : level[c] \in Nat /\ source[d] + Distance[d][c] \in Nat
    BY RestingLevels, DistanceAssumption, TicketAssumption DEF Levels, Unreached
  <2> QED BY <2>1
<1>1. B \subseteq Nat /\ B # {}
  BY DistanceAssumption
<1>2. PICK c \in Bad : \A e \in Bad : Distance[d][c] <= Distance[d][e]
  <2>1. Min(B) \in B /\ \A x \in B : Min(B) <= x
    <3> HIDE DEF B
    <3> QED BY <1>1, MinOfNats
  <2> QED BY <2>1
<1>3. c # d
  BY <1>2, RestingLevels, DistanceAssumption, TicketAssumption DEF Levels, Unreached
<1>4. PICK e \in Chunks : Distance[e][c] = 1 /\ Distance[d][e] + 1 = Distance[d][c]
  BY <1>2, <1>3, DistanceAssumption
<1>5. e \notin Bad
  BY <1>2, <1>4, DistanceAssumption
<1>6. e \in Neighbours(c)
  BY <1>2, <1>4, DistanceAssumption DEF Neighbours
<1>7. level[c] <= level[e] + 1
  BY <1>2, <1>6, RestingLevels
<1>8. level[c] \in Nat /\ level[e] \in Nat /\ source[d] \in Nat /\ Distance[d][e] \in Nat
  BY <1>2, <1>4, RestingLevels, DistanceAssumption, TicketAssumption DEF Levels, Unreached
<1>9. level[e] <= source[d] + Distance[d][e] /\ level[c] > source[d] + Distance[d][e] + 1
  BY <1>2, <1>4, <1>5, <1>8
<1> QED BY <1>7, <1>8, <1>9

(* And every level is accounted for by a source. *)
LEMMA EveryLevelHasASource ==
    ASSUME TicketInv, Settled
    PROVE  \A c \in Chunks : level[c] <= MaxLevel =>
              \E d \in Chunks : source[d] + Distance[d][c] <= level[c]
<1> DEFINE Bad == {c \in Chunks : level[c] <= MaxLevel /\ ~ \E d \in Chunks : source[d] + Distance[d][c] <= level[c]}
           B == {level[c] : c \in Bad}
<1> SUFFICES ASSUME Bad # {} PROVE FALSE
  OBVIOUS
<1>0. \A c \in Chunks : level[c] \in Nat /\ source[c] \in Nat
  BY RestingLevels, TicketAssumption DEF Levels, Unreached
<1>1. B \subseteq Nat /\ B # {}
  BY <1>0
<1>2. PICK c \in Bad : \A e \in Bad : level[c] <= level[e]
  <2>1. Min(B) \in B /\ \A x \in B : Min(B) <= x
    <3> HIDE DEF B
    <3> QED BY <1>1, MinOfNats
  <2> QED BY <2>1
<1>3. level[c] # source[c]
  <2>1. Distance[c][c] = 0
    BY DistanceAssumption
  <2> QED BY <1>0, <1>2, <2>1
<1>4. level[c] # Unreached
  BY <1>0, <1>2, TicketAssumption DEF Unreached
<1>5. PICK e \in Neighbours(c) : level[c] = level[e] + 1
  BY <1>2, <1>3, <1>4, RestingLevels
<1>6. e \in Chunks /\ Distance[e][c] = 1
  BY <1>2, <1>5, DistanceAssumption DEF Neighbours
<1>7. e \notin Bad /\ level[e] <= MaxLevel
  BY <1>0, <1>2, <1>5, <1>6, TicketAssumption
<1>8. PICK d \in Chunks : source[d] + Distance[d][e] <= level[e]
  BY <1>6, <1>7
<1>9. Distance[d][c] <= Distance[d][e] + Distance[e][c]
  BY <1>2, <1>6, DistanceAssumption
<1>10. Distance[d][c] \in Nat /\ Distance[d][e] \in Nat /\ Distance[e][c] \in Nat
  BY <1>2, <1>6, DistanceAssumption
<1>11. source[d] + Distance[d][c] <= level[c]
  BY <1>0, <1>5, <1>6, <1>8, <1>9, <1>10
<1> QED BY <1>2, <1>11

(* At rest every level is the distance from the nearest source. *)
LEMMA RestIsNearest ==
    ASSUME TicketInv
    PROVE  SettledIsNearest
<1> SUFFICES ASSUME Settled, NEW c \in Chunks
             PROVE  LET near == Lowest({source[d] + Distance[d][c] : d \in Chunks})
                    IN  level[c] = IF near <= MaxLevel THEN near ELSE Unreached
  BY DEF SettledIsNearest
<1> DEFINE S == {source[d] + Distance[d][c] : d \in Chunks}
           near == Lowest(S)
<1>1. level[c] \in Levels
  BY RestingLevels
<1>2. S \subseteq Nat
  BY RestingLevels, DistanceAssumption, TicketAssumption DEF Levels, Unreached
<1>3. near \in Levels /\ near \in S \cup {Unreached} /\ \A x \in S : near <= x
  <2> HIDE DEF S
  <2> QED BY <1>2, LowestOfNats
<1>4. \A x \in S : level[c] <= x
  BY NoLevelTooHigh
<1>5. level[c] <= MaxLevel => \E x \in S : x <= level[c]
  BY EveryLevelHasASource
<1> HIDE DEF S, near
<1>6. CASE near <= MaxLevel
  <2>1. level[c] <= near
    BY <1>3, <1>4, <1>6, TicketAssumption DEF Levels, Unreached
  <2>2. near <= level[c]
    <3>1. PICK x \in S : x <= level[c]
      BY <1>1, <1>3, <1>5, <1>6, <2>1, TicketAssumption DEF Levels, Unreached
    <3> QED BY <1>1, <1>2, <1>3, <3>1, TicketAssumption DEF Levels, Unreached
  <2> QED BY <1>1, <1>3, <1>6, <2>1, <2>2, TicketAssumption DEF Levels, Unreached, S, near
<1>7. CASE ~(near <= MaxLevel)
  <2>1. ~(level[c] <= MaxLevel)
    <3> SUFFICES ASSUME level[c] <= MaxLevel PROVE FALSE
      OBVIOUS
    <3>1. PICK x \in S : x <= level[c]
      BY <1>5
    <3> QED BY <1>1, <1>2, <1>3, <1>7, <3>1, TicketAssumption DEF Levels, Unreached
  <2>2. level[c] = Unreached
    BY <1>1, <2>1, TicketAssumption DEF Levels, Unreached
  <2> QED BY <1>7, <2>2 DEF S, near
<1> QED BY <1>6, <1>7

-----------------------------------------------------------------------------
(* The theorems about the properties one by one.                           *)

(* Types; clocks run, and the pump never takes from an empty queue. *)
THEOREM TypesCorrect == Spec => []TypeOK
<1>1. TicketInv => TypeOK
  BY DEF TicketInv
<1> QED BY <1>1, TicketsCorrect, PTL

(* No level change of the distance graph is ever left without a follow-up. *)
THEOREM LevelsCorrect == Spec => []LevelsFollow
<1>1. TicketInv => LevelsFollow
  BY DEF TicketInv
<1> QED BY <1>1, TicketsCorrect, PTL

(* No ticket and no player is forgotten by the graph. *)
THEOREM DemandCorrect == Spec => []DemandCovered
<1>1. TicketInv => DemandCovered
  BY DEF TicketInv
<1> QED BY <1>1, TicketsCorrect, PTL

(* The expiry index, the player counts and the trackers agree with what they index. *)
THEOREM TablesCorrect == Spec => []TablesAgree
<1>1. TicketInv => TablesAgree
  BY DEF TicketInv
<1> QED BY <1>1, TicketsCorrect, PTL

(* With an empty queue every level is the distance from the nearest source. *)
THEOREM NearestCorrect == Spec => []SettledIsNearest
<1>1. TicketInv => SettledIsNearest
  BY RestIsNearest
<1> QED BY <1>1, TicketsCorrect, PTL
=============================================================================
