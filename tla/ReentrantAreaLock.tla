------------------------- MODULE ReentrantAreaLock -------------------------
(* The lock that excludes chunk scheduling in intersecting areas             *)
(* (src/common/util/concurrent/ReentrantAreaLock.cpp), with the add-blocking *)
(* queue of waiters every node is (MultiThreadedQueue.hpp) and the permits   *)
(* threads park on (LockSupport.hpp).                                        *)
(*                                                                           *)
(* An area is what lock and tryLock make of chunk coordinates: rows of       *)
(* sections, scanned row by row. One action is one operation of the table    *)
(* (under its bucket's mutex), of a queue (linearized at its compare and     *)
(* swap) or of a permit.                                                     *)
(*                                                                           *)
(* A definition whose name extends the next one's is a slip of that code: a  *)
(* plausible bug the properties are shown to notice.                         *)
EXTENDS Naturals, Sequences, FiniteSets

CONSTANTS
    Threads,        \* the callers
    Sections,       \* the keys of the table
    Areas,          \* what callers lock: sequences of rows of sections
    Nesting,        \* threads that ask for an area they do not cover while holding one
    Programs,       \* bound: the calls each thread makes, in order
    Slots,          \* nodes of one thread that something can still refer to
    NoNode

Node == Threads \X Slots        \* a node names its thread, m_thread

ASSUME LockAssumption ==
    /\ Areas \subseteq Seq(Seq(Sections))
    /\ \A area \in Areas : \A i \in DOMAIN area : area[i] # <<>>
    /\ Nesting \subseteq Threads
    /\ Programs \subseteq [Threads -> Seq({"lock", "try"} \X Areas)]
    /\ NoNode \notin Node

VARIABLES
    owner,          \* m_nodes: the node that owns each section
    mine,           \* m_areaAffected: the sections each node has put in the table
    waiters,        \* each node's queue of waiting threads
    blocked,        \* whether the queue refuses to add
    permit,         \* ThreadHandle::m_permit
    held,           \* the nodes of each thread's LockHandles, the last one on top
    call,           \* where each thread is in a call
    todo            \* the calls each thread has still to make

vars == <<owner, mine, waiters, blocked, permit, held, call, todo>>

----------------------------------------------------------------------------
(* Where a thread is: idle in its own code, at "scan" of the rows left, at   *)
(* "remove" and "drain" of its node, at "unpark" and "notify" of a target,   *)
(* at "wait" before it backs off or queues up, and in park: at "park" (the   *)
(* first look at its permit), "check" (under its mutex), "doze" (the mutex   *)
(* still held) and "sleep"; then "again".                                    *)
Idle == [at |-> "idle", mode |-> "none", node |-> NoNode, area |-> <<>>,
         rows |-> <<>>, park |-> NoNode, added |-> FALSE, target |-> {}]

Of(rows) == UNION {{rows[i][j] : j \in DOMAIN rows[i]} : i \in DOMAIN rows}

(* What is left to scan after the first section of the first row.            *)
Advance(rows) ==
    IF Tail(Head(rows)) = <<>> THEN Tail(rows)
    ELSE <<Tail(Head(rows))>> \o Tail(rows)

(* prev->m_thread == currThread.                                             *)
OwnedByAnybody(t, s) == owner[s] # NoNode
OwnedBy(t, s) == owner[s] # NoNode /\ owner[s][1] = t

IsHeldByCurrentThread(t, area) == \A s \in Of(area) : OwnedBy(t, s)

(* A node's memory is used again once nothing refers to it.                  *)
Unused(n) ==
    /\ n \notin {held[n[1]][i] : i \in DOMAIN held[n[1]]}
    /\ \A t \in Threads : call[t].node # n /\ call[t].park # n

Become(t, c) == call' = [call EXCEPT ![t] = c]

Go(t, at) == Become(t, [call[t] EXCEPT !.at = at])

Return(t) == Become(t, Idle)

----------------------------------------------------------------------------
(* lock and tryLock: a new node, then the scan of the area.                  *)
Call(t, mode, area) ==
    /\ call[t].at = "idle" /\ todo[t] # <<>> /\ Head(todo[t]) = <<mode, area>>
    /\ held[t] # <<>> /\ t \notin Nesting => IsHeldByCurrentThread(t, area)
    /\ \E i \in Slots : Unused(<<t, i>>)
    /\ LET n == <<t, CHOOSE i \in Slots : Unused(<<t, i>>)>>
       IN /\ Become(t, [Idle EXCEPT !.at = "scan", !.mode = mode, !.node = n,
                                     !.area = area, !.rows = area])
          /\ waiters' = [waiters EXCEPT ![n] = {}]
          /\ blocked' = [blocked EXCEPT ![n] = FALSE]
    /\ todo' = [todo EXCEPT ![t] = Tail(@)]
    /\ UNCHANGED <<owner, mine, permit, held>>

(* putIfAbsent of the next section. A section of another thread ends the     *)
(* row, not the scan; the last one met is the one to wait for.               *)
PutIfAbsent(t) ==
    /\ call[t].at = "scan" /\ call[t].rows # <<>>
    /\ LET s == Head(Head(call[t].rows))
           n == call[t].node
           rows == call[t].rows
       IN \/ /\ owner[s] = NoNode
             /\ owner' = [owner EXCEPT ![s] = n]
             /\ mine' = [mine EXCEPT ![n] = @ \union {s}]
             /\ Become(t, [call[t] EXCEPT !.rows = Advance(rows), !.added = TRUE])
          \/ /\ OwnedBy(t, s)
             /\ Become(t, [call[t] EXCEPT !.rows = Advance(rows)])
             /\ UNCHANGED <<owner, mine>>
          \/ /\ owner[s] # NoNode /\ ~ OwnedBy(t, s)
             /\ Become(t, [call[t] EXCEPT !.rows = Tail(rows), !.park = owner[s]])
             /\ UNCHANGED <<owner, mine>>
    /\ UNCHANGED <<waiters, blocked, permit, held, todo>>

(* The area is taken, or was already. The assertion against areas that       *)
(* intersect without covering each other cannot fail here: alreadyOwned is   *)
(* only ever set together with park.                                         *)
Acquired(t) ==
    /\ call[t].at = "scan" /\ call[t].rows = <<>> /\ call[t].park = NoNode
    /\ held' = [held EXCEPT ![t] = Append(@, call[t].node)]
    /\ Return(t)
    /\ UNCHANGED <<owner, mine, waiters, blocked, permit, todo>>

(* Met another thread: what was put in goes out again; a tryLock that put    *)
(* nothing in has failed.                                                    *)
Failed(t) ==
    /\ call[t].at = "scan" /\ call[t].rows = <<>> /\ call[t].park # NoNode
    /\ \/ call[t].added /\ Go(t, "remove")
       \/ ~ call[t].added /\ call[t].mode = "lock" /\ Go(t, "wait")
       \/ ~ call[t].added /\ call[t].mode = "try" /\ Return(t)
    /\ UNCHANGED <<owner, mine, waiters, blocked, permit, held, todo>>

(* unlock, when the newest handle is released: a pure reentry owns nothing.  *)
Unlock(t) ==
    /\ call[t].at = "idle" /\ held[t] # <<>>
    /\ LET n == held[t][Len(held[t])]
       IN IF mine[n] = {} THEN UNCHANGED call
          ELSE Become(t, [Idle EXCEPT !.at = "remove", !.mode = "unlock", !.node = n])
    /\ held' = [held EXCEPT ![t] = SubSeq(@, 1, Len(@) - 1)]
    /\ UNCHANGED <<owner, mine, waiters, blocked, permit, todo>>

(* One remove(key, node), on the way back or out.                            *)
Remove(t) ==
    /\ call[t].at = "remove"
    /\ \E s \in mine[call[t].node] :
         /\ owner' = [owner EXCEPT ![s] = NoNode]
         /\ mine' = [mine EXCEPT ![call[t].node] = @ \ {s}]
         /\ IF mine[call[t].node] = {s} THEN Go(t, "drain") ELSE UNCHANGED call
    /\ UNCHANGED <<waiters, blocked, permit, held, todo>>

(* pollOrBlockAdds: a waiter to wake, or none and nobody may join.           *)
Poll(t) ==
    /\ call[t].at = "drain"
    /\ \E w \in waiters[call[t].node] :
         /\ waiters' = [waiters EXCEPT ![call[t].node] = @ \ {w}]
         /\ Become(t, [call[t] EXCEPT !.at = "unpark", !.target = {w}])
    /\ UNCHANGED <<owner, mine, blocked, permit, held, todo>>

BlockAddsNot(t) ==
    /\ call[t].at = "drain" /\ waiters[call[t].node] = {}
    /\ IF call[t].mode = "lock" THEN Go(t, "wait") ELSE Return(t)
    /\ UNCHANGED <<owner, mine, waiters, blocked, permit, held, todo>>

BlockAdds(t) ==
    /\ call[t].at = "drain" /\ waiters[call[t].node] = {}
    /\ blocked' = [blocked EXCEPT ![call[t].node] = TRUE]
    /\ IF call[t].mode = "lock" THEN Go(t, "wait") ELSE Return(t)
    /\ UNCHANGED <<owner, mine, waiters, permit, held, todo>>

----------------------------------------------------------------------------
(* LockSupport::unpark: set the permit; if it was not set, pass through the  *)
(* target's mutex, which it keeps from its check to its sleep, and notify.   *)
Unpark(t) ==
    /\ call[t].at = "unpark"
    /\ \E w \in call[t].target :
         /\ permit' = [permit EXCEPT ![w] = TRUE]
         /\ IF permit[w] THEN Become(t, [call[t] EXCEPT !.at = "drain", !.target = {}])
            ELSE Go(t, "notify")
    /\ UNCHANGED <<owner, mine, waiters, blocked, held, todo>>

NotifyOne(t) ==
    /\ call[t].at = "notify"
    /\ \E w \in call[t].target :
         /\ call[w].at # "doze"
         /\ call' = [u \in Threads |->
                IF u = t THEN [call[t] EXCEPT !.at = "drain", !.target = {}]
                ELSE IF u = w /\ call[w].at = "sleep" THEN [call[w] EXCEPT !.at = "check"]
                ELSE call[u]]
    /\ UNCHANGED <<owner, mine, waiters, blocked, permit, held, todo>>

(* backoff: spin, or park for a bounded time, which uses up a permit. It is  *)
(* also what follows an add that the queue refuses.                          *)
BackOff(t) ==
    /\ call[t].at = "wait"
    /\ permit' = [permit EXCEPT ![t] = FALSE]
    /\ Go(t, "again")
    /\ UNCHANGED <<owner, mine, waiters, blocked, held, todo>>

(* After many failures: queue up at the node in the way, then park.          *)
Add(t) ==
    /\ call[t].at = "wait" /\ ~ blocked[call[t].park]
    /\ waiters' = [waiters EXCEPT ![call[t].park] = @ \union {t}]
    /\ Go(t, "park")
    /\ UNCHANGED <<owner, mine, blocked, permit, held, todo>>

(* park: take the permit if it is there, first without the mutex, then under *)
(* it; otherwise sleep.                                                      *)
LookOnly(t) ==
    /\ call[t].at \in {"park", "check"}
    /\ Go(t, IF permit[t] THEN "again" ELSE IF call[t].at = "park" THEN "check" ELSE "doze")
    /\ UNCHANGED <<owner, mine, waiters, blocked, permit, held, todo>>

Look(t) ==
    /\ call[t].at \in {"park", "check"}
    /\ permit' = [permit EXCEPT ![t] = FALSE]
    /\ Go(t, IF permit[t] THEN "again" ELSE IF call[t].at = "park" THEN "check" ELSE "doze")
    /\ UNCHANGED <<owner, mine, waiters, blocked, held, todo>>

Sleep(t) ==
    /\ call[t].at = "doze" /\ Go(t, "sleep")
    /\ UNCHANGED <<owner, mine, waiters, blocked, permit, held, todo>>

(* The next attempt; allowAdds if this one had put something in the table.   *)
Retry(t) ==
    /\ call[t].at = "again"
    /\ blocked' = [blocked EXCEPT ![call[t].node] = @ /\ ~ call[t].added]
    /\ Become(t, [call[t] EXCEPT !.at = "scan", !.rows = call[t].area,
                                  !.park = NoNode, !.added = FALSE])
    /\ UNCHANGED <<owner, mine, waiters, permit, held, todo>>

----------------------------------------------------------------------------
Init ==
    /\ owner = [s \in Sections |-> NoNode]
    /\ mine = [n \in Node |-> {}]
    /\ waiters = [n \in Node |-> {}]
    /\ blocked = [n \in Node |-> FALSE]
    /\ permit = [t \in Threads |-> FALSE]
    /\ held = [t \in Threads |-> <<>>]
    /\ call = [t \in Threads |-> Idle]
    /\ todo \in Programs

Proceed(t) ==
    \/ PutIfAbsent(t) \/ Acquired(t) \/ Failed(t) \/ Unlock(t)
    \/ Remove(t) \/ Poll(t) \/ BlockAdds(t) \/ Unpark(t) \/ NotifyOne(t)
    \/ BackOff(t) \/ Add(t) \/ Look(t) \/ Sleep(t) \/ Retry(t)

Next == \E t \in Threads :
    \/ Proceed(t)
    \/ \E mode \in {"lock", "try"}, area \in Areas : Call(t, mode, area)

Spec == Init /\ [][Next]_vars

(* Threads run, and whoever holds a handle leaves its scope; nobody has to   *)
(* call.                                                                     *)
FairSpec == Spec /\ \A t \in Threads : WF_vars(Proceed(t))
============================================================================
