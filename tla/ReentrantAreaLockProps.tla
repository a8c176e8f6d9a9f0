----------------------- MODULE ReentrantAreaLockProps -----------------------
(* What ReentrantAreaLock is relied on for.                                  *)
EXTENDS ReentrantAreaLock

Parking == {"park", "check", "doze", "sleep"}

Calls == [at : Parking \union {"idle", "scan", "remove", "drain", "unpark", "notify",
                               "wait", "again"},
          mode : {"none", "lock", "try", "unlock"}, node : Node \union {NoNode},
          area : Areas \union {<<>>}, rows : Seq(Seq(Sections)),
          park : Node \union {NoNode}, added : BOOLEAN, target : SUBSET Threads]

TypeOK ==
    /\ owner \in [Sections -> Node \union {NoNode}]
    /\ mine \in [Node -> SUBSET Sections]
    /\ waiters \in [Node -> SUBSET Threads]
    /\ blocked \in [Node -> BOOLEAN]
    /\ permit \in [Threads -> BOOLEAN]
    /\ held \in [Threads -> Seq(Node)]
    /\ call \in [Threads -> Calls]
    /\ todo \in [Threads -> Seq({"lock", "try"} \X Areas)]

(* The class comment's invariant: no two threads hold intersecting areas, an *)
(* area within one's own is free to enter again, and the end of a scope      *)
(* gives back exactly what the scope had added, whatever the table went      *)
(* through section by section.                                               *)
Ownership == INSTANCE AreaOwnership WITH
    gained <- [t \in Threads |-> [i \in DOMAIN held[t] |-> mine[held[t][i]]]],
    AreaSets <- {Of(area) : area \in Areas}

ImplementsAreaOwnership == Ownership!Spec

(* A thread is about to be woken exactly as often as it parks: one that is   *)
(* on its way through park() is in one queue, or taken out of one and not    *)
(* yet unparked, or has its permit, and nobody else is any of these. So no   *)
(* permit is left over to make a later park return at once, and no backoff   *)
(* takes away one that is needed.                                            *)
WokenOnce == \A w \in Threads :
    Cardinality({n \in Node : w \in waiters[n]})
      + Cardinality({t \in Threads : call[t].at = "unpark" /\ w \in call[t].target})
      + (IF permit[w] THEN 1 ELSE 0)
    = IF call[w].at \in Parking THEN 1 ELSE 0

(* "No wakeup is lost" (pollOrBlockAdds): a thread that parks on a node is   *)
(* unparked.                                                                 *)
ParkedIsWoken ==
    \A t \in Threads : call[t].at \in Parking ~> call[t].at \notin Parking

(* LockSupport.hpp of the raw handles in the queues: a thread that is woken  *)
(* does not end before its unpark is done. One that is back in its own code  *)
(* and holds nothing is free to end.                                         *)
UnparkFinishesFirst == \A t \in Threads : call[t].at = "notify" =>
    \A w \in call[t].target : call[w].at # "idle" \/ held[w] # <<>>

(* The class comment: a thread that holds an area asks for another only      *)
(* within it.                                                                *)
ReentryIsCovered == \A t \in Threads :
    Len(held[t]) > 1 => mine[held[t][Len(held[t])]] = {}

(* No deadlock: when nobody can go on by itself, because every thread is in  *)
(* its own code without a handle or sleeps in park, nobody sleeps, and the   *)
(* table is empty. Threads that nest areas are not safe from it.             *)
AtRest == \A t \in Threads :
    \/ call[t].at = "idle" /\ held[t] = <<>>
    \/ call[t].at = "sleep"

RestsOnlyFree == AtRest =>
    /\ \A t \in Threads : call[t].at = "idle"
    /\ \A s \in Sections : owner[s] = NoNode
============================================================================
