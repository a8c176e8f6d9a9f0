------------------------------ MODULE TaskPool ------------------------------
(***************************************************************************)
(* What a worker pool promises its callers, without its locks, conditions, *)
(* counters or call stacks: a worker with nothing in hand takes the most   *)
(* urgent task there is; a task is run unless it was given up or the pool  *)
(* is being closed; whoever has a task in hand tells it all it is told,    *)
(* the callback last and once; and a pool that is closed has nothing       *)
(* queued and nothing in the hands of its workers or its owner.            *)
(***************************************************************************)
EXTENDS Naturals

CONSTANTS
    Tasks,      \* the tasks callers ever submit
    Priority,   \* util::TaskPriority, a smaller number is served first
    Threads,    \* whoever calls or serves the pool
    Workers,    \* the threads of the pool
    Owner       \* the thread that opens and closes it

VARIABLES
    stage,      \* where a task is in its life
    ticket,     \* its place in the order of submission, 0 before it has one
    accepted,   \* how many tasks have been accepted
    aborted,    \* whether it has been given up
    hands,      \* the tasks each thread has in hand
    life        \* "closed", "open" or "closing"

abstractVars == <<stage, ticket, accepted, aborted, hands, life>>

Stages == {"new", "refused", "queued", "served", "withdrawn", "running", "dropped", "called"}

Init ==
    /\ stage = [t \in Tasks |-> "new"]
    /\ ticket = [t \in Tasks |-> 0] /\ accepted = 0
    /\ aborted = [t \in Tasks |-> FALSE]
    /\ hands = [th \in Threads |-> {}]
    /\ life = "closed"

-----------------------------------------------------------------------------
Open == life = "closed" /\ life' = "open" /\ UNCHANGED <<stage, ticket, accepted, aborted, hands>>

Close ==
    /\ life = "open" /\ hands[Owner] = {}
    /\ life' = "closing"
    /\ UNCHANGED <<stage, ticket, accepted, aborted, hands>>

Closed ==
    /\ life = "closing"
    /\ \A t \in Tasks : stage[t] # "queued"
    /\ \A th \in Workers \cup {Owner} : hands[th] = {}
    /\ life' = "closed"
    /\ UNCHANGED <<stage, ticket, accepted, aborted, hands>>

Accept(t) ==
    /\ life = "open" /\ stage[t] = "new"
    /\ stage' = [stage EXCEPT ![t] = "queued"]
    /\ accepted' = accepted + 1 /\ ticket' = [ticket EXCEPT ![t] = accepted + 1]
    /\ UNCHANGED <<aborted, hands, life>>

Refuse(t) ==
    /\ life # "open" /\ stage[t] = "new"
    /\ stage' = [stage EXCEPT ![t] = "refused"]
    /\ UNCHANGED <<ticket, accepted, aborted, hands, life>>

Abort(t) ==
    /\ aborted' = [aborted EXCEPT ![t] = TRUE]
    /\ UNCHANGED <<stage, ticket, accepted, hands, life>>

-----------------------------------------------------------------------------
Precedes(a, b) ==
    \/ Priority[a] < Priority[b]
    \/ Priority[a] = Priority[b] /\ ticket[a] < ticket[b]

Serve(w, t) ==
    /\ life # "closed" /\ hands[w] = {}
    /\ stage[t] = "queued"
    /\ \A u \in Tasks \ {t} : stage[u] = "queued" => Precedes(t, u)
    /\ stage' = [stage EXCEPT ![t] = "served"]
    /\ hands' = [hands EXCEPT ![w] = {t}]
    /\ UNCHANGED <<ticket, accepted, aborted, life>>

\* A caller takes tasks out of the queue: its owner to close the pool, anybody those
\* that have been given up, or one to give it up.
Withdraw(th, S) ==
    /\ \A t \in S : stage[t] = "queued"
    /\ \/ th = Owner /\ life = "closing" /\ UNCHANGED aborted
       \/ /\ aborted' \in {aborted} \cup {[aborted EXCEPT ![t] = TRUE] : t \in S}
          /\ \A t \in S : aborted'[t]
    /\ stage' = [t \in Tasks |-> IF t \in S THEN "withdrawn" ELSE stage[t]]
    /\ hands' = [hands EXCEPT ![th] = @ \cup S]
    /\ UNCHANGED <<ticket, accepted, life>>

\* What a task in hand is told.
Tell(th, t, before, after) ==
    /\ t \in hands[th] /\ stage[t] \in before
    /\ stage' = [stage EXCEPT ![t] = after]
    /\ UNCHANGED <<ticket, accepted, aborted, hands, life>>

Run(th, t) == Tell(th, t, {"served"}, "running")
Drop(th, t) == Tell(th, t, IF aborted[t] THEN {"served", "withdrawn", "running"} ELSE {"withdrawn"}, "dropped")
CallBack(th, t) == Tell(th, t, {"running", "dropped"}, "called")

LetGo(th, t) ==
    /\ t \in hands[th] /\ stage[t] = "called"
    /\ hands' = [hands EXCEPT ![th] = @ \ {t}]
    /\ UNCHANGED <<stage, ticket, accepted, aborted, life>>

Next ==
    \/ Open \/ Close \/ Closed
    \/ \E t \in Tasks : Accept(t) \/ Refuse(t) \/ Abort(t)
    \/ \E w \in Workers : \E t \in Tasks : Serve(w, t)
    \/ \E th \in Threads : \E S \in SUBSET Tasks : Withdraw(th, S)
    \/ \E th \in Threads : \E t \in Tasks :
          Run(th, t) \/ Drop(th, t) \/ CallBack(th, t) \/ LetGo(th, t)

Spec == Init /\ [][Next]_abstractVars
=============================================================================
