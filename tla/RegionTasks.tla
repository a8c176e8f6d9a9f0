---------------------------- MODULE RegionTasks ----------------------------
(***************************************************************************)
(* What the area task scheduler promises its callers, without its queues,  *)
(* execution permits or threads: tasks own a region of chunk positions,    *)
(* tasks with intersecting regions never run together, a task starts only  *)
(* when no unfinished task that precedes it intersects its region, and     *)
(* every accepted task ends exactly once, run or dropped.                  *)
(***************************************************************************)
EXTENDS Naturals

CONSTANTS
    Tasks,      \* the tasks callers ever submit
    Keys,       \* chunk positions
    Region,     \* the positions a task covers
    Priority    \* util::TaskPriority, a smaller number is served first

VARIABLES
    status,     \* where a task is in its life
    ticket,     \* its place in the order of submission, 0 before it has one
    accepted,   \* how many tasks have been accepted
    area,       \* the positions it really owns: none when submitted cancelled
    open        \* submissions are accepted

abstractVars == <<status, ticket, accepted, area, open>>

Statuses == {"new", "pending", "running", "settled"}

Unfinished(t) == status[t] \in {"pending", "running"}

Precedes(a, b) ==
    \/ Priority[a] < Priority[b]
    \/ Priority[a] = Priority[b] /\ ticket[a] < ticket[b]

Intersects(a, b) == area[a] \cap area[b] # {}

Init ==
    /\ status = [t \in Tasks |-> "new"]
    /\ ticket = [t \in Tasks |-> 0] /\ accepted = 0
    /\ area = [t \in Tasks |-> {}]
    /\ open = TRUE

Accept(t) ==
    /\ open /\ status[t] = "new"
    /\ status' = [status EXCEPT ![t] = "pending"]
    /\ accepted' = accepted + 1 /\ ticket' = [ticket EXCEPT ![t] = accepted + 1]
    /\ \E own \in {Region[t], {}} : area' = [area EXCEPT ![t] = own]
    /\ UNCHANGED open

Start(t) ==
    /\ status[t] = "pending"
    /\ \A u \in Tasks \ {t} : Unfinished(u) /\ Intersects(t, u) =>
          status[u] = "pending" /\ Precedes(t, u)
    /\ status' = [status EXCEPT ![t] = "running"]
    /\ UNCHANGED <<ticket, accepted, area, open>>

Finish(t) ==
    /\ status[t] = "running"
    /\ status' = [status EXCEPT ![t] = "settled"]
    /\ UNCHANGED <<ticket, accepted, area, open>>

\* Any set of tasks that have not started may be dropped, and the closing of the
\* scheduler drops whatever is pending.
Drop(S) ==
    /\ \A t \in S : status[t] = "pending"
    /\ status' = [t \in Tasks |-> IF t \in S THEN "settled" ELSE status[t]]
    /\ open' \in {open, FALSE}
    /\ ~open' => \A t \in Tasks : status'[t] # "pending"
    /\ UNCHANGED <<ticket, accepted, area>>

Next ==
    \/ \E t \in Tasks : Accept(t) \/ Start(t) \/ Finish(t)
    \/ \E S \in SUBSET Tasks : Drop(S)

Spec == Init /\ [][Next]_abstractVars
=============================================================================
