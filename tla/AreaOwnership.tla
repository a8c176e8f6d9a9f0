--------------------------- MODULE AreaOwnership ---------------------------
(* What a lock by areas promises: whoever acquires an area becomes the owner *)
(* of those of its sections it does not own already, all at once and only    *)
(* when nobody else owns any; the scopes of a thread end in the order in     *)
(* which they nest, and each gives back what it had added.                   *)
EXTENDS Naturals, Sequences

CONSTANTS Threads, Sections, AreaSets

VARIABLE gained     \* what each nested scope of each thread has added

Owned(t) == UNION {gained[t][i] : i \in DOMAIN gained[t]}

Init == gained = [t \in Threads |-> <<>>]

Acquire(t, area) ==
    /\ \A u \in Threads \ {t} : Owned(u) \intersect area = {}
    /\ gained' = [gained EXCEPT ![t] = Append(@, area \ Owned(t))]

Release(t) ==
    /\ gained[t] # <<>>
    /\ gained' = [gained EXCEPT ![t] = SubSeq(@, 1, Len(@) - 1)]

Next == \E t \in Threads : Release(t) \/ \E area \in AreaSets : Acquire(t, area)

Spec == Init /\ [][Next]_gained
============================================================================
