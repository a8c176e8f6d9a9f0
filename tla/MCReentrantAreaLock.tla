------------------------ MODULE MCReentrantAreaLock ------------------------
(* Small instances of ReentrantAreaLock for TLC. *)
EXTENDS ReentrantAreaLockProps, TLC

CONSTANTS a, b, c, main, w, x

\* Two rows of sections, a beside b, and c in the next row below a.
A  == << <<a>> >>
C  == << <<c>> >>
AB == << <<a, b>> >>
AC == << <<a>>, <<c>> >>
MCAreas == {A, C, AB, AC}

L(area) == <<"lock", area>>
T(area) == <<"try", area>>

\* Every thread against every other: a try, areas that cross, reentry within.
Crossing == {main :> <<T(AC), L(A)>> @@ w :> <<L(AC), L(C)>> @@ x :> <<L(AB)>>}

\* The main thread in stage 3 of an unload, beside two workers.
Unloading == {main :> <<T(C), L(A)>> @@ w :> <<L(AC)>> @@ x :> <<L(A)>>}

\* One node held, one in a call, and two that the other threads still refer to.
MCSlots == 1..4
=============================================================================
