----------------------------- MODULE CallStacks -----------------------------
(***************************************************************************)
(* Facts about threads whose calls hold tasks: stacks gives every thread   *)
(* its stack of frames, the innermost first, a frame f holds the tasks     *)
(* Held(f), and no task is in two frames.  The worker pool and the area    *)
(* task scheduler are both of this kind.                                   *)
(***************************************************************************)
EXTENDS Integers, Sequences, TLAPS

CONSTANTS
    Frames,     \* the calls a thread can be in
    Held(_),    \* the tasks of a frame
    Threads

\* The tasks of a stack, of all stacks, and of some frames.
Mine(s) == UNION {Held(s[i]) : i \in DOMAIN s}
AllHeld(stacks) == UNION {Mine(stacks[th]) : th \in Threads}
Of(frames) == UNION {Held(f) : f \in frames}

Inside(s) == {s[i] : i \in DOMAIN s}
Within(stacks) == UNION {Inside(stacks[th]) : th \in Threads}

\* No two frames of a stack, and no two stacks, share a task.
Apart(s) == \A i, j \in DOMAIN s : i # j => Held(s[i]) \cap Held(s[j]) = {}
AllApart(stacks) ==
    \A th \in Threads :
        /\ Apart(stacks[th])
        /\ \A other \in Threads \ {th} : Mine(stacks[th]) \cap Mine(stacks[other]) = {}

\* One thread has given up the tasks gone and entered the calls frames; the tasks of any
\* other call are not among those of the calls entered.
Moved(stacks, after, gone, frames) ==
    /\ after \in [Threads -> Seq(Frames)]
    /\ AllApart(after)
    /\ AllHeld(after) = (AllHeld(stacks) \ gone) \cup Of(frames)
    /\ \A f \in Within(after) :
          f \in frames \/ (f \in Within(stacks) /\ Held(f) \cap Of(frames) = {})

\* The stack of thread th becomes s.
Put(stacks, after, th, s) == after = [stacks EXCEPT ![th] = s]

-----------------------------------------------------------------------------

\* The frames of a stack on top of another.
LEMMA Indices ==
    ASSUME NEW a \in Seq(Frames), NEW b \in Seq(Frames)
    PROVE  /\ a \o b \in Seq(Frames)
           /\ Len(a \o b) = Len(a) + Len(b)
           /\ \A i \in DOMAIN a : i \in DOMAIN (a \o b) /\ (a \o b)[i] = a[i]
           /\ \A i \in DOMAIN b : i + Len(a) \in DOMAIN (a \o b)
                                  /\ (a \o b)[i + Len(a)] = b[i]
           /\ \A i \in DOMAIN (a \o b) :
                 \/ i \in DOMAIN a
                 \/ i - Len(a) \in DOMAIN b /\ i = (i - Len(a)) + Len(a)
OBVIOUS

\* Their tasks, and when no two of them share one.
LEMMA Joined ==
    ASSUME NEW a \in Seq(Frames), NEW b \in Seq(Frames)
    PROVE  /\ Inside(a \o b) = Inside(a) \cup Inside(b)
           /\ Mine(a \o b) = Mine(a) \cup Mine(b)
           /\ Apart(a \o b) => Apart(a) /\ Apart(b) /\ Mine(a) \cap Mine(b) = {}
           /\ Apart(a) /\ Apart(b) /\ Mine(a) \cap Mine(b) = {} => Apart(a \o b)
<1> DEFINE s == a \o b
           n == Len(a)
<1>1. /\ s \in Seq(Frames) /\ n \in Nat
      /\ \A i \in DOMAIN a : i \in DOMAIN s /\ s[i] = a[i]
      /\ \A i \in DOMAIN b : i + n \in DOMAIN s /\ s[i + n] = b[i]
      /\ \A i \in DOMAIN s : i \in DOMAIN a \/ (i - n \in DOMAIN b /\ i = (i - n) + n)
  BY Indices
<1>2. /\ DOMAIN a = 1 .. n /\ DOMAIN b \subseteq Nat \ {0} /\ DOMAIN s \subseteq Nat
  BY <1>1
<1> HIDE DEF s, n
<1>3. Inside(s) = Inside(a) \cup Inside(b)
  <2>1. ASSUME NEW f \in Inside(s)
        PROVE  f \in Inside(a) \cup Inside(b)
    <3>1. PICK i \in DOMAIN s : f = s[i]
      BY DEF Inside
    <3>2. CASE i \in DOMAIN a
      BY <3>1, <3>2, <1>1 DEF Inside
    <3>3. CASE i - n \in DOMAIN b /\ i = (i - n) + n
      <4>1. s[i] = b[i - n]
        BY <3>3, <1>1
      <4> QED
        BY <4>1, <3>1, <3>3 DEF Inside
    <3> QED
      BY <3>2, <3>3, <1>1
  <2>2. Inside(a) \subseteq Inside(s) /\ Inside(b) \subseteq Inside(s)
    BY <1>1 DEF Inside
  <2> QED
    BY <2>1, <2>2
<1>4. \A q : Mine(q) = UNION {Held(f) : f \in Inside(q)}
  BY DEF Mine, Inside
<1>5. Mine(s) = Mine(a) \cup Mine(b)
  BY <1>3, <1>4
<1>6. ASSUME Apart(s)
      PROVE  Apart(a) /\ Apart(b) /\ Mine(a) \cap Mine(b) = {}
  <2>1. Apart(a)
    BY <1>1, <1>6 DEF Apart
  <2>2. Apart(b)
    <3> SUFFICES ASSUME NEW i \in DOMAIN b, NEW j \in DOMAIN b, i # j
                 PROVE  Held(b[i]) \cap Held(b[j]) = {}
      BY DEF Apart
    <3>1. i + n # j + n
      BY <1>1, <1>2
    <3> QED
      BY <3>1, <1>1, <1>6 DEF Apart
  <2>3. ASSUME NEW t \in Mine(a), t \in Mine(b)
        PROVE  FALSE
    <3>1. PICK i \in DOMAIN a : t \in Held(a[i])
      BY DEF Mine
    <3>2. PICK j \in DOMAIN b : t \in Held(b[j])
      BY <2>3 DEF Mine
    <3>3. i # j + n
      BY <1>1, <1>2
    <3> QED
      BY <3>1, <3>2, <3>3, <1>1, <1>6 DEF Apart
  <2> QED
    BY <2>1, <2>2, <2>3
<1>7. ASSUME Apart(a), Apart(b), Mine(a) \cap Mine(b) = {}
      PROVE  Apart(s)
  <2> SUFFICES ASSUME NEW i \in DOMAIN s, NEW j \in DOMAIN s, i # j
               PROVE  Held(s[i]) \cap Held(s[j]) = {}
    BY DEF Apart
  <2>1. CASE i \in DOMAIN a /\ j \in DOMAIN a
    BY <2>1, <1>1, <1>7 DEF Apart
  <2>2. CASE i - n \in DOMAIN b /\ j - n \in DOMAIN b /\ i = (i - n) + n /\ j = (j - n) + n
    <3>1. i - n # j - n /\ s[i] = b[i - n] /\ s[j] = b[j - n]
      BY <2>2, <1>1
    <3> QED
      BY <3>1, <2>2, <1>7 DEF Apart
  <2>3. CASE i \in DOMAIN a /\ j - n \in DOMAIN b /\ j = (j - n) + n
    <3>1. s[i] = a[i] /\ s[j] = b[j - n]
      BY <2>3, <1>1
    <3>2. Held(a[i]) \subseteq Mine(a) /\ Held(b[j - n]) \subseteq Mine(b)
      BY <2>3 DEF Mine
    <3> QED
      BY <3>1, <3>2, <1>7
  <2>4. CASE j \in DOMAIN a /\ i - n \in DOMAIN b /\ i = (i - n) + n
    <3>1. s[j] = a[j] /\ s[i] = b[i - n]
      BY <2>4, <1>1
    <3>2. Held(a[j]) \subseteq Mine(a) /\ Held(b[i - n]) \subseteq Mine(b)
      BY <2>4 DEF Mine
    <3> QED
      BY <3>1, <3>2, <1>7
  <2> QED
    BY <2>1, <2>2, <2>3, <2>4, <1>1
<1> QED
  BY <1>3, <1>5, <1>6, <1>7 DEF s

\* One frame, two, or none.
LEMMA Few ==
    ASSUME NEW f \in Frames, NEW g \in Frames
    PROVE  /\ <<>> \in Seq(Frames) /\ Inside(<<>>) = {} /\ Mine(<<>>) = {} /\ Apart(<<>>)
           /\ <<f>> \in Seq(Frames) /\ Inside(<<f>>) = {f} /\ Mine(<<f>>) = Held(f)
           /\ Apart(<<f>>)
           /\ <<f, g>> \in Seq(Frames) /\ Inside(<<f, g>>) = {f, g}
           /\ Mine(<<f, g>>) = Held(f) \cup Held(g)
           /\ Held(f) \cap Held(g) = {} => Apart(<<f, g>>)
<1>1. <<>> \in Seq(Frames) /\ Inside(<<>>) = {} /\ Mine(<<>>) = {} /\ Apart(<<>>)
  BY DEF Mine, Apart, Inside
<1>2. <<f>> \in Seq(Frames) /\ DOMAIN <<f>> = {1} /\ <<f>>[1] = f
  OBVIOUS
<1>3. Inside(<<f>>) = {f} /\ Mine(<<f>>) = Held(f) /\ Apart(<<f>>)
  BY <1>2 DEF Mine, Apart, Inside
<1>4. <<f, g>> \in Seq(Frames) /\ DOMAIN <<f, g>> = {1, 2} /\ <<f, g>>[1] = f /\ <<f, g>>[2] = g
  OBVIOUS
<1>5. /\ Inside(<<f, g>>) = {f, g} /\ Mine(<<f, g>>) = Held(f) \cup Held(g)
      /\ Held(f) \cap Held(g) = {} => Apart(<<f, g>>)
  BY <1>4 DEF Mine, Apart, Inside
<1> QED
  BY <1>1, <1>2, <1>3, <1>4, <1>5

\* A busy thread: its innermost call and the calls below.
LEMMA Innermost ==
    ASSUME NEW s \in Seq(Frames), s # <<>>
    PROVE  /\ Head(s) \in Frames /\ Tail(s) \in Seq(Frames) /\ s = <<Head(s)>> \o Tail(s)
           /\ Head(s) \in Inside(s)
<1>1. Head(s) \in Frames /\ Tail(s) \in Seq(Frames) /\ s = <<Head(s)>> \o Tail(s)
  OBVIOUS
<1>2. 1 \in DOMAIN s /\ s[1] = Head(s)
  OBVIOUS
<1> QED
  BY <1>1, <1>2 DEF Inside

\* The calls new take the place of the calls top; a task comes from there or from nowhere.
LEMMA Exchange ==
    ASSUME NEW stacks \in [Threads -> Seq(Frames)], NEW th \in Threads, AllApart(stacks),
           NEW top \in Seq(Frames), NEW new \in Seq(Frames), NEW rest \in Seq(Frames),
           stacks[th] = top \o rest,
           NEW after, Put(stacks, after, th, new \o rest),
           Apart(new), Mine(new) \cap AllHeld(stacks) \subseteq Mine(top)
    PROVE  Moved(stacks, after, Mine(top), Inside(new))
<1>1. /\ after[th] = new \o rest
      /\ \A other \in Threads \ {th} : after[other] = stacks[other]
      /\ after \in [Threads -> Seq(Frames)]
  BY Indices DEF Put
<1>2. /\ Mine(stacks[th]) = Mine(top) \cup Mine(rest) /\ Mine(top) \cap Mine(rest) = {}
      /\ Apart(rest)
  <2>1. Apart(top \o rest)
    BY DEF AllApart
  <2>2. Mine(top \o rest) = Mine(top) \cup Mine(rest) /\ Mine(top) \cap Mine(rest) = {} /\ Apart(rest)
    BY <2>1, Joined
  <2> QED
    BY <2>2
<1>3. Mine(after[th]) = Mine(new) \cup Mine(rest) /\ Inside(after[th]) = Inside(new) \cup Inside(rest)
  BY <1>1, Joined
<1>4. Mine(rest) \subseteq AllHeld(stacks)
  BY <1>2 DEF AllHeld
<1>5. Mine(new) \cap Mine(rest) = {}
  BY <1>2, <1>4
<1>6. Apart(after[th])
  BY <1>1, <1>2, <1>5, Joined
<1>7. ASSUME NEW other \in Threads \ {th}
      PROVE  /\ Mine(after[th]) \cap Mine(after[other]) = {}
             /\ Mine(new) \cap Mine(after[other]) = {}
  <2>1. Mine(stacks[th]) \cap Mine(stacks[other]) = {} /\ Mine(stacks[other]) \subseteq AllHeld(stacks)
    BY DEF AllApart, AllHeld
  <2> QED
    BY <2>1, <1>1, <1>2, <1>3
<1>8. AllApart(after)
  BY <1>1, <1>6, <1>7 DEF AllApart
<1>9. Of(Inside(new)) = Mine(new)
  BY DEF Of, Mine, Inside
<1>10. AllHeld(after) = (AllHeld(stacks) \ Mine(top)) \cup Mine(new)
  <2>1. \A other \in Threads \ {th} : Mine(stacks[other]) \cap Mine(top) = {}
    BY <1>2 DEF AllApart
  <2>2. ASSUME NEW t \in AllHeld(after)
        PROVE  t \in (AllHeld(stacks) \ Mine(top)) \cup Mine(new)
    <3>1. PICK any \in Threads : t \in Mine(after[any])
      BY DEF AllHeld
    <3>2. CASE any = th
      BY <3>1, <3>2, <1>2, <1>3, <1>4
    <3>3. CASE any # th
      BY <3>1, <3>3, <1>1, <2>1 DEF AllHeld
    <3> QED
      BY <3>2, <3>3
  <2>3. ASSUME NEW t \in AllHeld(stacks), t \notin Mine(top)
        PROVE  t \in AllHeld(after)
    <3>1. PICK any \in Threads : t \in Mine(stacks[any])
      BY DEF AllHeld
    <3>2. t \in Mine(after[any])
      BY <3>1, <2>3, <1>1, <1>2, <1>3
    <3> QED
      BY <3>2 DEF AllHeld
  <2>4. Mine(new) \subseteq AllHeld(after)
    BY <1>3 DEF AllHeld
  <2> QED
    BY <2>2, <2>3, <2>4
<1>11. ASSUME NEW f \in Within(after)
       PROVE  f \in Inside(new) \/ (f \in Within(stacks) /\ Held(f) \cap Mine(new) = {})
  <2>1. \A q : \A g \in Inside(q) : Held(g) \subseteq Mine(q)
    BY DEF Inside, Mine
  <2>2. PICK any \in Threads : f \in Inside(after[any])
    BY DEF Within
  <2>3. CASE any # th
    <3>1. f \in Inside(stacks[any]) /\ Held(f) \subseteq Mine(after[any])
      BY <2>1, <2>2, <2>3, <1>1
    <3> QED
      BY <3>1, <2>3, <1>7 DEF Within
  <2>4. CASE any = th /\ f \in Inside(rest)
    <3>1. f \in Inside(stacks[th])
      BY <2>4, Joined
    <3> QED
      BY <3>1, <2>1, <2>4, <1>5 DEF Within
  <2> QED
    BY <2>2, <2>3, <2>4, <1>3
<1> QED
  BY <1>1, <1>8, <1>9, <1>10, <1>11 DEF Moved

\* A call is entered.
LEMMA Entered ==
    ASSUME NEW stacks \in [Threads -> Seq(Frames)], NEW th \in Threads, AllApart(stacks),
           NEW g \in Frames, Held(g) \cap AllHeld(stacks) = {},
           NEW after, after = [stacks EXCEPT ![th] = <<g>> \o stacks[th]]
    PROVE  Moved(stacks, after, {}, {g})
<1> DEFINE none == <<>>
           new == <<g>>
           rest == stacks[th]
<1>1. none \in Seq(Frames) /\ Mine(none) = {} /\ rest \in Seq(Frames) /\ rest = none \o rest
  <2>1. rest \in Seq(Frames) /\ rest = none \o rest
    OBVIOUS
  <2> QED
    BY <2>1, Few
<1>2. new \in Seq(Frames) /\ Mine(new) = Held(g) /\ Apart(new) /\ Inside(new) = {g}
  BY Few
<1>3. Put(stacks, after, th, new \o rest) /\ stacks[th] = none \o rest
  BY <1>1 DEF Put
<1> HIDE DEF none, new, rest
<1>4. Mine(new) \cap AllHeld(stacks) \subseteq Mine(none)
  BY <1>2
<1>5. Moved(stacks, after, Mine(none), Inside(new))
  BY <1>1, <1>2, <1>3, <1>4, Exchange
<1> QED
  BY <1>1, <1>2, <1>5

LEMMA EnteredTwo ==
    ASSUME NEW stacks \in [Threads -> Seq(Frames)], NEW th \in Threads, AllApart(stacks),
           NEW g \in Frames, NEW h \in Frames, Held(g) \cap Held(h) = {},
           Held(g) \cap AllHeld(stacks) = {}, Held(h) \cap AllHeld(stacks) = {},
           NEW after, after = [stacks EXCEPT ![th] = <<g, h>> \o stacks[th]]
    PROVE  Moved(stacks, after, {}, {g, h})
<1> DEFINE none == <<>>
           new == <<g, h>>
           rest == stacks[th]
<1>1. none \in Seq(Frames) /\ Mine(none) = {} /\ rest \in Seq(Frames) /\ rest = none \o rest
  <2>1. rest \in Seq(Frames) /\ rest = none \o rest
    OBVIOUS
  <2> QED
    BY <2>1, Few
<1>2. new \in Seq(Frames) /\ Mine(new) = Held(g) \cup Held(h) /\ Apart(new) /\ Inside(new) = {g, h}
  BY Few
<1>3. Put(stacks, after, th, new \o rest) /\ stacks[th] = none \o rest
  BY <1>1 DEF Put
<1> HIDE DEF none, new, rest
<1>4. Mine(new) \cap AllHeld(stacks) \subseteq Mine(none)
  BY <1>2
<1>5. Moved(stacks, after, Mine(none), Inside(new))
  BY <1>1, <1>2, <1>3, <1>4, Exchange
<1> QED
  BY <1>1, <1>2, <1>5

\* A call goes on as another, as two others, or returns.
LEMMA WentOn ==
    ASSUME NEW stacks \in [Threads -> Seq(Frames)], NEW th \in Threads, AllApart(stacks),
           stacks[th] # <<>>,
           NEW g \in Frames, Held(g) \cap AllHeld(stacks) \subseteq Held(Head(stacks[th])),
           NEW after, after = [stacks EXCEPT ![th] = <<g>> \o Tail(stacks[th])]
    PROVE  Moved(stacks, after, Held(Head(stacks[th])), {g})
<1> DEFINE f == Head(stacks[th])
           top == <<f>>
           new == <<g>>
           rest == Tail(stacks[th])
<1>1. f \in Frames /\ rest \in Seq(Frames) /\ stacks[th] = top \o rest
  BY Innermost
<1>2. top \in Seq(Frames) /\ Mine(top) = Held(f)
  BY <1>1, Few
<1>3. new \in Seq(Frames) /\ Mine(new) = Held(g) /\ Apart(new) /\ Inside(new) = {g}
  BY Few
<1>4. Put(stacks, after, th, new \o rest) /\ Held(g) \cap AllHeld(stacks) \subseteq Held(f)
  BY DEF Put
<1> HIDE DEF f, top, new, rest
<1>5. Moved(stacks, after, Held(f), {g})
  BY <1>1, <1>2, <1>3, <1>4, Exchange
<1> QED
  BY <1>5 DEF f

LEMMA WentOnTwo ==
    ASSUME NEW stacks \in [Threads -> Seq(Frames)], NEW th \in Threads, AllApart(stacks),
           stacks[th] # <<>>,
           NEW g \in Frames, NEW h \in Frames, Held(g) \cap Held(h) = {},
           Held(g) \cap AllHeld(stacks) \subseteq Held(Head(stacks[th])),
           Held(h) \cap AllHeld(stacks) \subseteq Held(Head(stacks[th])),
           NEW after, after = [stacks EXCEPT ![th] = <<g, h>> \o Tail(stacks[th])]
    PROVE  Moved(stacks, after, Held(Head(stacks[th])), {g, h})
<1> DEFINE f == Head(stacks[th])
           top == <<f>>
           new == <<g, h>>
           rest == Tail(stacks[th])
<1>1. f \in Frames /\ rest \in Seq(Frames) /\ stacks[th] = top \o rest
  BY Innermost
<1>2. top \in Seq(Frames) /\ Mine(top) = Held(f)
  BY <1>1, Few
<1>3. new \in Seq(Frames) /\ Mine(new) = Held(g) \cup Held(h) /\ Apart(new) /\ Inside(new) = {g, h}
  BY Few
<1>4. /\ Put(stacks, after, th, new \o rest)
      /\ (Held(g) \cup Held(h)) \cap AllHeld(stacks) \subseteq Held(f)
  BY DEF Put
<1> HIDE DEF f, top, new, rest
<1>5. Mine(new) \cap AllHeld(stacks) \subseteq Mine(top)
  BY <1>2, <1>3, <1>4
<1>6. Moved(stacks, after, Mine(top), Inside(new))
  BY <1>1, <1>2, <1>3, <1>4, <1>5, Exchange
<1> QED
  BY <1>2, <1>3, <1>6 DEF f

LEMMA Returned ==
    ASSUME NEW stacks \in [Threads -> Seq(Frames)], NEW th \in Threads, AllApart(stacks),
           stacks[th] # <<>>,
           NEW after, after = [stacks EXCEPT ![th] = Tail(stacks[th])]
    PROVE  Moved(stacks, after, Held(Head(stacks[th])), {})
<1> DEFINE f == Head(stacks[th])
           top == <<f>>
           none == <<>>
           rest == Tail(stacks[th])
<1>1. f \in Frames /\ rest \in Seq(Frames) /\ stacks[th] = top \o rest
  BY Innermost
<1>2. top \in Seq(Frames) /\ Mine(top) = Held(f)
  BY <1>1, Few
<1>3. none \in Seq(Frames) /\ Mine(none) = {} /\ Apart(none) /\ Inside(none) = {}
  BY <1>1, Few
<1>4. none \o rest = rest
  BY <1>1
<1>5. Put(stacks, after, th, none \o rest)
  BY <1>4 DEF Put
<1> HIDE DEF f, top, none, rest
<1>6. Mine(none) \cap AllHeld(stacks) \subseteq Mine(top)
  BY <1>3
<1>7. Moved(stacks, after, Mine(top), Inside(none))
  BY <1>1, <1>2, <1>3, <1>5, <1>6, Exchange
<1> QED
  BY <1>2, <1>3, <1>7 DEF f

\* The innermost call of a thread is one of the calls, and its tasks are held.
LEMMA Innermore ==
    ASSUME NEW stacks \in [Threads -> Seq(Frames)], NEW th \in Threads, stacks[th] # <<>>
    PROVE  /\ Head(stacks[th]) \in Within(stacks) /\ Head(stacks[th]) \in Frames
           /\ Held(Head(stacks[th])) \subseteq AllHeld(stacks)
<1>1. Head(stacks[th]) \in Inside(stacks[th]) /\ Head(stacks[th]) \in Frames
  BY Innermost
<1>2. Held(Head(stacks[th])) \subseteq Mine(stacks[th])
  BY <1>1 DEF Mine, Inside
<1> QED
  BY <1>1, <1>2 DEF Within, AllHeld

\* A task is held when a call holds it.
LEMMA HeldWithin ==
    ASSUME NEW stacks
    PROVE  /\ \A f \in Within(stacks) : Held(f) \subseteq AllHeld(stacks)
           /\ \A t \in AllHeld(stacks) : \E f \in Within(stacks) : t \in Held(f)
<1>1. \A th \in Threads : Mine(stacks[th]) = UNION {Held(f) : f \in Inside(stacks[th])}
  BY DEF Mine, Inside
<1> QED
  BY <1>1 DEF Within, AllHeld
=============================================================================
