--------------------- MODULE UniversalWorkerPoolProofs ---------------------
(***************************************************************************)
(* What is proved of UniversalWorkerPool for any tasks, priorities,        *)
(* clients and workers and any use of its interface: every task is in one  *)
(* place at a time, the count of outstanding tasks is exact and never      *)
(* falls below zero, a task is told once, waiting means idle, a shutdown   *)
(* that has returned leaves nothing behind, the pool implements TaskPool,  *)
(* no wakeup is lost, and the pool comes to rest only when it is idle.     *)
(***************************************************************************)
EXTENDS UniversalWorkerPoolProps, FiniteSetTheorems, TLAPS

TaskPlaces == {"taken", "body", "onCancel", "callback", "release"}
Batches == {"drop", "wakeAll"}
LifePlaces == {"starting", "stopping", "wakeAll", "join"}
PlainPlaces == {"starting", "stopping", "join", "wait", "notify", "notifyLocked"}

(* A frame is about one task, about a set of them, or about the pool. *)
Frames ==
    [at : TaskPlaces, task : Tasks, batch : {{}}]
    \cup [at : Batches, task : {None}, batch : SUBSET Tasks]
    \cup [at : PlainPlaces, task : {None}, batch : {{}}]

TypeOK ==
    /\ running \in BOOLEAN /\ stop \in BOOLEAN
    /\ nextId \in Nat \ {0} /\ id \in [Tasks -> Nat]
    /\ queue \subseteq Tasks /\ outstanding \in Nat
    /\ alive \subseteq Workers
    /\ stack \in [Threads -> Seq(Frames)]
    /\ executes \in [Tasks -> Nat] /\ cancels \in [Tasks -> Nat]
    /\ callbacks \in [Tasks -> Nat] /\ refused \in [Tasks -> Nat]

(* The tasks of a frame, of a stack, and of all stacks. *)
Has(f) == f.batch \cup ({f.task} \ {None})
Mine(s) == {t \in Tasks : \E i \in DOMAIN s : t \in Has(s[i])}
Apart(s) == \A i, j \in DOMAIN s : i # j => Has(s[i]) \cap Has(s[j]) = {}
Owned == {t \in Tasks : \E th \in Threads : t \in Mine(stack[th])}

(* A task is in the queue or in one frame of one thread. *)
OnePlace ==
    \A th \in Threads :
        /\ Apart(stack[th]) /\ Mine(stack[th]) \cap queue = {}
        /\ \A other \in Threads \ {th} : Mine(stack[th]) \cap Mine(stack[other]) = {}

Untold(t) == executes[t] = 0 /\ cancels[t] = 0 /\ callbacks[t] = 0
Through(t) ==
    /\ executes[t] <= 1 /\ cancels[t] <= 1 /\ executes[t] + cancels[t] > 0
    /\ callbacks[t] = 1

(* What a task with number n that stands in a frame has been told: executed e times,  *)
(* cancelled c times, called back b times.                                            *)
Stage(at, n, e, c, b) ==
    /\ n # 0
    /\ at \in {"taken", "drop", "wakeAll"} => e = 0 /\ c = 0 /\ b = 0
    /\ at = "body" => e = 1 /\ c = 0 /\ b = 0
    /\ at = "onCancel" => e <= 1 /\ c = 1 /\ b = 0
    /\ at \in {"callback", "release"} => e <= 1 /\ c <= 1 /\ e + c > 0 /\ b = 1

StagesOK == \A th \in Threads : \A i \in DOMAIN stack[th] : \A t \in Has(stack[th][i]) :
    Stage(stack[th][i].at, id[t], executes[t], cancels[t], callbacks[t])

(* ... and when it stands in none. *)
RestOK == \A t \in Tasks :
    /\ id[t] = 0 => t \notin queue /\ Untold(t) /\ refused[t] <= 1
    /\ id[t] # 0 => refused[t] = 0
    /\ t \in queue => Untold(t)
    /\ id[t] # 0 /\ t \notin queue /\ t \notin Owned => Through(t)

CountOK == outstanding = Cardinality(queue \cup Owned)

WorkInv == TypeOK /\ OnePlace /\ StagesOK /\ RestOK /\ CountOK

(* Starting and shutting down is what the owner's outermost call does. *)
Bottom ==
    IF stack[Owner] = <<>> THEN "none" ELSE stack[Owner][Len(stack[Owner])].at

LifeInv ==
    /\ \A th \in Threads : \A i \in DOMAIN stack[th] :
          stack[th][i].at \in LifePlaces => th = Owner /\ i = Len(stack[th])
    /\ \A w \in Workers : stack[w] # <<>> => w \in alive
    /\ stop => queue = {}
    /\ running /\ stop => Bottom = "starting"
    /\ Bottom = "starting" => running
    /\ Bottom \in {"stopping", "wakeAll", "join"} => ~running
    /\ Bottom \in {"wakeAll", "join"} => stop
    /\ ~running /\ Bottom \notin {"stopping", "wakeAll", "join"} => queue = {} /\ alive = {}

PoolInv == WorkInv /\ LifeInv /\ ~crashed

-----------------------------------------------------------------------------
(* Stacks.                                                                 *)

(* The frames of a stack on top of another. *)
LEMMA Indices ==
    ASSUME NEW a \in Seq(Frames), NEW b \in Seq(Frames)
    PROVE  /\ a \o b \in Seq(Frames)
           /\ Len(a \o b) = Len(a) + Len(b)
           /\ \A i \in DOMAIN a : i \in DOMAIN (a \o b) /\ (a \o b)[i] = a[i]
           /\ \A i \in DOMAIN b : i + Len(a) \in DOMAIN (a \o b)
                                  /\ (a \o b)[i + Len(a)] = b[i]
           /\ \A i \in DOMAIN (a \o b) :
                 \/ i \in DOMAIN a
                 \/ i - Len(a) \in DOMAIN b /\ i = (i - Len(a)) + Len(a)
OBVIOUS

(* The lower ones, by their place in the whole. *)
LEMMA Beneath ==
    ASSUME NEW a \in Seq(Frames), NEW b \in Seq(Frames), NEW s, s = a \o b, NEW j \in DOMAIN b
    PROVE  j + Len(a) \in DOMAIN s /\ s[j + Len(a)] = b[j]
BY Indices

(* Their tasks, and when no two of them share one. *)
LEMMA Joined ==
    ASSUME NEW a \in Seq(Frames), NEW b \in Seq(Frames)
    PROVE  /\ Mine(a \o b) = Mine(a) \cup Mine(b)
           /\ Apart(a \o b) => Apart(a) /\ Apart(b) /\ Mine(a) \cap Mine(b) = {}
           /\ Apart(a) /\ Apart(b) /\ Mine(a) \cap Mine(b) = {} => Apart(a \o b)
<1> DEFINE s == a \o b
           n == Len(a)
<1>1. /\ s \in Seq(Frames) /\ n \in Nat
      /\ \A i \in DOMAIN a : i \in DOMAIN s /\ s[i] = a[i]
      /\ \A i \in DOMAIN b : i + n \in DOMAIN s /\ s[i + n] = b[i]
      /\ \A i \in DOMAIN s : i \in DOMAIN a \/ (i - n \in DOMAIN b /\ i = (i - n) + n)
  BY Indices
<1>2. /\ DOMAIN a = 1 .. n /\ DOMAIN b \subseteq Nat \ {0} /\ DOMAIN s \subseteq Nat
  BY <1>1
<1>3. \A f \in Frames : Has(f) \subseteq Tasks
  BY DEF Frames, Has, TaskPlaces, Batches, PlainPlaces
<1>4. \A i \in DOMAIN a : a[i] \in Frames
  OBVIOUS
<1>5. \A i \in DOMAIN b : b[i] \in Frames
  OBVIOUS
<1> HIDE DEF s, n
<1>6. Mine(s) = Mine(a) \cup Mine(b)
  <2>1. \A t : t \in Mine(s) => t \in Mine(a) \/ t \in Mine(b)
    <3> SUFFICES ASSUME NEW t \in Mine(s) PROVE t \in Mine(a) \/ t \in Mine(b)
      OBVIOUS
    <3>1. PICK i \in DOMAIN s : t \in Has(s[i])
      BY DEF Mine
    <3>2. CASE i \in DOMAIN a
      BY <3>1, <3>2, <1>1 DEF Mine
    <3>3. CASE i - n \in DOMAIN b /\ i = (i - n) + n
      <4>1. s[i] = b[i - n]
        BY <3>3, <1>1
      <4> QED
        BY <4>1, <3>1, <3>3 DEF Mine
    <3> QED
      BY <3>2, <3>3, <1>1
  <2>2. Mine(a) \subseteq Mine(s)
    BY <1>1 DEF Mine
  <2>3. Mine(b) \subseteq Mine(s)
    <3> SUFFICES ASSUME NEW t \in Mine(b) PROVE t \in Mine(s)
      OBVIOUS
    <3>1. PICK i \in DOMAIN b : t \in Has(b[i])
      BY DEF Mine
    <3> QED
      BY <3>1, <1>1 DEF Mine
  <2> QED
    BY <2>1, <2>2, <2>3
<1>7. ASSUME Apart(s)
      PROVE  Apart(a) /\ Apart(b) /\ Mine(a) \cap Mine(b) = {}
  <2>1. Apart(a)
    BY <1>1, <1>7 DEF Apart
  <2>2. Apart(b)
    <3> SUFFICES ASSUME NEW i \in DOMAIN b, NEW j \in DOMAIN b, i # j
                 PROVE  Has(b[i]) \cap Has(b[j]) = {}
      BY DEF Apart
    <3>1. i + n # j + n
      BY <1>1, <1>2
    <3> QED
      BY <3>1, <1>1, <1>7 DEF Apart
  <2>3. ASSUME NEW t \in Mine(a), t \in Mine(b)
        PROVE  FALSE
    <3>1. PICK i \in DOMAIN a : t \in Has(a[i])
      BY DEF Mine
    <3>2. PICK j \in DOMAIN b : t \in Has(b[j])
      BY <2>3 DEF Mine
    <3>3. i # j + n
      BY <1>1, <1>2
    <3> QED
      BY <3>1, <3>2, <3>3, <1>1, <1>7 DEF Apart
  <2> QED
    BY <2>1, <2>2, <2>3
<1>8. ASSUME Apart(a), Apart(b), Mine(a) \cap Mine(b) = {}
      PROVE  Apart(s)
  <2> SUFFICES ASSUME NEW i \in DOMAIN s, NEW j \in DOMAIN s, i # j
               PROVE  Has(s[i]) \cap Has(s[j]) = {}
    BY DEF Apart
  <2>1. CASE i \in DOMAIN a /\ j \in DOMAIN a
    BY <2>1, <1>1, <1>8 DEF Apart
  <2>2. CASE i - n \in DOMAIN b /\ j - n \in DOMAIN b /\ i = (i - n) + n /\ j = (j - n) + n
    <3>1. i - n # j - n /\ s[i] = b[i - n] /\ s[j] = b[j - n]
      BY <2>2, <1>1
    <3> QED
      BY <3>1, <2>2, <1>8 DEF Apart
  <2>3. CASE i \in DOMAIN a /\ j - n \in DOMAIN b /\ j = (j - n) + n
    <3>1. s[i] = a[i] /\ s[j] = b[j - n]
      BY <2>3, <1>1
    <3>2. Has(a[i]) \cap Tasks \subseteq Mine(a) /\ Has(b[j - n]) \cap Tasks \subseteq Mine(b)
      BY <2>3 DEF Mine
    <3> QED
      BY <3>1, <3>2, <1>3, <1>4, <1>8, <2>3
  <2>4. CASE j \in DOMAIN a /\ i - n \in DOMAIN b /\ i = (i - n) + n
    <3>1. s[j] = a[j] /\ s[i] = b[i - n]
      BY <2>4, <1>1
    <3>2. Has(a[j]) \cap Tasks \subseteq Mine(a) /\ Has(b[i - n]) \cap Tasks \subseteq Mine(b)
      BY <2>4 DEF Mine
    <3> QED
      BY <3>1, <3>2, <1>3, <1>4, <1>8, <2>4
  <2> QED
    BY <2>1, <2>2, <2>3, <2>4, <1>1
<1> QED
  BY <1>6, <1>7, <1>8 DEF s

(* One frame, two, or none. *)
LEMMA Few ==
    ASSUME NEW f \in Frames, NEW g \in Frames
    PROVE  /\ Has(f) \subseteq Tasks
           /\ <<>> \in Seq(Frames) /\ Mine(<<>>) = {} /\ Apart(<<>>)
           /\ <<f>> \in Seq(Frames) /\ Mine(<<f>>) = Has(f) /\ Apart(<<f>>)
           /\ <<f, g>> \in Seq(Frames) /\ Mine(<<f, g>>) = Has(f) \cup Has(g)
           /\ Has(f) \cap Has(g) = {} => Apart(<<f, g>>)
<1>1. Has(f) \subseteq Tasks /\ Has(g) \subseteq Tasks
  BY DEF Frames, Has, TaskPlaces, Batches, PlainPlaces
<1>2. <<>> \in Seq(Frames) /\ Mine(<<>>) = {} /\ Apart(<<>>)
  BY DEF Mine, Apart
<1>3. <<f>> \in Seq(Frames) /\ Mine(<<f>>) = Has(f) /\ Apart(<<f>>)
  <2>1. <<f>> \in Seq(Frames) /\ DOMAIN <<f>> = {1} /\ <<f>>[1] = f
    OBVIOUS
  <2> QED
    BY <2>1, <1>1 DEF Mine, Apart
<1>4. /\ <<f, g>> \in Seq(Frames) /\ Mine(<<f, g>>) = Has(f) \cup Has(g)
      /\ Has(f) \cap Has(g) = {} => Apart(<<f, g>>)
  <2>1. <<f, g>> \in Seq(Frames) /\ DOMAIN <<f, g>> = {1, 2} /\ <<f, g>>[1] = f /\ <<f, g>>[2] = g
    OBVIOUS
  <2> QED
    BY <2>1, <1>1 DEF Mine, Apart
<1> QED
  BY <1>1, <1>2, <1>3, <1>4

-----------------------------------------------------------------------------
(* One thread moves: new stands on its stack where top stood.              *)

Move(th, top, new, rest) ==
    /\ th \in Threads
    /\ top \in Seq(Frames) /\ new \in Seq(Frames) /\ rest \in Seq(Frames)
    /\ stack[th] = top \o rest
    /\ stack' = [stack EXCEPT ![th] = new \o rest]

LEMMA MoveStack ==
    ASSUME TypeOK, NEW th, NEW top, NEW new, NEW rest, Move(th, top, new, rest)
    PROVE  /\ stack' \in [Threads -> Seq(Frames)]
           /\ stack'[th] = new \o rest
           /\ \A other \in Threads \ {th} : stack'[other] = stack[other]
BY Indices DEF Move, TypeOK

(* A busy thread: its innermost call and the calls below. *)
LEMMA TopFrame ==
    ASSUME TypeOK, NEW th \in Threads, NEW place, At(th, place)
    PROVE  /\ Top(th) \in Frames /\ Top(th).at = place
           /\ Tail(stack[th]) \in Seq(Frames)
           /\ stack[th] = <<Top(th)>> \o Tail(stack[th])
<1>1. stack[th] \in Seq(Frames) /\ stack[th] # <<>>
  BY DEF TypeOK, At
<1>2. \A s \in Seq(Frames) : s # <<>> =>
          Head(s) \in Frames /\ Tail(s) \in Seq(Frames) /\ s = <<Head(s)>> \o Tail(s)
  OBVIOUS
<1> QED
  BY <1>1, <1>2 DEF At, Top

(* The thread takes tasks from its frame and the queue only. *)
LEMMA MoveOnePlace ==
    ASSUME TypeOK, OnePlace, NEW th, NEW top, NEW new, NEW rest, Move(th, top, new, rest),
           Apart(new), Mine(new) \subseteq Mine(top) \cup queue,
           queue' \subseteq queue, Mine(new) \cap queue' = {}
    PROVE  OnePlace' /\ Owned' = (Owned \ Mine(top)) \cup Mine(new)
<1>1. /\ stack'[th] = new \o rest /\ stack[th] = top \o rest /\ th \in Threads
      /\ \A other \in Threads \ {th} : stack'[other] = stack[other]
  BY MoveStack DEF Move
<1>0. top \in Seq(Frames) /\ new \in Seq(Frames) /\ rest \in Seq(Frames)
  BY DEF Move
<1>2. /\ Mine(stack[th]) = Mine(top) \cup Mine(rest) /\ Mine(top) \cap Mine(rest) = {}
      /\ Apart(rest) /\ Mine(stack'[th]) = Mine(new) \cup Mine(rest)
  <2>1. Apart(stack[th])
    BY <1>1 DEF OnePlace
  <2>2. Apart(top \o rest)
    BY <2>1, <1>1
  <2>3. Mine(top \o rest) = Mine(top) \cup Mine(rest) /\ Mine(top) \cap Mine(rest) = {} /\ Apart(rest)
    BY <2>2, <1>0, Joined
  <2>4. Mine(new \o rest) = Mine(new) \cup Mine(rest)
    BY <1>0, Joined
  <2> QED
    BY <2>3, <2>4, <1>1
<1>3. Mine(new) \cap Mine(rest) = {}
  <2>1. Mine(stack[th]) \cap queue = {}
    BY <1>1 DEF OnePlace
  <2> QED
    BY <2>1, <1>2
<1>4. Apart(stack'[th])
  <2>1. Apart(new \o rest)
    BY <1>0, <1>2, <1>3, Joined
  <2> QED
    BY <2>1, <1>1
<1>5. Mine(stack'[th]) \cap queue' = {}
  <2>1. Mine(stack[th]) \cap queue = {}
    BY <1>1 DEF OnePlace
  <2> QED
    BY <2>1, <1>2
<1>6. \A other \in Threads \ {th} : Mine(stack'[th]) \cap Mine(stack'[other]) = {}
  BY <1>1, <1>2 DEF OnePlace
<1>7. OnePlace'
  BY <1>1, <1>4, <1>5, <1>6 DEF OnePlace
<1>8. \A t : t \in Mine(top) => \A other \in Threads \ {th} : t \notin Mine(stack[other])
  BY <1>1, <1>2 DEF OnePlace
<1>9. Mine(new) \subseteq Tasks /\ Mine(top) \subseteq Tasks /\ Mine(rest) \subseteq Tasks
  BY DEF Mine
<1>10. Owned' = (Owned \ Mine(top)) \cup Mine(new)
  BY <1>1, <1>2, <1>8, <1>9 DEF Owned
<1> QED
  BY <1>7, <1>10

(* What is told, to whom. *)
Same(t) ==
    /\ id'[t] = id[t] /\ executes'[t] = executes[t] /\ cancels'[t] = cancels[t]
    /\ callbacks'[t] = callbacks[t]

(* Only the tasks in new frames are told anything. *)
LEMMA MoveStages ==
    ASSUME TypeOK, OnePlace', StagesOK,
           NEW th, NEW top, NEW new, NEW rest, Move(th, top, new, rest),
           \A i \in DOMAIN new : \A t \in Has(new[i]) : 
               Stage(new[i].at, id'[t], executes'[t], cancels'[t], callbacks'[t]),
           \A t \in Tasks \ Mine(new) : Same(t)
    PROVE  StagesOK'
<1>1. /\ stack'[th] = new \o rest /\ stack[th] = top \o rest /\ th \in Threads
      /\ \A other \in Threads \ {th} : stack'[other] = stack[other]
      /\ stack' \in [Threads -> Seq(Frames)]
  BY MoveStack DEF Move
<1>2. /\ Mine(stack'[th]) = Mine(new) \cup Mine(rest) /\ Mine(new) \cap Mine(rest) = {}
  BY <1>1, Joined DEF OnePlace, Move
<1> SUFFICES ASSUME NEW any \in Threads, NEW i \in DOMAIN stack'[any],
                    NEW t \in Has(stack'[any][i])
             PROVE  Stage(stack'[any][i].at, id'[t], executes'[t], cancels'[t], callbacks'[t])
  BY DEF StagesOK
<1>3. stack'[any][i] \in Frames
  BY <1>1
<1>4. t \in Tasks /\ t \in Mine(stack'[any])
  BY <1>3, Few DEF Mine
<1> DEFINE Was(at) == Stage(at, id[t], executes[t], cancels[t], callbacks[t])
           Is(at) == Stage(at, id'[t], executes'[t], cancels'[t], callbacks'[t])
<1>5. ASSUME t \notin Mine(new)
      PROVE  \A at : Was(at) => Is(at)
  BY <1>4, <1>5 DEF Same
<1>6. CASE any # th
  <2>1. t \notin Mine(new)
    BY <1>1, <1>2, <1>4, <1>6 DEF OnePlace
  <2>2. stack'[any] = stack[any]
    BY <1>1, <1>6
  <2>3. Was(stack[any][i].at)
    BY <2>2 DEF StagesOK
  <2>4. Is(stack[any][i].at)
    BY <1>5, <2>1, <2>3
  <2> QED
    BY <2>2, <2>4
<1>7. CASE any = th
  <2>1. CASE i \in DOMAIN new
    <3>1. stack'[any][i] = new[i]
      BY <1>1, <1>7, <2>1, Indices DEF Move
    <3> QED
      BY <3>1, <2>1
  <2>2. CASE i \notin DOMAIN new
    <3>1. PICK j \in DOMAIN rest : stack'[any][i] = rest[j] /\ i = j + Len(new)
      BY <1>1, <1>7, <2>2, Indices DEF Move
    <3>2. j + Len(top) \in DOMAIN stack[th] /\ stack[th][j + Len(top)] = rest[j]
      <4>1. top \in Seq(Frames) /\ rest \in Seq(Frames)
        BY DEF Move
      <4> QED
        BY <4>1, <1>1, Beneath
    <3>3. t \in Has(rest[j]) /\ t \in Mine(rest)
      BY <3>1, <1>4 DEF Mine
    <3>4. Was(rest[j].at)
      BY <3>2, <3>3, <1>1 DEF StagesOK
    <3>5. t \notin Mine(new)
      BY <3>3, <1>2
    <3>6. Is(rest[j].at)
      BY <1>5, <3>4, <3>5
    <3> QED
      BY <3>1, <3>6
  <2> QED
    BY <2>1, <2>2
<1> QED
  BY <1>6, <1>7

(* No task comes or goes. *)
LEMMA MoveKeeps ==
    ASSUME WorkInv, TypeOK', NEW th, NEW top, NEW new, NEW rest, Move(th, top, new, rest),
           Apart(new), Mine(new) \cup queue' = Mine(top) \cup queue,
           queue' \subseteq queue, Mine(new) \cap queue' = {},
           \A i \in DOMAIN new : \A t \in Has(new[i]) : 
               Stage(new[i].at, id'[t], executes'[t], cancels'[t], callbacks'[t]),
           \A t \in Tasks \ Mine(new) : Same(t),
           UNCHANGED <<id, refused, outstanding>>
    PROVE  WorkInv'
<1>1. OnePlace' /\ Owned' = (Owned \ Mine(top)) \cup Mine(new)
  BY MoveOnePlace DEF WorkInv
<1>2. StagesOK'
  BY <1>1, MoveStages DEF WorkInv
<1>3. Mine(top) \subseteq Owned
  <2>1. Mine(stack[th]) = Mine(top) \cup Mine(rest) /\ th \in Threads
    BY Joined DEF Move
  <2>2. Mine(stack[th]) \subseteq Owned
    BY <2>1 DEF Owned, Mine
  <2> QED
    BY <2>1, <2>2
<1>4. Owned' \cup queue' = Owned \cup queue
  BY <1>1, <1>3
<1>5. CountOK'
  BY <1>4 DEF WorkInv, CountOK
<1>6. RestOK'
  <2> SUFFICES ASSUME NEW t \in Tasks
               PROVE  /\ id'[t] = 0 => t \notin queue' /\ Untold(t)' /\ refused'[t] <= 1
                      /\ id'[t] # 0 => refused'[t] = 0
                      /\ t \in queue' => Untold(t)'
                      /\ id'[t] # 0 /\ t \notin queue' /\ t \notin Owned' => Through(t)'
    BY DEF RestOK
  <2>1. CASE t \in Mine(new)
    <3>1. PICK i \in DOMAIN new : t \in Has(new[i])
      BY <2>1 DEF Mine
    <3>2. id'[t] # 0
      BY <3>1 DEF Stage
    <3> QED
      BY <2>1, <3>2, <1>1 DEF WorkInv, RestOK
  <2>2. CASE t \notin Mine(new)
    <3>1. Same(t)
      BY <2>2
    <3>2. t \in queue' => t \in queue
      OBVIOUS
    <3>3. t \notin queue' /\ t \notin Owned' => t \notin queue /\ t \notin Owned
      BY <1>4
    <3> QED
      BY <3>1, <3>2, <3>3 DEF WorkInv, RestOK, Same, Untold, Through
  <2> QED
    BY <2>1, <2>2
<1> QED
  BY <1>1, <1>2, <1>5, <1>6 DEF WorkInv

(* A call goes on in one frame, or in two, with the tasks it had. *)
LEMMA GoOn ==
    ASSUME WorkInv, TypeOK', NEW th \in Threads, NEW place, At(th, place),
           NEW g \in Frames, Goto(th, g), Has(g) = Has(Top(th)),
           \A t \in Has(g) : Stage(g.at, id'[t], executes'[t], cancels'[t], callbacks'[t]),
           \A t \in Tasks \ Has(g) : Same(t),
           UNCHANGED <<queue, id, refused, outstanding>>
    PROVE  WorkInv'
<1> DEFINE f == Top(th)
           rest == Tail(stack[th])
<1>1. f \in Frames /\ rest \in Seq(Frames) /\ stack[th] = <<f>> \o rest
  BY TopFrame DEF WorkInv
<1>2. /\ <<f>> \in Seq(Frames) /\ Mine(<<f>>) = Has(f)
      /\ <<g>> \in Seq(Frames) /\ Mine(<<g>>) = Has(g) /\ Apart(<<g>>)
  BY <1>1, Few
<1>3. Move(th, <<f>>, <<g>>, rest)
  BY <1>1, <1>2 DEF Move, Goto
<1>4. Mine(<<f>>) \cap queue = {}
  <2>1. Mine(stack[th]) \cap queue = {}
    BY DEF WorkInv, OnePlace
  <2>2. Mine(<<f>> \o rest) = Mine(<<f>>) \cup Mine(rest)
    BY <1>1, <1>2, Joined
  <2> QED
    BY <2>1, <2>2, <1>1
<1>5. \A i \in DOMAIN <<g>> : \A t \in Has(<<g>>[i]) :
          Stage(<<g>>[i].at, id'[t], executes'[t], cancels'[t], callbacks'[t])
  OBVIOUS
<1>6. \A t \in Tasks \ Mine(<<g>>) : Same(t)
  BY <1>2
<1> HIDE DEF f, rest
<1> QED
  BY <1>2, <1>3, <1>4, <1>5, <1>6, MoveKeeps DEF f

LEMMA SplitUp ==
    ASSUME WorkInv, TypeOK', NEW th \in Threads, NEW place, At(th, place),
           NEW g \in Frames, NEW h \in Frames,
           stack' = [stack EXCEPT ![th] = <<g, h>> \o Tail(@)],
           Has(g) \cup Has(h) = Has(Top(th)), Has(g) \cap Has(h) = {},
           \A t \in Has(g) : Stage(g.at, id'[t], executes'[t], cancels'[t], callbacks'[t]),
           \A t \in Has(h) : Stage(h.at, id'[t], executes'[t], cancels'[t], callbacks'[t]),
           \A t \in Tasks \ Has(Top(th)) : Same(t),
           UNCHANGED <<queue, id, refused, outstanding>>
    PROVE  WorkInv'
<1> DEFINE f == Top(th)
           rest == Tail(stack[th])
           new == <<g, h>>
<1>1. f \in Frames /\ rest \in Seq(Frames) /\ stack[th] = <<f>> \o rest
  BY TopFrame DEF WorkInv
<1>2. /\ <<f>> \in Seq(Frames) /\ Mine(<<f>>) = Has(f)
      /\ new \in Seq(Frames) /\ Mine(new) = Has(f) /\ Apart(new)
  BY <1>1, Few
<1>3. Move(th, <<f>>, new, rest)
  BY <1>1, <1>2 DEF Move
<1>4. Mine(<<f>>) \cap queue = {}
  <2>1. Mine(stack[th]) \cap queue = {}
    BY DEF WorkInv, OnePlace
  <2>2. Mine(<<f>> \o rest) = Mine(<<f>>) \cup Mine(rest)
    BY <1>1, <1>2, Joined
  <2> QED
    BY <2>1, <2>2, <1>1
<1>5. \A i \in DOMAIN new : \A t \in Has(new[i]) :
          Stage(new[i].at, id'[t], executes'[t], cancels'[t], callbacks'[t])
  <2>1. DOMAIN new = {1, 2} /\ new[1] = g /\ new[2] = h
    OBVIOUS
  <2> QED
    BY <2>1
<1>6. \A t \in Tasks \ Mine(new) : Same(t)
  BY <1>2
<1> HIDE DEF f, rest, new
<1> QED
  BY <1>2, <1>3, <1>4, <1>5, <1>6, MoveKeeps DEF f

(* A call without tasks returns. *)
LEMMA GoBack ==
    ASSUME WorkInv, TypeOK', NEW th \in Threads, NEW place, At(th, place), Return(th),
           Has(Top(th)) = {}, UNCHANGED <<queue, id, told, outstanding>>
    PROVE  WorkInv'
<1> DEFINE f == Top(th)
           rest == Tail(stack[th])
           none == <<>>
<1>1. f \in Frames /\ rest \in Seq(Frames) /\ stack[th] = <<f>> \o rest
  BY TopFrame DEF WorkInv
<1>2. /\ <<f>> \in Seq(Frames) /\ Mine(<<f>>) = {}
      /\ none \in Seq(Frames) /\ Mine(none) = {} /\ Apart(none)
  BY <1>1, Few
<1>3. none \o rest = rest
  BY <1>1
<1>4. Move(th, <<f>>, none, rest)
  BY <1>1, <1>2, <1>3 DEF Move, Return
<1>5. \A i \in DOMAIN none : \A t \in Has(none[i]) :
          Stage(none[i].at, id'[t], executes'[t], cancels'[t], callbacks'[t])
  OBVIOUS
<1>6. \A t \in Tasks : Same(t)
  BY DEF Same, told
<1> HIDE DEF f, rest, none
<1> QED
  BY <1>2, <1>4, <1>5, <1>6, MoveKeeps DEF told

(* A call begins, with tasks from the queue. *)
LEMMA GoIn ==
    ASSUME WorkInv, TypeOK', NEW th \in Threads, NEW g \in Frames,
           Calls(th, <<g>>), Has(g) \subseteq queue, queue' = queue \ Has(g),
           g.at \notin {"body", "onCancel", "callback", "release"},
           UNCHANGED <<id, told, outstanding>>
    PROVE  WorkInv'
<1> DEFINE rest == stack[th]
           none == <<>>
<1>1. rest \in Seq(Frames) /\ none \o rest = rest
  BY DEF WorkInv, TypeOK
<1>2. /\ none \in Seq(Frames) /\ Mine(none) = {}
      /\ <<g>> \in Seq(Frames) /\ Mine(<<g>>) = Has(g) /\ Apart(<<g>>)
  BY Few
<1>3. Move(th, none, <<g>>, rest)
  BY <1>1, <1>2 DEF Move, Calls
<1>4. \A t \in Has(g) : Stage(g.at, id'[t], executes'[t], cancels'[t], callbacks'[t])
  BY Few DEF WorkInv, TypeOK, RestOK, Stage, Untold, told
<1>5. \A i \in DOMAIN <<g>> : \A t \in Has(<<g>>[i]) :
          Stage(<<g>>[i].at, id'[t], executes'[t], cancels'[t], callbacks'[t])
  BY <1>4
<1>6. \A t \in Tasks : Same(t)
  BY DEF Same, told
<1> HIDE DEF rest, none
<1> QED
  BY <1>2, <1>3, <1>5, <1>6, MoveKeeps DEF told

(* No task is concerned. *)
LEMMA Aside ==
    ASSUME WorkInv, TypeOK', UNCHANGED <<id, queue, outstanding, stack, told>>
    PROVE  WorkInv'
<1>1. Owned' = Owned
  BY DEF Owned, Mine
<1>2. OnePlace' /\ StagesOK'
  BY DEF WorkInv, OnePlace, StagesOK, told
<1>3. RestOK' /\ CountOK'
  BY <1>1 DEF WorkInv, RestOK, CountOK, Untold, Through, told
<1> QED
  BY <1>2, <1>3 DEF WorkInv

(* The frames the actions build, and the stacks they leave. *)
LEMMA PlainTypes ==
    ASSUME NEW at \in PlainPlaces
    PROVE  Plain(at) \in Frames /\ Has(Plain(at)) = {} /\ Plain(at).at = at
BY PoolAssumption DEF Frame, Plain, Frames, Has

(* What a frame says, place by place. *)
LEMMA FrameFacts ==
    ASSUME NEW f \in Frames
    PROVE  /\ f.at \in TaskPlaces => f.task \in Tasks /\ Has(f) = {f.task}
           /\ f.at \in Batches => f.batch \subseteq Tasks /\ Has(f) = f.batch
           /\ f.at \in PlainPlaces => Has(f) = {}
BY PoolAssumption DEF Frames, Has, TaskPlaces, Batches, PlainPlaces

LEMMA StackTyped ==
    ASSUME TypeOK, NEW th \in Threads, NEW g \in Frames,
           \/ Calls(th, <<g>>)
           \/ stack[th] # <<>> /\ (Goto(th, g) \/ Return(th))
    PROVE  stack' \in [Threads -> Seq(Frames)]
<1>1. \A s \in Seq(Frames) : <<g>> \o s \in Seq(Frames) /\ (s # <<>> => Tail(s) \in Seq(Frames))
  OBVIOUS
<1>2. stack[th] \in Seq(Frames)
  BY DEF TypeOK
<1>3. CASE Calls(th, <<g>>)
  BY <1>1, <1>2, <1>3 DEF TypeOK, Calls
<1>4. CASE stack[th] # <<>> /\ Goto(th, g)
  <2>1. <<g>> \o Tail(stack[th]) \in Seq(Frames)
    BY <1>1, <1>2, <1>4
  <2> QED
    BY <2>1, <1>4 DEF TypeOK, Goto
<1>5. CASE stack[th] # <<>> /\ Return(th)
  BY <1>1, <1>2, <1>5 DEF TypeOK, Return
<1> QED
  BY <1>3, <1>4, <1>5

LEMMA SplitTyped ==
    ASSUME TypeOK, NEW th \in Threads, NEW g \in Frames, NEW h \in Frames, stack[th] # <<>>,
           stack' = [stack EXCEPT ![th] = <<g, h>> \o Tail(@)]
    PROVE  stack' \in [Threads -> Seq(Frames)]
<1>1. \A s \in Seq(Frames) : s # <<>> => <<g, h>> \o Tail(s) \in Seq(Frames)
  OBVIOUS
<1>2. <<g, h>> \o Tail(stack[th]) \in Seq(Frames)
  BY <1>1 DEF TypeOK
<1> QED
  BY <1>2 DEF TypeOK

(* The tasks of a thread's innermost frame are at its stage. *)
LEMMA TopStage ==
    ASSUME WorkInv, NEW th \in Threads, NEW place, At(th, place), NEW t \in Has(Top(th))
    PROVE  /\ t \in Tasks /\ t \notin queue
           /\ Stage(place, id[t], executes[t], cancels[t], callbacks[t])
<1>1. Top(th) \in Frames /\ Top(th).at = place
  BY TopFrame DEF WorkInv
<1>2. 1 \in DOMAIN stack[th] /\ stack[th][1] = Top(th)
  <2>1. stack[th] \in Seq(Frames) /\ stack[th] # <<>>
    BY DEF WorkInv, TypeOK, At
  <2> QED
    BY <2>1 DEF Top
<1>3. t \in Tasks /\ t \in Mine(stack[th])
  BY <1>1, <1>2, Few DEF Mine
<1>4. t \notin queue
  BY <1>3 DEF WorkInv, OnePlace
<1> QED
  BY <1>1, <1>2, <1>3, <1>4 DEF WorkInv, StagesOK

-----------------------------------------------------------------------------
(* The actions keep every task in its place and count it.                  *)

LEMMA StartStep ==
    ASSUME WorkInv, NEW th \in Threads, Start(th)
    PROVE  WorkInv'
<1>1. /\ Calls(th, <<Plain("starting")>>) /\ UNCHANGED <<id, queue, told, outstanding>>
  BY DEF Start, ids
<1>2. Plain("starting") \in Frames /\ Has(Plain("starting")) = {} /\ Plain("starting").at = "starting"
  BY PlainTypes DEF PlainPlaces
<1>3. TypeOK'
  BY <1>1, <1>2, StackTyped DEF Start, WorkInv, TypeOK, ids, told
<1> QED
  BY <1>1, <1>2, <1>3, GoIn

LEMMA StartWorkersStep ==
    ASSUME WorkInv, NEW th \in Threads, StartWorkers(th)
    PROVE  WorkInv'
<1>1. At(th, "starting") /\ Return(th) /\ UNCHANGED <<id, queue, told, outstanding>>
  BY DEF StartWorkers, ids
<1>2. Top(th) \in Frames /\ Has(Top(th)) = {}
  BY <1>1, TopFrame, FrameFacts DEF WorkInv, PlainPlaces
<1>3. stack[th] # <<>>
  BY <1>1 DEF At
<1>4. TypeOK'
  BY <1>1, <1>2, <1>3, StackTyped DEF StartWorkers, WorkInv, TypeOK, ids, told
<1> QED
  BY <1>1, <1>2, <1>4, GoBack

LEMMA ShutdownStep ==
    ASSUME WorkInv, NEW th \in Threads, Shutdown(th)
    PROVE  WorkInv'
<1>1. /\ Calls(th, <<Plain("stopping")>>) /\ UNCHANGED <<id, queue, told, outstanding>>
  BY DEF Shutdown, ids
<1>2. Plain("stopping") \in Frames /\ Has(Plain("stopping")) = {} /\ Plain("stopping").at = "stopping"
  BY PlainTypes DEF PlainPlaces
<1>3. TypeOK'
  BY <1>1, <1>2, StackTyped DEF Shutdown, WorkInv, TypeOK, ids, told
<1> QED
  BY <1>1, <1>2, <1>3, GoIn

LEMMA ShutdownLockedStep ==
    ASSUME WorkInv, NEW th \in Threads, ShutdownLocked(th)
    PROVE  WorkInv'
<1> DEFINE f == Top(th)
           rest == Tail(stack[th])
           g == Frame("wakeAll", None, queue)
<1>1. /\ At(th, "stopping") /\ Goto(th, g) /\ queue' = {}
      /\ UNCHANGED <<id, refused, outstanding, told>>
  BY DEF ShutdownLocked, ids, told
<1>2. f \in Frames /\ Has(f) = {} /\ rest \in Seq(Frames) /\ stack[th] = <<f>> \o rest
  BY <1>1, TopFrame, FrameFacts DEF WorkInv, PlainPlaces
<1>3. g \in Frames /\ Has(g) = queue /\ g.at = "wakeAll"
  <2>1. \A b \in SUBSET Tasks :
          /\ Frame("wakeAll", None, b) \in Frames /\ Frame("wakeAll", None, b).at = "wakeAll"
          /\ Has(Frame("wakeAll", None, b)) = b
    BY PoolAssumption DEF Frames, Frame, Has, Batches
  <2> QED
    BY <2>1 DEF WorkInv, TypeOK
<1>4. TypeOK'
  <2>1. stack' \in [Threads -> Seq(Frames)]
    BY <1>1, <1>3, StackTyped DEF WorkInv, At
  <2> QED
    BY <1>1, <2>1 DEF ShutdownLocked, WorkInv, TypeOK, ids, told
<1>5. /\ <<f>> \in Seq(Frames) /\ Mine(<<f>>) = {}
      /\ <<g>> \in Seq(Frames) /\ Mine(<<g>>) = queue /\ Apart(<<g>>)
  BY <1>2, <1>3, Few
<1>6. Move(th, <<f>>, <<g>>, rest)
  BY <1>1, <1>2, <1>5 DEF Move, Goto
<1>7. \A t \in queue : Stage("wakeAll", id'[t], executes'[t], cancels'[t], callbacks'[t])
  BY <1>1 DEF WorkInv, TypeOK, RestOK, Stage, Untold, told
<1>8. \A i \in DOMAIN <<g>> : \A t \in Has(<<g>>[i]) :
          Stage(<<g>>[i].at, id'[t], executes'[t], cancels'[t], callbacks'[t])
  BY <1>3, <1>7
<1>9. \A t \in Tasks : Same(t)
  BY <1>1 DEF Same, told
<1> HIDE DEF f, g, rest
<1> QED
  BY <1>1, <1>4, <1>5, <1>6, <1>8, <1>9, MoveKeeps

LEMMA WakeAllStep ==
    ASSUME WorkInv, NEW th \in Threads, WakeAll(th)
    PROVE  WorkInv'
<1> DEFINE batch == Top(th).batch
           g == Frame("drop", None, batch)
           h == Plain("join")
<1>1. /\ At(th, "wakeAll") /\ stack' = [stack EXCEPT ![th] = <<g, h>> \o Tail(@)]
      /\ UNCHANGED <<id, queue, refused, outstanding, told>>
  BY DEF WakeAll, ids, told
<1>2. batch \subseteq Tasks /\ Has(Top(th)) = batch
  BY <1>1, TopFrame, FrameFacts DEF WorkInv, Batches
<1>3. g \in Frames /\ Has(g) = batch /\ g.at = "drop"
  BY <1>2, PoolAssumption DEF Frames, Frame, Has, Batches
<1>4. h \in Frames /\ Has(h) = {} /\ h.at = "join"
  BY PlainTypes DEF PlainPlaces
<1>5. TypeOK'
  <2>1. stack' \in [Threads -> Seq(Frames)]
    BY <1>1, <1>3, <1>4, SplitTyped DEF WorkInv, At
  <2> QED
    BY <1>1, <2>1 DEF WakeAll, WorkInv, TypeOK, flags, ids, told
<1>6. \A t \in batch : Stage("drop", id'[t], executes'[t], cancels'[t], callbacks'[t])
  BY <1>1, <1>2, TopStage DEF Stage, told
<1>7. \A t \in Tasks : Same(t)
  BY <1>1 DEF Same, told
<1> HIDE DEF batch, g, h
<1> QED
  BY <1>1, <1>2, <1>3, <1>4, <1>5, <1>6, <1>7, SplitUp

LEMMA JoinStep ==
    ASSUME WorkInv, NEW th \in Threads, Join(th)
    PROVE  WorkInv'
<1>1. At(th, "join") /\ Return(th) /\ OnlyStack
  BY DEF Join
<1>2. Top(th) \in Frames /\ Has(Top(th)) = {}
  BY <1>1, TopFrame, FrameFacts DEF WorkInv, PlainPlaces
<1>3. stack[th] # <<>>
  BY <1>1 DEF At
<1>4. TypeOK' /\ UNCHANGED <<id, queue, told, outstanding>>
  BY <1>1, <1>2, <1>3, StackTyped DEF OnlyStack, WorkInv, TypeOK, flags, ids, told
<1> QED
  BY <1>1, <1>2, <1>4, GoBack

(* A new task is nowhere yet. *)
LEMMA SubmitStep ==
    ASSUME WorkInv, NEW th \in Threads, NEW t \in Tasks, Submit(th, t)
    PROVE  WorkInv'
<1>1. /\ id[t] = 0 /\ refused[t] = 0 /\ id' = [id EXCEPT ![t] = nextId]
      /\ queue' = queue \cup {t} /\ outstanding' = outstanding + 1 /\ nextId' = nextId + 1
      /\ UNCHANGED <<flags, alive, stack, executes, cancels, callbacks, refused>>
  BY DEF Submit, told
<1>2. TypeOK /\ nextId # 0
  BY DEF WorkInv, TypeOK
<1>3. TypeOK'
  BY <1>1, <1>2 DEF TypeOK, flags
<1>4. t \notin queue /\ Untold(t)
  BY <1>1 DEF WorkInv, RestOK
<1>5. \A any \in Threads : t \notin Mine(stack[any])
  BY <1>1 DEF WorkInv, StagesOK, Stage, Mine
<1>6. OnePlace'
  BY <1>1, <1>5 DEF WorkInv, OnePlace
<1>7. \A u \in Tasks : id[u] # 0 => id'[u] = id[u]
  BY <1>1, <1>2 DEF TypeOK
<1>8. StagesOK'
  <2> SUFFICES ASSUME NEW any \in Threads, NEW i \in DOMAIN stack[any], NEW u \in Has(stack[any][i])
               PROVE  Stage(stack[any][i].at, id'[u], executes[u], cancels[u], callbacks[u])
    BY <1>1 DEF StagesOK
  <2>1. stack[any][i] \in Frames
    BY <1>2 DEF TypeOK
  <2>2. u \in Tasks
    BY <2>1, Few
  <2>3. Stage(stack[any][i].at, id[u], executes[u], cancels[u], callbacks[u])
    BY DEF WorkInv, StagesOK
  <2> QED
    BY <2>2, <2>3, <1>7 DEF Stage
<1>9. Owned' = Owned /\ t \notin Owned
  BY <1>1, <1>5 DEF Owned
<1>10. RestOK'
  <2> SUFFICES ASSUME NEW u \in Tasks
               PROVE  /\ id'[u] = 0 => u \notin queue' /\ Untold(u)' /\ refused'[u] <= 1
                      /\ id'[u] # 0 => refused'[u] = 0
                      /\ u \in queue' => Untold(u)'
                      /\ id'[u] # 0 /\ u \notin queue' /\ u \notin Owned' => Through(u)'
    BY DEF RestOK
  <2>1. CASE u = t
    BY <2>1, <1>1, <1>2, <1>4 DEF TypeOK, Untold
  <2>2. CASE u # t
    BY <2>2, <1>1, <1>2, <1>9 DEF WorkInv, RestOK, TypeOK, Untold, Through
  <2> QED
    BY <2>1, <2>2
<1>11. CountOK'
  <2>1. IsFiniteSet(queue \cup Owned)
    BY PoolAssumption, FS_Subset, <1>2 DEF TypeOK, Owned
  <2>2. t \notin queue \cup Owned /\ queue' \cup Owned' = (queue \cup Owned) \cup {t}
    BY <1>1, <1>4, <1>9
  <2>3. Cardinality((queue \cup Owned) \cup {t}) = Cardinality(queue \cup Owned) + 1
    BY <2>1, <2>2, FS_AddElement
  <2> QED
    BY <2>2, <2>3, <1>1 DEF WorkInv, CountOK
<1> QED
  BY <1>3, <1>6, <1>8, <1>10, <1>11 DEF WorkInv

LEMMA SubmitRefusedStep ==
    ASSUME WorkInv, NEW th \in Threads, NEW t \in Tasks, SubmitRefused(th, t)
    PROVE  WorkInv'
<1>1. /\ id[t] = 0 /\ refused[t] = 0 /\ refused' = [refused EXCEPT ![t] = 1]
      /\ UNCHANGED <<flags, ids, queue, outstanding, alive, stack, executes, cancels, callbacks>>
  BY DEF SubmitRefused, Count, WorkInv, TypeOK
<1>2. TypeOK'
  BY <1>1 DEF WorkInv, TypeOK, flags, ids
<1>3. Owned' = Owned /\ OnePlace' /\ StagesOK' /\ CountOK'
  BY <1>1 DEF WorkInv, Owned, OnePlace, StagesOK, CountOK, ids
<1>4. RestOK'
  BY <1>1, <1>3 DEF WorkInv, RestOK, TypeOK, Untold, Through, ids
<1> QED
  BY <1>2, <1>3, <1>4 DEF WorkInv

LEMMA CancelStep ==
    ASSUME WorkInv, NEW th \in Threads, NEW t \in Tasks, Cancel(th, t)
    PROVE  WorkInv'
<1> DEFINE g == Frame("drop", None, {t})
<1>1. /\ Calls(th, <<g>>) /\ t \in queue /\ queue' = queue \ {t}
      /\ UNCHANGED <<id, told, outstanding>>
  BY DEF Cancel, ids
<1>2. g \in Frames /\ Has(g) = {t} /\ g.at = "drop"
  BY PoolAssumption DEF Frames, Frame, Has, Batches
<1>3. TypeOK'
  <2>1. stack' \in [Threads -> Seq(Frames)]
    BY <1>1, <1>2, StackTyped DEF WorkInv
  <2> QED
    BY <1>1, <2>1 DEF Cancel, WorkInv, TypeOK, flags, ids, told
<1> HIDE DEF g
<1> QED
  BY <1>1, <1>2, <1>3, GoIn

LEMMA PruneStep ==
    ASSUME WorkInv, NEW th \in Threads, Prune(th)
    PROVE  WorkInv'
<1> DEFINE gone == {t \in queue : abort[t]}
           g == Frame("drop", None, gone)
<1>1. /\ Calls(th, <<g>>) /\ gone \subseteq queue /\ queue' = queue \ gone
      /\ UNCHANGED <<id, told, outstanding, flags, ids, alive>>
  BY DEF Prune, ids
<1>2. gone \subseteq Tasks
  BY DEF WorkInv, TypeOK
<1> HIDE DEF gone
<1>3. g \in Frames /\ Has(g) = gone /\ g.at = "drop"
  BY <1>2, PoolAssumption DEF Frames, Frame, Has, Batches
<1> HIDE DEF g
<1>4. TypeOK'
  <2>1. stack' \in [Threads -> Seq(Frames)]
    BY <1>1, <1>3, StackTyped DEF WorkInv
  <2> QED
    BY <1>1, <2>1 DEF WorkInv, TypeOK, flags, ids, told
<1> QED
  BY <1>1, <1>3, <1>4, GoIn

LEMMA WaitStep ==
    ASSUME WorkInv, NEW th \in Threads, Wait(th)
    PROVE  WorkInv'
<1>1. Calls(th, <<Plain("wait")>>) /\ UNCHANGED <<id, queue, told, outstanding>>
  BY DEF Wait, OnlyStack, ids
<1>2. Plain("wait") \in Frames /\ Has(Plain("wait")) = {} /\ Plain("wait").at = "wait"
  BY PlainTypes DEF PlainPlaces
<1>3. TypeOK'
  BY <1>1, <1>2, StackTyped DEF Wait, OnlyStack, WorkInv, TypeOK, flags, ids, told
<1> QED
  BY <1>1, <1>2, <1>3, GoIn

LEMMA WaitCheckStep ==
    ASSUME WorkInv, NEW th \in Threads, WaitCheck(th)
    PROVE  WorkInv'
<1>1. /\ At(th, "wait") /\ UNCHANGED <<flags, ids, id, queue, told, outstanding, alive>>
      /\ Return(th) \/ UNCHANGED stack
  BY DEF WaitCheck, ids
<1>2. Top(th) \in Frames /\ Has(Top(th)) = {} /\ stack[th] # <<>>
  BY <1>1, TopFrame, FrameFacts DEF WorkInv, PlainPlaces, At
<1>3. TypeOK'
  BY <1>1, <1>2, StackTyped DEF WorkInv, TypeOK, flags, ids, told
<1> QED
  BY <1>1, <1>2, <1>3, GoBack, Aside

LEMMA DropOneStep ==
    ASSUME WorkInv, NEW th \in Threads, DropOne(th)
    PROVE  WorkInv'
<1> DEFINE batch == Top(th).batch
<1>1. At(th, "drop") /\ UNCHANGED <<flags, ids, id, queue, outstanding, alive, executes,
                                    callbacks, refused>>
  BY DEF DropOne, ids
<1>2. PICK t \in batch :
        /\ cancels' = Count(cancels, t)
        /\ stack' = [stack EXCEPT ![th] =
              <<Frame("onCancel", t, {}), Frame("drop", None, batch \ {t})>> \o Tail(@)]
  BY DEF DropOne
<1> DEFINE g == Frame("onCancel", t, {})
           h == Frame("drop", None, batch \ {t})
<1>3. batch \subseteq Tasks /\ Has(Top(th)) = batch /\ stack[th] # <<>>
  BY <1>1, TopFrame, FrameFacts DEF WorkInv, Batches, At
<1>4. g \in Frames /\ Has(g) = {t} /\ g.at = "onCancel"
  BY <1>3, PoolAssumption DEF Frames, Frame, Has, TaskPlaces
<1>5. h \in Frames /\ Has(h) = batch \ {t} /\ h.at = "drop"
  BY <1>3, PoolAssumption DEF Frames, Frame, Has, Batches
<1>6. \A u \in batch : u \in Tasks /\ Stage("drop", id[u], executes[u], cancels[u], callbacks[u])
  BY <1>1, <1>3, TopStage
<1>7. \A u \in Tasks : cancels'[u] = IF u = t THEN cancels[u] + 1 ELSE cancels[u]
  BY <1>2, <1>3 DEF Count, WorkInv, TypeOK
<1>8. Stage("onCancel", id'[t], executes'[t], cancels'[t], callbacks'[t])
  BY <1>1, <1>6, <1>7 DEF Stage
<1>9. \A u \in batch \ {t} : Stage("drop", id'[u], executes'[u], cancels'[u], callbacks'[u])
  BY <1>1, <1>6, <1>7
<1>10. \A u \in Tasks \ batch : Same(u)
  BY <1>1, <1>7 DEF Same
<1> HIDE DEF g, h, batch
<1>11. stack' = [stack EXCEPT ![th] = <<g, h>> \o Tail(@)]
  BY <1>2 DEF g, h
<1>12. TypeOK'
  <2>1. stack' \in [Threads -> Seq(Frames)]
    BY <1>3, <1>4, <1>5, <1>11, SplitTyped DEF WorkInv
  <2>2. cancels' \in [Tasks -> Nat]
    BY <1>2, <1>3 DEF Count, WorkInv, TypeOK
  <2> QED
    BY <1>1, <2>1, <2>2 DEF WorkInv, TypeOK, flags, ids
<1>13. Has(g) \cup Has(h) = Has(Top(th)) /\ Has(g) \cap Has(h) = {}
  BY <1>3, <1>4, <1>5
<1>14. /\ \A u \in Has(g) : Stage(g.at, id'[u], executes'[u], cancels'[u], callbacks'[u])
       /\ \A u \in Has(h) : Stage(h.at, id'[u], executes'[u], cancels'[u], callbacks'[u])
       /\ \A u \in Tasks \ Has(Top(th)) : Same(u)
  BY <1>3, <1>4, <1>5, <1>8, <1>9, <1>10
<1> QED
  BY <1>1, <1>4, <1>5, <1>11, <1>12, <1>13, <1>14, SplitUp

LEMMA DropDoneStep ==
    ASSUME WorkInv, NEW th \in Threads, DropDone(th)
    PROVE  WorkInv'
<1> DEFINE g == Plain("notify")
<1>1. At(th, "drop") /\ Top(th).batch = {} /\ Goto(th, g) /\ OnlyStack
  BY DEF DropDone
<1>2. Has(Top(th)) = {} /\ stack[th] # <<>>
  BY <1>1, TopFrame, FrameFacts DEF WorkInv, Batches, At
<1>3. g \in Frames /\ Has(g) = {}
  BY PlainTypes DEF PlainPlaces
<1> HIDE DEF g
<1>4. TypeOK' /\ UNCHANGED <<id, queue, refused, outstanding>>
  BY <1>1, <1>2, <1>3, StackTyped DEF OnlyStack, WorkInv, TypeOK, flags, ids, told
<1>5. \A t \in Tasks : Same(t)
  BY <1>1 DEF OnlyStack, Same, ids, told
<1> QED
  BY <1>1, <1>2, <1>3, <1>4, <1>5, GoOn

(* Counting what the task of the innermost frame is told. *)
LEMMA CountTyped ==
    ASSUME NEW calls \in [Tasks -> Nat], NEW t \in Tasks
    PROVE  /\ Count(calls, t) \in [Tasks -> Nat] /\ Count(calls, t)[t] = calls[t] + 1
           /\ \A u \in Tasks \ {t} : Count(calls, t)[u] = calls[u]
BY DEF Count

(* A frame about one task becomes another about it. *)
LEMMA SameTask ==
    ASSUME WorkInv, NEW th \in Threads, NEW place \in TaskPlaces, At(th, place),
           NEW next \in TaskPlaces, Goto(th, Frame(next, Top(th).task, {})),
           UNCHANGED <<flags, ids, queue, outstanding, alive, refused>>,
           executes' \in [Tasks -> Nat], cancels' \in [Tasks -> Nat], callbacks' \in [Tasks -> Nat],
           \A u \in Tasks \ {Top(th).task} :
               executes'[u] = executes[u] /\ cancels'[u] = cancels[u] /\ callbacks'[u] = callbacks[u],
           LET t == Top(th).task IN
               Stage(place, id[t], executes[t], cancels[t], callbacks[t])
                   => Stage(next, id[t], executes'[t], cancels'[t], callbacks'[t])
    PROVE  WorkInv'
<1> DEFINE t == Top(th).task
           g == Frame(next, t, {})
<1>1. t \in Tasks /\ Has(Top(th)) = {t} /\ stack[th] # <<>>
  BY TopFrame, FrameFacts DEF WorkInv, At
<1>2. g \in Frames /\ Has(g) = {t} /\ g.at = next
  BY <1>1, PoolAssumption DEF Frames, Frame, Has
<1>3. Stage(place, id[t], executes[t], cancels[t], callbacks[t])
  BY <1>1, TopStage
<1>4. Stage(next, id'[t], executes'[t], cancels'[t], callbacks'[t])
  BY <1>3 DEF ids
<1>5. \A u \in Tasks \ {t} : Same(u)
  BY DEF Same, ids
<1> HIDE DEF g, t
<1>6. Goto(th, g)
  BY DEF g, t
<1>7. stack' \in [Threads -> Seq(Frames)]
  BY <1>1, <1>2, <1>6, StackTyped DEF WorkInv
<1>8. TypeOK' /\ UNCHANGED <<queue, id, refused, outstanding>>
  BY <1>7 DEF WorkInv, TypeOK, flags, ids
<1> QED
  BY <1>1, <1>2, <1>4, <1>5, <1>6, <1>8, GoOn

LEMMA CancelReturnsStep ==
    ASSUME WorkInv, NEW th \in Threads, CancelReturns(th)
    PROVE  WorkInv'
<1> DEFINE t == Top(th).task
<1>1. /\ At(th, "onCancel") /\ Goto(th, Frame("callback", t, {}))
      /\ callbacks' = Count(callbacks, t)
      /\ UNCHANGED <<flags, ids, queue, outstanding, alive, executes, cancels, refused>>
  BY DEF CancelReturns
<1>2. t \in Tasks
  BY <1>1, TopFrame, FrameFacts DEF WorkInv, TaskPlaces
<1>3. /\ executes \in [Tasks -> Nat] /\ cancels \in [Tasks -> Nat] /\ callbacks' \in [Tasks -> Nat]
      /\ callbacks'[t] = callbacks[t] + 1
      /\ \A u \in Tasks \ {t} : callbacks'[u] = callbacks[u]
  <2>1. executes \in [Tasks -> Nat] /\ cancels \in [Tasks -> Nat] /\ callbacks \in [Tasks -> Nat]
    BY DEF WorkInv, TypeOK
  <2>2. /\ Count(callbacks, t) \in [Tasks -> Nat] /\ Count(callbacks, t)[t] = callbacks[t] + 1
        /\ \A u \in Tasks \ {t} : Count(callbacks, t)[u] = callbacks[u]
    BY <1>2, <2>1, CountTyped
  <2> HIDE DEF t
  <2> QED
    BY <1>1, <2>1, <2>2
<1>4. Stage("onCancel", id[t], executes[t], cancels[t], callbacks[t])
          => Stage("callback", id[t], executes'[t], cancels'[t], callbacks'[t])
  BY <1>1, <1>2, <1>3 DEF Stage
<1>5. "onCancel" \in TaskPlaces /\ "callback" \in TaskPlaces
  BY DEF TaskPlaces
<1> QED
  BY <1>1, <1>3, <1>4, <1>5, SameTask

LEMMA CallbackReturnsStep ==
    ASSUME WorkInv, NEW th \in Threads, CallbackReturns(th)
    PROVE  WorkInv'
<1> DEFINE t == Top(th).task
<1>1. /\ At(th, "callback") /\ Goto(th, Frame("release", t, {}))
      /\ UNCHANGED <<flags, ids, queue, outstanding, alive, executes, cancels, callbacks, refused>>
  BY DEF CallbackReturns, OnlyStack, told
<1>2. executes \in [Tasks -> Nat] /\ cancels \in [Tasks -> Nat] /\ callbacks \in [Tasks -> Nat]
  BY DEF WorkInv, TypeOK
<1>3. Stage("callback", id[t], executes[t], cancels[t], callbacks[t])
          => Stage("release", id[t], executes[t], cancels[t], callbacks[t])
  BY DEF Stage
<1>4. "callback" \in TaskPlaces /\ "release" \in TaskPlaces
  BY DEF TaskPlaces
<1> QED
  BY <1>1, <1>2, <1>3, <1>4, SameTask

LEMMA ExecuteStep ==
    ASSUME WorkInv, NEW th \in Threads, Execute(th)
    PROVE  WorkInv'
<1> DEFINE t == Top(th).task
<1>1. /\ At(th, "taken")
      /\ UNCHANGED <<flags, ids, queue, outstanding, alive, callbacks, refused>>
  BY DEF Execute
<1>2. t \in Tasks
  BY <1>1, TopFrame, FrameFacts DEF WorkInv, TaskPlaces
<1>3. executes \in [Tasks -> Nat] /\ cancels \in [Tasks -> Nat] /\ callbacks \in [Tasks -> Nat]
  BY DEF WorkInv, TypeOK
<1>4. "taken" \in TaskPlaces /\ "onCancel" \in TaskPlaces /\ "body" \in TaskPlaces
  BY DEF TaskPlaces
<1>5. CASE cancels' = Count(cancels, t) /\ UNCHANGED executes /\ Goto(th, Frame("onCancel", t, {}))
  <2>1. /\ cancels' \in [Tasks -> Nat] /\ cancels'[t] = cancels[t] + 1
        /\ \A u \in Tasks \ {t} : cancels'[u] = cancels[u]
    BY <1>2, <1>3, <1>5, CountTyped
  <2>2. Stage("taken", id[t], executes[t], cancels[t], callbacks[t])
            => Stage("onCancel", id[t], executes'[t], cancels'[t], callbacks'[t])
    BY <1>1, <1>5, <2>1 DEF Stage
  <2> QED
    BY <1>1, <1>3, <1>4, <1>5, <2>1, <2>2, SameTask
<1>6. CASE executes' = Count(executes, t) /\ UNCHANGED cancels /\ Goto(th, Frame("body", t, {}))
  <2>1. /\ executes' \in [Tasks -> Nat] /\ executes'[t] = executes[t] + 1
        /\ \A u \in Tasks \ {t} : executes'[u] = executes[u]
    BY <1>2, <1>3, <1>6, CountTyped
  <2>2. Stage("taken", id[t], executes[t], cancels[t], callbacks[t])
            => Stage("body", id[t], executes'[t], cancels'[t], callbacks'[t])
    BY <1>1, <1>6, <2>1 DEF Stage
  <2> QED
    BY <1>1, <1>3, <1>4, <1>6, <2>1, <2>2, SameTask
<1> QED
  BY <1>5, <1>6 DEF Execute

LEMMA BodyReturnsStep ==
    ASSUME WorkInv, NEW th \in Threads, BodyReturns(th)
    PROVE  WorkInv'
<1> DEFINE t == Top(th).task
<1>1. /\ At(th, "body")
      /\ UNCHANGED <<flags, ids, queue, outstanding, alive, executes, refused>>
  BY DEF BodyReturns
<1>2. t \in Tasks
  BY <1>1, TopFrame, FrameFacts DEF WorkInv, TaskPlaces
<1>3. executes \in [Tasks -> Nat] /\ cancels \in [Tasks -> Nat] /\ callbacks \in [Tasks -> Nat]
  BY DEF WorkInv, TypeOK
<1>4. "body" \in TaskPlaces /\ "onCancel" \in TaskPlaces /\ "callback" \in TaskPlaces
  BY DEF TaskPlaces
<1>5. CASE cancels' = Count(cancels, t) /\ UNCHANGED callbacks /\ Goto(th, Frame("onCancel", t, {}))
  <2>1. /\ cancels' \in [Tasks -> Nat] /\ cancels'[t] = cancels[t] + 1
        /\ \A u \in Tasks \ {t} : cancels'[u] = cancels[u]
    BY <1>2, <1>3, <1>5, CountTyped
  <2>2. Stage("body", id[t], executes[t], cancels[t], callbacks[t])
            => Stage("onCancel", id[t], executes'[t], cancels'[t], callbacks'[t])
    BY <1>1, <1>5, <2>1 DEF Stage
  <2> QED
    BY <1>1, <1>3, <1>4, <1>5, <2>1, <2>2, SameTask
<1>6. CASE callbacks' = Count(callbacks, t) /\ UNCHANGED cancels /\ Goto(th, Frame("callback", t, {}))
  <2>1. /\ callbacks' \in [Tasks -> Nat] /\ callbacks'[t] = callbacks[t] + 1
        /\ \A u \in Tasks \ {t} : callbacks'[u] = callbacks[u]
    BY <1>2, <1>3, <1>6, CountTyped
  <2>2. Stage("body", id[t], executes[t], cancels[t], callbacks[t])
            => Stage("callback", id[t], executes'[t], cancels'[t], callbacks'[t])
    BY <1>1, <1>6, <2>1 DEF Stage
  <2> QED
    BY <1>1, <1>3, <1>4, <1>6, <2>1, <2>2, SameTask
<1> QED
  BY <1>5, <1>6 DEF BodyReturns

(* Whoever releases a task finds it counted. *)
LEMMA ReleaseSafe ==
    ASSUME WorkInv, NEW th \in Threads, At(th, "release")
    PROVE  /\ IsFiniteSet(queue \cup Owned) /\ Top(th).task \in Owned \ queue
           /\ outstanding = Cardinality(queue \cup Owned) /\ outstanding # 0
<1> DEFINE f == Top(th)
<1>1. IsFiniteSet(queue \cup Owned)
  BY PoolAssumption, FS_Subset DEF WorkInv, TypeOK, Owned
<1>2. f.task \in Tasks /\ Has(f) = {f.task} /\ f \in Frames
  BY TopFrame, FrameFacts DEF WorkInv, TaskPlaces
<1>3. stack[th] \in Seq(Frames) /\ stack[th] # <<>>
  BY DEF WorkInv, TypeOK, At
<1>4. 1 \in DOMAIN stack[th] /\ stack[th][1] = f
  BY <1>3 DEF Top
<1> HIDE DEF f
<1>5. f.task \in Has(stack[th][1])
  BY <1>2, <1>4
<1>6. f.task \in Mine(stack[th])
  BY <1>2, <1>4, <1>5 DEF Mine
<1>7. f.task \in Owned /\ f.task \notin queue
  BY <1>2, <1>6 DEF Owned, WorkInv, OnePlace
<1> QED
  BY <1>1, <1>7, FS_EmptySet DEF WorkInv, CountOK, f

LEMMA ReleaseStep ==
    ASSUME WorkInv, NEW th \in Threads, Release(th)
    PROVE  WorkInv' /\ UNCHANGED crashed
<1> DEFINE f == Top(th)
           rest == Tail(stack[th])
           none == <<>>
<1>0. At(th, "release")
  BY DEF Release
<1>1. /\ IsFiniteSet(queue \cup Owned) /\ f.task \in Owned \ queue
      /\ outstanding = Cardinality(queue \cup Owned) /\ outstanding # 0
  BY <1>0, ReleaseSafe
<1>2. /\ outstanding' = outstanding - 1 /\ Return(th)
      /\ UNCHANGED <<flags, ids, queue, alive, told, crashed>>
  BY <1>1 DEF Release
<1>3. /\ f \in Frames /\ Has(f) = {f.task} /\ rest \in Seq(Frames) /\ stack[th] = <<f>> \o rest
      /\ f.task \in Tasks /\ stack[th] # <<>>
  BY <1>0, TopFrame, FrameFacts DEF WorkInv, TaskPlaces, At
<1>4. /\ <<f>> \in Seq(Frames) /\ Mine(<<f>>) = {f.task}
      /\ none \in Seq(Frames) /\ Mine(none) = {} /\ Apart(none)
  BY <1>3, Few
<1>5. none \o rest = rest
  BY <1>3
<1>6. Move(th, <<f>>, none, rest)
  BY <1>2, <1>3, <1>4, <1>5 DEF Move, Return
<1>7. TypeOK'
  <2>1. stack' \in [Threads -> Seq(Frames)]
    BY <1>2, <1>3, StackTyped DEF WorkInv
  <2>2. outstanding' \in Nat
    BY <1>1, <1>2 DEF WorkInv, TypeOK
  <2> QED
    BY <1>2, <2>1, <2>2 DEF WorkInv, TypeOK, flags, ids, told
<1>8. Through(f.task)
  <2>1. Stage("release", id[f.task], executes[f.task], cancels[f.task], callbacks[f.task])
    BY <1>0, <1>3, TopStage
  <2> QED
    BY <2>1 DEF Stage, Through
<1>9. \A t \in Tasks : Same(t)
  BY <1>2 DEF Same, ids, told
<1>10. \A i \in DOMAIN none : \A t \in Has(none[i]) :
          Stage(none[i].at, id'[t], executes'[t], cancels'[t], callbacks'[t])
  OBVIOUS
<1> HIDE DEF rest, none, f
<1>11. OnePlace' /\ Owned' = Owned \ {f.task}
  BY <1>2, <1>4, <1>6, MoveOnePlace DEF WorkInv
<1>12. StagesOK'
  BY <1>6, <1>9, <1>10, <1>11, MoveStages DEF WorkInv
<1>13. RestOK'
  BY <1>2, <1>8, <1>11 DEF WorkInv, RestOK, Untold, Through, ids, told
<1>14. CountOK'
  <2>1. queue' \cup Owned' = (queue \cup Owned) \ {f.task}
    BY <1>1, <1>2, <1>11
  <2>2. Cardinality((queue \cup Owned) \ {f.task}) = Cardinality(queue \cup Owned) - 1
    BY <1>1, FS_RemoveElement
  <2> QED
    BY <2>1, <2>2, <1>1, <1>2 DEF CountOK
<1> QED
  BY <1>2, <1>7, <1>11, <1>12, <1>13, <1>14 DEF WorkInv

LEMMA NotifyCheckStep ==
    ASSUME WorkInv, NEW th \in Threads, NotifyCheck(th)
    PROVE  WorkInv'
<1> DEFINE g == Plain("notifyLocked")
<1>1. At(th, "notify") /\ OnlyStack /\ (Return(th) \/ Goto(th, g))
  BY DEF NotifyCheck
<1>2. Has(Top(th)) = {} /\ stack[th] # <<>>
  BY <1>1, TopFrame, FrameFacts DEF WorkInv, PlainPlaces, At
<1>3. g \in Frames /\ Has(g) = {}
  BY PlainTypes DEF PlainPlaces
<1> HIDE DEF g
<1>4. TypeOK' /\ UNCHANGED <<id, queue, refused, told, outstanding>>
  BY <1>1, <1>2, <1>3, StackTyped DEF OnlyStack, WorkInv, TypeOK, flags, ids, told
<1>5. \A t \in Tasks : Same(t)
  BY <1>1 DEF OnlyStack, Same, ids, told
<1> QED
  BY <1>1, <1>2, <1>3, <1>4, <1>5, GoOn, GoBack

LEMMA NotifyLockedStep ==
    ASSUME WorkInv, NEW th \in Threads, NotifyLocked(th)
    PROVE  WorkInv'
<1>1. /\ At(th, "notifyLocked") /\ Return(th)
      /\ UNCHANGED <<flags, ids, id, queue, outstanding, alive, told>>
  BY DEF NotifyLocked, ids
<1>2. Top(th) \in Frames /\ Has(Top(th)) = {} /\ stack[th] # <<>>
  BY <1>1, TopFrame, FrameFacts DEF WorkInv, PlainPlaces, At
<1>3. TypeOK'
  BY <1>1, <1>2, StackTyped DEF WorkInv, TypeOK, flags, ids, told
<1> QED
  BY <1>1, <1>2, <1>3, GoBack

LEMMA TakeStep ==
    ASSUME WorkInv, NEW w \in Threads, Take(w)
    PROVE  WorkInv'
<1> DEFINE rest == stack[w]
           none == <<>>
           h == Plain("notify")
<1>1. UNCHANGED <<flags, ids, id, outstanding, alive, told, refused>>
  BY DEF Take, ids, told
<1>2. PICK t \in queue : queue' = queue \ {t} /\ Calls(w, <<Frame("taken", t, {}), h>>)
  BY DEF Take
<1> DEFINE g == Frame("taken", t, {})
           new == <<g, h>>
<1>3. t \in Tasks
  BY DEF WorkInv, TypeOK
<1>4. g \in Frames /\ Has(g) = {t} /\ g.at = "taken"
  BY <1>3, PoolAssumption DEF Frames, Frame, Has, TaskPlaces
<1>5. h \in Frames /\ Has(h) = {}
  BY PlainTypes DEF PlainPlaces
<1>6. rest \in Seq(Frames) /\ none \o rest = rest
  BY DEF WorkInv, TypeOK
<1> HIDE DEF g, h
<1>7. /\ none \in Seq(Frames) /\ Mine(none) = {}
      /\ new \in Seq(Frames) /\ Mine(new) = {t} /\ Apart(new)
  BY <1>4, <1>5, Few
<1>8. stack' = [stack EXCEPT ![w] = new \o rest]
  BY <1>2 DEF Calls, g
<1>9. Move(w, none, new, rest)
  BY <1>6, <1>7, <1>8 DEF Move
<1>10. TypeOK'
  <2>1. stack' \in [Threads -> Seq(Frames)]
    BY <1>9, MoveStack DEF WorkInv
  <2> QED
    BY <1>1, <1>2, <2>1 DEF WorkInv, TypeOK, flags, ids, told
<1>11. Stage("taken", id'[t], executes'[t], cancels'[t], callbacks'[t])
  BY <1>1, <1>3 DEF WorkInv, RestOK, Stage, Untold, told
<1>12. \A i \in DOMAIN new : \A u \in Has(new[i]) :
          Stage(new[i].at, id'[u], executes'[u], cancels'[u], callbacks'[u])
  <2>1. DOMAIN new = {1, 2} /\ new[1] = g /\ new[2] = h
    OBVIOUS
  <2> QED
    BY <2>1, <1>4, <1>5, <1>11
<1>13. \A u \in Tasks : Same(u)
  BY <1>1 DEF Same, told
<1> HIDE DEF rest, none, new
<1> QED
  BY <1>1, <1>2, <1>7, <1>9, <1>10, <1>12, <1>13, MoveKeeps

LEMMA AsideStep ==
    ASSUME WorkInv, \/ \E w \in Threads : Sleep(w) \/ Exit(w)
                    \/ \E t \in Tasks : Abort(t)
                    \/ UNCHANGED vars
    PROVE  WorkInv'
<1>1. UNCHANGED <<id, queue, outstanding, stack, told, flags, ids>> /\ alive' \subseteq alive
  BY DEF Sleep, Exit, Abort, vars, ids
<1>2. TypeOK'
  BY <1>1 DEF WorkInv, TypeOK, flags, ids, told
<1> QED
  BY <1>1, <1>2, Aside

LEMMA WorkInit == Init => WorkInv
<1> SUFFICES ASSUME Init PROVE WorkInv
  OBVIOUS
<1>1. \A th \in Threads : stack[th] = <<>>
  BY DEF Init
<1>2. TypeOK
  <2>1. <<>> \in Seq(Frames)
    OBVIOUS
  <2>2. stack \in [Threads -> Seq(Frames)]
    BY <2>1 DEF Init
  <2>3. 1 \in Nat \ {0}
    OBVIOUS
  <2>4. /\ running \in BOOLEAN /\ stop \in BOOLEAN /\ nextId \in Nat \ {0}
        /\ queue \subseteq Tasks /\ outstanding \in Nat /\ alive \subseteq Workers
    BY <2>3 DEF Init
  <2>5. /\ id \in [Tasks -> Nat]
        /\ executes \in [Tasks -> Nat] /\ cancels \in [Tasks -> Nat]
        /\ callbacks \in [Tasks -> Nat] /\ refused \in [Tasks -> Nat]
    BY DEF Init
  <2> QED
    BY <2>2, <2>4, <2>5 DEF TypeOK
<1>3. Owned = {} /\ OnePlace /\ StagesOK
  BY <1>1, <1>2 DEF Owned, OnePlace, StagesOK, Mine, Apart, Init
<1>4. RestOK /\ CountOK
  BY <1>3, FS_EmptySet DEF Init, RestOK, CountOK, Untold
<1> QED
  BY <1>2, <1>3, <1>4 DEF WorkInv

LEMMA WorkNext == WorkInv /\ [Next]_vars => WorkInv'
<1> SUFFICES ASSUME WorkInv, [Next]_vars PROVE WorkInv'
  OBVIOUS
<1>1. ASSUME NEW th \in Threads, Proceed(th)
      PROVE  WorkInv'
  BY <1>1, StartWorkersStep, ShutdownLockedStep, WakeAllStep, JoinStep, WaitCheckStep, DropOneStep,
     DropDoneStep, CancelReturnsStep, CallbackReturnsStep, ReleaseStep, NotifyCheckStep,
     NotifyLockedStep, AsideStep, TakeStep, ExecuteStep, BodyReturnsStep DEF Proceed
<1>2. ASSUME NEW th \in Threads, Call(th)
      PROVE  WorkInv'
  BY <1>2, StartStep, ShutdownStep, PruneStep, WaitStep, SubmitStep, SubmitRefusedStep, CancelStep
     DEF Call
<1> QED
  BY <1>1, <1>2, AsideStep DEF Next

LEMMA WorkCorrect == Spec => []WorkInv
BY WorkInit, WorkNext, PTL DEF Spec

(* The assertion of _releaseOutstandingTask fails in Release, if anywhere. *)
LEMMA CrashOnlyReleasing ==
    ASSUME [Next]_vars, ~crashed, \A th \in Threads : ~Release(th)
    PROVE  ~crashed'
<1>1. ASSUME NEW th \in Threads, Proceed(th)
      PROVE  ~crashed'
  <2>1. CASE StartWorkers(th) \/ ShutdownLocked(th) \/ WakeAll(th) \/ Join(th) \/ WaitCheck(th)
    BY <2>1 DEF StartWorkers, ShutdownLocked, WakeAll, Join, WaitCheck, OnlyStack
  <2>2. CASE DropOne(th) \/ DropDone(th) \/ CancelReturns(th) \/ CallbackReturns(th)
    BY <2>2 DEF DropOne, DropDone, CancelReturns, CallbackReturns, OnlyStack
  <2>3. CASE NotifyCheck(th) \/ NotifyLocked(th) \/ Sleep(th) \/ Exit(th)
    BY <2>3 DEF NotifyCheck, NotifyLocked, Sleep, Exit, OnlyStack
  <2>4. CASE Take(th) \/ Execute(th) \/ BodyReturns(th)
    BY <2>4 DEF Take, Execute, BodyReturns
  <2> QED
    BY <1>1, <2>1, <2>2, <2>3, <2>4 DEF Proceed
<1>2. ASSUME NEW th \in Threads, Call(th)
      PROVE  ~crashed'
  <2>1. CASE Start(th) \/ Shutdown(th) \/ Prune(th) \/ Wait(th)
    BY <2>1 DEF Start, Shutdown, Prune, Wait, OnlyStack
  <2>2. ASSUME NEW t \in Tasks, Submit(th, t) \/ SubmitRefused(th, t) \/ Cancel(th, t)
        PROVE  ~crashed'
    BY <2>2 DEF Submit, SubmitRefused, Cancel
  <2> QED
    BY <1>2, <2>1, <2>2 DEF Call
<1>3. ASSUME NEW t \in Tasks, Abort(t)
      PROVE  ~crashed'
  BY <1>3 DEF Abort
<1>4. UNCHANGED vars => ~crashed'
  BY DEF vars
<1> QED
  BY <1>1, <1>2, <1>3, <1>4 DEF Next

LEMMA CrashNext == WorkInv /\ ~crashed /\ [Next]_vars => ~crashed'
<1> SUFFICES ASSUME WorkInv, ~crashed, [Next]_vars PROVE ~crashed'
  OBVIOUS
<1>1. CASE \A th \in Threads : ~Release(th)
  BY <1>1, CrashOnlyReleasing
<1>2. ASSUME NEW th \in Threads, Release(th)
      PROVE  ~crashed'
  BY <1>2, ReleaseStep
<1> QED
  BY <1>1, <1>2

-----------------------------------------------------------------------------
(* The life of the pool.                                                   *)

LEMMA TaskFrame ==
    ASSUME NEW at \in TaskPlaces, NEW t \in Tasks
    PROVE  Frame(at, t, {}) \in Frames /\ Frame(at, t, {}).at = at
BY DEF Frame, Frames

LEMMA BatchFrame ==
    ASSUME NEW at \in Batches, NEW b \in SUBSET Tasks
    PROVE  Frame(at, None, b) \in Frames /\ Frame(at, None, b).at = at
BY DEF Frame, Frames

LifeShape ==
    \A th \in Threads : \A i \in DOMAIN stack[th] :
        stack[th][i].at \in LifePlaces => th = Owner /\ i = Len(stack[th])

(* Frames that have nothing to do with it, and moves among them. *)
Calm(s) == \A i \in DOMAIN s : s[i].at \notin LifePlaces
CalmMove(th) == \E top, new, rest \in Seq(Frames) :
    Move(th, top, new, rest) /\ Calm(top) /\ Calm(new)

LEMMA CalmShape ==
    ASSUME TypeOK, LifeShape, NEW th \in Threads, CalmMove(th)
    PROVE  LifeShape' /\ (Bottom' = Bottom \/ (Bottom' \notin LifePlaces /\ Bottom \notin LifePlaces))
<1>1. PICK top \in Seq(Frames), new \in Seq(Frames), rest \in Seq(Frames) :
         Move(th, top, new, rest) /\ Calm(top) /\ Calm(new)
  BY DEF CalmMove
<1>2. /\ stack'[th] = new \o rest /\ stack[th] = top \o rest
      /\ \A other \in Threads \ {th} : stack'[other] = stack[other]
  BY <1>1, MoveStack DEF Move
<1> DEFINE was == top \o rest
           is == new \o rest
           a == Len(top)
           b == Len(new)
           n == Len(rest)
<1>3. /\ a \in Nat /\ b \in Nat /\ n \in Nat
      /\ DOMAIN top = 1 .. a /\ DOMAIN new = 1 .. b /\ DOMAIN rest = 1 .. n
      /\ Len(was) = a + n /\ Len(is) = b + n
      /\ DOMAIN was = 1 .. (a + n) /\ DOMAIN is = 1 .. (b + n)
  BY Indices
<1>4. /\ \A i \in DOMAIN top : was[i] = top[i]
      /\ \A i \in DOMAIN new : is[i] = new[i]
      /\ \A i \in DOMAIN rest : was[i + a] = rest[i] /\ is[i + b] = rest[i]
  <2>1. (\A i \in DOMAIN top : was[i] = top[i]) /\ (\A i \in DOMAIN rest : was[i + a] = rest[i])
    BY Indices
  <2>2. (\A i \in DOMAIN new : is[i] = new[i]) /\ (\A i \in DOMAIN rest : is[i + b] = rest[i])
    BY Indices
  <2> QED
    BY <2>1, <2>2
<1>5. was = <<>> <=> a + n = 0
  BY <1>3
<1>6. is = <<>> <=> b + n = 0
  BY <1>3
<1> HIDE DEF was, is, a, b, n
<1>7. LifeShape'
  <2> SUFFICES ASSUME NEW i \in DOMAIN is, is[i].at \in LifePlaces
               PROVE  th = Owner /\ i = Len(is)
    BY <1>2 DEF LifeShape, is
  <2>1. i \notin DOMAIN new
    BY <1>1, <1>4 DEF Calm
  <2>2. i - b \in DOMAIN rest /\ i = (i - b) + b
    BY <1>3, <2>1
  <2>3. was[(i - b) + a].at \in LifePlaces /\ (i - b) + a \in DOMAIN was
    BY <1>3, <1>4, <2>2
  <2>4. th = Owner /\ (i - b) + a = Len(was)
    BY <2>3, <1>2 DEF LifeShape, was
  <2> QED
    BY <2>2, <2>4, <1>3
<1>8. CASE th # Owner
  <2>1. stack'[Owner] = stack[Owner]
    BY <1>2, <1>8, PoolAssumption DEF Threads
  <2> QED
    BY <1>7, <2>1 DEF Bottom
<1>9. CASE th = Owner /\ n > 0
  <2>1. was # <<>> /\ is # <<>> /\ was[n + a] = is[n + b]
    <3>1. was # <<>> /\ is # <<>>
      BY <1>3, <1>5, <1>6, <1>9
    <3>2. n \in DOMAIN rest
      BY <1>3, <1>9
    <3> QED
      BY <3>1, <3>2, <1>4
  <2>2. was[Len(was)] = is[Len(is)]
    BY <1>3, <2>1
  <2> QED
    BY <1>2, <1>7, <1>9, <2>1, <2>2 DEF Bottom, was, is
<1>10. CASE th = Owner /\ n = 0
  <2>1. was # <<>> => was[Len(was)].at \notin LifePlaces
    <3>1. was # <<>> => Len(was) \in DOMAIN top
      BY <1>3, <1>5, <1>10
    <3> QED
      BY <3>1, <1>1, <1>4 DEF Calm
  <2>2. is # <<>> => is[Len(is)].at \notin LifePlaces
    <3>1. is # <<>> => Len(is) \in DOMAIN new
      BY <1>3, <1>6, <1>10
    <3> QED
      BY <3>1, <1>1, <1>4 DEF Calm
  <2>3. Bottom \notin LifePlaces
    BY <2>1, <1>2, <1>10 DEF Bottom, was, LifePlaces
  <2>4. Bottom' \notin LifePlaces
    BY <2>2, <1>2, <1>10 DEF Bottom, is, LifePlaces
  <2> QED
    BY <1>7, <2>3, <2>4
<1> QED
  BY <1>3, <1>8, <1>9, <1>10

(* The moves there are. *)
LEMMA CalmForms ==
    ASSUME TypeOK, NEW th \in Threads, NEW g \in Frames, NEW h \in Frames,
           g.at \notin LifePlaces, h.at \notin LifePlaces,
           \/ Calls(th, <<g>>) \/ Calls(th, <<g, h>>)
           \/ /\ stack[th] # <<>> /\ Top(th).at \notin LifePlaces
              /\ \/ Goto(th, g) \/ Return(th)
                 \/ stack' = [stack EXCEPT ![th] = <<g, h>> \o Tail(@)]
    PROVE  CalmMove(th)
<1> DEFINE none == <<>>
           one == <<g>>
           two == <<g, h>>
           s == stack[th]
<1>1. /\ none \in Seq(Frames) /\ one \in Seq(Frames) /\ two \in Seq(Frames) /\ s \in Seq(Frames)
      /\ none \o s = s
  BY DEF TypeOK
<1>2. Calm(none) /\ Calm(one) /\ Calm(two)
  <2>1. DOMAIN none = {} /\ DOMAIN one = {1} /\ DOMAIN two = {1, 2} /\ one[1] = g
        /\ two[1] = g /\ two[2] = h
    OBVIOUS
  <2> QED
    BY <2>1 DEF Calm
<1>3. CASE Calls(th, <<g>>) \/ Calls(th, <<g, h>>)
  <2>1. Move(th, none, one, s) \/ Move(th, none, two, s)
    BY <1>1, <1>3 DEF Move, Calls
  <2> HIDE DEF none, one, two, s
  <2> QED
    BY <2>1, <1>1, <1>2 DEF CalmMove
<1>4. CASE s # <<>> /\ Top(th).at \notin LifePlaces
  <2> DEFINE f == Top(th)
             top == <<f>>
             rest == Tail(s)
  <2>1. f \in Frames /\ rest \in Seq(Frames) /\ s = top \o rest
    BY <1>4, TopFrame DEF At, Top
  <2>2. top \in Seq(Frames) /\ DOMAIN top = {1} /\ top[1] = f /\ none \o rest = rest
    BY <2>1
  <2>3. Calm(top)
    BY <2>2, <1>4 DEF Calm
  <2>4. CASE Goto(th, g)
    <3>1. Move(th, top, one, rest)
      BY <1>1, <2>1, <2>2, <2>4 DEF Move, Goto
    <3> HIDE DEF none, one, two, s, top, rest
    <3> QED
      BY <3>1, <1>1, <1>2, <2>1, <2>2, <2>3 DEF CalmMove
  <2>5. CASE Return(th)
    <3>1. Move(th, top, none, rest)
      BY <1>1, <2>1, <2>2, <2>5 DEF Move, Return
    <3> HIDE DEF none, one, two, s, top, rest
    <3> QED
      BY <3>1, <1>1, <1>2, <2>1, <2>2, <2>3 DEF CalmMove
  <2>6. CASE stack' = [stack EXCEPT ![th] = <<g, h>> \o Tail(@)]
    <3>1. Move(th, top, two, rest)
      BY <1>1, <2>1, <2>2, <2>6 DEF Move
    <3> HIDE DEF none, one, two, s, top, rest
    <3> QED
      BY <3>1, <1>1, <1>2, <2>1, <2>2, <2>3 DEF CalmMove
  <2> QED
    BY <2>4, <2>5, <2>6, <1>3
<1> QED
  BY <1>3, <1>4

(* A call at a place of the pool's life is the owner's only one. *)
LEMMA LifeTop ==
    ASSUME TypeOK, LifeShape, NEW th \in Threads, NEW place \in LifePlaces, At(th, place)
    PROVE  /\ th = Owner /\ Top(th) \in Frames /\ Bottom = place
           /\ Tail(stack[th]) = <<>> /\ stack[th] = <<Top(th)>>
<1> DEFINE s == stack[th]
<1>1. s \in Seq(Frames) /\ s # <<>> /\ Head(s).at = place
  BY DEF TypeOK, At
<1>2. 1 \in DOMAIN s /\ s[1] = Head(s) /\ Head(s) \in Frames
  BY <1>1
<1>3. th = Owner /\ 1 = Len(s)
  BY <1>1, <1>2 DEF LifeShape
<1> HIDE DEF s
<1>4. Tail(s) = <<>> /\ s = <<Head(s)>>
  <2>1. \A q \in Seq(Frames) : q # <<>> => Tail(q) \in Seq(Frames) /\ Len(Tail(q)) = Len(q) - 1
    OBVIOUS
  <2>2. \A q \in Seq(Frames) : Len(q) = 0 => q = <<>>
    OBVIOUS
  <2>3. Tail(s) \in Seq(Frames) /\ Len(Tail(s)) = Len(s) - 1
    BY <2>1, <1>1
  <2>4. Len(Tail(s)) = 0
    <3>1. Len(s) = 1 /\ 1 - 1 = 0
      BY <1>3
    <3>2. Len(Tail(s)) = 1 - 1
      BY <3>1, <2>3, Zenon
    <3> QED
      BY <3>1, <3>2, Zenon
  <2>5. Tail(s) = <<>>
    BY <2>2, <2>3, <2>4
  <2>6. \A q \in Seq(Frames) : q # <<>> => q = <<Head(q)>> \o Tail(q)
    OBVIOUS
  <2>7. \A f \in Frames : <<f>> \o <<>> = <<f>>
    OBVIOUS
  <2>8. s = <<Head(s)>> \o <<>>
    BY <2>5, <2>6, <1>1, Zenon
  <2> QED
    BY <2>5, <2>7, <2>8, <1>2
<1>5. Bottom = place
  BY <1>1, <1>2, <1>3 DEF Bottom, s
<1> QED
  BY <1>2, <1>3, <1>4, <1>5 DEF Top, s

(* The owner's stack once its outermost call is all there is. *)
LEMMA LifeMove ==
    ASSUME TypeOK, LifeShape, NEW s \in Seq(Frames),
           stack' = [stack EXCEPT ![Owner] = s],
           \A i \in DOMAIN s : s[i].at \in LifePlaces => i = Len(s)
    PROVE  /\ LifeShape'
           /\ Bottom' = IF s = <<>> THEN "none" ELSE s[Len(s)].at
           /\ \A w \in Workers : stack'[w] = stack[w]
<1>1. /\ stack'[Owner] = s /\ \A other \in Threads \ {Owner} : stack'[other] = stack[other]
      /\ Owner \in Threads /\ \A w \in Workers : w \in Threads \ {Owner}
  BY PoolAssumption DEF TypeOK, Threads
<1>2. LifeShape'
  <2> SUFFICES ASSUME NEW th \in Threads, NEW i \in DOMAIN stack'[th],
                      stack'[th][i].at \in LifePlaces
               PROVE  th = Owner /\ i = Len(stack'[th])
    BY DEF LifeShape
  <2>1. CASE th = Owner
    BY <1>1, <2>1
  <2>2. CASE th # Owner
    <3>1. stack'[th] = stack[th]
      BY <1>1, <2>2
    <3> QED
      BY <3>1 DEF LifeShape
  <2> QED
    BY <2>1, <2>2
<1> QED
  BY <1>1, <1>2 DEF Bottom

(* What does not concern the life of the pool. *)
LEMMA LifeCalm ==
    ASSUME TypeOK, LifeInv, NEW th \in Threads, CalmMove(th), th \in Workers => th \in alive,
           UNCHANGED <<flags, alive>>, queue' \subseteq queue
    PROVE  LifeInv'
<1>1. LifeShape' /\ (Bottom' = Bottom \/ (Bottom' \notin LifePlaces /\ Bottom \notin LifePlaces))
  BY CalmShape DEF LifeInv, LifeShape
<1>2. \A w \in Workers : stack'[w] # <<>> => w \in alive'
  <2>1. \A other \in Threads \ {th} : stack'[other] = stack[other]
    BY MoveStack DEF CalmMove
  <2>2. \A w \in Workers : w \in Threads
    BY DEF Threads
  <2> QED
    BY <2>1, <2>2 DEF LifeInv
<1> QED
  BY <1>1, <1>2 DEF LifeInv, LifeShape, LifePlaces, flags

LEMMA LifeAside ==
    ASSUME LifeInv, UNCHANGED <<flags, alive, stack>>, queue' \subseteq queue \/ (running /\ ~stop)
    PROVE  LifeInv'
<1>1. Bottom' = Bottom
  BY DEF Bottom
<1> QED
  BY <1>1 DEF LifeInv, flags

LEMMA StartLife ==
    ASSUME TypeOK, LifeInv, NEW th \in Threads, Start(th)
    PROVE  LifeInv'
<1> DEFINE s == <<Plain("starting")>>
<1>1. s \in Seq(Frames) /\ s # <<>> /\ DOMAIN s = {1} /\ Len(s) = 1 /\ s[1].at = "starting"
  BY PlainTypes DEF PlainPlaces
<1>2. stack' = [stack EXCEPT ![Owner] = s]
  <2>1. s \o <<>> = s
    BY <1>1
  <2> QED
    BY <2>1 DEF Start, Calls
<1> HIDE DEF s
<1>3. LifeShape' /\ Bottom' = "starting" /\ \A w \in Workers : stack'[w] = stack[w]
  BY <1>1, <1>2, LifeMove DEF LifeInv, LifeShape
<1> QED
  BY <1>3 DEF Start, LifeInv, LifeShape

LEMMA StartWorkersLife ==
    ASSUME TypeOK, LifeInv, NEW th \in Threads, StartWorkers(th)
    PROVE  LifeInv'
<1> DEFINE s == <<>>
<1>1. th = Owner /\ Tail(stack[th]) = s /\ Bottom = "starting"
  BY LifeTop DEF StartWorkers, LifeInv, LifeShape, LifePlaces
<1>2. stack' = [stack EXCEPT ![Owner] = s]
  BY <1>1 DEF StartWorkers, Return
<1>3. s \in Seq(Frames) /\ DOMAIN s = {}
  OBVIOUS
<1>4. LifeShape' /\ Bottom' = "none" /\ \A w \in Workers : stack'[w] = stack[w]
  BY <1>2, <1>3, LifeMove DEF LifeInv, LifeShape
<1> QED
  BY <1>1, <1>4 DEF StartWorkers, LifeInv, LifeShape

LEMMA ShutdownLife ==
    ASSUME TypeOK, LifeInv, NEW th \in Threads, Shutdown(th)
    PROVE  LifeInv'
<1> DEFINE s == <<Plain("stopping")>>
<1>1. s \in Seq(Frames) /\ s # <<>> /\ DOMAIN s = {1} /\ Len(s) = 1 /\ s[1].at = "stopping"
  BY PlainTypes DEF PlainPlaces
<1>2. stack' = [stack EXCEPT ![Owner] = s]
  <2>1. s \o <<>> = s
    BY <1>1
  <2> QED
    BY <2>1 DEF Shutdown, Calls
<1> HIDE DEF s
<1>3. LifeShape' /\ Bottom' = "stopping" /\ \A w \in Workers : stack'[w] = stack[w]
  BY <1>1, <1>2, LifeMove DEF LifeInv, LifeShape
<1> QED
  BY <1>3 DEF Shutdown, LifeInv, LifeShape

LEMMA ShutdownLockedLife ==
    ASSUME TypeOK, LifeInv, NEW th \in Threads, ShutdownLocked(th)
    PROVE  LifeInv'
<1> DEFINE g == Frame("wakeAll", None, queue)
           s == <<g>>
<1>1. th = Owner /\ Tail(stack[th]) = <<>> /\ Bottom = "stopping"
  BY LifeTop DEF ShutdownLocked, LifeInv, LifeShape, LifePlaces
<1>2. g \in Frames /\ g.at = "wakeAll"
  BY BatchFrame DEF TypeOK, Batches
<1>3. stack' = [stack EXCEPT ![Owner] = s \o Tail(stack[Owner])]
  BY <1>1 DEF ShutdownLocked, Goto
<1> HIDE DEF g
<1>4. s \in Seq(Frames) /\ s # <<>> /\ DOMAIN s = {1} /\ Len(s) = 1 /\ s[1] = g /\ s \o <<>> = s
  BY <1>2
<1>5. stack' = [stack EXCEPT ![Owner] = s]
  BY <1>1, <1>3, <1>4
<1> HIDE DEF s
<1>6. LifeShape' /\ Bottom' = "wakeAll" /\ \A w \in Workers : stack'[w] = stack[w]
  BY <1>2, <1>4, <1>5, LifeMove DEF LifeInv, LifeShape
<1> QED
  BY <1>1, <1>6 DEF ShutdownLocked, LifeInv, LifeShape

LEMMA WakeAllLife ==
    ASSUME TypeOK, LifeInv, NEW th \in Threads, WakeAll(th)
    PROVE  LifeInv'
<1> DEFINE g == Frame("drop", None, Top(th).batch)
           h == Plain("join")
           s == <<g, h>>
<1>1. th = Owner /\ Tail(stack[th]) = <<>> /\ Bottom = "wakeAll" /\ Top(th) \in Frames
      /\ Top(th).at = "wakeAll"
  BY LifeTop DEF WakeAll, LifeInv, LifeShape, LifePlaces, At, Top
<1>2. g \in Frames /\ g.at = "drop"
  BY <1>1, FrameFacts, BatchFrame DEF Batches
<1>3. h \in Frames /\ h.at = "join"
  BY PlainTypes DEF PlainPlaces
<1>4. stack' = [stack EXCEPT ![Owner] = s \o Tail(stack[Owner])]
  BY <1>1 DEF WakeAll
<1> HIDE DEF g, h
<1>5. /\ s \in Seq(Frames) /\ s # <<>> /\ DOMAIN s = {1, 2} /\ Len(s) = 2 /\ s[1] = g /\ s[2] = h
      /\ s \o <<>> = s
  BY <1>2, <1>3
<1>6. stack' = [stack EXCEPT ![Owner] = s]
  BY <1>1, <1>4, <1>5
<1> HIDE DEF s
<1>7. \A i \in DOMAIN s : s[i].at \in LifePlaces => i = Len(s)
  BY <1>2, <1>5 DEF LifePlaces
<1>8. LifeShape' /\ Bottom' = "join" /\ \A w \in Workers : stack'[w] = stack[w]
  BY <1>3, <1>5, <1>6, <1>7, LifeMove DEF LifeInv, LifeShape
<1> QED
  BY <1>1, <1>8 DEF WakeAll, LifeInv, LifeShape, flags

LEMMA JoinLife ==
    ASSUME TypeOK, LifeInv, NEW th \in Threads, Join(th)
    PROVE  LifeInv'
<1> DEFINE s == <<>>
<1>1. th = Owner /\ Tail(stack[th]) = s /\ Bottom = "join"
  BY LifeTop DEF Join, LifeInv, LifeShape, LifePlaces
<1>2. stack' = [stack EXCEPT ![Owner] = s]
  BY <1>1 DEF Join, Return
<1>3. s \in Seq(Frames) /\ DOMAIN s = {}
  OBVIOUS
<1>4. LifeShape' /\ Bottom' = "none" /\ \A w \in Workers : stack'[w] = stack[w]
  BY <1>2, <1>3, LifeMove DEF LifeInv, LifeShape
<1> QED
  BY <1>1, <1>4 DEF Join, OnlyStack, LifeInv, LifeShape, flags

(* The steps of a call, and a call from user code. *)
LEMMA LifeGo ==
    ASSUME TypeOK, LifeInv, NEW th \in Threads, stack[th] # <<>>, Top(th).at \notin LifePlaces,
           NEW g \in Frames, NEW h \in Frames, g.at \notin LifePlaces, h.at \notin LifePlaces,
           \/ Goto(th, g) \/ Return(th)
           \/ stack' = [stack EXCEPT ![th] = <<g, h>> \o Tail(@)],
           UNCHANGED <<flags, alive, queue>>
    PROVE  LifeInv'
<1>1. CalmMove(th)
  BY CalmForms
<1>2. th \in Workers => th \in alive
  BY DEF LifeInv
<1> QED
  BY <1>1, <1>2, LifeCalm

LEMMA LifeCall ==
    ASSUME TypeOK, LifeInv, NEW th \in Threads, InUserCode(th),
           NEW g \in Frames, g.at \notin LifePlaces, Calls(th, <<g>>),
           UNCHANGED <<flags, alive>>, queue' \subseteq queue
    PROVE  LifeInv'
<1>1. CalmMove(th)
  BY CalmForms
<1>2. th \in Workers => th \in alive
  BY PoolAssumption DEF InUserCode, LifeInv, At
<1> QED
  BY <1>1, <1>2, LifeCalm

LEMMA CallLife ==
    ASSUME TypeOK, LifeInv, NEW th \in Threads, Call(th)
    PROVE  LifeInv'
<1>1. CASE Prune(th)
  <2> DEFINE gone == {t \in queue : abort[t]}
             g == Frame("drop", None, gone)
  <2>1. InUserCode(th) /\ Calls(th, <<g>>) /\ UNCHANGED <<flags, alive>> /\ queue' \subseteq queue
    BY <1>1 DEF Prune
  <2>2. gone \in SUBSET Tasks
    BY DEF TypeOK
  <2> HIDE DEF gone
  <2>3. g \in Frames /\ g.at \notin LifePlaces
    BY <2>2, BatchFrame DEF Batches, LifePlaces
  <2> QED
    BY <2>1, <2>3, LifeCall
<1>2. CASE Wait(th)
  <2> DEFINE g == Plain("wait")
  <2>1. InUserCode(th) /\ Calls(th, <<g>>) /\ UNCHANGED <<flags, alive>> /\ queue' \subseteq queue
    BY <1>2 DEF Wait, OnlyStack, InUserCode
  <2>2. g \in Frames /\ g.at \notin LifePlaces
    BY PlainTypes DEF PlainPlaces, LifePlaces
  <2> QED
    BY <2>1, <2>2, LifeCall
<1>3. ASSUME NEW t \in Tasks, Cancel(th, t)
      PROVE  LifeInv'
  <2> DEFINE g == Frame("drop", None, {t})
  <2>1. InUserCode(th) /\ Calls(th, <<g>>) /\ UNCHANGED <<flags, alive>> /\ queue' \subseteq queue
    BY <1>3 DEF Cancel
  <2>2. g \in Frames /\ g.at \notin LifePlaces
    BY BatchFrame DEF Batches, LifePlaces
  <2> QED
    BY <2>1, <2>2, LifeCall
<1>4. ASSUME NEW t \in Tasks, Submit(th, t) \/ SubmitRefused(th, t)
      PROVE  LifeInv'
  BY <1>4, LifeAside DEF Submit, SubmitRefused
<1> QED
  BY <1>1, <1>2, <1>3, <1>4, StartLife, ShutdownLife DEF Call

LEMMA DropOneLife ==
    ASSUME TypeOK, LifeInv, NEW th \in Threads, DropOne(th)
    PROVE  LifeInv'
<1>1. At(th, "drop") /\ UNCHANGED <<flags, alive, queue>>
  BY DEF DropOne
<1>2. PICK t \in Top(th).batch :
         stack' = [stack EXCEPT ![th] =
            <<Frame("onCancel", t, {}), Frame("drop", None, Top(th).batch \ {t})>> \o Tail(@)]
  BY DEF DropOne
<1> DEFINE g == Frame("onCancel", t, {})
           h == Frame("drop", None, Top(th).batch \ {t})
<1>3. stack[th] # <<>> /\ Top(th).at = "drop" /\ Top(th).batch \subseteq Tasks
  BY <1>1, TopFrame, FrameFacts DEF At, Batches
<1>4. g \in Frames /\ g.at \notin LifePlaces
  BY <1>3, TaskFrame DEF TaskPlaces, LifePlaces
<1>5. h \in Frames /\ h.at \notin LifePlaces
  BY <1>3, BatchFrame DEF Batches, LifePlaces
<1>6. Top(th).at \notin LifePlaces
  BY <1>3 DEF LifePlaces
<1>7. stack' = [stack EXCEPT ![th] = <<g, h>> \o Tail(@)]
  BY <1>2
<1> HIDE DEF g, h
<1> QED
  BY <1>1, <1>3, <1>4, <1>5, <1>6, <1>7, LifeGo

(* From a task's frame to the next frame of the task. *)
LEMMA TaskLife ==
    ASSUME TypeOK, LifeInv, NEW th \in Threads, NEW place \in TaskPlaces, At(th, place),
           NEW next \in TaskPlaces,
           Goto(th, Frame(next, Top(th).task, {})) \/ Return(th), UNCHANGED <<flags, alive, queue>>
    PROVE  LifeInv'
<1> DEFINE g == Frame(next, Top(th).task, {})
<1>1. stack[th] # <<>> /\ Top(th).at = place /\ Top(th).task \in Tasks
  BY TopFrame, FrameFacts DEF At
<1>2. g \in Frames /\ g.at \notin LifePlaces
  BY <1>1, TaskFrame DEF TaskPlaces, LifePlaces
<1>3. Top(th).at \notin LifePlaces
  BY <1>1 DEF TaskPlaces, LifePlaces
<1> HIDE DEF g
<1> QED
  BY <1>1, <1>2, <1>3, LifeGo DEF g

(* From a frame that is about no task to another. *)
LEMMA PlainLife ==
    ASSUME TypeOK, LifeInv, NEW th \in Threads, NEW place, At(th, place), place \notin LifePlaces,
           NEW next \in PlainPlaces \ LifePlaces,
           Goto(th, Plain(next)) \/ Return(th), UNCHANGED <<flags, alive, queue>>
    PROVE  LifeInv'
<1> DEFINE g == Plain(next)
<1>1. stack[th] # <<>> /\ Top(th).at \notin LifePlaces
  BY DEF At, Top
<1>2. g \in Frames /\ g.at \notin LifePlaces
  BY PlainTypes
<1> HIDE DEF g
<1> QED
  BY <1>1, <1>2, LifeGo DEF g

LEMMA TakeLife ==
    ASSUME TypeOK, LifeInv, NEW w \in Threads, Take(w)
    PROVE  LifeInv'
<1>1. w \in alive /\ UNCHANGED <<flags, alive>>
  BY DEF Take, AtLoop
<1>2. PICK t \in queue : queue' = queue \ {t} /\ Calls(w, <<Frame("taken", t, {}), Plain("notify")>>)
  BY DEF Take
<1> DEFINE g == Frame("taken", t, {})
           h == Plain("notify")
<1>3. g \in Frames /\ g.at \notin LifePlaces
  BY TaskFrame DEF TypeOK, TaskPlaces, LifePlaces
<1>4. h \in Frames /\ h.at \notin LifePlaces
  BY PlainTypes DEF PlainPlaces, LifePlaces
<1>5. Calls(w, <<g, h>>)
  BY <1>2
<1> HIDE DEF g, h
<1>6. CalmMove(w)
  BY <1>3, <1>4, <1>5, CalmForms
<1> QED
  BY <1>1, <1>2, <1>6, LifeCalm

LEMMA ExitLife ==
    ASSUME TypeOK, LifeInv, NEW w \in Threads, Exit(w)
    PROVE  LifeInv'
<1>1. /\ stack[w] = <<>> /\ w \in alive /\ alive' = alive \ {w}
      /\ UNCHANGED <<running, stop, queue, stack>> /\ Bottom' = Bottom
  BY DEF Exit, AtLoop, flags, Bottom
<1> QED
  BY <1>1 DEF LifeInv

LEMMA ProceedLife ==
    ASSUME TypeOK, LifeInv, NEW th \in Threads, Proceed(th)
    PROVE  LifeInv'
<1>1. CASE WaitCheck(th)
  <2>1. UNCHANGED stack => LifeInv'
    BY <1>1, LifeAside DEF WaitCheck
  <2>2. Return(th) => LifeInv'
    BY <1>1, PlainLife DEF WaitCheck, PlainPlaces, LifePlaces
  <2> QED
    BY <1>1, <2>1, <2>2 DEF WaitCheck
<1>2. CASE DropDone(th)
  BY <1>2, PlainLife DEF DropDone, OnlyStack, PlainPlaces, LifePlaces
<1>3. CASE CancelReturns(th)
  BY <1>3, TaskLife DEF CancelReturns, TaskPlaces
<1>4. CASE CallbackReturns(th)
  BY <1>4, TaskLife DEF CallbackReturns, OnlyStack, TaskPlaces
<1>5. CASE Release(th)
  <2>1. UNCHANGED stack => LifeInv'
    BY <1>5, LifeAside DEF Release
  <2>2. Return(th) => LifeInv'
    BY <1>5, TaskLife DEF Release, TaskPlaces
  <2> QED
    BY <1>5, <2>1, <2>2 DEF Release
<1>6. CASE NotifyCheck(th)
  BY <1>6, PlainLife DEF NotifyCheck, OnlyStack, PlainPlaces, LifePlaces
<1>7. CASE NotifyLocked(th)
  BY <1>7, PlainLife DEF NotifyLocked, PlainPlaces, LifePlaces
<1>8. CASE Execute(th)
  BY <1>8, TaskLife DEF Execute, TaskPlaces
<1>9. CASE BodyReturns(th)
  BY <1>9, TaskLife DEF BodyReturns, TaskPlaces
<1>10. CASE Sleep(th)
  BY <1>10, LifeAside DEF Sleep
<1> QED
  BY <1>1, <1>2, <1>3, <1>4, <1>5, <1>6, <1>7, <1>8, <1>9, <1>10, StartWorkersLife,
     ShutdownLockedLife, WakeAllLife, JoinLife, DropOneLife, ExitLife, TakeLife DEF Proceed

LEMMA LifeNext == TypeOK /\ LifeInv /\ [Next]_vars => LifeInv'
<1> SUFFICES ASSUME TypeOK, LifeInv, [Next]_vars PROVE LifeInv'
  OBVIOUS
<1>1. ASSUME NEW t \in Tasks, Abort(t)
      PROVE  LifeInv'
  BY <1>1, LifeAside DEF Abort
<1>2. UNCHANGED vars => LifeInv'
  BY LifeAside DEF vars
<1> QED
  BY <1>1, <1>2, CallLife, ProceedLife DEF Next

LEMMA LifeInit == Init => LifeInv
<1> SUFFICES ASSUME Init PROVE LifeInv
  OBVIOUS
<1>1. \A th \in Threads : stack[th] = <<>>
  BY DEF Init
<1>2. Owner \in Threads /\ \A w \in Workers : w \in Threads
  BY PoolAssumption DEF Threads
<1>3. Bottom = "none"
  BY <1>1, <1>2 DEF Bottom
<1> QED
  BY <1>1, <1>2, <1>3 DEF Init, LifeInv

-----------------------------------------------------------------------------
(* What it means to callers.                                               *)

LEMMA HandIsOwned ==
    ASSUME TypeOK, NEW t \in Tasks
    PROVE  InHand(t) <=> t \in Owned
<1>1. ASSUME NEW th \in Threads, NEW i \in DOMAIN stack[th]
      PROVE  (stack[th][i].task = t \/ t \in stack[th][i].batch) <=> t \in Has(stack[th][i])
  BY PoolAssumption DEF Has
<1>2. \A th \in Threads : DOMAIN stack[th] = 1 .. Len(stack[th])
  BY DEF TypeOK
<1> QED
  BY <1>1, <1>2 DEF InHand, Owned, Mine

(* PoolInv: the inductive invariant.  Every task is in the queue or in one call of one    *)
(* thread, has been told what its place says, and is counted; the pool starts and stops   *)
(* as its owner's outermost call says; the assertion of _releaseOutstandingTask holds.    *)
THEOREM PoolCorrect == Spec => []PoolInv
<1>1. Init => PoolInv
  BY WorkInit, LifeInit DEF PoolInv, Init
<1>2. PoolInv /\ [Next]_vars => PoolInv'
  <2>1. WorkInv => TypeOK
    BY DEF WorkInv
  <2> QED
    BY <2>1, WorkNext, LifeNext, CrashNext DEF PoolInv
<1> QED
  BY <1>1, <1>2, PTL DEF Spec

(* OutstandingIsExact: between a worker's pop and its decrement, and through a            *)
(* cancellation, a pruning or a shutdown, m_outstandingTaskCount is the number of tasks   *)
(* queued or in a thread's hands.                                                         *)
THEOREM CountIsExact == Spec => []OutstandingIsExact
<1>1. PoolInv => OutstandingIsExact
  <2> SUFFICES ASSUME PoolInv PROVE OutstandingIsExact
    OBVIOUS
  <2>1. TypeOK /\ CountOK
    BY DEF PoolInv, WorkInv
  <2>2. queue \cup Owned = {t \in Tasks : t \in queue \/ InHand(t)}
    BY <2>1, HandIsOwned DEF TypeOK, Owned
  <2> QED
    BY <2>1, <2>2 DEF CountOK, OutstandingIsExact
<1> QED
  BY <1>1, PoolCorrect, PTL

(* ToldOnce: however submit, cancel, prune, shutdown and the workers race for a task, it  *)
(* is executed at most once, cancelled at most once and called back exactly once.         *)
THEOREM CalledBackOnce == Spec => []ToldOnce
<1>1. PoolInv => ToldOnce
  <2> SUFFICES ASSUME PoolInv, NEW t \in Tasks
               PROVE  /\ executes[t] <= 1 /\ cancels[t] <= 1 /\ callbacks[t] + refused[t] <= 1
                      /\ id[t] # 0 /\ t \notin queue /\ ~InHand(t) =>
                            callbacks[t] = 1 /\ executes[t] + cancels[t] > 0
    BY DEF ToldOnce
  <2>1. /\ TypeOK /\ StagesOK /\ RestOK
        /\ executes[t] \in Nat /\ cancels[t] \in Nat /\ callbacks[t] \in Nat /\ refused[t] \in Nat
    BY DEF PoolInv, WorkInv, TypeOK
  <2>2. CASE t \in Owned
    <3>0. PICK th \in Threads : t \in Mine(stack[th])
      BY <2>2 DEF Owned
    <3>1. PICK i \in DOMAIN stack[th] : t \in Has(stack[th][i])
      BY <3>0 DEF Mine
    <3>2. Stage(stack[th][i].at, id[t], executes[t], cancels[t], callbacks[t])
      BY <2>1, <3>1 DEF StagesOK
    <3>3. stack[th][i].at \in TaskPlaces \cup Batches
      <4>1. stack[th][i] \in Frames
        BY <2>1 DEF TypeOK
      <4> QED
        BY <4>1, <3>1, FrameFacts DEF Frames
    <3>4. /\ executes[t] <= 1 /\ cancels[t] <= 1 /\ callbacks[t] <= 1 /\ id[t] # 0
      BY <2>1, <3>2, <3>3 DEF Stage, TaskPlaces, Batches
    <3>5. refused[t] = 0
      BY <2>1, <3>4 DEF RestOK
    <3> QED
      BY <2>1, <2>2, <3>4, <3>5, HandIsOwned
  <2>3. CASE t \notin Owned
    <3>1. ~InHand(t)
      BY <2>1, <2>3, HandIsOwned
    <3>2. CASE id[t] = 0
      BY <2>1, <3>2 DEF RestOK, Untold
    <3>3. CASE id[t] # 0
      BY <2>1, <2>3, <3>1, <3>3 DEF RestOK, Untold, Through
    <3> QED
      BY <3>2, <3>3
  <2> QED
    BY <2>2, <2>3
<1> QED
  BY <1>1, PoolCorrect, PTL

(* StoppedMeansQuiet: when shutdown() has returned, or the pool was never started, no     *)
(* worker is in a call and the queue is empty, though workers slept, worked or were about *)
(* to pop when it began.                                                                  *)
THEOREM ShutdownIsQuiet == Spec => []StoppedMeansQuiet
<1>1. PoolInv => StoppedMeansQuiet
  BY DEF PoolInv, LifeInv, StoppedMeansQuiet, Bottom
<1> QED
  BY <1>1, PoolCorrect, PTL

(* A waiting client's stack changes only where the predicate of waitForCompletion holds.  *)
LEMMA WaitLeaves ==
    ASSUME TypeOK, [Next]_vars, NEW c \in Clients, At(c, "wait"), stack'[c] # stack[c]
    PROVE  outstanding = 0 /\ UNCHANGED <<id, callbacks, queue, outstanding>>
<1>1. ASSUME NEW th \in Threads, NEW s, stack' = [stack EXCEPT ![th] = s]
      PROVE  th = c
  BY <1>1 DEF TypeOK
<1>2. c \in Threads /\ ~InUserCode(c) /\ stack[c] # <<>>
  BY DEF Threads, InUserCode, At
<1>3. ASSUME NEW th \in Threads, Call(th)
      PROVE  FALSE
  <2>1. InUserCode(th) \/ stack[th] = <<>> \/ UNCHANGED stack
    BY <1>3 DEF Call, Start, Shutdown, Prune, Wait, Submit, SubmitRefused, Cancel
  <2>2. th = c
    BY <1>1, <1>3 DEF Call, Start, Shutdown, Prune, Wait, Submit, SubmitRefused, Cancel, Calls
  <2> QED
    BY <2>1, <2>2, <1>2
<1>4. ASSUME NEW th \in Threads, Proceed(th)
      PROVE  th = c
  <2>1. CASE StartWorkers(th) \/ ShutdownLocked(th) \/ WakeAll(th) \/ Join(th) \/ WaitCheck(th)
    BY <2>1, <1>1 DEF StartWorkers, ShutdownLocked, WakeAll, Join, WaitCheck, Return, Goto
  <2>2. CASE DropOne(th) \/ DropDone(th) \/ CancelReturns(th) \/ CallbackReturns(th)
    BY <2>2, <1>1 DEF DropOne, DropDone, CancelReturns, CallbackReturns, Goto
  <2>3. CASE Release(th) \/ NotifyCheck(th) \/ NotifyLocked(th) \/ Sleep(th) \/ Exit(th)
    BY <2>3, <1>1 DEF Release, NotifyCheck, NotifyLocked, Sleep, Exit, Goto, Return
  <2>4. CASE Take(th) \/ Execute(th) \/ BodyReturns(th)
    BY <2>4, <1>1 DEF Take, Execute, BodyReturns, Goto, Calls
  <2> QED
    BY <1>4, <2>1, <2>2, <2>3, <2>4 DEF Proceed
<1>5. Proceed(c)
  <2>1. ~UNCHANGED stack
    OBVIOUS
  <2> QED
    BY <2>1, <1>3, <1>4 DEF Next, vars, Abort
<1>6. WaitCheck(c)
  BY <1>5 DEF Proceed, At, StartWorkers, ShutdownLocked, WakeAll, Join, DropOne, DropDone,
              CancelReturns, CallbackReturns, Release, NotifyCheck, NotifyLocked, Sleep, Exit,
              Take, Execute, BodyReturns, AtLoop
<1> QED
  BY <1>6 DEF WaitCheck, ids, told

(* WaitMeansIdle: waitForCompletion() returns only when every task accepted so far has    *)
(* been called back and no thread has any in hand, those included that a worker had       *)
(* popped and not begun, and those a cancelling client was still settling.                *)
THEOREM WaitIsForAll == Spec => WaitMeansIdle
<1>1. PoolInv /\ [Next]_vars =>
          \A c \in Clients : At(c, "wait") /\ stack'[c] # stack[c] =>
              \A t \in Tasks : id[t] # 0 => callbacks[t] = 1 /\ ~InHand(t)
  <2> SUFFICES ASSUME PoolInv, [Next]_vars, NEW c \in Clients, At(c, "wait"),
                      stack'[c] # stack[c], NEW t \in Tasks, id[t] # 0
               PROVE  callbacks[t] = 1 /\ ~InHand(t)
    OBVIOUS
  <2>1. TypeOK /\ RestOK /\ CountOK
    BY DEF PoolInv, WorkInv
  <2>2. outstanding = 0
    BY <2>1, WaitLeaves
  <2>3. queue \cup Owned = {}
    <3>1. IsFiniteSet(queue \cup Owned)
      BY <2>1, PoolAssumption, FS_Subset DEF TypeOK, Owned
    <3> QED
      BY <2>1, <2>2, <3>1, FS_EmptySet DEF CountOK
  <2> QED
    BY <2>1, <2>3, HandIsOwned DEF RestOK, Through
<1> QED
  BY <1>1, PoolCorrect, PTL DEF Spec, WaitMeansIdle
-----------------------------------------------------------------------------
(***************************************************************************)
(* The pool implements TaskPool.  Where a task is in its life follows from *)
(* the frame it stands in, and from what it has been told when it stands   *)
(* in none; so a step of the pool is the step of TaskPool that its frames  *)
(* say, and nothing is said of the tasks that do not move.                 *)
(***************************************************************************)

StageIn(at) ==
    IF at = "taken" THEN "served"
    ELSE IF at = "body" THEN "running"
    ELSE IF at = "onCancel" THEN "dropped"
    ELSE IF at \in {"callback", "release"} THEN "called" ELSE "withdrawn"

FramesStaged == \A th \in Threads : \A i \in DOMAIN stack[th] : \A t \in Has(stack[th][i]) :
    StageOf(t) = StageIn(stack[th][i].at)
RestStaged == \A t \in Tasks \ Owned :
    StageOf(t) = IF refused[t] # 0 THEN "refused"
                 ELSE IF id[t] = 0 THEN "new"
                 ELSE IF t \in queue THEN "queued" ELSE "called"

LEMMA Staged == WorkInv => FramesStaged /\ RestStaged
<1> SUFFICES ASSUME WorkInv PROVE FramesStaged /\ RestStaged
  OBVIOUS
<1>1. TypeOK /\ OnePlace /\ StagesOK /\ RestOK
  BY DEF WorkInv
<1>2. ASSUME NEW th \in Threads, NEW i \in DOMAIN stack[th], NEW t \in Has(stack[th][i])
      PROVE  StageOf(t) = StageIn(stack[th][i].at)
  <2> DEFINE f == stack[th][i]
  <2>1. f \in Frames /\ f.at \in TaskPlaces \cup Batches
    <3>1. f \in Frames
      BY <1>1 DEF TypeOK
    <3> QED
      BY <3>1, FrameFacts DEF Frames
  <2>2. t \in Tasks /\ t \in Mine(stack[th])
    BY <2>1, Few DEF Mine
  <2>3. Stage(f.at, id[t], executes[t], cancels[t], callbacks[t])
    BY <1>1 DEF StagesOK
  <2>4. t \notin queue /\ id[t] # 0 /\ refused[t] = 0
    BY <1>1, <2>2, <2>3 DEF OnePlace, RestOK, Stage
  <2>5. executes[t] \in Nat /\ cancels[t] \in Nat /\ callbacks[t] \in Nat
    BY <1>1, <2>2 DEF TypeOK
  <2>6. Popped(t) <=> f.at = "taken"
    <3>1. ASSUME f.at = "taken"
          PROVE  Popped(t)
      <4>1. f.task = t
        BY <2>1, <3>1, FrameFacts DEF TaskPlaces
      <4> QED
        BY <3>1, <4>1 DEF Popped
    <3>2. ASSUME Popped(t)
          PROVE  f.at = "taken"
      <4>1. PICK any \in Threads : \E j \in DOMAIN stack[any] :
                stack[any][j].at = "taken" /\ stack[any][j].task = t
        BY <3>2 DEF Popped
      <4>2. PICK j \in DOMAIN stack[any] : stack[any][j].at = "taken" /\ stack[any][j].task = t
        BY <4>1
      <4>3. t \in Has(stack[any][j])
        BY <2>2, <4>2, PoolAssumption DEF Has
      <4>4. any = th
        BY <1>1, <2>2, <4>3 DEF OnePlace, Mine
      <4>5. i = j
        BY <1>1, <4>3, <4>4 DEF OnePlace, Apart
      <4> QED
        BY <4>2, <4>4, <4>5
    <3> QED
      BY <3>1, <3>2
  <2> HIDE DEF f
  <2> QED
    BY <2>1, <2>3, <2>4, <2>5, <2>6 DEF StageOf, StageIn, Stage, TaskPlaces, Batches, f
<1>3. ASSUME NEW t \in Tasks, t \notin Owned
      PROVE  StageOf(t) = IF refused[t] # 0 THEN "refused"
                          ELSE IF id[t] = 0 THEN "new"
                          ELSE IF t \in queue THEN "queued" ELSE "called"
  <2>1. id[t] # 0 /\ t \notin queue => callbacks[t] # 0
    BY <1>1, <1>3 DEF RestOK, Through
  <2> QED
    BY <2>1 DEF StageOf
<1> QED
  BY <1>2, <1>3 DEF FramesStaged, RestStaged

LEMMA StagedNext == WorkInv' => FramesStaged' /\ RestStaged'
BY Staged, PTL

LEMMA HandIs ==
    ASSUME TypeOK, NEW th \in Threads
    PROVE  HandMap[th] = Mine(stack[th])
<1>1. ASSUME NEW i \in DOMAIN stack[th], NEW t \in Tasks
      PROVE  (stack[th][i].task = t \/ t \in stack[th][i].batch) <=> t \in Has(stack[th][i])
  BY PoolAssumption DEF Has
<1> QED
  BY <1>1 DEF HandMap, Hand, Mine

HandsOK == HandMap = [th \in Threads |-> Mine(stack[th])]

LEMMA HandsAre == TypeOK => HandsOK
<1> SUFFICES ASSUME TypeOK PROVE HandsOK
  OBVIOUS
<1>1. \A th \in Threads : HandMap[th] = Mine(stack[th])
  BY HandIs
<1> QED
  BY <1>1 DEF HandMap, HandsOK

LEMMA HandsNext == TypeOK' => HandsOK'
BY HandsAre, PTL

(* A task is queued in TaskPool when it is here. *)
LEMMA QueuedStage ==
    ASSUME WorkInv, NEW t \in Tasks
    PROVE  StageOf(t) = "queued" <=> t \in queue
<1>1. CASE t \in Owned
  <2>1. PICK th \in Threads : t \in Mine(stack[th])
    BY <1>1 DEF Owned
  <2>2. PICK i \in DOMAIN stack[th] : t \in Has(stack[th][i])
    BY <2>1 DEF Mine
  <2>3. StageOf(t) # "queued"
    BY <2>2, Staged DEF FramesStaged, StageIn
  <2> QED
    BY <2>1, <2>3 DEF WorkInv, OnePlace
<1>2. CASE t \notin Owned
  BY <1>2, Staged DEF RestStaged, WorkInv, RestOK
<1> QED
  BY <1>1, <1>2

(* Where the tasks are after a move, and where the moved ones were. *)
LEMMA MoveMaps ==
    ASSUME WorkInv, WorkInv', NEW th, NEW top, NEW new, NEW rest, Move(th, top, new, rest)
    PROVE  /\ HandMap' = [HandMap EXCEPT ![th] = (@ \ Mine(top)) \cup Mine(new)]
           /\ Mine(top) \subseteq HandMap[th]
           /\ \A i \in DOMAIN top : \A t \in Has(top[i]) : StageOf(t) = StageIn(top[i].at)
           /\ \A i \in DOMAIN new : \A t \in Has(new[i]) : StageOf(t)' = StageIn(new[i].at)
           /\ \A t \in Tasks \ (Mine(top) \cup Mine(new)) :
                 /\ id'[t] = id[t] /\ refused'[t] = refused[t]
                 /\ t \in queue' <=> t \in queue
                 => StageOf(t)' = StageOf(t)
<1>0. th \in Threads
  BY DEF Move
<1>1. /\ TypeOK /\ OnePlace /\ FramesStaged /\ RestStaged
      /\ TypeOK' /\ OnePlace' /\ FramesStaged' /\ RestStaged'
  BY Staged, StagedNext DEF WorkInv
<1>2. /\ stack'[th] = new \o rest /\ stack[th] = top \o rest /\ th \in Threads
      /\ \A other \in Threads \ {th} : stack'[other] = stack[other]
      /\ top \in Seq(Frames) /\ new \in Seq(Frames) /\ rest \in Seq(Frames)
  BY <1>1, MoveStack DEF Move
<1>3. /\ Mine(stack[th]) = Mine(top) \cup Mine(rest) /\ Mine(top) \cap Mine(rest) = {}
      /\ Mine(stack'[th]) = Mine(new) \cup Mine(rest)
  <2>1. Apart(stack[th]) /\ Apart(stack'[th])
    BY <1>1, <1>2 DEF OnePlace
  <2>2. Apart(top \o rest)
    BY <2>1, <1>2
  <2>3. Mine(top \o rest) = Mine(top) \cup Mine(rest) /\ Mine(top) \cap Mine(rest) = {}
    BY <2>2, <1>2, Joined
  <2>4. Mine(new \o rest) = Mine(new) \cup Mine(rest)
    BY <1>2, Joined
  <2> QED
    BY <2>3, <2>4, <1>2
<1>4. /\ HandMap' = [HandMap EXCEPT ![th] = (@ \ Mine(top)) \cup Mine(new)]
      /\ Mine(top) \subseteq HandMap[th]
  <2>1. HandMap = [any \in Threads |-> Mine(stack[any])]
    BY <1>1, HandsAre DEF HandsOK
  <2>2. HandMap' = [any \in Threads |-> Mine(stack'[any])]
    BY <1>1, HandsNext DEF HandsOK, Mine
  <2> QED
    BY <1>2, <1>3, <2>1, <2>2
<1>5. /\ \A i \in DOMAIN top : i \in DOMAIN stack[th] /\ stack[th][i] = top[i]
      /\ \A i \in DOMAIN new : i \in DOMAIN stack'[th] /\ stack'[th][i] = new[i]
  BY <1>2, Indices
<1>6. \A i \in DOMAIN top : \A t \in Has(top[i]) : StageOf(t) = StageIn(top[i].at)
  BY <1>0, <1>1, <1>5 DEF FramesStaged
<1>7. \A i \in DOMAIN new : \A t \in Has(new[i]) : StageOf(t)' = StageIn(new[i].at)
  BY <1>0, <1>1, <1>5 DEF FramesStaged
<1>8. ASSUME NEW t \in Tasks \ (Mine(top) \cup Mine(new)),
             id'[t] = id[t], refused'[t] = refused[t], t \in queue' <=> t \in queue
      PROVE  StageOf(t)' = StageOf(t)
  <2>1. CASE t \in Mine(rest)
    <3>1. PICK i \in DOMAIN rest : t \in Has(rest[i])
      BY <2>1 DEF Mine
    <3>2. /\ i + Len(top) \in DOMAIN stack[th] /\ stack[th][i + Len(top)] = rest[i]
          /\ i + Len(new) \in DOMAIN stack'[th] /\ stack'[th][i + Len(new)] = rest[i]
      <4>1. i + Len(top) \in DOMAIN stack[th] /\ stack[th][i + Len(top)] = rest[i]
        BY <1>2, Beneath
      <4>2. i + Len(new) \in DOMAIN stack'[th] /\ stack'[th][i + Len(new)] = rest[i]
        BY <1>2, Beneath
      <4> QED
        BY <4>1, <4>2
    <3>3. StageOf(t) = StageIn(rest[i].at)
      BY <1>0, <1>1, <3>1, <3>2 DEF FramesStaged
    <3>4. StageOf(t)' = StageIn(rest[i].at)
      BY <1>0, <1>1, <3>1, <3>2 DEF FramesStaged
    <3> QED
      BY <3>3, <3>4
  <2>2. ASSUME NEW any \in Threads \ {th}, t \in Mine(stack[any])
        PROVE  StageOf(t)' = StageOf(t)
    <3>1. PICK i \in DOMAIN stack[any] : t \in Has(stack[any][i])
      BY <2>2 DEF Mine
    <3>2. i \in DOMAIN stack'[any] /\ stack'[any][i] = stack[any][i]
      BY <1>2
    <3>3. StageOf(t) = StageIn(stack[any][i].at)
      BY <1>1, <3>1 DEF FramesStaged
    <3>4. StageOf(t)' = StageIn(stack[any][i].at)
      BY <1>1, <3>1, <3>2 DEF FramesStaged
    <3> QED
      BY <3>3, <3>4
  <2>3. CASE t \notin Mine(rest) /\ \A any \in Threads \ {th} : t \notin Mine(stack[any])
    <3>1. t \notin Owned
      BY <1>3, <2>3 DEF Owned
    <3>2. t \notin Owned'
      <4>1. \A any \in Threads : t \notin Mine(stack'[any])
        BY <1>2, <1>3, <2>3
      <4> QED
        BY <4>1 DEF Owned, Mine
    <3>3. StageOf(t) = IF refused[t] # 0 THEN "refused"
                       ELSE IF id[t] = 0 THEN "new"
                       ELSE IF t \in queue THEN "queued" ELSE "called"
      BY <1>1, <3>1 DEF RestStaged
    <3>4. StageOf(t)' = IF refused'[t] # 0 THEN "refused"
                        ELSE IF id'[t] = 0 THEN "new"
                        ELSE IF t \in queue' THEN "queued" ELSE "called"
      BY <1>1, <3>2 DEF RestStaged
    <3> QED
      BY <1>8, <3>3, <3>4
  <2> QED
    BY <2>1, <2>2, <2>3
<1> QED
  BY <1>4, <1>6, <1>7, <1>8

(* The forms of moves there are, and what they say to TaskPool. *)
LEMMA CallMaps ==
    ASSUME WorkInv, WorkInv', NEW th \in Threads, NEW g \in Frames, NEW h \in Frames,
           \/ Calls(th, <<g>>)
           \/ Calls(th, <<g, h>>) /\ Has(h) = {},
           queue' = queue \ Has(g), UNCHANGED <<id, refused>>
    PROVE  /\ HandMap' = [HandMap EXCEPT ![th] = @ \cup Has(g)]
           /\ StageMap' = [t \in Tasks |-> IF t \in Has(g) THEN StageIn(g.at) ELSE StageMap[t]]
<1> DEFINE none == <<>>
           one == <<g>>
           two == <<g, h>>
           s == stack[th]
<1>1. /\ s \in Seq(Frames) /\ none \in Seq(Frames) /\ none \o s = s /\ Mine(none) = {}
      /\ DOMAIN none = {} /\ HandMap[th] = HandMap[th] \ {}
  BY Few DEF WorkInv, TypeOK
<1>2. PICK new \in Seq(Frames) :
        /\ Mine(new) = Has(g) /\ 1 \in DOMAIN new /\ new[1] = g
        /\ Calls(th, new)
  <2>1. /\ one \in Seq(Frames) /\ Mine(one) = Has(g) /\ 1 \in DOMAIN one /\ one[1] = g
        /\ two \in Seq(Frames) /\ 1 \in DOMAIN two /\ two[1] = g
        /\ Has(h) = {} => Mine(two) = Has(g)
    <3>1. /\ one \in Seq(Frames) /\ Mine(one) = Has(g)
          /\ two \in Seq(Frames) /\ Mine(two) = Has(g) \cup Has(h)
      BY Few
    <3>2. 1 \in DOMAIN one /\ one[1] = g /\ 1 \in DOMAIN two /\ two[1] = g
      OBVIOUS
    <3> QED
      BY <3>1, <3>2
  <2> QED
    BY <2>1
<1>3. Move(th, none, new, s)
  BY <1>1, <1>2 DEF Move, Calls
<1> HIDE DEF none, one, two, s
<1>4. HandMap' = [HandMap EXCEPT ![th] = @ \cup Has(g)]
  <2>1. HandMap' = [HandMap EXCEPT ![th] = (@ \ Mine(none)) \cup Mine(new)]
    BY <1>3, MoveMaps
  <2> QED
    BY <2>1, <1>1, <1>2
<1>5. \A t \in Has(g) : StageOf(t)' = StageIn(g.at)
  BY <1>2, <1>3, MoveMaps
<1>6. \A t \in Tasks \ Has(g) : StageOf(t)' = StageOf(t)
  <2>1. \A t \in Tasks \ (Mine(none) \cup Mine(new)) :
           /\ id'[t] = id[t] /\ refused'[t] = refused[t]
           /\ t \in queue' <=> t \in queue
           => StageOf(t)' = StageOf(t)
    BY <1>3, MoveMaps
  <2> QED
    BY <2>1, <1>1, <1>2
<1> QED
  BY <1>4, <1>5, <1>6 DEF StageMap

LEMMA CallSilent ==
    ASSUME WorkInv, WorkInv', NEW th \in Threads, NEW place \in PlainPlaces,
           Calls(th, <<Plain(place)>>), UNCHANGED <<queue, id, refused>>
    PROVE  UNCHANGED <<StageMap, HandMap>>
<1>1. Plain(place) \in Frames /\ Has(Plain(place)) = {}
  BY PlainTypes
<1>2. /\ HandMap' = [HandMap EXCEPT ![th] = @ \cup {}]
      /\ StageMap' = [t \in Tasks |-> IF t \in {} THEN StageIn(Plain(place).at) ELSE StageMap[t]]
  BY <1>1, CallMaps
<1> QED
  BY <1>2 DEF StageMap, HandMap

(* A frame gives way to another, or to two, with the tasks it has. *)
Becomes(th, g, h) ==
    \/ Goto(th, g) /\ Has(g) = Has(Top(th)) /\ Has(h) = {}
    \/ /\ stack' = [stack EXCEPT ![th] = <<g, h>> \o Tail(@)]
       /\ Has(g) \cup Has(h) = Has(Top(th))
Staging(g, h) ==
    [t \in Tasks |-> IF t \in Has(g) THEN StageIn(g.at)
                     ELSE IF t \in Has(h) THEN StageIn(h.at) ELSE StageMap[t]]

LEMMA GoMaps ==
    ASSUME WorkInv, WorkInv', NEW th \in Threads, NEW place, At(th, place),
           NEW g \in Frames, NEW h \in Frames, Becomes(th, g, h),
           UNCHANGED <<queue, id, refused>>
    PROVE  /\ HandMap' = HandMap /\ StageMap' = Staging(g, h)
           /\ \A t \in Has(Top(th)) : t \in Tasks /\ t \in HandMap[th] /\ StageMap[t] = StageIn(place)
<1> DEFINE f == Top(th)
           top == <<f>>
           one == <<g>>
           two == <<g, h>>
           rest == Tail(stack[th])
<1>1. f \in Frames /\ f.at = place /\ rest \in Seq(Frames) /\ stack[th] = top \o rest
  BY TopFrame DEF WorkInv
<1>2. /\ top \in Seq(Frames) /\ Mine(top) = Has(f) /\ Has(f) \subseteq Tasks
      /\ 1 \in DOMAIN top /\ top[1] = f
  <2>1. top \in Seq(Frames) /\ Mine(top) = Has(f) /\ Has(f) \subseteq Tasks
    BY <1>1, Few
  <2>2. 1 \in DOMAIN top /\ top[1] = f
    OBVIOUS
  <2> QED
    BY <2>1, <2>2
<1>3. PICK new \in Seq(Frames) :
        /\ Mine(new) = Has(f) /\ Move(th, top, new, rest)
        /\ \E i \in DOMAIN new : new[i] = g
        /\ Has(h) # {} => \E i \in DOMAIN new : new[i] = h
  <2>1. /\ one \in Seq(Frames) /\ Mine(one) = Has(g) /\ 1 \in DOMAIN one /\ one[1] = g
        /\ two \in Seq(Frames) /\ 1 \in DOMAIN two /\ two[1] = g
        /\ 2 \in DOMAIN two /\ two[2] = h /\ Mine(two) = Has(g) \cup Has(h)
    BY Few
  <2>2. CASE Goto(th, g) /\ Has(g) = Has(Top(th)) /\ Has(h) = {}
    <3>1. Move(th, top, one, rest)
      BY <1>1, <1>2, <2>1, <2>2 DEF Move, Goto
    <3> HIDE DEF f, top, one, two, rest
    <3> QED
      BY <3>1, <2>1, <2>2 DEF f
  <2>3. CASE /\ stack' = [stack EXCEPT ![th] = two \o Tail(@)]
             /\ Has(g) \cup Has(h) = Has(Top(th))
    <3>1. Move(th, top, two, rest)
      BY <1>1, <1>2, <2>1, <2>3 DEF Move
    <3> HIDE DEF f, top, one, two, rest
    <3> QED
      BY <3>1, <2>1, <2>3 DEF f
  <2> QED
    BY <2>2, <2>3 DEF Becomes
<1> HIDE DEF top, one, two, rest, f
<1>4. Has(g) \cup Has(h) = Has(f)
  BY DEF f, Becomes
<1>5. /\ HandMap' = [HandMap EXCEPT ![th] = (@ \ Has(f)) \cup Has(f)]
      /\ Has(f) \subseteq HandMap[th]
  BY <1>2, <1>3, MoveMaps
<1>6. HandMap' = HandMap
  BY <1>5 DEF HandMap
<1>7. \A t \in Has(f) : StageOf(t) = StageIn(place)
  BY <1>1, <1>2, <1>3, MoveMaps
<1>8. /\ \A t \in Has(g) : StageOf(t)' = StageIn(g.at)
      /\ \A t \in Has(h) : StageOf(t)' = StageIn(h.at)
  <2>1. \A i \in DOMAIN new : \A t \in Has(new[i]) : StageOf(t)' = StageIn(new[i].at)
    BY <1>3, MoveMaps
  <2> QED
    BY <2>1, <1>3
<1>9. \A t \in Tasks \ Has(f) : StageOf(t)' = StageOf(t)
  <2>1. \A t \in Tasks \ (Mine(top) \cup Mine(new)) :
           /\ id'[t] = id[t] /\ refused'[t] = refused[t]
           /\ t \in queue' <=> t \in queue
           => StageOf(t)' = StageOf(t)
    BY <1>3, MoveMaps
  <2> QED
    BY <2>1, <1>2, <1>3
<1>10. StageMap' = Staging(g, h)
  BY <1>4, <1>8, <1>9 DEF StageMap, Staging
<1> QED
  BY <1>2, <1>5, <1>6, <1>7, <1>10 DEF StageMap, f

(* A frame without tasks is left. *)
LEMMA ReturnSilent ==
    ASSUME WorkInv, WorkInv', NEW th \in Threads, NEW place, At(th, place), Has(Top(th)) = {},
           NEW g \in Frames, Has(g) = {}, Return(th) \/ Goto(th, g), UNCHANGED <<queue, id, refused>>
    PROVE  UNCHANGED <<StageMap, HandMap>>
<1>1. CASE Goto(th, g)
  <2>1. Becomes(th, g, g)
    BY <1>1 DEF Becomes
  <2>2. HandMap' = HandMap /\ StageMap' = Staging(g, g)
    BY <2>1, GoMaps
  <2> QED
    BY <2>2 DEF StageMap, Staging
<1>2. CASE Return(th)
  <2> DEFINE f == Top(th)
             top == <<f>>
             none == <<>>
             rest == Tail(stack[th])
  <2>1. f \in Frames /\ rest \in Seq(Frames) /\ stack[th] = top \o rest
    BY TopFrame DEF WorkInv
  <2>2. /\ top \in Seq(Frames) /\ Mine(top) = {}
        /\ none \in Seq(Frames) /\ Mine(none) = {} /\ none \o rest = rest
    <3>1. /\ top \in Seq(Frames) /\ Mine(top) = Has(f)
          /\ none \in Seq(Frames) /\ Mine(none) = {}
      BY <2>1, Few
    <3>2. none \o rest = rest
      BY <2>1
    <3> QED
      BY <3>1, <3>2
  <2>3. Move(th, top, none, rest)
    BY <1>2, <2>1, <2>2 DEF Move, Return
  <2> HIDE DEF f, top, none, rest
  <2>4. HandMap' = [HandMap EXCEPT ![th] = (@ \ {}) \cup {}]
    BY <2>2, <2>3, MoveMaps
  <2>5. \A t \in Tasks \ ({} \cup {}) :
           /\ id'[t] = id[t] /\ refused'[t] = refused[t]
           /\ t \in queue' <=> t \in queue
           => StageOf(t)' = StageOf(t)
    BY <2>2, <2>3, MoveMaps
  <2> QED
    BY <2>4, <2>5 DEF StageMap, HandMap
<1> QED
  BY <1>1, <1>2

(* The life of the pool goes by the owner's outermost call. *)
LEMMA LifeIs ==
    LifeOf = IF running THEN IF stop THEN "closed" ELSE "open"
             ELSE IF Bottom \in {"stopping", "wakeAll", "join"} THEN "closing" ELSE "closed"
BY DEF LifeOf, Closing, Bottom

LEMMA LifeIsNext ==
    LifeOf' = IF running' THEN IF stop' THEN "closed" ELSE "open"
              ELSE IF Bottom' \in {"stopping", "wakeAll", "join"} THEN "closing" ELSE "closed"
BY DEF LifeOf, Closing, Bottom

LEMMA LifeKept ==
    ASSUME TypeOK, LifeInv, NEW th \in Threads, CalmMove(th), UNCHANGED flags
    PROVE  LifeOf' = LifeOf
<1>1. Bottom' = Bottom \/ (Bottom' \notin LifePlaces /\ Bottom \notin LifePlaces)
  BY CalmShape DEF LifeInv, LifeShape
<1> QED
  BY <1>1, LifeIs, LifeIsNext DEF LifePlaces, flags

LEMMA LifeStill ==
    ASSUME UNCHANGED <<flags, stack>>
    PROVE  LifeOf' = LifeOf
BY DEF LifeOf, Closing, flags


(* A step answered by TaskPool: by a step of it, or because nothing shows. *)
Answered == [Promised!Next]_(Promised!abstractVars)

LEMMA Unseen ==
    ASSUME UNCHANGED <<StageMap, HandMap, ids, abort>>, LifeOf' = LifeOf
    PROVE  Answered
BY DEF Answered, Promised!abstractVars, ids

LEMMA StackStill ==
    ASSUME UNCHANGED stack
    PROVE  HandMap' = HandMap /\ \A t \in Tasks : Popped(t)' = Popped(t)
BY DEF HandMap, Hand, Popped

LEMMA NothingMoves ==
    ASSUME UNCHANGED <<flags, ids, queue, abort, told, stack>>
    PROVE  Answered
<1>1. HandMap' = HandMap /\ LifeOf' = LifeOf
  BY StackStill, LifeStill
<1>2. \A t \in Tasks : StageOf(t)' = StageOf(t)
  BY StackStill DEF StageOf, ids, told
<1> QED
  BY <1>1, <1>2, Unseen DEF StageMap

LEMMA GoKept ==
    ASSUME PoolInv, NEW th \in Threads, NEW place, At(th, place), place \notin LifePlaces,
           NEW g \in Frames, NEW h \in Frames, g.at \notin LifePlaces, h.at \notin LifePlaces,
           \/ Goto(th, g) \/ Return(th)
           \/ stack' = [stack EXCEPT ![th] = <<g, h>> \o Tail(@)],
           UNCHANGED flags
    PROVE  LifeOf' = LifeOf
<1>1. TypeOK /\ LifeInv
  BY DEF PoolInv, WorkInv
<1>2. stack[th] # <<>> /\ Top(th).at \notin LifePlaces
  BY DEF At, Top
<1>3. CalmMove(th)
  BY <1>1, <1>2, CalmForms
<1> QED
  BY <1>1, <1>3, LifeKept

LEMMA CallKept ==
    ASSUME PoolInv, NEW th \in Threads,
           NEW g \in Frames, NEW h \in Frames, g.at \notin LifePlaces, h.at \notin LifePlaces,
           Calls(th, <<g>>) \/ Calls(th, <<g, h>>), UNCHANGED flags
    PROVE  LifeOf' = LifeOf
<1>1. TypeOK /\ LifeInv
  BY DEF PoolInv, WorkInv
<1>2. CalmMove(th)
  BY <1>1, CalmForms
<1> QED
  BY <1>1, <1>2, LifeKept

(* A frame about no task gives way to another, or returns. *)
LEMMA PlainAnswered ==
    ASSUME PoolInv, PoolInv', NEW th \in Threads, NEW place, At(th, place), place \notin LifePlaces,
           Has(Top(th)) = {}, NEW next \in PlainPlaces \ LifePlaces,
           Return(th) \/ Goto(th, Plain(next)), UNCHANGED <<flags, ids, queue, abort, refused>>
    PROVE  Answered
<1> DEFINE g == Plain(next)
<1>1. g \in Frames /\ Has(g) = {} /\ g.at \notin LifePlaces
  BY PlainTypes
<1> HIDE DEF g
<1>2. UNCHANGED <<queue, id, refused>> /\ (Return(th) \/ Goto(th, g)) /\ WorkInv /\ WorkInv'
  BY DEF ids, PoolInv, g
<1>3. UNCHANGED <<StageMap, HandMap>>
  BY <1>1, <1>2, ReturnSilent
<1>4. LifeOf' = LifeOf
  BY <1>1, <1>2, GoKept
<1> QED
  BY <1>3, <1>4, Unseen

(* A frame about a task gives way to another about it. *)
LEMMA TaskGoes ==
    ASSUME PoolInv, PoolInv', NEW th \in Threads, NEW place \in TaskPlaces, At(th, place),
           NEW next \in TaskPlaces, Goto(th, Frame(next, Top(th).task, {})),
           UNCHANGED <<flags, ids, queue, refused>>
    PROVE  LET t == Top(th).task IN
           /\ t \in Tasks /\ t \in HandMap[th] /\ StageMap[t] = StageIn(place)
           /\ StageMap' = [StageMap EXCEPT ![t] = StageIn(next)]
           /\ HandMap' = HandMap /\ LifeOf' = LifeOf
<1> DEFINE t == Top(th).task
           g == Frame(next, t, {})
           h == Plain("wait")
<1>0. WorkInv /\ WorkInv' /\ TypeOK
  BY DEF PoolInv, WorkInv
<1>1. t \in Tasks /\ Has(Top(th)) = {t} /\ WorkInv /\ WorkInv'
  <2>1. Top(th) \in Frames /\ Top(th).at = place
    BY <1>0, TopFrame
  <2> QED
    BY <1>0, <2>1, FrameFacts
<1>2. g \in Frames /\ Has(g) = {t} /\ g.at = next /\ g.at \notin LifePlaces
  BY <1>1, PoolAssumption DEF Frames, Frame, Has, TaskPlaces, LifePlaces
<1>3. h \in Frames /\ Has(h) = {} /\ h.at \notin LifePlaces
  BY PlainTypes DEF PlainPlaces, LifePlaces
<1>4. Goto(th, g) /\ UNCHANGED <<queue, id, refused>> /\ place \notin LifePlaces
  BY DEF ids, TaskPlaces, LifePlaces
<1> HIDE DEF t, g, h
<1>5. Becomes(th, g, h)
  BY <1>1, <1>2, <1>3, <1>4 DEF Becomes
<1>6. /\ HandMap' = HandMap /\ StageMap' = Staging(g, h)
      /\ t \in HandMap[th] /\ StageMap[t] = StageIn(place)
  BY <1>1, <1>2, <1>3, <1>4, <1>5, GoMaps
<1>7. StageMap' = [StageMap EXCEPT ![t] = StageIn(next)]
  BY <1>1, <1>2, <1>3, <1>6 DEF Staging, StageMap
<1>8. LifeOf' = LifeOf
  BY <1>2, <1>3, <1>4, GoKept
<1> QED
  BY <1>1, <1>6, <1>7, <1>8 DEF t

(* ... and that is what it is told. *)
LEMMA Telling ==
    ASSUME PoolInv, PoolInv', NEW th \in Threads, NEW place \in TaskPlaces, At(th, place),
           NEW next \in TaskPlaces, Goto(th, Frame(next, Top(th).task, {})),
           UNCHANGED <<flags, ids, queue, abort, refused>>,
           LET t == Top(th).task IN
               \/ place = "taken" /\ next = "body"
               \/ place \in {"taken", "body"} /\ next = "onCancel" /\ abort[t]
               \/ place \in {"body", "onCancel"} /\ next = "callback"
               \/ place = "callback" /\ next = "release"
    PROVE  Answered
<1> DEFINE t == Top(th).task
<1>1. /\ t \in Tasks /\ t \in HandMap[th] /\ StageMap[t] = StageIn(place)
      /\ StageMap' = [StageMap EXCEPT ![t] = StageIn(next)]
      /\ HandMap' = HandMap /\ LifeOf' = LifeOf
  BY TaskGoes
<1> HIDE DEF t
<1>2. ASSUME place = "callback", next = "release"
      PROVE  Answered
  <2>1. StageMap' = StageMap
    BY <1>1, <1>2 DEF StageIn, StageMap
  <2> QED
    BY <2>1, <1>1, Unseen
<1>3. ASSUME NEW before, StageIn(place) \in before, NEW after, after = StageIn(next)
      PROVE  Promised!Tell(th, t, before, after)
  BY <1>1, <1>3 DEF Promised!Tell, ids
<1>4. ASSUME place = "taken", next = "body"
      PROVE  Promised!Run(th, t)
  BY <1>3, <1>4 DEF Promised!Run, StageIn
<1>5. ASSUME place \in {"taken", "body"}, next = "onCancel", abort[t]
      PROVE  Promised!Drop(th, t)
  <2>1. StageIn(place) \in {"served", "withdrawn", "running"} /\ "dropped" = StageIn(next)
    BY <1>5 DEF StageIn
  <2>2. Promised!Tell(th, t, {"served", "withdrawn", "running"}, "dropped")
    BY <2>1, <1>3
  <2> QED
    BY <2>2, <1>5 DEF Promised!Drop
<1>6. ASSUME place \in {"body", "onCancel"}, next = "callback"
      PROVE  Promised!CallBack(th, t)
  BY <1>3, <1>6 DEF Promised!CallBack, StageIn
<1>7. Promised!Run(th, t) \/ Promised!Drop(th, t) \/ Promised!CallBack(th, t) => Answered
  BY <1>1 DEF Answered, Promised!Next
<1> QED
  BY <1>2, <1>4, <1>5, <1>6, <1>7 DEF t


(* Opening and closing. *)
LEMMA OwnerGoes ==
    ASSUME PoolInv, NEW th \in Threads, NEW place \in LifePlaces, At(th, place),
           NEW s \in Seq(Frames), stack' = [stack EXCEPT ![th] = s \o Tail(@)]
    PROVE  /\ th = Owner /\ Bottom = place
           /\ Bottom' = IF s = <<>> THEN "none" ELSE s[Len(s)].at
<1>1. TypeOK /\ LifeShape
  BY DEF PoolInv, WorkInv, LifeInv, LifeShape
<1>2. th = Owner /\ Bottom = place /\ Tail(stack[th]) = <<>>
  BY <1>1, LifeTop
<1>3. s \o <<>> = s
  OBVIOUS
<1>4. stack' = [stack EXCEPT ![Owner] = s]
  BY <1>2, <1>3
<1>5. stack'[Owner] = s
  BY <1>1, <1>2, <1>4 DEF TypeOK
<1> QED
  BY <1>2, <1>5 DEF Bottom

LEMMA StartAnswered ==
    ASSUME PoolInv, PoolInv', NEW th \in Threads, Start(th)
    PROVE  Answered
<1>1. UNCHANGED <<queue, id, refused, ids, abort, stop>> /\ Calls(th, <<Plain("starting")>>)
  BY DEF Start, ids, told
<1>2. UNCHANGED <<StageMap, HandMap>>
  BY <1>1, CallSilent DEF PoolInv, PlainPlaces
<1>3. LifeOf = "closed"
  BY LifeIs DEF Start, Bottom
<1>4. LifeOf' = IF stop THEN "closed" ELSE "open"
  BY <1>1, LifeIsNext DEF Start
<1>5. CASE stop
  BY <1>1, <1>2, <1>3, <1>4, <1>5, Unseen
<1>6. CASE ~stop
  BY <1>1, <1>2, <1>3, <1>4, <1>6 DEF Answered, Promised!Next, Promised!Open, ids
<1> QED
  BY <1>5, <1>6

LEMMA StartWorkersAnswered ==
    ASSUME PoolInv, PoolInv', NEW th \in Threads, StartWorkers(th)
    PROVE  Answered
<1> DEFINE g == Plain("wait")
<1>1. /\ At(th, "starting") /\ Return(th) /\ ~stop'
      /\ UNCHANGED <<queue, id, refused, ids, abort, running>>
  BY DEF StartWorkers, ids, told
<1>2. WorkInv /\ WorkInv' /\ Has(Top(th)) = {}
  BY <1>1, TopFrame, FrameFacts DEF PoolInv, WorkInv, PlainPlaces
<1>3. g \in Frames /\ Has(g) = {}
  BY PlainTypes DEF PlainPlaces
<1> HIDE DEF g
<1>4. UNCHANGED <<StageMap, HandMap>>
  BY <1>1, <1>2, <1>3, ReturnSilent
<1>5. running
  <2>1. TypeOK /\ LifeShape
    BY DEF PoolInv, WorkInv, LifeInv, LifeShape
  <2>2. Bottom = "starting"
    BY <1>1, <2>1, LifeTop DEF LifePlaces
  <2> QED
    BY <2>2 DEF PoolInv, LifeInv
<1>6. LifeOf' = "open" /\ LifeOf = IF stop THEN "closed" ELSE "open"
  BY <1>1, <1>5, LifeIs, LifeIsNext
<1>7. CASE stop
  BY <1>1, <1>4, <1>6, <1>7 DEF Answered, Promised!Next, Promised!Open, ids
<1>8. CASE ~stop
  BY <1>1, <1>4, <1>6, <1>8, Unseen
<1> QED
  BY <1>7, <1>8

LEMMA ShutdownAnswered ==
    ASSUME PoolInv, PoolInv', NEW th \in Threads, Shutdown(th)
    PROVE  Answered
<1> DEFINE s == <<Plain("stopping")>>
<1>1. /\ th = Owner /\ stack[th] = <<>> /\ running /\ ~running' /\ Calls(th, s)
      /\ UNCHANGED <<queue, id, refused, ids, abort, stop>>
  BY DEF Shutdown, ids, told
<1>2. UNCHANGED <<StageMap, HandMap>>
  BY <1>1, CallSilent DEF PoolInv, PlainPlaces
<1>3. HandMap[Owner] = {}
  BY <1>1, HandIs DEF PoolInv, WorkInv, Mine
<1>4. LifeOf = "open"
  BY <1>1, LifeIs DEF PoolInv, LifeInv, Bottom
<1>5. LifeOf' = "closing"
  <2>1. s \in Seq(Frames) /\ s # <<>> /\ s[Len(s)].at = "stopping"
    BY PlainTypes DEF PlainPlaces
  <2>2. s \o <<>> = s
    BY <2>1
  <2>3. stack'[Owner] = s
    BY <1>1, <2>2 DEF Calls, PoolInv, WorkInv, TypeOK
  <2>4. Bottom' = "stopping"
    BY <2>1, <2>3 DEF Bottom
  <2> QED
    BY <1>1, <2>4, LifeIsNext
<1> QED
  BY <1>1, <1>2, <1>3, <1>4, <1>5 DEF Answered, Promised!Next, Promised!Close, ids

LEMMA ShutdownLockedAnswered ==
    ASSUME PoolInv, PoolInv', NEW th \in Threads, ShutdownLocked(th)
    PROVE  Answered
<1> DEFINE f == Top(th)
           rest == Tail(stack[th])
           g == Frame("wakeAll", None, queue)
           top == <<f>>
           new == <<g>>
<1>1. /\ At(th, "stopping") /\ Goto(th, g) /\ queue' = {}
      /\ UNCHANGED <<id, refused, ids, abort, running>>
  BY DEF ShutdownLocked, ids, told
<1>2. WorkInv /\ WorkInv' /\ queue \in SUBSET Tasks
  BY DEF PoolInv, WorkInv, TypeOK
<1>3. f \in Frames /\ Has(f) = {} /\ rest \in Seq(Frames) /\ stack[th] = <<f>> \o rest
  BY <1>1, <1>2, TopFrame, FrameFacts DEF WorkInv, PlainPlaces
<1>4. g \in Frames /\ g.at = "wakeAll"
  BY <1>2, BatchFrame DEF Batches
<1>5. Has(g) = queue
  BY <1>4, FrameFacts DEF Batches, Frame
<1>6. /\ top \in Seq(Frames) /\ Mine(top) = {} /\ new \in Seq(Frames) /\ Mine(new) = queue
      /\ 1 \in DOMAIN new /\ new[1] = g /\ new # <<>> /\ new[Len(new)] = g
  <2>1. top \in Seq(Frames) /\ Mine(top) = {} /\ new \in Seq(Frames) /\ Mine(new) = queue
    BY <1>3, <1>4, <1>5, Few
  <2>2. 1 \in DOMAIN new /\ new[1] = g /\ new # <<>> /\ new[Len(new)] = g
    OBVIOUS
  <2> QED
    BY <2>1, <2>2
<1>7. Move(th, top, new, rest) /\ stack' = [stack EXCEPT ![th] = new \o Tail(@)]
  BY <1>1, <1>3, <1>6 DEF Move, Goto
<1> HIDE DEF f, rest, g, top, new
<1>8. /\ HandMap' = [HandMap EXCEPT ![th] = (@ \ {}) \cup queue]
      /\ \A t \in queue : StageOf(t)' = StageIn("wakeAll")
      /\ \A t \in Tasks \ ({} \cup queue) :
                 /\ id'[t] = id[t] /\ refused'[t] = refused[t]
                 /\ t \in queue' <=> t \in queue
                 => StageOf(t)' = StageOf(t)
  <2>1. /\ HandMap' = [HandMap EXCEPT ![th] = (@ \ Mine(top)) \cup Mine(new)]
        /\ \A i \in DOMAIN new : \A t \in Has(new[i]) : StageOf(t)' = StageIn(new[i].at)
        /\ \A t \in Tasks \ (Mine(top) \cup Mine(new)) :
                 /\ id'[t] = id[t] /\ refused'[t] = refused[t]
                 /\ t \in queue' <=> t \in queue
                 => StageOf(t)' = StageOf(t)
    BY <1>2, <1>7, MoveMaps
  <2> QED
    BY <2>1, <1>4, <1>5, <1>6
<1>9. /\ HandMap' = [HandMap EXCEPT ![th] = @ \cup queue]
      /\ StageMap' = [t \in Tasks |-> IF t \in queue THEN "withdrawn" ELSE StageMap[t]]
  <2>1. HandMap' = [HandMap EXCEPT ![th] = @ \cup queue]
    BY <1>8 DEF HandMap
  <2>2. \A t \in Tasks \ queue : StageOf(t)' = StageOf(t)
    BY <1>1, <1>8
  <2> QED
    BY <2>1, <2>2, <1>8 DEF StageMap, StageIn
<1>10. th = Owner /\ LifeOf = "closing" /\ LifeOf' = "closing"
  <2>1. th = Owner /\ Bottom = "stopping" /\ Bottom' = "wakeAll"
    BY <1>1, <1>4, <1>6, <1>7, OwnerGoes DEF LifePlaces
  <2>2. ~running /\ ~running'
    BY <1>1, <2>1 DEF PoolInv, LifeInv
  <2> QED
    BY <2>1, <2>2, LifeIs, LifeIsNext
<1>11. \A t \in queue : StageMap[t] = "queued"
  BY <1>2, QueuedStage DEF StageMap
<1>12. Promised!Withdraw(th, queue)
  BY <1>1, <1>9, <1>10, <1>11 DEF Promised!Withdraw, ids
<1> QED
  BY <1>2, <1>12 DEF Answered, Promised!Next

LEMMA WakeAllAnswered ==
    ASSUME PoolInv, PoolInv', NEW th \in Threads, WakeAll(th)
    PROVE  Answered
<1> DEFINE batch == Top(th).batch
           g == Frame("drop", None, batch)
           h == Plain("join")
           new == <<g, h>>
<1>1. /\ At(th, "wakeAll") /\ stack' = [stack EXCEPT ![th] = <<g, h>> \o Tail(@)]
      /\ UNCHANGED <<queue, id, refused, ids, abort, flags>>
  BY DEF WakeAll, ids, told
<1>2. WorkInv /\ WorkInv'
  BY DEF PoolInv
<1>3. batch \in SUBSET Tasks /\ Has(Top(th)) = batch
  BY <1>1, <1>2, TopFrame, FrameFacts DEF WorkInv, Batches
<1>4. g \in Frames /\ g.at = "drop"
  BY <1>3, BatchFrame DEF Batches
<1>5. Has(g) = batch
  BY <1>4, FrameFacts DEF Batches, Frame
<1>6. h \in Frames /\ Has(h) = {} /\ h.at = "join"
  BY PlainTypes DEF PlainPlaces
<1> HIDE DEF batch, g, h
<1>7. Becomes(th, g, h)
  BY <1>1, <1>3, <1>5, <1>6 DEF Becomes
<1>8. /\ HandMap' = HandMap /\ StageMap' = Staging(g, h)
      /\ \A t \in batch : t \in Tasks /\ StageMap[t] = StageIn("wakeAll")
  BY <1>1, <1>2, <1>3, <1>4, <1>6, <1>7, GoMaps
<1>9. StageMap' = StageMap
  BY <1>4, <1>5, <1>6, <1>8 DEF Staging, StageIn, StageMap
<1>10. LifeOf' = LifeOf
  <2>1. new \in Seq(Frames) /\ new # <<>> /\ new[Len(new)] = h
    BY <1>4, <1>6
  <2>2. Bottom = "wakeAll" /\ Bottom' = "join"
    BY <1>1, <1>6, <2>1, OwnerGoes DEF LifePlaces
  <2> QED
    BY <1>1, <2>2, LifeIs, LifeIsNext DEF flags
<1> QED
  BY <1>1, <1>8, <1>9, <1>10, Unseen

LEMMA JoinAnswered ==
    ASSUME PoolInv, PoolInv', NEW th \in Threads, Join(th)
    PROVE  Answered
<1> DEFINE g == Plain("wait")
<1>1. /\ At(th, "join") /\ Return(th) /\ alive = {}
      /\ UNCHANGED <<queue, id, refused, ids, abort, flags>>
  BY DEF Join, OnlyStack, ids, told
<1>2. WorkInv /\ WorkInv' /\ TypeOK /\ Has(Top(th)) = {}
  BY <1>1, TopFrame, FrameFacts DEF PoolInv, WorkInv, PlainPlaces
<1>3. g \in Frames /\ Has(g) = {}
  BY PlainTypes DEF PlainPlaces
<1> HIDE DEF g
<1>4. UNCHANGED <<StageMap, HandMap>>
  BY <1>1, <1>2, <1>3, ReturnSilent
<1>5. /\ th = Owner /\ stack[th] = <<Top(th)>> /\ Top(th) \in Frames /\ Bottom = "join"
      /\ Tail(stack[th]) = <<>>
  BY <1>1, <1>2, LifeTop DEF PoolInv, LifeInv, LifeShape, LifePlaces
<1>6. queue = {} /\ ~running
  BY <1>5 DEF PoolInv, LifeInv
<1>7. LifeOf = "closing" /\ LifeOf' = "closed"
  <2>1. stack'[Owner] = <<>>
    BY <1>1, <1>2, <1>5 DEF Return, TypeOK
  <2>2. Bottom' = "none"
    BY <2>1 DEF Bottom
  <2> QED
    BY <1>1, <1>5, <1>6, <2>2, LifeIs, LifeIsNext DEF flags
<1>8. ASSUME NEW any \in Workers \cup {Owner}
      PROVE  HandMap[any] = {}
  <2>1. any \in Threads
    BY PoolAssumption DEF Threads
  <2>2. CASE any = Owner
    BY <2>1, <2>2, <1>2, <1>5, HandIs, Few
  <2>3. CASE any \in Workers
    <3>1. stack[any] = <<>>
      BY <1>1, <2>3 DEF PoolInv, LifeInv
    <3> QED
      BY <2>1, <3>1, <1>2, HandIs DEF Mine
  <2> QED
    BY <2>2, <2>3
<1>9. \A t \in Tasks : StageMap[t] # "queued"
  BY <1>2, <1>6, QueuedStage DEF StageMap
<1> QED
  BY <1>1, <1>4, <1>7, <1>8, <1>9 DEF Answered, Promised!Next, Promised!Closed, ids


(* Calls from user code. *)
LEMMA WaitAnswered ==
    ASSUME PoolInv, PoolInv', NEW th \in Threads, Wait(th) \/ WaitCheck(th)
    PROVE  Answered
<1>1. CASE Wait(th)
  <2> DEFINE g == Plain("wait")
  <2>1. /\ Calls(th, <<g>>)
        /\ UNCHANGED <<queue, id, refused, ids, abort, flags>>
    BY <1>1 DEF Wait, OnlyStack, ids, told
  <2>2. g \in Frames /\ g.at \notin LifePlaces
    BY PlainTypes DEF PlainPlaces, LifePlaces
  <2>3. UNCHANGED <<StageMap, HandMap>>
    BY <2>1, CallSilent DEF PoolInv, PlainPlaces
  <2> HIDE DEF g
  <2>4. LifeOf' = LifeOf
    BY <2>1, <2>2, CallKept
  <2> QED
    BY <2>1, <2>3, <2>4, Unseen
<1>2. CASE WaitCheck(th)
  <2>1. /\ At(th, "wait") /\ UNCHANGED <<flags, ids, queue, abort, refused, told>>
        /\ Return(th) \/ UNCHANGED stack
    BY <1>2 DEF WaitCheck, told
  <2>2. Has(Top(th)) = {}
    BY <2>1, TopFrame, FrameFacts DEF PoolInv, WorkInv, PlainPlaces
  <2>3. Return(th) => Answered
    BY <2>1, <2>2, PlainAnswered DEF PlainPlaces, LifePlaces
  <2> QED
    BY <2>1, <2>3, NothingMoves
<1> QED
  BY <1>1, <1>2

LEMMA SubmitAnswered ==
    ASSUME PoolInv, PoolInv', NEW th \in Threads, NEW t \in Tasks, Submit(th, t)
    PROVE  Answered
<1>1. /\ id[t] = 0 /\ refused[t] = 0 /\ running /\ ~stop
      /\ id' = [id EXCEPT ![t] = nextId] /\ nextId' = nextId + 1 /\ queue' = queue \cup {t}
      /\ UNCHANGED <<flags, abort, stack, told>>
  BY DEF Submit
<1>2. nextId \in Nat \ {0} /\ id \in [Tasks -> Nat]
  BY DEF PoolInv, WorkInv, TypeOK
<1>3. nextId' - 1 = (nextId - 1) + 1 /\ id' = [id EXCEPT ![t] = (nextId - 1) + 1]
  BY <1>1, <1>2
<1>4. HandMap' = HandMap /\ LifeOf' = LifeOf /\ LifeOf = "open"
  BY <1>1, StackStill, LifeStill, LifeIs
<1>5. StageOf(t) = "new" /\ StageOf(t)' = "queued"
  BY <1>1, <1>2 DEF StageOf, told
<1>6. ASSUME NEW u \in Tasks \ {t}
      PROVE  StageOf(u)' = StageOf(u)
  <2>1. /\ id'[u] = id[u] /\ u \in queue' <=> u \in queue
        /\ Popped(u)' = Popped(u)
    BY <1>1, <1>2, StackStill
  <2> QED
    BY <1>1, <2>1 DEF StageOf, told
<1>7. StageMap[t] = "new" /\ StageMap' = [StageMap EXCEPT ![t] = "queued"]
  BY <1>5, <1>6 DEF StageMap
<1>8. Promised!Accept(t)
  BY <1>1, <1>3, <1>4, <1>7 DEF Promised!Accept
<1> QED
  BY <1>8 DEF Answered, Promised!Next

LEMMA SubmitRefusedAnswered ==
    ASSUME PoolInv, PoolInv', NEW th \in Threads, NEW t \in Tasks, SubmitRefused(th, t)
    PROVE  Answered
<1>1. /\ id[t] = 0 /\ refused[t] = 0 /\ (~running \/ stop)
      /\ refused' = [refused EXCEPT ![t] = 1]
      /\ UNCHANGED <<flags, ids, abort, queue, stack, executes, cancels, callbacks>>
  BY DEF SubmitRefused, Count, PoolInv, WorkInv, TypeOK
<1>2. refused \in [Tasks -> Nat]
  BY DEF PoolInv, WorkInv, TypeOK
<1>3. HandMap' = HandMap /\ LifeOf' = LifeOf /\ LifeOf # "open"
  BY <1>1, StackStill, LifeStill, LifeIs
<1>4. StageOf(t) = "new" /\ StageOf(t)' = "refused"
  <2>1. refused'[t] # 0
    BY <1>1, <1>2
  <2> QED
    BY <1>1, <2>1 DEF StageOf
<1>5. ASSUME NEW u \in Tasks \ {t}
      PROVE  StageOf(u)' = StageOf(u)
  <2>1. refused'[u] = refused[u] /\ Popped(u)' = Popped(u)
    BY <1>1, <1>2, StackStill
  <2> QED
    BY <1>1, <2>1 DEF StageOf, ids
<1>6. StageMap[t] = "new" /\ StageMap' = [StageMap EXCEPT ![t] = "refused"]
  BY <1>4, <1>5 DEF StageMap
<1>7. Promised!Refuse(t)
  BY <1>1, <1>3, <1>6 DEF Promised!Refuse, ids
<1> QED
  BY <1>7 DEF Answered, Promised!Next

LEMMA AbortAnswered ==
    ASSUME PoolInv, NEW t \in Tasks, Abort(t)
    PROVE  Answered
<1>1. /\ abort' = [abort EXCEPT ![t] = TRUE]
      /\ UNCHANGED <<flags, ids, queue, stack, told>>
  BY DEF Abort
<1>2. HandMap' = HandMap /\ LifeOf' = LifeOf
  BY <1>1, StackStill, LifeStill
<1>3. \A u \in Tasks : StageOf(u)' = StageOf(u)
  BY <1>1, StackStill DEF StageOf, ids, told
<1>4. StageMap' = StageMap
  BY <1>3 DEF StageMap
<1>5. Promised!Abort(t)
  BY <1>1, <1>2, <1>4 DEF Promised!Abort, ids
<1> QED
  BY <1>5 DEF Answered, Promised!Next

(* Tasks that are given up, or have been, leave the queue. *)
LEMMA TakenOut ==
    ASSUME PoolInv, PoolInv', NEW th \in Threads, NEW S \in SUBSET queue,
           Calls(th, <<Frame("drop", None, S)>>), queue' = queue \ S,
           UNCHANGED <<flags, ids, refused>>,
           abort' \in {abort} \cup {[abort EXCEPT ![t] = TRUE] : t \in S},
           \A t \in S : abort'[t]
    PROVE  Answered
<1> DEFINE g == Frame("drop", None, S)
<1>1. WorkInv /\ WorkInv' /\ S \in SUBSET Tasks
  BY DEF PoolInv, WorkInv, TypeOK
<1>2. g \in Frames /\ g.at = "drop" /\ g.at \notin LifePlaces
  BY <1>1, BatchFrame DEF Batches, LifePlaces
<1>3. Has(g) = S
  BY <1>2, FrameFacts DEF Batches, Frame
<1>4. Calls(th, <<g>>) /\ queue' = queue \ Has(g) /\ UNCHANGED <<id, refused>>
  BY <1>3 DEF ids
<1> HIDE DEF g
<1>5. /\ HandMap' = [HandMap EXCEPT ![th] = @ \cup S]
      /\ StageMap' = [t \in Tasks |-> IF t \in S THEN "withdrawn" ELSE StageMap[t]]
  <2>1. /\ HandMap' = [HandMap EXCEPT ![th] = @ \cup Has(g)]
        /\ StageMap' = [t \in Tasks |-> IF t \in Has(g) THEN StageIn(g.at) ELSE StageMap[t]]
    BY <1>1, <1>2, <1>4, CallMaps
  <2> QED
    BY <2>1, <1>2, <1>3 DEF StageIn
<1>6. LifeOf' = LifeOf
  BY <1>2, <1>4, CallKept
<1>7. \A t \in S : StageMap[t] = "queued"
  BY <1>1, QueuedStage DEF StageMap
<1>8. Promised!Withdraw(th, S)
  BY <1>5, <1>6, <1>7 DEF Promised!Withdraw, ids
<1> QED
  BY <1>1, <1>8 DEF Answered, Promised!Next

LEMMA CancelAnswered ==
    ASSUME PoolInv, PoolInv', abort \in [Tasks -> BOOLEAN],
           NEW th \in Threads, NEW t \in Tasks, Cancel(th, t)
    PROVE  Answered
<1>1. /\ t \in queue /\ queue' = queue \ {t} /\ abort' = [abort EXCEPT ![t] = TRUE]
      /\ Calls(th, <<Frame("drop", None, {t})>>) /\ UNCHANGED <<flags, ids, refused>>
  BY DEF Cancel, told
<1>2. {t} \in SUBSET queue /\ abort' \in {[abort EXCEPT ![u] = TRUE] : u \in {t}}
  BY <1>1
<1>3. \A u \in {t} : abort'[u]
  BY <1>1
<1> QED
  BY <1>1, <1>2, <1>3, TakenOut

LEMMA PruneAnswered ==
    ASSUME PoolInv, PoolInv', NEW th \in Threads, Prune(th)
    PROVE  Answered
<1> DEFINE gone == {t \in queue : abort[t]}
<1>1. /\ queue' = queue \ gone /\ abort' = abort
      /\ Calls(th, <<Frame("drop", None, gone)>>) /\ UNCHANGED <<flags, ids, refused>>
  BY DEF Prune, told
<1>2. gone \in SUBSET queue /\ \A t \in gone : abort'[t]
  BY <1>1
<1> HIDE DEF gone
<1> QED
  BY <1>1, <1>2, TakenOut

(* The tasks in hand. *)
LEMMA DropOneAnswered ==
    ASSUME PoolInv, PoolInv', NEW th \in Threads, DropOne(th)
    PROVE  Answered
<1> DEFINE batch == Top(th).batch
<1>1. At(th, "drop") /\ UNCHANGED <<queue, id, refused, ids, abort, flags>>
  BY DEF DropOne, ids
<1>2. PICK t \in batch :
        stack' = [stack EXCEPT ![th] =
              <<Frame("onCancel", t, {}), Frame("drop", None, batch \ {t})>> \o Tail(@)]
  BY DEF DropOne
<1> DEFINE g == Frame("onCancel", t, {})
           h == Frame("drop", None, batch \ {t})
<1>3. batch \subseteq Tasks /\ Has(Top(th)) = batch /\ WorkInv /\ WorkInv'
  BY <1>1, TopFrame, FrameFacts DEF PoolInv, WorkInv, Batches
<1>4. g \in Frames /\ Has(g) = {t} /\ g.at = "onCancel"
  BY <1>3, PoolAssumption DEF Frames, Frame, Has, TaskPlaces
<1>5. h \in Frames /\ Has(h) = batch \ {t} /\ h.at = "drop"
  BY <1>3, PoolAssumption DEF Frames, Frame, Has, Batches
<1>6. stack' = [stack EXCEPT ![th] = <<g, h>> \o Tail(@)]
  BY <1>2
<1> HIDE DEF batch, g, h
<1>7. Becomes(th, g, h)
  BY <1>3, <1>4, <1>5, <1>6, <1>2 DEF Becomes
<1>8. /\ HandMap' = HandMap /\ StageMap' = Staging(g, h)
      /\ \A u \in batch : u \in Tasks /\ u \in HandMap[th] /\ StageMap[u] = StageIn("drop")
  BY <1>1, <1>3, <1>4, <1>5, <1>7, GoMaps
<1>9. StageMap' = [StageMap EXCEPT ![t] = "dropped"] /\ StageMap[t] = "withdrawn"
  <2>1. \A u \in batch : StageMap[u] = "withdrawn"
    BY <1>8 DEF StageIn
  <2> QED
    BY <1>2, <1>4, <1>5, <1>8, <2>1 DEF Staging, StageIn, StageMap
<1>10. LifeOf' = LifeOf
  BY <1>1, <1>4, <1>5, <1>6, GoKept DEF LifePlaces
<1>11. Promised!Drop(th, t)
  <2>1. Promised!Tell(th, t, {"served", "withdrawn", "running"}, "dropped")
        /\ Promised!Tell(th, t, {"withdrawn"}, "dropped")
    BY <1>1, <1>2, <1>8, <1>9, <1>10 DEF Promised!Tell, ids
  <2> QED
    BY <2>1 DEF Promised!Drop
<1> QED
  BY <1>2, <1>8, <1>11 DEF Answered, Promised!Next

LEMMA ReleaseAnswered ==
    ASSUME PoolInv, PoolInv', NEW th \in Threads, Release(th)
    PROVE  Answered
<1> DEFINE f == Top(th)
           top == <<f>>
           none == <<>>
           rest == Tail(stack[th])
<1>1. At(th, "release") /\ UNCHANGED <<queue, id, refused, ids, abort, flags>>
  BY DEF Release, ids, told
<1>2. WorkInv /\ WorkInv' /\ TypeOK /\ OnePlace /\ TypeOK'
  BY DEF PoolInv, WorkInv
<1>3. Return(th)
  BY <1>1, <1>2, ReleaseSafe DEF Release
<1>0. PICK t \in Tasks : t = f.task
  BY <1>1, <1>2, TopFrame, FrameFacts DEF TaskPlaces
<1>4. /\ f \in Frames /\ Has(f) = {t} /\ rest \in Seq(Frames) /\ stack[th] = <<f>> \o rest
      /\ t \in Tasks /\ f.at = "release"
  BY <1>0, <1>1, <1>2, TopFrame, FrameFacts DEF TaskPlaces
<1>5. /\ top \in Seq(Frames) /\ Mine(top) = {t} /\ 1 \in DOMAIN top /\ top[1] = f
      /\ none \in Seq(Frames) /\ Mine(none) = {}
  <2>1. /\ top \in Seq(Frames) /\ Mine(top) = {t}
        /\ none \in Seq(Frames) /\ Mine(none) = {}
    BY <1>4, Few
  <2>2. 1 \in DOMAIN top /\ top[1] = f
    OBVIOUS
  <2> QED
    BY <2>1, <2>2
<1>6. Move(th, top, none, rest)
  <2>1. none \o rest = rest
    BY <1>4
  <2> QED
    BY <1>3, <1>4, <1>5, <2>1 DEF Move, Return
<1>7. LifeOf' = LifeOf
  <2>1. Plain("wait") \in Frames /\ Plain("wait").at \notin LifePlaces
    BY PlainTypes DEF PlainPlaces, LifePlaces
  <2> QED
    BY <1>1, <1>3, <2>1, GoKept DEF LifePlaces
<1> HIDE DEF f, top, none, rest
<1>8. /\ HandMap' = [HandMap EXCEPT ![th] = (@ \ Mine(top)) \cup Mine(none)]
      /\ Mine(top) \subseteq HandMap[th]
      /\ \A i \in DOMAIN top : \A u \in Has(top[i]) : StageOf(u) = StageIn(top[i].at)
      /\ \A u \in Tasks \ (Mine(top) \cup Mine(none)) :
            /\ id'[u] = id[u] /\ refused'[u] = refused[u]
            /\ u \in queue' <=> u \in queue
            => StageOf(u)' = StageOf(u)
  BY <1>2, <1>6, MoveMaps
<1>9. HandMap' = [HandMap EXCEPT ![th] = @ \ {t}] /\ t \in HandMap[th] /\ StageOf(t) = "called"
  <2>1. HandMap' = [HandMap EXCEPT ![th] = (@ \ {t}) \cup {}]
    BY <1>5, <1>8
  <2>2. HandMap' = [HandMap EXCEPT ![th] = @ \ {t}]
    BY <2>1 DEF HandMap
  <2> QED
    BY <1>4, <1>5, <1>8, <2>2 DEF StageIn
<1>10. \A u \in Tasks \ {t} : StageOf(u)' = StageOf(u)
  BY <1>1, <1>5, <1>8
<1>11. StageOf(t)' = "called"
  <2>1. \A any \in Threads : HandMap[any] = Mine(stack[any]) /\ HandMap'[any] = Mine(stack'[any])
    BY <1>2, HandsAre, HandsNext DEF HandsOK, Mine
  <2>2. \A any \in Threads : t \notin Mine(stack'[any])
    <3>1. t \in Mine(stack[th])
      BY <1>9, <2>1
    <3>2. \A any \in Threads \ {th} : t \notin Mine(stack[any])
      BY <1>2, <3>1 DEF OnePlace
    <3>3. \A any \in Threads \ {th} : HandMap'[any] = HandMap[any]
      BY <1>9
    <3>4. t \notin HandMap'[th]
      BY <1>9 DEF HandMap
    <3> QED
      BY <2>1, <3>2, <3>3, <3>4
  <2>3. t \in Tasks \ Owned'
    BY <1>4, <2>2 DEF Owned, Mine
  <2>4. id[t] # 0 /\ refused[t] = 0 /\ t \notin queue
    <3>1. t \notin queue /\ id[t] # 0
      BY <1>1, <1>2, <1>4, TopStage DEF Stage, f
    <3> QED
      BY <1>2, <1>4, <3>1 DEF WorkInv, RestOK
  <2> QED
    BY <1>1, <1>2, <2>3, <2>4, StagedNext DEF RestStaged
<1>12. StageMap' = StageMap /\ StageMap[t] = "called"
  BY <1>4, <1>9, <1>10, <1>11 DEF StageMap
<1>13. Promised!LetGo(th, t)
  BY <1>1, <1>7, <1>9, <1>12 DEF Promised!LetGo, ids
<1> QED
  BY <1>4, <1>13 DEF Answered, Promised!Next

LEMMA TakeAnswered ==
    ASSUME PoolInv, PoolInv', NEW w \in Threads, Take(w)
    PROVE  Answered
<1> DEFINE h == Plain("notify")
<1>1. /\ w \in alive /\ stack[w] = <<>> /\ ~stop
      /\ UNCHANGED <<id, refused, ids, abort, flags>>
  BY DEF Take, AtLoop, ids, told
<1>2. PICK t \in queue :
        Foremost(t) /\ queue' = queue \ {t} /\ Calls(w, <<Frame("taken", t, {}), Plain("notify")>>)
  BY DEF Take
<1> DEFINE g == Frame("taken", t, {})
<1>3. t \in Tasks /\ w \in Workers /\ queue \subseteq Tasks /\ WorkInv /\ WorkInv'
  BY <1>1 DEF PoolInv, WorkInv, TypeOK
<1>4. g \in Frames /\ g.at = "taken" /\ g.at \notin LifePlaces /\ Has(g) = {t}
  BY <1>3, PoolAssumption DEF Frames, Frame, Has, TaskPlaces, LifePlaces
<1>5. h \in Frames /\ Has(h) = {} /\ h.at \notin LifePlaces
  BY PlainTypes DEF PlainPlaces, LifePlaces
<1>6. Calls(w, <<g, h>>) /\ queue' = queue \ Has(g)
  BY <1>2, <1>4
<1> HIDE DEF g, h
<1>7. /\ HandMap' = [HandMap EXCEPT ![w] = @ \cup Has(g)]
      /\ StageMap' = [u \in Tasks |-> IF u \in Has(g) THEN StageIn(g.at) ELSE StageMap[u]]
  BY <1>1, <1>3, <1>4, <1>5, <1>6, CallMaps
<1>8. HandMap[w] = {}
  BY <1>1, <1>3, HandIs DEF WorkInv, Mine
<1>9. HandMap' = [HandMap EXCEPT ![w] = {t}] /\ StageMap' = [StageMap EXCEPT ![t] = "served"]
  <2>1. HandMap' = [HandMap EXCEPT ![w] = {t}]
    BY <1>4, <1>7, <1>8 DEF HandMap
  <2> QED
    BY <1>4, <1>7, <2>1 DEF StageIn, StageMap
<1>10. LifeOf' = LifeOf /\ LifeOf # "closed"
  <2>1. LifeOf' = LifeOf
    BY <1>1, <1>4, <1>5, <1>6, CallKept
  <2>2. ~running => Bottom \in {"stopping", "wakeAll", "join"}
    BY <1>1 DEF PoolInv, LifeInv
  <2> QED
    BY <1>1, <2>1, <2>2, LifeIs
<1>11. StageMap[t] = "queued" /\ \A u \in Tasks : StageMap[u] = "queued" => u \in queue
  BY <1>2, <1>3, QueuedStage DEF StageMap
<1>12. \A u \in Tasks \ {t} : StageMap[u] = "queued" => Promised!Precedes(t, u)
  BY <1>2, <1>11 DEF Foremost, Promised!Precedes
<1>13. Promised!Serve(w, t)
  BY <1>1, <1>8, <1>9, <1>10, <1>11, <1>12 DEF Promised!Serve, ids
<1> QED
  BY <1>3, <1>13 DEF Answered, Promised!Next

LEMMA TaskAnswered ==
    ASSUME PoolInv, PoolInv', NEW th \in Threads,
           Execute(th) \/ BodyReturns(th) \/ CancelReturns(th) \/ CallbackReturns(th)
    PROVE  Answered
<1>1. UNCHANGED <<flags, ids, queue, abort, refused>>
  BY DEF Execute, BodyReturns, CancelReturns, CallbackReturns, OnlyStack, told
<1>2. CASE Execute(th)
  BY <1>1, <1>2, Telling DEF Execute, TaskPlaces
<1>3. CASE BodyReturns(th)
  BY <1>1, <1>3, Telling DEF BodyReturns, TaskPlaces
<1>4. CASE CancelReturns(th)
  BY <1>1, <1>4, Telling DEF CancelReturns, TaskPlaces
<1>5. CASE CallbackReturns(th)
  BY <1>1, <1>5, Telling DEF CallbackReturns, TaskPlaces
<1> QED
  BY <1>2, <1>3, <1>4, <1>5

LEMMA SilentAnswered ==
    ASSUME PoolInv, PoolInv', NEW th \in Threads,
           DropDone(th) \/ NotifyCheck(th) \/ NotifyLocked(th) \/ Sleep(th) \/ Exit(th)
    PROVE  Answered
<1>1. UNCHANGED <<flags, ids, queue, abort, refused, told>>
  BY DEF DropDone, NotifyCheck, NotifyLocked, Sleep, Exit, OnlyStack, told
<1>2. CASE DropDone(th)
  <2>1. At(th, "drop") /\ Has(Top(th)) = {} /\ Goto(th, Plain("notify"))
    BY <1>2, TopFrame, FrameFacts DEF DropDone, PoolInv, WorkInv, Batches
  <2> QED
    BY <1>1, <2>1, PlainAnswered DEF PlainPlaces, LifePlaces
<1>3. CASE NotifyCheck(th)
  <2>1. At(th, "notify") /\ Has(Top(th)) = {} /\ (Return(th) \/ Goto(th, Plain("notifyLocked")))
    BY <1>3, TopFrame, FrameFacts DEF NotifyCheck, PoolInv, WorkInv, PlainPlaces
  <2> QED
    BY <1>1, <2>1, PlainAnswered DEF PlainPlaces, LifePlaces
<1>4. CASE NotifyLocked(th)
  <2>1. At(th, "notifyLocked") /\ Has(Top(th)) = {} /\ Return(th)
    BY <1>4, TopFrame, FrameFacts DEF NotifyLocked, PoolInv, WorkInv, PlainPlaces
  <2> QED
    BY <1>1, <2>1, PlainAnswered DEF PlainPlaces, LifePlaces
<1>5. CASE Sleep(th) \/ Exit(th)
  BY <1>1, <1>5, NothingMoves DEF Sleep, Exit
<1> QED
  BY <1>2, <1>3, <1>4, <1>5

LEMMA AbortTyped == Spec => [](abort \in [Tasks -> BOOLEAN])
<1>1. Init => abort \in [Tasks -> BOOLEAN]
  BY DEF Init
<1>2. abort \in [Tasks -> BOOLEAN] /\ [Next]_vars => (abort \in [Tasks -> BOOLEAN])'
  <2> SUFFICES ASSUME abort \in [Tasks -> BOOLEAN], [Next]_vars
               PROVE  abort' \in [Tasks -> BOOLEAN]
    OBVIOUS
  <2>1. ASSUME NEW th \in Threads, Proceed(th)
        PROVE  abort' = abort
    BY <2>1 DEF Proceed, StartWorkers, ShutdownLocked, WakeAll, Join, WaitCheck, DropOne, DropDone,
       CancelReturns, CallbackReturns, Release, NotifyCheck, NotifyLocked, Sleep, Exit, Take,
       Execute, BodyReturns, OnlyStack
  <2>2. ASSUME NEW th \in Threads, Call(th)
        PROVE  abort' = abort \/ \E t \in Tasks : abort' = [abort EXCEPT ![t] = TRUE]
    BY <2>2 DEF Call, Start, Shutdown, Prune, Wait, Submit, SubmitRefused, Cancel, OnlyStack
  <2>3. ASSUME NEW t \in Tasks, Abort(t)
        PROVE  abort' = [abort EXCEPT ![t] = TRUE]
    BY <2>3 DEF Abort
  <2> QED
    BY <2>1, <2>2, <2>3 DEF Next, vars
<1> QED
  BY <1>1, <1>2, PTL DEF Spec

LEMMA StepAnswered ==
    ASSUME PoolInv, PoolInv', abort \in [Tasks -> BOOLEAN], [Next]_vars
    PROVE  Answered
<1>1. ASSUME NEW th \in Threads, Proceed(th)
      PROVE  Answered
  BY <1>1, StartWorkersAnswered, ShutdownLockedAnswered, WakeAllAnswered, JoinAnswered, WaitAnswered,
     DropOneAnswered, SilentAnswered, TaskAnswered, ReleaseAnswered, TakeAnswered DEF Proceed
<1>2. ASSUME NEW th \in Threads, Call(th)
      PROVE  Answered
  BY <1>2, StartAnswered, ShutdownAnswered, PruneAnswered, WaitAnswered, SubmitAnswered,
     SubmitRefusedAnswered, CancelAnswered DEF Call
<1>3. CASE UNCHANGED vars
  BY <1>3, NothingMoves DEF vars
<1> QED
  BY <1>1, <1>2, <1>3, AbortAnswered DEF Next

LEMMA InitAnswered == Init => Promised!Init
<1> SUFFICES ASSUME Init PROVE Promised!Init
  OBVIOUS
<1>1. \A th \in Threads : Hand(th) = {}
  BY DEF Init, Hand
<1>2. \A t \in Tasks : StageOf(t) = "new"
  BY DEF Init, StageOf
<1>3. nextId - 1 = 0
  BY DEF Init
<1>4. LifeOf = "closed"
  BY LifeIs, PoolAssumption DEF Init, Bottom, Threads
<1> QED
  BY <1>1, <1>2, <1>3, <1>4 DEF Init, Promised!Init, StageMap, HandMap

(* ImplementsTaskPool: every step of the pool, whatever its clients, workers and owner    *)
(* are in the middle of, is a step of TaskPool or does not show.                          *)
THEOREM PoolImplementsTaskPool == Spec => ImplementsTaskPool
<1>1. PoolInv /\ PoolInv' /\ abort \in [Tasks -> BOOLEAN] /\ [Next]_vars
          => [Promised!Next]_(Promised!abstractVars)
  BY StepAnswered DEF Answered
<1> QED
  BY <1>1, InitAnswered, PoolCorrect, AbortTyped, PTL DEF Spec, ImplementsTaskPool, Promised!Spec

-----------------------------------------------------------------------------
(* No wakeup is lost.                                                      *)

Tellers == {"drop", "notify", "notifyLocked"}

(* A task is settled on top of a call that will look whether the pool is idle; a client   *)
(* waits in its outermost call.                                                           *)
Shaped(th, s) == \A i \in DOMAIN s :
    /\ s[i].at \in TaskPlaces => i + 1 \in DOMAIN s /\ s[i + 1].at \in {"drop", "notify"}
    /\ s[i].at = "wait" => i = Len(s) /\ th \in Clients

StacksShaped == \A th \in Threads : Shaped(th, stack[th])

(* Only waiting clients sleep on the one condition, only workers on the other; none of    *)
(* them once shutdown() has woken them, and all workers run while the pool does.          *)
SleepersOK ==
    /\ \A th \in waiting : th \in Clients /\ At(th, "wait")
    /\ asleep \subseteq Workers
    /\ stop /\ asleep # {} => At(Owner, "wakeAll")
    /\ running /\ ~stop => alive = Workers \/ At(Owner, "starting")

WakeInv == StacksShaped /\ SleepersOK /\ NoWakeupLost

LEMMA ShapedPush ==
    ASSUME NEW th, NEW s \in Seq(Frames), Shaped(th, s), NEW g \in Frames,
           g.at \in TaskPlaces => s # <<>> /\ Head(s).at \in {"drop", "notify"},
           g.at = "wait" => s = <<>> /\ th \in Clients
    PROVE  Shaped(th, <<g>> \o s)
<1> DEFINE q == <<g>> \o s
<1>1. /\ Len(q) = Len(s) + 1 /\ DOMAIN q = 1 .. Len(s) + 1 /\ DOMAIN s = 1 .. Len(s) /\ Len(s) \in Nat
      /\ q[1] = g /\ \A i \in DOMAIN s : q[i + 1] = s[i]
  OBVIOUS
<1>2. s # <<>> => 1 \in DOMAIN s /\ s[1] = Head(s)
  OBVIOUS
<1>3. s = <<>> => Len(s) = 0
  OBVIOUS
<1> HIDE DEF q
<1>4. ASSUME NEW i \in DOMAIN q, i # 1
      PROVE  i - 1 \in DOMAIN s /\ q[i] = s[i - 1]
  <2>1. i - 1 \in DOMAIN s /\ (i - 1) + 1 = i
    BY <1>1, <1>4
  <2> QED
    BY <2>1, <1>1
<1>5. ASSUME NEW i \in DOMAIN q, q[i].at \in TaskPlaces
      PROVE  i + 1 \in DOMAIN q /\ q[i + 1].at \in {"drop", "notify"}
  <2>1. CASE i = 1
    BY <2>1, <1>1, <1>2, <1>5
  <2>2. CASE i # 1
    <3>1. (i - 1) + 1 \in DOMAIN s /\ s[(i - 1) + 1].at \in {"drop", "notify"}
      BY <2>2, <1>4, <1>5 DEF Shaped
    <3> QED
      BY <3>1, <1>1
  <2> QED
    BY <2>1, <2>2
<1>6. ASSUME NEW i \in DOMAIN q, q[i].at = "wait"
      PROVE  i = Len(q) /\ th \in Clients
  <2>1. CASE i = 1
    BY <2>1, <1>1, <1>3, <1>6
  <2>2. CASE i # 1
    <3>1. i - 1 = Len(s) /\ th \in Clients
      BY <2>2, <1>4, <1>6 DEF Shaped
    <3> QED
      BY <3>1, <1>1
  <2> QED
    BY <2>1, <2>2
<1> QED
  BY <1>5, <1>6 DEF Shaped, q

LEMMA ShapedPop ==
    ASSUME NEW th, NEW s \in Seq(Frames), Shaped(th, s), s # <<>>
    PROVE  /\ Tail(s) \in Seq(Frames) /\ Shaped(th, Tail(s))
           /\ Head(s).at \in TaskPlaces => Tail(s) # <<>> /\ Head(Tail(s)).at \in {"drop", "notify"}
           /\ Head(s).at = "wait" => Tail(s) = <<>>
<1> DEFINE q == Tail(s)
<1>1. /\ q \in Seq(Frames) /\ Len(s) = Len(q) + 1 /\ DOMAIN q = 1 .. Len(q)
      /\ DOMAIN s = 1 .. Len(q) + 1 /\ Len(q) \in Nat
      /\ \A i \in DOMAIN q : q[i] = s[i + 1]
  OBVIOUS
<1>2. s[1] = Head(s)
  OBVIOUS
<1>3. q # <<>> => Head(q) = q[1] /\ 1 \in DOMAIN q
  BY <1>1
<1>4. Len(q) = 0 <=> q = <<>>
  BY <1>1
<1> HIDE DEF q
<1>5. Shaped(th, q)
  <2> SUFFICES ASSUME NEW i \in DOMAIN q
               PROVE  /\ q[i].at \in TaskPlaces => i + 1 \in DOMAIN q /\ q[i + 1].at \in {"drop", "notify"}
                      /\ q[i].at = "wait" => i = Len(q) /\ th \in Clients
    BY DEF Shaped
  <2>1. i + 1 \in DOMAIN s /\ q[i] = s[i + 1]
    BY <1>1
  <2>2. s[i + 1].at \in TaskPlaces => (i + 1) + 1 \in DOMAIN s /\ s[(i + 1) + 1].at \in {"drop", "notify"}
    BY <2>1 DEF Shaped
  <2>3. s[i + 1].at = "wait" => i + 1 = Len(s) /\ th \in Clients
    BY <2>1 DEF Shaped
  <2>4. (i + 1) + 1 \in DOMAIN s => i + 1 \in DOMAIN q /\ q[i + 1] = s[(i + 1) + 1]
    BY <1>1
  <2> QED
    BY <1>1, <2>1, <2>2, <2>3, <2>4
<1>6. 1 \in DOMAIN s
  BY <1>1
<1>7. Head(s).at \in TaskPlaces => q # <<>> /\ Head(q).at \in {"drop", "notify"}
  <2> SUFFICES ASSUME s[1].at \in TaskPlaces PROVE q # <<>> /\ Head(q).at \in {"drop", "notify"}
    BY <1>2
  <2>1. 1 + 1 \in DOMAIN s /\ s[1 + 1].at \in {"drop", "notify"}
    BY <1>6 DEF Shaped
  <2>2. 1 \in DOMAIN q /\ q[1] = s[1 + 1]
    BY <2>1, <1>1
  <2> QED
    BY <2>1, <2>2, <1>1, <1>3, <1>4
<1>8. Head(s).at = "wait" => q = <<>>
  BY <1>1, <1>2, <1>4, <1>6 DEF Shaped
<1> QED
  BY <1>1, <1>5, <1>7, <1>8 DEF q

(* One thread's stack changes at a time. *)
LEMMA OwnStack ==
    ASSUME TypeOK, NEW th \in Threads, Proceed(th) \/ Call(th)
    PROVE  \A other \in Threads \ {th} : stack'[other] = stack[other]
<1> SUFFICES ASSUME NEW other \in Threads \ {th} PROVE stack'[other] = stack[other]
  OBVIOUS
<1>1. ASSUME NEW s, stack' = [stack EXCEPT ![th] = s]
      PROVE  stack'[other] = stack[other]
  BY <1>1 DEF TypeOK
<1>2. CASE Call(th)
  BY <1>1, <1>2 DEF Call, Start, Shutdown, Prune, Wait, Submit, SubmitRefused, Cancel, OnlyStack, Calls
<1>3. CASE StartWorkers(th) \/ ShutdownLocked(th) \/ WakeAll(th) \/ Join(th) \/ WaitCheck(th) \/ DropOne(th)
  BY <1>1, <1>3 DEF StartWorkers, ShutdownLocked, WakeAll, Join, WaitCheck, DropOne, OnlyStack, Goto, Return
<1>4. CASE DropDone(th) \/ CancelReturns(th) \/ CallbackReturns(th) \/ Release(th) \/ NotifyCheck(th)
           \/ NotifyLocked(th)
  BY <1>1, <1>4 DEF DropDone, CancelReturns, CallbackReturns, Release, NotifyCheck, NotifyLocked,
     OnlyStack, Goto, Return
<1>5. CASE Sleep(th) \/ Exit(th) \/ Take(th) \/ Execute(th) \/ BodyReturns(th)
  BY <1>1, <1>5 DEF Sleep, Exit, Take, Execute, BodyReturns, OnlyStack, Goto, Return, Calls
<1> QED
  BY <1>2, <1>3, <1>4, <1>5 DEF Proceed

LEMMA ShapeForms ==
    ASSUME TypeOK, StacksShaped, NEW th \in Threads, NEW g \in Frames, NEW h \in Frames,
           g.at = "wait" => Calls(th, <<g>>) /\ stack[th] = <<>> /\ th \in Clients,
           \/ Calls(th, <<g>>) /\ g.at \notin TaskPlaces
           \/ stack[th] # <<>> /\ Return(th)
           \/ stack[th] # <<>> /\ Goto(th, g) /\ (g.at \in TaskPlaces => Top(th).at \in TaskPlaces)
           \/ /\ h.at \notin TaskPlaces /\ h.at # "wait"
              /\ g.at \in TaskPlaces => h.at \in {"drop", "notify"}
              /\ \/ Calls(th, <<g, h>>)
                 \/ stack[th] # <<>> /\ stack' = [stack EXCEPT ![th] = <<g, h>> \o Tail(@)]
    PROVE  StacksShaped'
<1>1. ASSUME NEW q, Shaped(th, q), stack' = [stack EXCEPT ![th] = q]
      PROVE  StacksShaped'
  BY <1>1 DEF TypeOK, StacksShaped
<1> DEFINE s == stack[th]
<1>2. s \in Seq(Frames) /\ Shaped(th, s)
  BY DEF TypeOK, StacksShaped
<1>3. s # <<>> => /\ Tail(s) \in Seq(Frames) /\ Shaped(th, Tail(s))
                  /\ Head(s).at \in TaskPlaces => Tail(s) # <<>> /\ Head(Tail(s)).at \in {"drop", "notify"}
  BY <1>2, ShapedPop
<1>4. CASE Calls(th, <<g>>) /\ g.at \notin TaskPlaces
  <2>1. Shaped(th, <<g>> \o s)
    BY <1>2, <1>4, ShapedPush
  <2> QED
    BY <1>1, <1>4, <2>1 DEF Calls
<1>5. CASE s # <<>> /\ Return(th)
  BY <1>1, <1>3, <1>5 DEF Return
<1>6. CASE s # <<>> /\ Goto(th, g) /\ (g.at \in TaskPlaces => Top(th).at \in TaskPlaces) /\ g.at # "wait"
  <2>1. g.at \in TaskPlaces => Tail(s) # <<>> /\ Head(Tail(s)).at \in {"drop", "notify"}
    BY <1>3, <1>6 DEF Top
  <2>2. Shaped(th, <<g>> \o Tail(s))
    BY <1>3, <1>6, <2>1, ShapedPush
  <2> QED
    BY <1>1, <1>6, <2>2 DEF Goto
<1>7. CASE g.at = "wait" /\ ~Calls(th, <<g>>)
  BY <1>7
<1>8. ASSUME NEW base \in Seq(Frames), Shaped(th, base), g.at # "wait",
             h.at \notin TaskPlaces, h.at # "wait", g.at \in TaskPlaces => h.at \in {"drop", "notify"}
      PROVE  Shaped(th, <<g, h>> \o base)
  <2> DEFINE q == <<h>> \o base
  <2>1. q \in Seq(Frames) /\ q # <<>> /\ Head(q) = h /\ <<g, h>> \o base = <<g>> \o q
    <3>1. q \in Seq(Frames) /\ q # <<>> /\ Head(q) = h
      BY <1>8
    <3>2. \A x, y \in Seq(Frames) : Len(x) = Len(y) /\ (\A i \in 1 .. Len(x) : x[i] = y[i]) => x = y
      OBVIOUS
    <3> DEFINE x == <<g, h>> \o base
               y == <<g>> \o q
    <3>3. /\ x \in Seq(Frames) /\ Len(x) = Len(base) + 2 /\ x[1] = g /\ x[2] = h
          /\ \A i \in 1 .. Len(base) : x[i + 2] = base[i]
      BY <1>8
    <3>4. /\ q \in Seq(Frames) /\ Len(q) = Len(base) + 1 /\ q[1] = h
          /\ \A i \in 1 .. Len(base) : q[i + 1] = base[i]
      BY <1>8
    <3>5. /\ y \in Seq(Frames) /\ Len(y) = Len(q) + 1 /\ y[1] = g
          /\ \A i \in 1 .. Len(q) : y[i + 1] = q[i]
      BY <3>4
    <3> HIDE DEF x, y, q
    <3>6. Len(base) \in Nat
      BY <1>8
    <3>7. ASSUME NEW i \in 1 .. Len(x) PROVE x[i] = y[i]
      <4>1. i = 1 \/ i = 2 \/ (i - 2 \in 1 .. Len(base) /\ i = (i - 2) + 2)
        BY <3>3, <3>6
      <4>2. CASE i = 1
        BY <4>2, <3>3, <3>5
      <4>3. CASE i = 2
        <5>1. y[1 + 1] = q[1]
          BY <3>4, <3>5, <3>6
        <5> QED
          BY <5>1, <4>3, <3>3, <3>4
      <4>4. CASE i - 2 \in 1 .. Len(base) /\ i = (i - 2) + 2
        <5>1. x[i] = base[i - 2] /\ q[(i - 2) + 1] = base[i - 2]
          BY <4>4, <3>3, <3>4
        <5>2. y[((i - 2) + 1) + 1] = q[(i - 2) + 1] /\ ((i - 2) + 1) + 1 = i
          BY <4>4, <3>4, <3>5, <3>6
        <5> QED
          BY <5>1, <5>2
      <4> QED
        BY <4>1, <4>2, <4>3, <4>4
    <3>8. x = y
      BY <3>2, <3>3, <3>4, <3>5, <3>6, <3>7
    <3> QED
      BY <3>1, <3>8 DEF x, y
  <2>2. Shaped(th, q)
    BY <1>8, ShapedPush
  <2> HIDE DEF q
  <2>3. Shaped(th, <<g>> \o q)
    BY <1>8, <2>1, <2>2, ShapedPush
  <2> QED
    BY <2>1, <2>3
<1>9. CASE /\ h.at \notin TaskPlaces /\ h.at # "wait" /\ g.at # "wait"
           /\ g.at \in TaskPlaces => h.at \in {"drop", "notify"}
           /\ \/ Calls(th, <<g, h>>)
              \/ s # <<>> /\ stack' = [stack EXCEPT ![th] = <<g, h>> \o Tail(@)]
  <2>1. CASE Calls(th, <<g, h>>)
    <3>1. Shaped(th, <<g, h>> \o s)
      BY <1>2, <1>8, <1>9
    <3> QED
      BY <1>1, <2>1, <3>1 DEF Calls
  <2>2. CASE s # <<>> /\ stack' = [stack EXCEPT ![th] = <<g, h>> \o Tail(@)]
    <3>1. Shaped(th, <<g, h>> \o Tail(s))
      BY <1>3, <1>8, <1>9, <2>2
    <3> QED
      BY <1>1, <2>2, <3>1
  <2> QED
    BY <1>9, <2>1, <2>2
<1>10. CASE g.at = "wait"
  <2>1. Calls(th, <<g>>) /\ g.at \notin TaskPlaces
    BY <1>10 DEF TaskPlaces
  <2> QED
    BY <1>4, <2>1
<1> QED
  BY <1>4, <1>5, <1>6, <1>9, <1>10

(* The frames of the steps of a thread. *)
LEMMA ShapeProceed ==
    ASSUME TypeOK, LifeInv, StacksShaped, NEW th \in Threads, Proceed(th)
    PROVE  StacksShaped'
<1>1. UNCHANGED stack => StacksShaped'
  BY DEF StacksShaped
<1>2. ASSUME NEW at \in PlainPlaces \ {"wait"}, stack[th] # <<>>, Goto(th, Plain(at)) \/ Return(th)
      PROVE  StacksShaped'
  <2> DEFINE g == Plain(at)
  <2>1. g \in Frames /\ g.at = at /\ at \notin TaskPlaces
    BY PlainTypes DEF PlainPlaces, TaskPlaces
  <2>2. Goto(th, g) \/ Return(th)
    BY <1>2
  <2> HIDE DEF g
  <2> QED
    BY <1>2, <2>1, <2>2, ShapeForms
<1>3. ASSUME NEW at \in TaskPlaces, NEW next \in TaskPlaces, At(th, at),
             Goto(th, Frame(next, Top(th).task, {})) \/ Return(th)
      PROVE  StacksShaped'
  <2> DEFINE g == Frame(next, Top(th).task, {})
  <2>1. Top(th).at \in TaskPlaces /\ Top(th).task \in Tasks /\ stack[th] # <<>>
    BY <1>3, TopFrame, FrameFacts DEF At
  <2>2. g \in Frames /\ g.at = next /\ g.at # "wait"
    BY <2>1, TaskFrame DEF TaskPlaces
  <2>3. Goto(th, g) \/ Return(th)
    BY <1>3
  <2> HIDE DEF g
  <2> QED
    BY <2>1, <2>2, <2>3, ShapeForms
<1>4. ASSUME NEW g \in Frames, NEW h \in Frames, h.at \in {"drop", "notify", "join"}, g.at # "wait",
             g.at \in TaskPlaces => h.at \in {"drop", "notify"},
             \/ Calls(th, <<g, h>>)
             \/ stack[th] # <<>> /\ stack' = [stack EXCEPT ![th] = <<g, h>> \o Tail(@)]
      PROVE  StacksShaped'
  <2>1. h.at \notin TaskPlaces /\ h.at # "wait"
    BY <1>4 DEF TaskPlaces
  <2> QED
    BY <1>4, <2>1, ShapeForms
<1>5. CASE StartWorkers(th) \/ Join(th) \/ WaitCheck(th) \/ NotifyLocked(th)
  BY <1>1, <1>2, <1>5 DEF StartWorkers, Join, WaitCheck, NotifyLocked, OnlyStack, At, PlainPlaces
<1>6. CASE DropDone(th) \/ NotifyCheck(th)
  BY <1>1, <1>2, <1>6 DEF DropDone, NotifyCheck, OnlyStack, At, PlainPlaces
<1>7. CASE ShutdownLocked(th)
  <2> DEFINE g == Frame("wakeAll", None, queue)
  <2>1. g \in Frames /\ g.at = "wakeAll"
    BY BatchFrame DEF TypeOK, Batches
  <2>2. stack[th] # <<>> /\ Goto(th, g)
    BY <1>7 DEF ShutdownLocked, At
  <2> HIDE DEF g
  <2> QED
    BY <2>1, <2>2, ShapeForms DEF TaskPlaces
<1>8. CASE WakeAll(th)
  <2> DEFINE g == Frame("drop", None, Top(th).batch)
             h == Plain("join")
  <2>1. Top(th).batch \subseteq Tasks /\ stack[th] # <<>>
    BY <1>8, TopFrame, FrameFacts DEF WakeAll, At, Batches
  <2>2. g \in Frames /\ g.at = "drop"
    BY <2>1, BatchFrame DEF Batches
  <2>3. h \in Frames /\ h.at = "join"
    BY PlainTypes DEF PlainPlaces
  <2>4. stack' = [stack EXCEPT ![th] = <<g, h>> \o Tail(@)]
    BY <1>8 DEF WakeAll
  <2> HIDE DEF g, h
  <2> QED
    BY <1>4, <2>1, <2>2, <2>3, <2>4 DEF TaskPlaces
<1>9. CASE DropOne(th)
  <2>1. PICK t \in Top(th).batch :
           stack' = [stack EXCEPT ![th] =
              <<Frame("onCancel", t, {}), Frame("drop", None, Top(th).batch \ {t})>> \o Tail(@)]
    BY <1>9 DEF DropOne
  <2> DEFINE g == Frame("onCancel", t, {})
             h == Frame("drop", None, Top(th).batch \ {t})
  <2>2. Top(th).batch \subseteq Tasks /\ stack[th] # <<>>
    BY <1>9, TopFrame, FrameFacts DEF DropOne, At, Batches
  <2>3. g \in Frames /\ g.at = "onCancel"
    BY <2>2, TaskFrame DEF TaskPlaces
  <2>4. h \in Frames /\ h.at = "drop"
    BY <2>2, BatchFrame DEF Batches
  <2>5. stack' = [stack EXCEPT ![th] = <<g, h>> \o Tail(@)]
    BY <2>1
  <2> HIDE DEF g, h
  <2> QED
    BY <1>4, <2>2, <2>3, <2>4, <2>5
<1>10. CASE CancelReturns(th) \/ CallbackReturns(th) \/ Release(th)
  BY <1>1, <1>3, <1>10 DEF CancelReturns, CallbackReturns, Release, OnlyStack, TaskPlaces
<1>11. CASE Execute(th) \/ BodyReturns(th)
  BY <1>3, <1>11 DEF Execute, BodyReturns, TaskPlaces
<1>12. CASE Sleep(th) \/ Exit(th)
  BY <1>1, <1>12 DEF Sleep, Exit
<1>13. CASE Take(th)
  <2>1. PICK t \in queue : Calls(th, <<Frame("taken", t, {}), Plain("notify")>>)
    BY <1>13 DEF Take
  <2> DEFINE g == Frame("taken", t, {})
             h == Plain("notify")
  <2>2. g \in Frames /\ g.at = "taken"
    BY TaskFrame DEF TypeOK, TaskPlaces
  <2>3. h \in Frames /\ h.at = "notify"
    BY PlainTypes DEF PlainPlaces
  <2>4. Calls(th, <<g, h>>)
    BY <2>1
  <2> HIDE DEF g, h
  <2> QED
    BY <1>4, <2>2, <2>3, <2>4
<1> QED
  BY <1>5, <1>6, <1>7, <1>8, <1>9, <1>10, <1>11, <1>12, <1>13 DEF Proceed

LEMMA ShapeCall ==
    ASSUME TypeOK, StacksShaped, NEW th \in Threads, Call(th)
    PROVE  StacksShaped'
<1>1. ASSUME NEW g \in Frames, Calls(th, <<g>>), g.at \notin TaskPlaces,
             g.at = "wait" => stack[th] = <<>> /\ th \in Clients
      PROVE  StacksShaped'
  BY <1>1, ShapeForms
<1>2. ASSUME NEW at \in PlainPlaces, Calls(th, <<Plain(at)>>),
             at = "wait" => stack[th] = <<>> /\ th \in Clients
      PROVE  StacksShaped'
  <2> DEFINE g == Plain(at)
  <2>1. g \in Frames /\ g.at = at /\ at \notin TaskPlaces
    BY PlainTypes DEF PlainPlaces, TaskPlaces
  <2>2. Calls(th, <<g>>)
    BY <1>2
  <2> HIDE DEF g
  <2> QED
    BY <1>1, <1>2, <2>1, <2>2
<1>3. CASE Start(th) \/ Shutdown(th)
  BY <1>2, <1>3 DEF Start, Shutdown, PlainPlaces
<1>4. CASE Wait(th)
  BY <1>2, <1>4 DEF Wait, PlainPlaces
<1>5. ASSUME NEW b \in SUBSET Tasks, Calls(th, <<Frame("drop", None, b)>>)
      PROVE  StacksShaped'
  <2> DEFINE g == Frame("drop", None, b)
  <2>1. g \in Frames /\ g.at = "drop" /\ Calls(th, <<g>>)
    BY <1>5, BatchFrame DEF Batches
  <2> HIDE DEF g
  <2> QED
    BY <1>1, <2>1 DEF TaskPlaces
<1>6. CASE Prune(th)
  <2>1. {t \in queue : abort[t]} \in SUBSET Tasks
    BY DEF TypeOK
  <2> QED
    BY <1>5, <1>6, <2>1 DEF Prune
<1>7. ASSUME NEW t \in Tasks, Submit(th, t) \/ SubmitRefused(th, t) \/ Cancel(th, t)
      PROVE  StacksShaped'
  <2>1. UNCHANGED stack => StacksShaped'
    BY DEF StacksShaped
  <2>2. CASE Cancel(th, t)
    BY <1>5, <2>2 DEF Cancel
  <2> QED
    BY <1>7, <2>1, <2>2 DEF Submit, SubmitRefused
<1> QED
  BY <1>3, <1>4, <1>6, <1>7 DEF Call

(* Who sleeps on a condition, wakes the others, or starts the workers does nothing else. *)
LEMMA OneWay ==
    ASSUME NEW th \in Threads
    PROVE  /\ At(th, "wakeAll") => (Proceed(th) => WakeAll(th)) /\ ~Call(th)
           /\ At(th, "starting") => (Proceed(th) => StartWorkers(th)) /\ ~Call(th)
           /\ At(th, "wait") /\ th \in waiting => ~Proceed(th) /\ ~Call(th)
<1>1. ASSUME NEW place \in {"wakeAll", "starting", "wait"}, At(th, place)
      PROVE  ~Call(th)
  BY <1>1 DEF Call, Start, Shutdown, Prune, Wait, Submit, SubmitRefused, Cancel, InUserCode, At
<1>2. ASSUME NEW place \in {"wakeAll", "starting", "wait"}, At(th, place), Proceed(th)
      PROVE  WakeAll(th) \/ StartWorkers(th) \/ WaitCheck(th)
  BY <1>2 DEF Proceed, ShutdownLocked, Join, DropOne, DropDone, CancelReturns, CallbackReturns, Release,
     NotifyCheck, NotifyLocked, Sleep, Exit, Take, Execute, BodyReturns, AtLoop, At
<1> QED
  BY <1>1, <1>2 DEF WakeAll, StartWorkers, WaitCheck, At

(* The steps that touch neither the flags nor the threads, and wake at most. *)
Aloof(th) ==
    /\ Proceed(th) \/ Call(th)
    /\ UNCHANGED <<flags, alive>> /\ asleep' \subseteq asleep

LEMMA Doings ==
    ASSUME NEW th \in Threads, Proceed(th) \/ Call(th)
    PROVE  \/ Start(th) \/ StartWorkers(th) \/ Shutdown(th) \/ ShutdownLocked(th) \/ WakeAll(th)
           \/ Sleep(th) \/ Exit(th) \/ Aloof(th)
<1>1. CASE Call(th)
  BY <1>1 DEF Call, Aloof, Prune, Wait, Submit, SubmitRefused, Cancel, OnlyStack, NotifyOne, flags, sleepers
<1>2. CASE Proceed(th)
  BY <1>2 DEF Proceed, Aloof, Join, WaitCheck, DropOne, DropDone, CancelReturns, CallbackReturns,
     Release, NotifyCheck, NotifyLocked, Take, Execute, BodyReturns, OnlyStack, flags, sleepers
<1> QED
  BY <1>1, <1>2

LEMMA WaitersNext ==
    ASSUME TypeOK, StacksShaped, SleepersOK, NEW th \in Threads, Proceed(th) \/ Call(th)
    PROVE  \A c \in waiting' : c \in Clients /\ At(c, "wait")'
<1> SUFFICES ASSUME NEW c \in waiting' PROVE c \in Clients /\ At(c, "wait")'
  OBVIOUS
<1>1. CASE c \in waiting
  <2>1. c \in Clients /\ At(c, "wait") /\ c \in Threads
    BY <1>1 DEF SleepersOK, Threads
  <2>2. c # th
    BY <1>1, <2>1, OneWay
  <2>3. stack'[c] = stack[c]
    BY <2>1, <2>2, OwnStack
  <2> QED
    BY <2>1, <2>3 DEF At
<1>2. CASE c \notin waiting
  <2>1. WaitCheck(th) /\ c = th /\ UNCHANGED stack
    <3>1. waiting' \subseteq waiting \/ WaitCheck(th)
      <4>1. CASE Call(th)
        BY <4>1 DEF Call, Start, Shutdown, Prune, Wait, Submit, SubmitRefused, Cancel, OnlyStack, sleepers
      <4>2. CASE Proceed(th)
        BY <4>2 DEF Proceed, StartWorkers, ShutdownLocked, WakeAll, Join, DropOne, DropDone,
           CancelReturns, CallbackReturns, Release, NotifyCheck, NotifyLocked, Sleep, Exit, Take,
           Execute, BodyReturns, OnlyStack, sleepers
      <4> QED
        BY <4>1, <4>2
    <3> QED
      BY <1>2, <3>1 DEF WaitCheck
  <2>2. At(th, "wait")
    BY <2>1 DEF WaitCheck
  <2>3. 1 \in DOMAIN stack[th] /\ stack[th][1].at = "wait"
    <3>1. stack[th] \in Seq(Frames) /\ stack[th] # <<>> /\ Head(stack[th]).at = "wait"
      BY <2>2 DEF TypeOK, At
    <3> QED
      BY <3>1
  <2> QED
    BY <2>1, <2>2, <2>3 DEF StacksShaped, Shaped, At
<1> QED
  BY <1>1, <1>2

LEMMA SleepersNext ==
    ASSUME TypeOK, LifeInv, StacksShaped, SleepersOK, NEW th \in Threads, Proceed(th) \/ Call(th)
    PROVE  SleepersOK'
<1> DEFINE Woken == stop /\ asleep # {} => At(Owner, "wakeAll")
           Staffed == running /\ ~stop => alive = Workers \/ At(Owner, "starting")
<1>1. Woken /\ Staffed /\ asleep \subseteq Workers
  BY DEF SleepersOK
<1>2. asleep' \subseteq Workers /\ Woken' /\ Staffed'
  <2>1. CASE Start(th)
    <3>1. asleep' = asleep /\ stop' = stop /\ th = Owner
      BY <2>1 DEF Start, sleepers
    <3>2. At(Owner, "starting")'
      <4>1. stack'[th] = <<Plain("starting")>> \o stack[th] /\ stack[th] \in Seq(Frames)
        BY <2>1 DEF Start, Calls, TypeOK
      <4>2. Plain("starting") \in Frames /\ Plain("starting").at = "starting"
        BY PlainTypes DEF PlainPlaces
      <4>3. \A f \in Frames, s \in Seq(Frames) : <<f>> \o s # <<>> /\ Head(<<f>> \o s) = f
        OBVIOUS
      <4> QED
        BY <3>1, <4>1, <4>2, <4>3 DEF At
    <3>3. ~At(Owner, "wakeAll")
      BY <2>1, <3>1 DEF Start, At
    <3> QED
      BY <1>1, <3>1, <3>2, <3>3
  <2>2. CASE StartWorkers(th)
    BY <1>1, <2>2 DEF StartWorkers, sleepers
  <2>3. CASE Shutdown(th)
    <3>1. asleep' = asleep /\ stop' = stop /\ th = Owner /\ ~running'
      BY <2>3 DEF Shutdown, sleepers
    <3>2. ~At(Owner, "wakeAll")
      BY <2>3, <3>1 DEF Shutdown, At
    <3> QED
      BY <1>1, <3>1, <3>2
  <2>4. CASE ShutdownLocked(th)
    <3> DEFINE g == Frame("wakeAll", None, queue)
    <3>1. asleep' = asleep /\ stop' /\ th = Owner
      BY <2>4, LifeTop DEF ShutdownLocked, sleepers, LifeInv, LifeShape, LifePlaces
    <3>2. g \in Frames /\ g.at = "wakeAll"
      BY BatchFrame DEF TypeOK, Batches
    <3>3. Tail(stack[th]) \in Seq(Frames)
      BY <2>4, TopFrame DEF ShutdownLocked
    <3>4. stack'[th] = <<g>> \o Tail(stack[th])
      BY <2>4 DEF ShutdownLocked, Goto, TypeOK
    <3> HIDE DEF g
    <3>5. \A f \in Frames, s \in Seq(Frames) : <<f>> \o s # <<>> /\ Head(<<f>> \o s) = f
      OBVIOUS
    <3>6. At(Owner, "wakeAll")'
      BY <3>1, <3>2, <3>3, <3>4, <3>5 DEF At
    <3> QED
      BY <1>1, <3>1, <3>6
  <2>5. CASE WakeAll(th)
    <3>1. asleep' = {} /\ UNCHANGED <<running, stop, alive>> /\ At(th, "wakeAll")
      BY <2>5 DEF WakeAll, flags
    <3>2. th = Owner /\ stop
      BY <3>1, LifeTop DEF LifeInv, LifeShape, LifePlaces
    <3> QED
      BY <3>1, <3>2
  <2>6. CASE Sleep(th)
    <3>1. ~stop /\ ~stop' /\ asleep' = asleep \cup {th} /\ UNCHANGED <<running, alive, stack>> /\ th \in Workers
      BY <2>6 DEF Sleep, AtLoop, TypeOK, flags
    <3> QED
      BY <1>1, <3>1 DEF At
  <2>7. CASE Exit(th)
    <3>1. stop /\ stop' /\ UNCHANGED <<asleep, stack>>
      BY <2>7 DEF Exit, flags, sleepers
    <3> QED
      BY <1>1, <3>1 DEF At
  <2>8. CASE Aloof(th)
    <3>1. UNCHANGED <<running, stop, alive>> /\ asleep' \subseteq asleep
      BY <2>8 DEF Aloof, flags
    <3>2. CASE WakeAll(th) \/ StartWorkers(th)
      BY <2>2, <2>5, <3>2
    <3>3. CASE ~WakeAll(th) /\ ~StartWorkers(th)
      <4>1. Owner \in Threads
        BY PoolAssumption DEF Threads
      <4>2. \A place \in {"wakeAll", "starting"} : At(Owner, place) => At(Owner, place)'
        <5> SUFFICES ASSUME NEW place \in {"wakeAll", "starting"}, At(Owner, place)
                     PROVE  At(Owner, place)'
          OBVIOUS
        <5>1. th # Owner
          BY <3>3, OneWay
        <5>2. stack'[Owner] = stack[Owner]
          BY <4>1, <5>1, OwnStack
        <5> QED
          BY <5>2 DEF At
      <4> QED
        BY <1>1, <3>1, <4>2
    <3> QED
      BY <3>2, <3>3
  <2> QED
    BY <2>1, <2>2, <2>3, <2>4, <2>5, <2>6, <2>7, <2>8, Doings
<1>3. \A c \in waiting' : c \in Clients /\ At(c, "wait")'
  BY WaitersNext
<1> QED
  BY <1>2, <1>3 DEF SleepersOK, At

Awake == queue # {} /\ ~stop => Workers \ asleep # {}

LEMMA AwakeNext ==
    ASSUME LifeInv, SleepersOK, Awake, NEW th \in Threads, Proceed(th) \/ Call(th)
    PROVE  Awake'
<1>1. Workers # {} /\ asleep \subseteq Workers
  BY PoolAssumption DEF SleepersOK
<1>2. ASSUME queue' \subseteq queue, stop' = stop, asleep' \subseteq asleep
      PROVE  Awake'
  BY <1>2 DEF Awake
<1>3. ASSUME NEW t \in Tasks, Submit(th, t)
      PROVE  Awake'
  BY <1>1, <1>3 DEF Submit, NotifyOne, Awake
<1>4. CASE Call(th) /\ \A t \in Tasks : ~Submit(th, t)
  BY <1>2, <1>4 DEF Call, Start, Shutdown, Prune, Wait, SubmitRefused, Cancel, OnlyStack, flags, sleepers
<1>5. CASE StartWorkers(th)
  BY <1>5 DEF StartWorkers, LifeInv, Awake, sleepers
<1>6. CASE ShutdownLocked(th)
  BY <1>6 DEF ShutdownLocked, Awake
<1>7. CASE Sleep(th)
  BY <1>7 DEF Sleep, Awake
<1>8. CASE Proceed(th) /\ ~StartWorkers(th) /\ ~ShutdownLocked(th) /\ ~Sleep(th)
  BY <1>2, <1>8 DEF Proceed, WakeAll, Join, WaitCheck, DropOne, DropDone, CancelReturns,
     CallbackReturns, Release, NotifyCheck, NotifyLocked, Exit, Take, Execute, BodyReturns, OnlyStack,
     flags, sleepers
<1> QED
  BY <1>3, <1>4, <1>5, <1>6, <1>7, <1>8

(* A thread that will tell the waiting clients, or look whether it must. *)
SomebodyTells == \E th \in Threads : \E i \in DOMAIN stack[th] : stack[th][i].at \in Tellers
WaitersTold == waiting # {} /\ outstanding = 0 => SomebodyTells

LEMMA TellingTop ==
    ASSUME TypeOK, NEW th \in Threads, NEW g \in Frames, NEW s \in Seq(Frames), g.at \in Tellers,
           stack' = [stack EXCEPT ![th] = <<g>> \o s]
    PROVE  SomebodyTells'
<1>1. 1 \in DOMAIN (<<g>> \o s) /\ (<<g>> \o s)[1] = g
  OBVIOUS
<1>2. stack'[th] = <<g>> \o s
  BY DEF TypeOK
<1> QED
  BY <1>1, <1>2 DEF SomebodyTells

LEMMA TellingStays ==
    ASSUME TypeOK, SomebodyTells, NEW th \in Threads, NEW new \in Seq(Frames), NEW base \in Seq(Frames),
           \/ base = stack[th]
           \/ stack[th] # <<>> /\ base = Tail(stack[th]) /\ Top(th).at \notin Tellers,
           stack' = [stack EXCEPT ![th] = new \o base]
    PROVE  SomebodyTells'
<1>0. PICK other \in Threads : \E i \in DOMAIN stack[other] : stack[other][i].at \in Tellers
  BY DEF SomebodyTells
<1>1. PICK i \in DOMAIN stack[other] : stack[other][i].at \in Tellers
  BY <1>0
<1>2. stack'[th] = new \o base /\ (other # th => stack'[other] = stack[other])
  BY DEF TypeOK
<1>3. CASE other # th
  BY <1>1, <1>2, <1>3 DEF SomebodyTells
<1>4. CASE other = th
  <2>1. \E j \in DOMAIN base : base[j].at \in Tellers
    <3>1. CASE base = stack[th]
      BY <1>1, <1>4, <3>1
    <3>2. CASE stack[th] # <<>> /\ base = Tail(stack[th]) /\ Top(th).at \notin Tellers
      <4> DEFINE s == stack[th]
      <4>1. /\ s \in Seq(Frames) /\ s[1] = Head(s) /\ DOMAIN s = 1 .. Len(s)
            /\ DOMAIN base = 1 .. Len(s) - 1 /\ \A j \in DOMAIN base : base[j] = s[j + 1]
        BY <3>2 DEF TypeOK
      <4>2. Head(s).at \notin Tellers
        BY <3>2 DEF Top
      <4> HIDE DEF s
      <4>3. i \in DOMAIN s /\ s[i].at \in Tellers
        BY <1>1, <1>4 DEF s
      <4>4. i # 1
        BY <4>1, <4>2, <4>3
      <4>5. i - 1 \in DOMAIN base /\ (i - 1) + 1 = i
        BY <4>1, <4>3, <4>4
      <4> QED
        BY <4>1, <4>3, <4>5
    <3> QED
      BY <3>1, <3>2
  <2>2. PICK j \in DOMAIN base : base[j].at \in Tellers
    BY <2>1
  <2>3. j + Len(new) \in DOMAIN (new \o base) /\ (new \o base)[j + Len(new)] = base[j]
    BY Indices
  <2> DEFINE q == new \o base
  <2>4. \E k \in DOMAIN q : q[k].at \in Tellers
    BY <2>2, <2>3
  <2> HIDE DEF q
  <2>5. stack'[th] = q
    BY <1>2 DEF q
  <2> QED
    BY <2>4, <2>5 DEF SomebodyTells
<1> QED
  BY <1>3, <1>4

(* Pushing, replacing and popping frames keep it where the frame that goes is none.       *)
LEMMA TellingForms ==
    ASSUME TypeOK, SomebodyTells, NEW th \in Threads, NEW g \in Frames,
           \/ Calls(th, <<g>>)
           \/ stack[th] # <<>> /\ Top(th).at \notin Tellers /\ (Goto(th, g) \/ Return(th))
    PROVE  SomebodyTells'
<1> DEFINE none == <<>>
           one == <<g>>
           s == stack[th]
<1>1. none \in Seq(Frames) /\ one \in Seq(Frames) /\ s \in Seq(Frames)
  BY DEF TypeOK
<1>2. s # <<>> => Tail(s) \in Seq(Frames) /\ none \o Tail(s) = Tail(s)
  BY <1>1
<1>3. CASE Calls(th, <<g>>)
  <2>1. stack' = [stack EXCEPT ![th] = one \o s]
    BY <1>3 DEF Calls
  <2> HIDE DEF one
  <2> QED
    BY <2>1, <1>1, TellingStays
<1>4. CASE s # <<>> /\ Top(th).at \notin Tellers /\ Goto(th, g)
  <2>1. stack' = [stack EXCEPT ![th] = one \o Tail(s)]
    BY <1>4 DEF Goto
  <2> HIDE DEF one
  <2> QED
    BY <2>1, <1>1, <1>2, <1>4, TellingStays
<1>5. CASE s # <<>> /\ Top(th).at \notin Tellers /\ Return(th)
  <2>1. stack' = [stack EXCEPT ![th] = none \o Tail(s)]
    BY <1>2, <1>5 DEF Return
  <2> HIDE DEF none
  <2> QED
    BY <2>1, <1>1, <1>2, <1>5, TellingStays
<1> QED
  BY <1>3, <1>4, <1>5

LEMMA ToldProceed ==
    ASSUME TypeOK, LifeInv, StacksShaped, WaitersTold, NEW th \in Threads, Proceed(th)
    PROVE  WaitersTold'
<1>1. ASSUME UNCHANGED <<stack, outstanding>>, waiting' \subseteq waiting
      PROVE  WaitersTold'
  BY <1>1 DEF WaitersTold, SomebodyTells
<1>2. ASSUME SomebodyTells', outstanding' \in Nat
      PROVE  WaitersTold'
  BY <1>2 DEF WaitersTold
<1>3. ASSUME NEW g \in Frames, waiting' \subseteq waiting, outstanding' = outstanding,
             stack[th] # <<>>, Top(th).at \notin Tellers, Goto(th, g) \/ Return(th)
      PROVE  WaitersTold'
  <2>1. SomebodyTells => SomebodyTells'
    BY <1>3, TellingForms
  <2> QED
    BY <1>3, <2>1 DEF WaitersTold
<1>4. ASSUME NEW at \in {"starting", "join", "wait"}, At(th, at), Return(th),
             waiting' \subseteq waiting, outstanding' = outstanding
      PROVE  WaitersTold'
  <2>1. stack[th] # <<>> /\ Top(th).at \notin Tellers
    BY <1>4 DEF At, Top, Tellers
  <2>2. Plain("wait") \in Frames
    BY PlainTypes DEF PlainPlaces
  <2> QED
    BY <1>3, <1>4, <2>1, <2>2
<1>5. ASSUME NEW at \in TaskPlaces, NEW next \in TaskPlaces, At(th, at),
             Goto(th, Frame(next, Top(th).task, {})), UNCHANGED <<waiting, outstanding>>
      PROVE  WaitersTold'
  <2> DEFINE g == Frame(next, Top(th).task, {})
  <2>1. Top(th).at = at /\ Top(th).task \in Tasks /\ stack[th] # <<>>
    BY <1>5, TopFrame, FrameFacts DEF At
  <2>2. g \in Frames
    BY <2>1, TaskFrame
  <2>3. Goto(th, g)
    BY <1>5
  <2> HIDE DEF g
  <2>4. Top(th).at \notin Tellers
    BY <2>1 DEF TaskPlaces, Tellers
  <2> QED
    BY <1>3, <1>5, <2>1, <2>2, <2>3, <2>4
<1>6. CASE StartWorkers(th) \/ Join(th)
  BY <1>4, <1>6 DEF StartWorkers, Join, OnlyStack, sleepers
<1>7. CASE WaitCheck(th)
  <2>1. CASE outstanding = 0
    BY <1>4, <1>7, <2>1 DEF WaitCheck
  <2>2. CASE outstanding # 0
    BY <1>7, <2>2 DEF WaitCheck, WaitersTold
  <2> QED
    BY <2>1, <2>2
<1>8. CASE ShutdownLocked(th)
  <2> DEFINE g == Frame("wakeAll", None, queue)
  <2>1. g \in Frames
    BY BatchFrame DEF TypeOK, Batches
  <2>2. Goto(th, g) /\ UNCHANGED <<outstanding, waiting>>
    BY <1>8 DEF ShutdownLocked, sleepers
  <2>3. stack[th] # <<>> /\ Top(th).at \notin Tellers
    BY <1>8 DEF ShutdownLocked, At, Top, Tellers
  <2> HIDE DEF g
  <2> QED
    BY <1>3, <2>1, <2>2, <2>3
<1>9. ASSUME NEW g \in Frames, NEW h \in Frames, g.at \in Tellers \/ h.at \in Tellers,
             \/ stack[th] = <<>> /\ Calls(th, <<g, h>>)
             \/ stack[th] # <<>> /\ stack' = [stack EXCEPT ![th] = <<g, h>> \o Tail(@)]
      PROVE  SomebodyTells'
  <2>1. stack[th] \in Seq(Frames) /\ (stack[th] # <<>> => Tail(stack[th]) \in Seq(Frames))
    BY DEF TypeOK
  <2>2. PICK base \in Seq(Frames) : stack'[th] = <<g, h>> \o base
    <3>1. CASE stack[th] = <<>> /\ Calls(th, <<g, h>>)
      BY <2>1, <3>1 DEF Calls, TypeOK
    <3>2. CASE stack[th] # <<>> /\ stack' = [stack EXCEPT ![th] = <<g, h>> \o Tail(@)]
      BY <2>1, <3>2 DEF TypeOK
    <3> QED
      BY <1>9, <3>1, <3>2
  <2>3. /\ 1 \in DOMAIN (<<g, h>> \o base) /\ 2 \in DOMAIN (<<g, h>> \o base)
        /\ (<<g, h>> \o base)[1] = g /\ (<<g, h>> \o base)[2] = h
    OBVIOUS
  <2> QED
    BY <1>9, <2>2, <2>3 DEF SomebodyTells
<1>10. CASE WakeAll(th)
  <2> DEFINE g == Frame("drop", None, Top(th).batch)
             h == Plain("join")
  <2>1. Top(th).batch \subseteq Tasks /\ stack[th] # <<>>
    BY <1>10, TopFrame, FrameFacts DEF WakeAll, At, Batches
  <2>2. g \in Frames /\ g.at \in Tellers
    BY <2>1, BatchFrame DEF Batches, Tellers
  <2>3. h \in Frames
    BY PlainTypes DEF PlainPlaces
  <2>4. stack' = [stack EXCEPT ![th] = <<g, h>> \o Tail(@)]
    BY <1>10 DEF WakeAll
  <2> HIDE DEF g, h
  <2>5. SomebodyTells'
    BY <1>9, <2>1, <2>2, <2>3, <2>4
  <2> QED
    BY <2>5 DEF WaitersTold
<1>11. CASE DropOne(th)
  <2>1. PICK t \in Top(th).batch :
           stack' = [stack EXCEPT ![th] =
              <<Frame("onCancel", t, {}), Frame("drop", None, Top(th).batch \ {t})>> \o Tail(@)]
    BY <1>11 DEF DropOne
  <2> DEFINE g == Frame("onCancel", t, {})
             h == Frame("drop", None, Top(th).batch \ {t})
  <2>2. Top(th).batch \subseteq Tasks /\ stack[th] # <<>>
    BY <1>11, TopFrame, FrameFacts DEF DropOne, At, Batches
  <2>3. g \in Frames
    BY <2>2, TaskFrame DEF TaskPlaces
  <2>4. h \in Frames /\ h.at \in Tellers
    BY <2>2, BatchFrame DEF Batches, Tellers
  <2>5. stack' = [stack EXCEPT ![th] = <<g, h>> \o Tail(@)]
    BY <2>1
  <2> HIDE DEF g, h
  <2>6. SomebodyTells'
    BY <1>9, <2>2, <2>3, <2>4, <2>5
  <2> QED
    BY <2>6 DEF WaitersTold
<1>12. ASSUME NEW at \in {"drop", "notify"}, NEW next \in {"notify", "notifyLocked"}, At(th, at),
              Goto(th, Plain(next))
       PROVE  WaitersTold'
  <2> DEFINE g == Plain(next)
  <2>1. g \in Frames /\ g.at \in Tellers
    BY PlainTypes DEF PlainPlaces, Tellers
  <2>2. Tail(stack[th]) \in Seq(Frames) /\ stack' = [stack EXCEPT ![th] = <<g>> \o Tail(stack[th])]
    BY <1>12, TopFrame DEF Goto
  <2> HIDE DEF g
  <2>3. SomebodyTells'
    BY <2>1, <2>2, TellingTop
  <2> QED
    BY <2>3 DEF WaitersTold
<1>13. CASE DropDone(th)
  BY <1>12, <1>13 DEF DropDone
<1>14. CASE NotifyCheck(th)
  <2>1. CASE outstanding # 0
    BY <1>14, <2>1 DEF NotifyCheck, OnlyStack, WaitersTold
  <2>2. CASE outstanding = 0
    BY <1>12, <1>14, <2>2 DEF NotifyCheck
  <2> QED
    BY <2>1, <2>2
<1>15. CASE NotifyLocked(th)
  BY <1>15 DEF NotifyLocked, WaitersTold
<1>16. CASE CancelReturns(th) \/ CallbackReturns(th) \/ Execute(th) \/ BodyReturns(th)
  BY <1>5, <1>16 DEF CancelReturns, CallbackReturns, Execute, BodyReturns, OnlyStack, TaskPlaces, sleepers
<1>17. CASE Release(th)
  <2>1. CASE outstanding = 0
    BY <1>1, <1>17, <2>1 DEF Release, sleepers
  <2>2. CASE outstanding # 0
    <3>1. Return(th) /\ At(th, "release") /\ UNCHANGED waiting
      BY <1>17, <2>2 DEF Release, sleepers
    <3> DEFINE s == stack[th]
               q == Tail(s)
    <3>2. s \in Seq(Frames) /\ s # <<>> /\ Shaped(th, s) /\ Head(s).at \in TaskPlaces
      BY <3>1 DEF TypeOK, At, StacksShaped, TaskPlaces
    <3>3. q \in Seq(Frames) /\ q # <<>> /\ Head(q).at \in {"drop", "notify"}
      BY <3>2, ShapedPop
    <3>4. stack'[th] = q
      BY <3>1 DEF Return, TypeOK
    <3> HIDE DEF q
    <3>5. 1 \in DOMAIN q /\ q[1].at \in Tellers
      BY <3>3 DEF Tellers
    <3>6. SomebodyTells'
      BY <3>4, <3>5 DEF SomebodyTells
    <3> QED
      BY <3>6 DEF WaitersTold
  <2> QED
    BY <2>1, <2>2
<1>18. CASE Sleep(th) \/ Exit(th)
  BY <1>1, <1>18 DEF Sleep, Exit, sleepers
<1>19. CASE Take(th)
  <2>1. PICK t \in queue : Calls(th, <<Frame("taken", t, {}), Plain("notify")>>)
    BY <1>19 DEF Take
  <2> DEFINE g == Frame("taken", t, {})
             h == Plain("notify")
  <2>2. g \in Frames
    BY TaskFrame DEF TypeOK, TaskPlaces
  <2>3. h \in Frames /\ h.at \in Tellers
    BY PlainTypes DEF PlainPlaces, Tellers
  <2>4. Calls(th, <<g, h>>) /\ stack[th] = <<>>
    BY <1>19, <2>1 DEF Take, AtLoop
  <2> HIDE DEF g, h
  <2>5. SomebodyTells'
    BY <1>9, <2>2, <2>3, <2>4
  <2> QED
    BY <2>5 DEF WaitersTold
<1> QED
  BY <1>6, <1>7, <1>8, <1>10, <1>11, <1>13, <1>14, <1>15, <1>16, <1>17, <1>18, <1>19 DEF Proceed

LEMMA ToldCall ==
    ASSUME TypeOK, WaitersTold, NEW th \in Threads, Call(th)
    PROVE  WaitersTold'
<1>1. ASSUME NEW g \in Frames, Calls(th, <<g>>), UNCHANGED <<waiting, outstanding>>
      PROVE  WaitersTold'
  <2>1. SomebodyTells => SomebodyTells'
    BY <1>1, TellingForms
  <2> QED
    BY <1>1, <2>1 DEF WaitersTold
<1>2. CASE Start(th) \/ Shutdown(th) \/ Wait(th)
  <2>1. \A at \in PlainPlaces : Plain(at) \in Frames
    BY PlainTypes
  <2> QED
    BY <1>1, <1>2, <2>1 DEF Start, Shutdown, Wait, OnlyStack, PlainPlaces, sleepers
<1>3. CASE Prune(th)
  <2>1. {t \in queue : abort[t]} \in SUBSET Tasks
    BY DEF TypeOK
  <2>2. Frame("drop", None, {t \in queue : abort[t]}) \in Frames
    BY <2>1, BatchFrame DEF Batches
  <2> QED
    BY <1>1, <1>3, <2>2 DEF Prune, sleepers
<1>4. ASSUME NEW t \in Tasks, Submit(th, t) \/ SubmitRefused(th, t) \/ Cancel(th, t)
      PROVE  WaitersTold'
  <2>1. CASE Submit(th, t)
    BY <2>1 DEF Submit, WaitersTold, TypeOK
  <2>2. CASE SubmitRefused(th, t)
    BY <2>2 DEF SubmitRefused, WaitersTold, SomebodyTells, sleepers
  <2>3. CASE Cancel(th, t)
    <3>1. Frame("drop", None, {t}) \in Frames
      BY BatchFrame DEF Batches
    <3> QED
      BY <1>1, <2>3, <3>1 DEF Cancel, sleepers
  <2> QED
    BY <1>4, <2>1, <2>2, <2>3
<1> QED
  BY <1>2, <1>3, <1>4 DEF Call

LEMMA WakeIs == NoWakeupLost <=> Awake /\ WaitersTold
BY DEF NoWakeupLost, Awake, WaitersTold, SomebodyTells, Tellers

LEMMA WakeIsNext == NoWakeupLost' <=> Awake' /\ WaitersTold'
BY DEF NoWakeupLost, Awake, WaitersTold, SomebodyTells, Tellers

LEMMA WakeNext == PoolInv /\ WakeInv /\ [Next]_vars => WakeInv'
<1> SUFFICES ASSUME PoolInv, WakeInv, [Next]_vars PROVE WakeInv'
  OBVIOUS
<1>1. TypeOK /\ LifeInv /\ StacksShaped /\ SleepersOK /\ Awake /\ WaitersTold
  BY WakeIs DEF PoolInv, WorkInv, WakeInv
<1>2. ASSUME NEW th \in Threads, Proceed(th) \/ Call(th)
      PROVE  WakeInv'
  BY <1>1, <1>2, ShapeProceed, ShapeCall, SleepersNext, AwakeNext, ToldProceed, ToldCall, WakeIsNext
     DEF WakeInv
<1>3. CASE (\E t \in Tasks : Abort(t)) \/ UNCHANGED vars
  <2>1. UNCHANGED <<flags, queue, outstanding, alive, sleepers, stack>>
    BY <1>3 DEF Abort, vars
  <2> QED
    BY <2>1 DEF WakeInv, StacksShaped, SleepersOK, NoWakeupLost, At, flags, sleepers
<1> QED
  BY <1>2, <1>3 DEF Next

LEMMA WakeInit == Init => WakeInv
<1> SUFFICES ASSUME Init PROVE WakeInv
  OBVIOUS
<1>1. \A th \in Threads : stack[th] = <<>>
  BY DEF Init
<1>2. StacksShaped
  BY <1>1 DEF StacksShaped, Shaped
<1> QED
  BY <1>2 DEF Init, WakeInv, SleepersOK, NoWakeupLost

LEMMA WakeCorrect == Spec => []WakeInv
BY WakeInit, WakeNext, PoolCorrect, PTL DEF Spec

(* NoWakeupLost: while something is queued a worker is awake, and when everything is      *)
(* settled somebody tells the clients asleep in waitForCompletion().                      *)
THEOREM WakeupsReachSleepers == Spec => []NoWakeupLost
BY WakeCorrect, PTL DEF WakeInv

(* RestsOnlyIdle: when nobody can go on without a call from outside, every accepted task  *)
(* has been called back and neither waitForCompletion() nor shutdown() is still waiting.  *)
THEOREM PoolRestsOnlyIdle == Spec => []RestsOnlyIdle
<1>1. PoolInv /\ WakeInv => RestsOnlyIdle
  <2> SUFFICES ASSUME PoolInv, WakeInv, AtRest
               PROVE  /\ waiting = {} /\ stack[Owner] = <<>>
                      /\ \A t \in Tasks : id[t] # 0 => callbacks[t] = 1
    BY DEF RestsOnlyIdle
  <2>1. TypeOK /\ LifeInv /\ LifeShape /\ RestOK /\ CountOK /\ StacksShaped /\ SleepersOK /\ Awake /\ WaitersTold
    BY WakeIs DEF PoolInv, WorkInv, WakeInv, LifeInv, LifeShape
  <2>2. Owner \in Threads /\ Owner \notin Workers /\ Workers \subseteq Threads /\ alive \subseteq Workers
    BY <2>1, PoolAssumption DEF Threads, TypeOK
  <2>3. \A th \in Threads : At(th, "join") => th = Owner /\ Bottom = "join"
    BY <2>1, LifeTop DEF LifePlaces
  <2>4. \A w \in Workers : stack[w] = <<>> /\ (w \in alive => w \in asleep)
    <3> SUFFICES ASSUME NEW w \in Workers PROVE stack[w] = <<>> /\ (w \in alive => w \in asleep)
      OBVIOUS
    <3>1. w \notin waiting
      BY <2>1, PoolAssumption DEF SleepersOK
    <3> QED
      BY <2>2, <2>3, <3>1 DEF AtRest
  <2>5. \A th \in Threads : ~(At(th, "join") /\ alive # {})
    <3> SUFFICES ASSUME NEW th \in Threads, At(th, "join"), alive # {} PROVE FALSE
      OBVIOUS
    <3>1. th = Owner /\ stop
      BY <2>1, <2>3 DEF LifeInv
    <3>2. asleep = {}
      BY <2>1, <3>1 DEF SleepersOK, At
    <3> QED
      BY <2>2, <2>4, <3>2
  <2>6. \A th \in Threads : stack[th] = <<>> \/ th \in waiting
    BY <2>5 DEF AtRest
  <2>7. ASSUME NEW th \in Threads, NEW i \in DOMAIN stack[th]
        PROVE  stack[th][i].at = "wait" /\ i = Len(stack[th]) /\ stack[th][i] \in Frames
    <3> DEFINE s == stack[th]
    <3>1. s \in Seq(Frames) /\ i \in DOMAIN s
      BY <2>1, <2>7 DEF TypeOK
    <3>2. s # <<>>
      BY <3>1
    <3>3. At(th, "wait")
      BY <2>1, <2>6, <3>2 DEF SleepersOK
    <3>4. 1 \in DOMAIN s /\ s[1].at = "wait" /\ DOMAIN s = 1 .. Len(s) /\ Len(s) \in Nat
      BY <3>1, <3>2, <3>3 DEF At
    <3>5. Len(s) = 1
      BY <2>1, <3>4 DEF StacksShaped, Shaped
    <3> QED
      BY <3>1, <3>4, <3>5
  <2>8. Owned = {}
    <3>1. \A f \in Frames : f.at = "wait" => Has(f) = {}
      BY FrameFacts DEF PlainPlaces
    <3> QED
      BY <2>7, <3>1 DEF Owned, Mine
  <2>9. ~SomebodyTells
    BY <2>7 DEF SomebodyTells, Tellers
  <2>10. queue = {}
    <3> SUFFICES ASSUME queue # {} PROVE FALSE
      OBVIOUS
    <3>1. ~stop /\ Workers \ asleep # {}
      BY <2>1 DEF LifeInv, Awake
    <3>2. stack[Owner] # <<>> => Bottom = "wait"
      <4> SUFFICES ASSUME stack[Owner] # <<>> PROVE Bottom = "wait"
        OBVIOUS
      <4>1. stack[Owner] \in Seq(Frames)
        BY <2>1, <2>2 DEF TypeOK
      <4>2. Len(stack[Owner]) \in DOMAIN stack[Owner]
        BY <4>1
      <4> QED
        BY <2>2, <2>7, <4>2 DEF Bottom
    <3>3. Bottom \notin {"stopping", "wakeAll", "join"}
      BY <3>2 DEF Bottom
    <3>4. running
      BY <2>1, <3>3 DEF LifeInv
    <3>5. ~At(Owner, "starting")
      <4>1. At(Owner, "starting") => Bottom = "starting"
        BY <2>1, <2>2, LifeTop DEF LifePlaces
      <4> QED
        BY <3>2, <4>1 DEF At
    <3>6. alive = Workers
      BY <2>1, <3>1, <3>4, <3>5 DEF SleepersOK
    <3> QED
      BY <2>4, <3>1, <3>6
  <2>11. outstanding = 0
    <3>1. queue \cup Owned = {}
      BY <2>8, <2>10
    <3> QED
      BY <2>1, <3>1, FS_EmptySet DEF CountOK
  <2>12. waiting = {}
    BY <2>1, <2>9, <2>11 DEF WaitersTold
  <2>13. \A t \in Tasks : id[t] # 0 => callbacks[t] = 1
    BY <2>1, <2>8, <2>10 DEF RestOK, Through
  <2> QED
    BY <2>2, <2>6, <2>12, <2>13
<1> QED
  BY <1>1, WakeCorrect, PoolCorrect, PTL
=============================================================================
