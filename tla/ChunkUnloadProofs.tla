------------------------- MODULE ChunkUnloadProofs -------------------------
(***************************************************************************)
(* What is proved of ChunkUnload for every number of workers and holders   *)
(* and every bound: its types, that a removed holder is unused and an      *)
(* unload is in one place, that loads are awaited and that no edit is      *)
(* lost.  The first two groups of facts lean on each other and on nothing  *)
(* else; the other two lean on the ones before.                            *)
(***************************************************************************)
EXTENDS ChunkUnloadProps, TLAPS

(* What LoadsAreAwaited leans on: a holder that has not been made is new   *)
(* and known to no load, and only one told that there is no stored chunk   *)
(* is generated.                                                           *)
LoadsKnown ==
    /\ \A h \in Holders : h > made => state[h] = "new"
    /\ load # None => load.owner <= made /\ \A h \in load.attached : h <= made
    /\ \A h \in Holders : task[h] # "none" => state[h] \in {"missing", "done"}
    /\ \A w \in Workers : work[w] # None => state[work[w]] \in {"missing", "done"}

(* What NothingLost leans on: as long as nothing excused has happened, the *)
(* chunk in memory is the holder's, one is generated only if none was ever *)
(* stored, and whatever is being saved or was read is the last edit.       *)
Written == ~excused =>
    /\ holder = None \/ state[holder] # "done" => chunk = None
    /\ chunk # None => chunk.of = holder
    /\ holder # None /\ state[holder] = "missing" => latest = 0 /\ disk = None
    /\ saving # <<>> => saving[1].content = latest /\ state[holder] = "done"
    /\ batch # {} => batch = {latest} /\ autosaving /\ chunk # None
    /\ chunk # None /\ chunk.dirty /\ (unloading \/ (autosaving /\ batch = {})) => latest = 0
    /\ load # None /\ load.owner = holder /\ load.read /\ load.content # None =>
          load.content = latest /\ disk = latest
    /\ disk # None => disk <= latest

LEMMA NoneFresh ==
    /\ None \notin Holders /\ None \notin Contents /\ None \notin Workers
    /\ \A h \in Holders : h # None
    /\ 0 \in Contents
  BY UnloadAssumption DEF Holders, Contents

(* The records have their types.                                           *)
LEMMA RecordTypes ==
    /\ \A c \in Contents, d \in BOOLEAN, h \in Holders : Chunk(c, d, h) \in Chunks
    /\ \A o \in Holders, a \in SUBSET Holders, r \in BOOLEAN, c \in Contents \cup {None} : Load(o, a, r, c) \in Loads
    /\ \A c \in Contents, h \in Holders : [content |-> c, of |-> h] \in Saves
    /\ \A k \in {"schedule", "notify"}, h \in Holders : Job(k, h) \in [kind : {"schedule", "notify"}, of : Holders]
  BY DEF Chunk, Chunks, Load, Loads, Saves, Job

LEMMA RecordFields ==
    /\ \A c \in Chunks : c.content \in Contents /\ c.dirty \in BOOLEAN /\ c.of \in Holders
    /\ \A l \in Loads : /\ l.owner \in Holders /\ l.attached \in SUBSET Holders
                        /\ l.read \in BOOLEAN /\ l.content \in Contents \cup {None}
    /\ \A s \in Saves : s.content \in Contents /\ s.of \in Holders
  BY DEF Chunks, Loads, Saves

(* What the queues of an unload are after a step.                          *)
LEMMA QueueFacts ==
    ASSUME NEW S, NEW s \in Seq(S)
    PROVE  /\ \A e \in S : /\ Append(s, e) \in Seq(S) /\ Len(Append(s, e)) = Len(s) + 1
                           /\ \A i \in 1 .. Len(s) : Append(s, e)[i] = s[i]
                           /\ Append(s, e)[Len(s) + 1] = e
           /\ s # <<>> => /\ Head(s) \in S /\ Head(s) = s[1] /\ Tail(s) \in Seq(S) /\ Len(s) \in Nat \ {0}
                          /\ Len(Tail(s)) = Len(s) - 1
                          /\ \A i \in 1 .. Len(Tail(s)) : Tail(s)[i] = s[i + 1]
           /\ Len(s) \in Nat /\ (Len(s) = 0 <=> s = <<>>)
  OBVIOUS

(* What Ask leaves to the other threads.                                   *)
LEMMA AskResult ==
    ASSUME NEW t \in Threads, NEW h, check \in [Threads -> {"none", "yes", "no"}], Ask(t, h)
    PROVE  check' \in [Threads -> {"none", "yes", "no"}] /\ \A u \in Threads \ {t} : check'[u] = check[u]
  BY DEF Ask

LEMMA AskTypes ==
    ASSUME NEW t \in Threads, NEW h, check \in [Threads -> {"none", "yes", "no"}], Ask(t, h),
           lock \in Workers \cup {None}, \A w \in Workers : check[w] # "none" => lock = w,
           \/ lock' = t /\ lock = None
           \/ lock' = lock /\ t = Main
    PROVE  /\ check' \in [Threads -> {"none", "yes", "no"}]
           /\ \A w \in Workers : check'[w] # "none" => lock' = w
<1>1. check' \in [Threads -> {"none", "yes", "no"}] /\ \A u \in Threads \ {t} : check'[u] = check[u]
  BY AskResult
<1>2. ASSUME NEW w \in Workers, check'[w] # "none", w # t PROVE lock' = w
  <2>1. check[w] # "none"
    BY <1>1, <1>2 DEF Threads
  <2> QED
    BY <2>1, NoneFresh
<1>3. ASSUME NEW w \in Workers, w = t PROVE lock' = w
  BY <1>3, UnloadAssumption
<1> QED
  BY <1>1, <1>2, <1>3

LEMMA TellResult ==
    ASSUME NEW h, Tell(h)
    PROVE  queued' \in BOOLEAN
  BY DEF Tell, Candidate

(* What advancing a holder, finding or making one, and taking in a level   *)
(* leave.                                                                  *)
LEMMA ResolveTypes ==
    ASSUME TypeOK, NEW h \in Holders, Resolve(h)
    PROVE  state' \in [Holders -> {"new", "resolving", "missing", "done"}] /\ load' \in {None} \cup Loads
<1>1. CASE load = None
  BY <1>1, NoneFresh DEF Resolve, Load, Loads, TypeOK, HolderTypes
<1>2. CASE load \in Loads
  <2>1. load # None => load' = Load(load.owner, load.attached \cup {h}, load.read, load.content)
    BY DEF Resolve
  <2>2. load.owner \in Holders /\ load.attached \subseteq Holders /\ load.read \in BOOLEAN /\ load.content \in Contents \cup {None}
    BY <1>2 DEF Loads
  <2>3. Load(load.owner, load.attached \cup {h}, load.read, load.content) \in Loads
    BY <2>2 DEF Load, Loads
  <2> QED
    BY <2>1, <2>3, <1>1 DEF Resolve, TypeOK, HolderTypes
<1> QED
  BY <1>1, <1>2 DEF TypeOK, DataTypes

LEMMA AdvanceTypes ==
    ASSUME TypeOK, NEW h \in Holders, Advance(h) \/ NoAdvance
    PROVE  /\ state' \in [Holders -> {"new", "resolving", "missing", "done"}]
           /\ jobs' \subseteq [kind : {"schedule", "notify"}, of : Holders]
           /\ load' \in {None} \cup Loads
<1> USE DEF TypeOK, HolderTypes, WorkerTypes, DataTypes
<1>1. CASE NoAdvance
  BY <1>1 DEF NoAdvance
<1>2. CASE Advance(h) /\ state[h] = "new"
  BY <1>2, ResolveTypes DEF Advance
<1>3. CASE Advance(h) /\ state[h] # "new"
  BY <1>3 DEF Advance, Job
<1> QED
  BY <1>1, <1>2, <1>3

LEMMA PresentTypes ==
    ASSUME TypeOK, wanted' \in TicketLevels, NEW h \in Holders, NEW l \in [Holders -> TicketLevels], Present(h, l)
    PROVE  /\ made' \in 0 .. MaxHolders
           /\ holder' \in {None} \cup {g \in Holders : g = made'}
           /\ level' \in [Holders -> TicketLevels]
  BY NoneFresh, UnloadAssumption DEF TypeOK, HolderTypes, Present, Holders

LevelOutcome ==
    /\ deferred' \in BOOLEAN
    /\ made' \in 0 .. MaxHolders
    /\ holder' \in {None} \cup {h \in Holders : h = made'}
    /\ level' \in [Holders -> TicketLevels]
    /\ task' \in [Holders -> {"none", "queued", "revoked", "running"}]
    /\ cooldown' \in BOOLEAN
    /\ check' \in [Threads -> {"none", "yes", "no"}]
    /\ \A w \in Workers : check'[w] # "none" => lock' = w
    /\ state' \in [Holders -> {"new", "resolving", "missing", "done"}]
    /\ jobs' \subseteq [kind : {"schedule", "notify"}, of : Holders]
    /\ load' \in {None} \cup Loads

LEMMA LevelTypes ==
    ASSUME TypeOK, wanted' \in TicketLevels, LevelChanged, UNCHANGED lock
    PROVE  LevelOutcome
<1>1. CASE UNCHANGED <<holder, made, level, task, cooldown, check>> /\ NoAdvance /\ deferred' = FALSE
  BY <1>1 DEF LevelOutcome, NoAdvance, TypeOK, HolderTypes, WorkerTypes, UnloadTypes, DataTypes
<1>2. ASSUME PutOff, UNCHANGED <<task, cooldown, check>>, NoAdvance, NEW h \in Holders, Present(h, level)
      PROVE  LevelOutcome
  <2>1. level \in [Holders -> TicketLevels]
    BY DEF TypeOK, HolderTypes
  <2>2. PICK g \in Holders : Present(g, level)
    BY <1>2
  <2> QED
    BY <1>2, <2>1, <2>2, PresentTypes
    DEF LevelOutcome, PutOff, NoAdvance, TypeOK, HolderTypes, WorkerTypes, UnloadTypes, DataTypes
<1>3. ASSUME deferred' = FALSE, NEW h \in Holders, Present(h, [level EXCEPT ![h] = wanted']),
             Revoke(h, wanted' = "near" \/ asked[h] \/ waiting[h]), Advance(h) \/ NoAdvance,
             cooldown' = (cooldown \/ coolTicket), Ask(Main, h)
      PROVE  LevelOutcome
  <2>1. [level EXCEPT ![h] = wanted'] \in [Holders -> TicketLevels]
    BY DEF TypeOK, HolderTypes
  <2>2. task' \in [Holders -> {"none", "queued", "revoked", "running"}]
    BY <1>3 DEF TypeOK, HolderTypes, Revoke
  <2>3. check' \in [Threads -> {"none", "yes", "no"}] /\ \A w \in Workers : check'[w] # "none" => lock' = w
    BY <1>3, AskTypes, UnloadAssumption DEF TypeOK, WorkerTypes, Threads
  <2>4. cooldown' \in BOOLEAN
    BY <1>3 DEF TypeOK, UnloadTypes
  <2> QED
    BY <1>3, <2>1, <2>2, <2>3, <2>4, PresentTypes, AdvanceTypes DEF LevelOutcome
<1> QED
  BY <1>1, <1>2, <1>3, Zenon DEF LevelChanged

(* Which holder a step finds or makes, and what it does to it.             *)
LEMMA PresentShape ==
    ASSUME TypeOK, NEW h, NEW l, Present(h, l)
    PROVE  /\ h \in Holders /\ holder' = h
           /\ holder # None => h = holder /\ made' = made /\ level' = l
           /\ holder = None => h = made + 1 /\ made' = h
  BY NoneFresh DEF Present, TypeOK, HolderTypes

LevelDone(h) ==
    /\ holder' = h
    /\ holder # None => h = holder /\ made' = made
    /\ holder = None => h = made + 1 /\ made' = h
    /\ UNCHANGED task \/ \E d \in BOOLEAN : Revoke(h, d)
    /\ Advance(h) \/ NoAdvance

LEMMA LevelShape ==
    ASSUME TypeOK, LevelChanged
    PROVE  \/ UNCHANGED <<holder, made, task>> /\ NoAdvance
           \/ \E h \in Holders : LevelDone(h)
<1>1. ASSUME NEW h \in Holders, UNCHANGED task, NoAdvance, Present(h, level) PROVE LevelDone(h)
  BY <1>1, PresentShape DEF LevelDone
<1>2. ASSUME NEW h \in Holders, Present(h, [level EXCEPT ![h] = wanted']),
             Revoke(h, wanted' = "near" \/ asked[h] \/ waiting[h]), Advance(h) \/ NoAdvance
      PROVE  LevelDone(h)
  <2>1. \E d \in BOOLEAN : Revoke(h, d)
    <3>1. (wanted' = "near" \/ asked[h] \/ waiting[h]) \in BOOLEAN
      BY DEF TypeOK, HolderTypes
    <3> QED
      BY <1>2, <3>1
  <2> QED
    BY <1>2, <2>1, PresentShape DEF LevelDone
<1>3. CASE holder = None /\ wanted' # "near"
  BY <1>3, <1>1, <1>2 DEF LevelChanged
<1>4. CASE (holder # None \/ wanted' = "near") /\ lock # None
  BY <1>4, <1>1 DEF LevelChanged
<1>5. CASE (holder # None \/ wanted' = "near") /\ lock = None
  BY <1>5, <1>2 DEF LevelChanged
<1> QED
  BY <1>3, <1>4, <1>5

(* Where an unload in flight is.                                           *)
LEMMA UnloadShape ==
    ASSUME TypeOK, OneUnload
    PROVE  /\ unloading <=> saving # <<>> \/ finish # <<>>
           /\ saving # <<>> => /\ finish = <<>> /\ Tail(saving) = <<>> /\ Len(saving) = 1
                               /\ Head(saving) = saving[1] /\ Head(saving).of = holder
                               /\ holder \in Holders
           /\ finish # <<>> => /\ saving = <<>> /\ Tail(finish) = <<>> /\ Len(finish) = 1
                               /\ Head(finish) = finish[1] /\ Head(finish) = holder
                               /\ holder \in Holders
<1>1. /\ Len(saving) \in Nat /\ Len(finish) \in Nat
      /\ Len(saving) = 0 <=> saving = <<>>
      /\ Len(finish) = 0 <=> finish = <<>>
  BY QueueFacts DEF TypeOK, UnloadTypes
<1>2. ASSUME saving # <<>>
      PROVE  /\ Len(saving) = 1 /\ Len(finish) = 0 /\ unloading
             /\ Tail(saving) = <<>> /\ Head(saving) = saving[1] /\ Head(saving).of = holder
             /\ holder \in Holders
  <2>1. Len(saving) = 1 /\ Len(finish) = 0 /\ unloading
    <3>1. Len(saving) # 0
      BY <1>1, <1>2
    <3>2. Len(saving) + Len(finish) = (IF unloading THEN 1 ELSE 0)
      BY DEF OneUnload
    <3>3. ASSUME NEW a \in Nat, NEW b \in Nat, a # 0, a + b = (IF unloading THEN 1 ELSE 0)
          PROVE  a = 1 /\ b = 0 /\ unloading
      BY <3>3
    <3> QED
      BY <1>1, <3>1, <3>2, <3>3
  <2>2. /\ Head(saving) = saving[1] /\ Head(saving) \in Saves
        /\ Tail(saving) \in Seq(Saves) /\ Len(Tail(saving)) = 0
    BY <1>2, <2>1, QueueFacts DEF TypeOK, UnloadTypes
  <2>3. Tail(saving) = <<>>
    BY <2>2, QueueFacts
  <2> QED
    BY <2>1, <2>2, <2>3, RecordFields DEF OneUnload
<1>3. ASSUME finish # <<>>
      PROVE  /\ Len(finish) = 1 /\ Len(saving) = 0 /\ unloading
             /\ Tail(finish) = <<>> /\ Head(finish) = finish[1] /\ Head(finish) = holder
             /\ holder \in Holders
  <2>1. Len(finish) = 1 /\ Len(saving) = 0 /\ unloading
    <3>1. Len(finish) # 0
      BY <1>1, <1>3
    <3>2. Len(saving) + Len(finish) = (IF unloading THEN 1 ELSE 0)
      BY DEF OneUnload
    <3>3. ASSUME NEW a \in Nat, NEW b \in Nat, b # 0, a + b = (IF unloading THEN 1 ELSE 0)
          PROVE  b = 1 /\ a = 0 /\ unloading
      BY <3>3
    <3> QED
      BY <1>1, <3>1, <3>2, <3>3
  <2>2. /\ Head(finish) = finish[1] /\ Head(finish) \in Holders
        /\ Tail(finish) \in Seq(Holders) /\ Len(Tail(finish)) = 0
    BY <1>3, <2>1, QueueFacts DEF TypeOK, UnloadTypes
  <2>3. Tail(finish) = <<>>
    BY <2>2, QueueFacts
  <2> QED
    BY <2>1, <2>2, <2>3 DEF OneUnload
<1>4. unloading => saving # <<>> \/ finish # <<>>
  BY <1>1 DEF OneUnload
<1> QED
  BY <1>1, <1>2, <1>3, <1>4

LEMMA TypeStep ==
    ASSUME TypeOK, RemovedIsUnused, OneUnload
    PROVE  [Next]_vars => TypeOK'
<1> USE UnloadAssumption, NoneFresh DEF TypeOK, Saves, Threads, TicketLevels, Job, holderVars, poolVars, candidateVars, unloadVars, dataVars
<1>1. ASSUME MoveLevel PROVE TypeOK'
  <2>1. wanted' \in TicketLevels
    BY <1>1 DEF HolderTypes, MoveLevel
  <2>2. LevelChanged /\ UNCHANGED lock
    BY <1>1 DEF MoveLevel, MainFree
  <2>3. HolderTypes' /\ WorkerTypes'
    BY <1>1, <2>1, <2>2, LevelTypes DEF LevelOutcome, HolderTypes, WorkerTypes, MoveLevel, MainFree
  <2>4. UnloadTypes' /\ DataTypes'
    BY <1>1, <2>1, <2>2, LevelTypes DEF LevelOutcome, UnloadTypes, DataTypes, MoveLevel, MainFree
  <2> QED
    BY <2>3, <2>4
<1>2. ASSUME DrainDeferred PROVE TypeOK'
  <2>1. wanted' \in TicketLevels
    BY <1>2 DEF HolderTypes, DrainDeferred
  <2>2. LevelChanged /\ UNCHANGED lock
    BY <1>2 DEF DrainDeferred, MainFree
  <2>3. HolderTypes' /\ WorkerTypes'
    BY <1>2, <2>1, <2>2, LevelTypes DEF LevelOutcome, HolderTypes, WorkerTypes, DrainDeferred, MainFree
  <2>4. UnloadTypes' /\ DataTypes'
    BY <1>2, <2>1, <2>2, LevelTypes DEF LevelOutcome, UnloadTypes, DataTypes, DrainDeferred, MainFree
  <2> QED
    BY <2>3, <2>4
<1>3. ASSUME Request PROVE TypeOK'
  <2>a. level \in [Holders -> TicketLevels]
    BY DEF HolderTypes
  <2>b. PICK h \in Holders : Present(h, level) /\ asked' = [asked EXCEPT ![h] = TRUE] /\ Advance(h)
    BY <1>3 DEF Request
  <2>1. HolderTypes'
    BY <1>3, <2>a, <2>b, PresentTypes, AdvanceTypes DEF HolderTypes, Request
  <2>2. WorkerTypes'
    BY <1>3, <2>b, AdvanceTypes DEF WorkerTypes, Request
  <2>3. UnloadTypes'
    BY <1>3 DEF UnloadTypes, Request
  <2>4. DataTypes'
    BY <1>3, <2>b, AdvanceTypes DEF DataTypes, Request
  <2> QED
    BY <2>1, <2>2, <2>3, <2>4
<1>4. ASSUME Edit PROVE TypeOK'
  <2>a. latest + 1 \in Contents
    BY <1>4 DEF DataTypes, Edit, Contents
  <2>b. Chunk(latest + 1, TRUE, chunk.of) \in Chunks
    BY <1>4, <2>a, RecordTypes, RecordFields DEF DataTypes, Edit
  <2>1. HolderTypes'
    BY <1>4 DEF HolderTypes, Edit, Edited, Chunk, MainFree
  <2>2. WorkerTypes'
    BY <1>4 DEF WorkerTypes, Edit, Edited, Chunk, MainFree
  <2>3. UnloadTypes'
    BY <1>4 DEF UnloadTypes, Edit, Edited, Chunk, MainFree
  <2>4. DataTypes'
    BY <1>4, <2>a, <2>b DEF DataTypes, Edit, Edited
  <2> QED
    BY <2>1, <2>2, <2>3, <2>4
<1>5. ASSUME GatherDirty PROVE TypeOK'
  <2>1. HolderTypes'
    BY <1>5 DEF HolderTypes, GatherDirty, MainFree
  <2>2. WorkerTypes'
    BY <1>5 DEF WorkerTypes, GatherDirty, MainFree
  <2>3. UnloadTypes'
    BY <1>5 DEF UnloadTypes, GatherDirty, MainFree
  <2>4. DataTypes'
    BY <1>5, RecordFields DEF DataTypes, GatherDirty
  <2> QED
    BY <2>1, <2>2, <2>3, <2>4
<1>6. ASSUME NEW ok \in BOOLEAN, SaveGathered(ok) PROVE TypeOK'
  <2>a. batch # {} => (CHOOSE c \in batch : TRUE) \in Contents
    BY DEF DataTypes
  <2>b. chunk # None => Clean \in Chunks
    BY RecordTypes, RecordFields DEF DataTypes, Clean
  <2>1. HolderTypes'
    BY <1>6 DEF HolderTypes, SaveGathered, Clean, Chunk
  <2>2. WorkerTypes'
    BY <1>6 DEF WorkerTypes, SaveGathered, Clean, Chunk
  <2>3. UnloadTypes'
    BY <1>6 DEF UnloadTypes, SaveGathered, Clean, Chunk
  <2>4. DataTypes'
    BY <1>6, <2>a, <2>b DEF DataTypes, SaveGathered
  <2> QED
    BY <2>1, <2>2, <2>3, <2>4
<1>7. ASSUME Read PROVE TypeOK'
  <2>1. HolderTypes'
    BY <1>7 DEF HolderTypes, Read, Load
  <2>2. WorkerTypes'
    BY <1>7 DEF WorkerTypes, Read, Load
  <2>3. UnloadTypes'
    BY <1>7 DEF UnloadTypes, Read, Load
  <2>4. DataTypes'
    BY <1>7, RecordTypes, RecordFields DEF DataTypes, Read
  <2> QED
    BY <2>1, <2>2, <2>3, <2>4
<1>8. ASSUME LoadHit PROVE TypeOK'
  <2>a. holder \in Holders /\ load \in Loads
    BY <1>8, RecordFields DEF LoadHit, LoadedHere, DataTypes
  <2>1. HolderTypes'
    BY <1>8, TellResult DEF HolderTypes, LoadHit, LoadedHere, Chunk
  <2>2. WorkerTypes'
    BY <1>8, <2>a, RecordTypes DEF WorkerTypes, LoadHit
  <2>3. UnloadTypes'
    BY <1>8, TellResult DEF UnloadTypes, LoadHit, LoadedHere, Chunk
  <2>4. DataTypes'
    BY <1>8, <2>a, RecordTypes, RecordFields DEF DataTypes, LoadHit
  <2> QED
    BY <2>1, <2>2, <2>3, <2>4
<1>9. ASSUME LoadMissing PROVE TypeOK'
  <2>a. MissingFor \subseteq Holders
    BY <1>9, RecordFields DEF LoadMissing, LoadedHere, DataTypes, MissingFor
  <2>1. HolderTypes'
    BY <1>9 DEF HolderTypes, LoadMissing, LoadedHere, MissingFor
  <2>2. WorkerTypes'
    BY <1>9, <2>a, RecordTypes DEF WorkerTypes, LoadMissing
  <2>3. UnloadTypes'
    BY <1>9 DEF UnloadTypes, LoadMissing, LoadedHere, MissingFor
  <2>4. DataTypes'
    BY <1>9 DEF DataTypes, LoadMissing, LoadedHere, MissingFor
  <2> QED
    BY <2>1, <2>2, <2>3, <2>4
<1>10. ASSUME NEW t \in Threads, Store(t) PROVE TypeOK'
  BY <1>10 DEF HolderTypes, WorkerTypes, UnloadTypes, DataTypes, Store
<1>11. ASSUME NEW w \in Workers, NEW h \in Holders, Use(w, h) PROVE TypeOK'
  <2>1. HolderTypes'
    BY <1>11, AskTypes DEF HolderTypes, Use, Enter
  <2>2. WorkerTypes'
    BY <1>11, AskTypes DEF WorkerTypes, Use, Enter
  <2>3. UnloadTypes'
    BY <1>11, AskTypes DEF UnloadTypes, Use, Enter
  <2>4. DataTypes'
    BY <1>11, AskTypes DEF DataTypes, Use, Enter
  <2> QED
    BY <2>1, <2>2, <2>3, <2>4
<1>12. ASSUME NEW w \in Workers, Release(w) PROVE TypeOK'
  <2>1. HolderTypes'
    BY <1>12, AskTypes DEF HolderTypes, WorkerTypes, Release, Enter, RemovedIsUnused
  <2>2. WorkerTypes'
    BY <1>12, AskTypes DEF WorkerTypes, Release, Enter
  <2>3. UnloadTypes'
    BY <1>12, AskTypes DEF UnloadTypes, Release, Enter
  <2>4. DataTypes'
    BY <1>12, AskTypes DEF DataTypes, Release, Enter
  <2> QED
    BY <2>1, <2>2, <2>3, <2>4
<1>13. ASSUME NEW w \in Workers, NEW h \in Holders, AwaitIt(w, h) PROVE TypeOK'
  <2>a. level \in [Holders -> TicketLevels]
    BY DEF HolderTypes
  <2>b. state[h] = "new" => Resolve(h)
    BY <1>13 DEF AwaitIt
  <2>1. HolderTypes'
    BY <1>13, <2>a, <2>b, PresentTypes, ResolveTypes DEF HolderTypes, AwaitIt
  <2>2. WorkerTypes'
    BY <1>13, TellResult DEF WorkerTypes, AwaitIt, Enter, Present, Resolve, Load
  <2>3. UnloadTypes'
    BY <1>13, TellResult DEF UnloadTypes, AwaitIt, Enter, Present, Resolve, Load
  <2>4. DataTypes'
    BY <1>13, <2>b, ResolveTypes DEF DataTypes, AwaitIt
  <2> QED
    BY <2>1, <2>2, <2>3, <2>4
<1>14. ASSUME NEW w \in Workers, Forgo(w) PROVE TypeOK'
  <2>1. HolderTypes'
    BY <1>14, TellResult DEF HolderTypes, Forgo, Enter, Revoke
  <2>2. WorkerTypes'
    BY <1>14, TellResult DEF WorkerTypes, Forgo, Enter, Revoke
  <2>3. UnloadTypes'
    BY <1>14, TellResult DEF UnloadTypes, Forgo, Enter, Revoke
  <2>4. DataTypes'
    BY <1>14, TellResult DEF DataTypes, Forgo, Enter, Revoke
  <2> QED
    BY <2>1, <2>2, <2>3, <2>4
<1>15. ASSUME NEW w \in Workers, NEW h \in Holders, ScheduleJob(w, h) PROVE TypeOK'
  <2>1. HolderTypes'
    BY <1>15, TellResult DEF HolderTypes, ScheduleJob, Enter, Schedulable
  <2>2. WorkerTypes'
    BY <1>15, TellResult DEF WorkerTypes, ScheduleJob, Enter, Schedulable
  <2>3. UnloadTypes'
    BY <1>15, TellResult DEF UnloadTypes, ScheduleJob, Enter, Schedulable
  <2>4. DataTypes'
    BY <1>15, TellResult DEF DataTypes, ScheduleJob, Enter, Schedulable
  <2> QED
    BY <2>1, <2>2, <2>3, <2>4
<1>16. ASSUME NEW w \in Workers, NEW h \in Holders, NotifyJob(w, h) PROVE TypeOK'
  <2>1. HolderTypes'
    BY <1>16, TellResult DEF HolderTypes, NotifyJob, Enter
  <2>2. WorkerTypes'
    BY <1>16, TellResult DEF WorkerTypes, NotifyJob, Enter
  <2>3. UnloadTypes'
    BY <1>16, TellResult DEF UnloadTypes, NotifyJob, Enter
  <2>4. DataTypes'
    BY <1>16, TellResult DEF DataTypes, NotifyJob, Enter
  <2> QED
    BY <2>1, <2>2, <2>3, <2>4
<1>17. ASSUME NEW w \in Workers, NEW h \in Holders, CancelTask(w, h) PROVE TypeOK'
  BY <1>17, TellResult DEF HolderTypes, WorkerTypes, UnloadTypes, DataTypes, CancelTask, Enter
<1>18. ASSUME NEW w \in Workers, NEW h \in Holders, Start(w, h) PROVE TypeOK'
  BY <1>18 DEF HolderTypes, WorkerTypes, UnloadTypes, DataTypes, Start
<1>19. ASSUME NEW w \in Workers, NEW h \in Holders, Publish(w, h) PROVE TypeOK'
  <2>1. HolderTypes'
    BY <1>19, TellResult DEF HolderTypes, Publish, Chunk
  <2>2. WorkerTypes'
    BY <1>19, TellResult DEF WorkerTypes, Publish, Chunk
  <2>3. UnloadTypes'
    BY <1>19, TellResult DEF UnloadTypes, Publish, Chunk
  <2>4. DataTypes'
    BY <1>19, RecordTypes DEF DataTypes, Publish
  <2> QED
    BY <2>1, <2>2, <2>3, <2>4
<1>20. ASSUME NEW w \in Workers, NEW h \in Holders, Complete(w, h) PROVE TypeOK'
  <2>1. HolderTypes'
    BY <1>20, TellResult DEF HolderTypes, Complete
  <2>2. WorkerTypes'
    BY <1>20, TellResult DEF WorkerTypes, Complete
  <2>3. UnloadTypes'
    BY <1>20, TellResult DEF UnloadTypes, Complete
  <2>4. DataTypes'
    BY <1>20, TellResult DEF DataTypes, Complete
  <2> QED
    BY <2>1, <2>2, <2>3, <2>4
<1>21. ASSUME NEW w \in Workers, Leave(w) PROVE TypeOK'
  BY <1>21 DEF HolderTypes, WorkerTypes, UnloadTypes, DataTypes, Leave
<1>22. ASSUME NEW idle \in BOOLEAN, Arm(idle) PROVE TypeOK'
  <2>1. HolderTypes'
    BY <1>22, AskTypes DEF HolderTypes, Arm, MainFree
  <2>2. WorkerTypes'
    BY <1>22, AskTypes DEF WorkerTypes, Arm, MainFree
  <2>3. UnloadTypes'
    BY <1>22, AskTypes DEF UnloadTypes, Arm, MainFree
  <2>4. DataTypes'
    BY <1>22, AskTypes DEF DataTypes, Arm, MainFree
  <2> QED
    BY <2>1, <2>2, <2>3, <2>4
<1>23. ASSUME PopCandidate PROVE TypeOK'
  <2>a. ToSave => Clean \in Chunks /\ chunk.content \in Contents
    BY RecordTypes, RecordFields DEF ToSave, DataTypes, Clean
  <2>b. holder # None => holder \in Holders
    BY DEF HolderTypes
  <2>c. ASSUME holder # None PROVE Append(finish, holder) \in Seq(Holders)
    BY <2>b, <2>c, QueueFacts DEF UnloadTypes
  <2>d. ASSUME holder # None, ToSave PROVE Append(saving, [content |-> chunk.content, of |-> holder]) \in Seq(Saves)
    <3> [content |-> chunk.content, of |-> holder] \in Saves
      BY <2>a, <2>b, <2>d, RecordTypes
    <3> QED
      BY QueueFacts DEF UnloadTypes
  <2>1. HolderTypes'
    BY <1>23 DEF HolderTypes, PopCandidate, ToSave, Clean, Chunk, MainFree, Candidate
  <2>2. WorkerTypes'
    BY <1>23 DEF WorkerTypes, PopCandidate, ToSave, Clean, Chunk, MainFree, Candidate
  <2>3. UnloadTypes'
    BY <1>23, <2>c, <2>d DEF UnloadTypes, PopCandidate
  <2>4. DataTypes'
    BY <1>23, <2>a DEF DataTypes, PopCandidate
  <2> QED
    BY <2>1, <2>2, <2>3, <2>4
<1>24. ASSUME NEW ok \in BOOLEAN, Saved(ok) PROVE TypeOK'
  <2>a. Head(saving) \in Saves /\ Tail(saving) \in Seq(Saves)
    BY <1>24, QueueFacts DEF Saved, UnloadTypes
  <2>1. HolderTypes'
    BY <1>24 DEF HolderTypes, Saved
  <2>2. WorkerTypes'
    BY <1>24 DEF WorkerTypes, Saved
  <2>3. UnloadTypes'
    BY <1>24, <2>a, RecordFields, QueueFacts DEF UnloadTypes, Saved
  <2>4. DataTypes'
    BY <1>24, <2>a, RecordFields DEF DataTypes, Saved
  <2> QED
    BY <2>1, <2>2, <2>3, <2>4
<1>25. ASSUME NEW h \in Holders, AbortUnload(h) PROVE TypeOK'
  <2>1. HolderTypes'
    BY <1>25 DEF HolderTypes, AbortUnload, Finishing, EndFinish, MainFree
  <2>2. WorkerTypes'
    BY <1>25 DEF WorkerTypes, AbortUnload, Finishing, EndFinish, MainFree
  <2>3. UnloadTypes'
    BY <1>25, QueueFacts DEF UnloadTypes, AbortUnload, Finishing, EndFinish
  <2>4. DataTypes'
    BY <1>25 DEF DataTypes, AbortUnload, Finishing, EndFinish, MainFree
  <2> QED
    BY <2>1, <2>2, <2>3, <2>4
<1>26. ASSUME NEW h \in Holders, NEW back \in BOOLEAN, CoolDown(h, back) PROVE TypeOK'
  <2>1. HolderTypes'
    BY <1>26 DEF HolderTypes, CoolDown, Finishing, EndFinish, CancelWork, InUse, MainFree
  <2>2. WorkerTypes'
    BY <1>26 DEF WorkerTypes, CoolDown, Finishing, EndFinish, CancelWork, InUse, MainFree
  <2>3. UnloadTypes'
    BY <1>26, QueueFacts DEF UnloadTypes, CoolDown, Finishing, EndFinish
  <2>4. DataTypes'
    BY <1>26 DEF DataTypes, CoolDown, Finishing, EndFinish, CancelWork, InUse, MainFree
  <2> QED
    BY <2>1, <2>2, <2>3, <2>4
<1>27. ASSUME NEW h \in Holders, Remove(h) PROVE TypeOK'
  <2>1. HolderTypes'
    BY <1>27 DEF HolderTypes, Remove, Finishing, EndFinish, CancelWork, InUse, Load, MainFree
  <2>2. WorkerTypes'
    BY <1>27 DEF WorkerTypes, Remove, Finishing, EndFinish, CancelWork, InUse, Load, MainFree
  <2>3. UnloadTypes'
    BY <1>27, QueueFacts DEF UnloadTypes, Remove, Finishing, EndFinish
  <2>4. DataTypes'
    BY <1>27, RecordTypes, RecordFields DEF DataTypes, Remove
  <2> QED
    BY <2>1, <2>2, <2>3, <2>4
<1>28. ASSUME CoolEnds PROVE TypeOK'
  <2>1. HolderTypes'
    BY <1>28, AskTypes DEF HolderTypes, CoolEnds, MainFree
  <2>2. WorkerTypes'
    BY <1>28, AskTypes DEF WorkerTypes, CoolEnds, MainFree
  <2>3. UnloadTypes'
    BY <1>28, AskTypes DEF UnloadTypes, CoolEnds, MainFree
  <2>4. DataTypes'
    BY <1>28, AskTypes DEF DataTypes, CoolEnds, MainFree
  <2> QED
    BY <2>1, <2>2, <2>3, <2>4
<1>0. CASE UNCHANGED vars
  BY <1>0 DEF vars, HolderTypes, WorkerTypes, UnloadTypes, DataTypes
<1> QED
  <2>1. CASE Next
    <3>1. CASE MainStep
      BY <3>1, <1>1, <1>2, <1>3, <1>4, <1>5, <1>6, <1>8, <1>9, <1>22, <1>23, <1>25, <1>26, <1>27, <1>28, Zenon DEF MainStep, Finish
    <3>2. CASE Storage
      BY <3>2, <1>7, <1>24, Zenon DEF Storage
    <3>3. CASE \E t \in Threads : Store(t)
      BY <3>3, <1>10, Zenon
    <3>4. ASSUME NEW w \in Workers, PoolStep(w) PROVE TypeOK'
      BY <3>4, <1>15, <1>16, <1>17, <1>18, <1>19, <1>20, <1>21, Zenon DEF PoolStep
    <3>5. ASSUME NEW w \in Workers, Around(w) PROVE TypeOK'
      BY <3>5, <1>11, <1>12, <1>13, <1>14, Zenon DEF Around
    <3> QED
      BY <2>1, <3>1, <3>2, <3>3, <3>4, <3>5, Zenon DEF Next
  <2> QED
    BY <2>1, <1>0, Zenon

LEMMA UnloadStep ==
    ASSUME TypeOK, RemovedIsUnused, OneUnload
    PROVE  [Next]_vars => RemovedIsUnused' /\ OneUnload'
<1> USE UnloadAssumption, NoneFresh DEF TypeOK, holderVars, poolVars, candidateVars, unloadVars, dataVars
<1>1. ASSUME MoveLevel PROVE RemovedIsUnused' /\ OneUnload'
  <2>1. RemovedIsUnused'
    BY <1>1, LevelShape, UnloadShape DEF RemovedIsUnused, MoveLevel, LevelDone, Revoke, HolderTypes
  <2>2. OneUnload'
    BY <1>1, LevelShape, UnloadShape DEF OneUnload, MoveLevel, LevelDone
  <2> QED
    BY <2>1, <2>2
<1>2. ASSUME DrainDeferred PROVE RemovedIsUnused' /\ OneUnload'
  <2>1. RemovedIsUnused'
    BY <1>2, LevelShape, UnloadShape DEF RemovedIsUnused, DrainDeferred, LevelDone, Revoke, HolderTypes
  <2>2. OneUnload'
    BY <1>2, LevelShape, UnloadShape DEF OneUnload, DrainDeferred, LevelDone
  <2> QED
    BY <2>1, <2>2
<1>3. ASSUME Request PROVE RemovedIsUnused' /\ OneUnload'
  <2>a. PICK h \in Holders : holder' = h /\ asked' = [asked EXCEPT ![h] = TRUE] /\ (holder # None => h = holder)
    BY <1>3, PresentShape DEF Request
  <2>1. RemovedIsUnused'
    BY <1>3, <2>a, UnloadShape DEF RemovedIsUnused, Request
  <2>2. OneUnload'
    BY <1>3, <2>a, UnloadShape DEF OneUnload, Request
  <2> QED
    BY <2>1, <2>2
<1>4. ASSUME Edit PROVE RemovedIsUnused' /\ OneUnload'
  <2>1. RemovedIsUnused'
    BY <1>4 DEF RemovedIsUnused, HolderTypes, Edit
  <2>2. OneUnload'
    BY <1>4 DEF OneUnload, Edit
  <2> QED
    BY <2>1, <2>2
<1>5. ASSUME GatherDirty PROVE RemovedIsUnused' /\ OneUnload'
  <2>1. RemovedIsUnused'
    BY <1>5 DEF RemovedIsUnused, HolderTypes, GatherDirty
  <2>2. OneUnload'
    BY <1>5 DEF OneUnload, GatherDirty
  <2> QED
    BY <2>1, <2>2
<1>6. ASSUME NEW ok \in BOOLEAN, SaveGathered(ok) PROVE RemovedIsUnused' /\ OneUnload'
  <2>1. RemovedIsUnused'
    BY <1>6 DEF RemovedIsUnused, HolderTypes, SaveGathered
  <2>2. OneUnload'
    BY <1>6 DEF OneUnload, SaveGathered
  <2> QED
    BY <2>1, <2>2
<1>7. ASSUME Read PROVE RemovedIsUnused' /\ OneUnload'
  <2>1. RemovedIsUnused'
    BY <1>7 DEF RemovedIsUnused, HolderTypes, Read
  <2>2. OneUnload'
    BY <1>7 DEF OneUnload, Read
  <2> QED
    BY <2>1, <2>2
<1>8. ASSUME LoadHit PROVE RemovedIsUnused' /\ OneUnload'
  <2>1. RemovedIsUnused'
    BY <1>8 DEF RemovedIsUnused, HolderTypes, LoadHit
  <2>2. OneUnload'
    BY <1>8 DEF OneUnload, LoadHit
  <2> QED
    BY <2>1, <2>2
<1>9. ASSUME LoadMissing PROVE RemovedIsUnused' /\ OneUnload'
  <2>1. RemovedIsUnused'
    BY <1>9 DEF RemovedIsUnused, HolderTypes, LoadMissing
  <2>2. OneUnload'
    BY <1>9 DEF OneUnload, LoadMissing
  <2> QED
    BY <2>1, <2>2
<1>10. ASSUME NEW t \in Threads, Store(t) PROVE RemovedIsUnused' /\ OneUnload'
  <2>1. RemovedIsUnused'
    BY <1>10 DEF RemovedIsUnused, HolderTypes, Store
  <2>2. OneUnload'
    BY <1>10 DEF OneUnload, Store
  <2> QED
    BY <2>1, <2>2
<1>11. ASSUME NEW w \in Workers, NEW h \in Holders, Use(w, h) PROVE RemovedIsUnused' /\ OneUnload'
  <2>1. RemovedIsUnused'
    BY <1>11 DEF RemovedIsUnused, HolderTypes, Use
  <2>2. OneUnload'
    BY <1>11 DEF OneUnload, Use
  <2> QED
    BY <2>1, <2>2
<1>12. ASSUME NEW w \in Workers, Release(w) PROVE RemovedIsUnused' /\ OneUnload'
  <2>1. RemovedIsUnused'
    BY <1>12 DEF RemovedIsUnused, HolderTypes, Release, HolderTypes, WorkerTypes
  <2>2. OneUnload'
    BY <1>12 DEF OneUnload, Release
  <2> QED
    BY <2>1, <2>2
<1>13. ASSUME NEW w \in Workers, NEW h \in Holders, AwaitIt(w, h) PROVE RemovedIsUnused' /\ OneUnload'
  <2>1. RemovedIsUnused'
    BY <1>13, PresentShape, UnloadShape DEF RemovedIsUnused, AwaitIt
  <2>2. OneUnload'
    BY <1>13, PresentShape, UnloadShape DEF OneUnload, AwaitIt
  <2> QED
    BY <2>1, <2>2
<1>14. ASSUME NEW w \in Workers, Forgo(w) PROVE RemovedIsUnused' /\ OneUnload'
  <2>1. RemovedIsUnused'
    BY <1>14 DEF RemovedIsUnused, HolderTypes, Forgo, Revoke
  <2>2. OneUnload'
    BY <1>14 DEF OneUnload, Forgo
  <2> QED
    BY <2>1, <2>2
<1>15. ASSUME NEW w \in Workers, NEW h \in Holders, ScheduleJob(w, h) PROVE RemovedIsUnused' /\ OneUnload'
  <2>1. RemovedIsUnused'
    BY <1>15 DEF RemovedIsUnused, HolderTypes, ScheduleJob, Schedulable
  <2>2. OneUnload'
    BY <1>15 DEF OneUnload, ScheduleJob
  <2> QED
    BY <2>1, <2>2
<1>16. ASSUME NEW w \in Workers, NEW h \in Holders, NotifyJob(w, h) PROVE RemovedIsUnused' /\ OneUnload'
  <2>1. RemovedIsUnused'
    BY <1>16 DEF RemovedIsUnused, HolderTypes, NotifyJob
  <2>2. OneUnload'
    BY <1>16 DEF OneUnload, NotifyJob
  <2> QED
    BY <2>1, <2>2
<1>17. ASSUME NEW w \in Workers, NEW h \in Holders, CancelTask(w, h) PROVE RemovedIsUnused' /\ OneUnload'
  <2>1. RemovedIsUnused'
    BY <1>17 DEF RemovedIsUnused, HolderTypes, CancelTask
  <2>2. OneUnload'
    BY <1>17 DEF OneUnload, CancelTask
  <2> QED
    BY <2>1, <2>2
<1>18. ASSUME NEW w \in Workers, NEW h \in Holders, Start(w, h) PROVE RemovedIsUnused' /\ OneUnload'
  <2>1. RemovedIsUnused'
    BY <1>18 DEF RemovedIsUnused, HolderTypes, Start
  <2>2. OneUnload'
    BY <1>18 DEF OneUnload, Start
  <2> QED
    BY <2>1, <2>2
<1>19. ASSUME NEW w \in Workers, NEW h \in Holders, Publish(w, h) PROVE RemovedIsUnused' /\ OneUnload'
  <2>1. RemovedIsUnused'
    BY <1>19 DEF RemovedIsUnused, HolderTypes, Publish
  <2>2. OneUnload'
    BY <1>19 DEF OneUnload, Publish
  <2> QED
    BY <2>1, <2>2
<1>20. ASSUME NEW w \in Workers, NEW h \in Holders, Complete(w, h) PROVE RemovedIsUnused' /\ OneUnload'
  <2>1. RemovedIsUnused'
    BY <1>20 DEF RemovedIsUnused, HolderTypes, Complete
  <2>2. OneUnload'
    BY <1>20 DEF OneUnload, Complete
  <2> QED
    BY <2>1, <2>2
<1>21. ASSUME NEW w \in Workers, Leave(w) PROVE RemovedIsUnused' /\ OneUnload'
  <2>1. RemovedIsUnused'
    BY <1>21 DEF RemovedIsUnused, HolderTypes, Leave
  <2>2. OneUnload'
    BY <1>21 DEF OneUnload, Leave
  <2> QED
    BY <2>1, <2>2
<1>22. ASSUME NEW idle \in BOOLEAN, Arm(idle) PROVE RemovedIsUnused' /\ OneUnload'
  <2>1. RemovedIsUnused'
    BY <1>22 DEF RemovedIsUnused, HolderTypes, Arm
  <2>2. OneUnload'
    BY <1>22 DEF OneUnload, Arm
  <2> QED
    BY <2>1, <2>2
<1>23. ASSUME PopCandidate PROVE RemovedIsUnused' /\ OneUnload'
  <2>a. ~unloading => Len(saving) = 0 /\ Len(finish) = 0
    BY QueueFacts DEF OneUnload, UnloadTypes
  <2>1. RemovedIsUnused'
    BY <1>23 DEF RemovedIsUnused, HolderTypes, PopCandidate
  <2>2. OneUnload'
    BY <1>23, <2>a DEF OneUnload, PopCandidate, UnloadTypes, Candidate
  <2> QED
    BY <2>1, <2>2
<1>24. ASSUME NEW ok \in BOOLEAN, Saved(ok) PROVE RemovedIsUnused' /\ OneUnload'
  <2>a. Tail(saving) = <<>> /\ finish = <<>> /\ unloading /\ Head(saving).of = holder /\ holder \in Holders
    BY <1>24, UnloadShape DEF Saved
  <2>b. Len(<<>>) = 0 /\ Append(<<>>, holder) = <<holder>>
    OBVIOUS
  <2>1. RemovedIsUnused'
    BY <1>24 DEF RemovedIsUnused, HolderTypes, Saved
  <2>2. OneUnload'
    BY <1>24, <2>a, <2>b DEF OneUnload, Saved, UnloadTypes
  <2> QED
    BY <2>1, <2>2
<1>25. ASSUME NEW h \in Holders, AbortUnload(h) PROVE RemovedIsUnused' /\ OneUnload'
  <2>a. finish # <<>> /\ h = holder /\ Tail(finish) = <<>> /\ saving = <<>>
    BY <1>25, UnloadShape DEF AbortUnload, Finishing
  <2>b. Len(<<>>) = 0
    OBVIOUS
  <2>1. RemovedIsUnused'
    BY <1>25 DEF RemovedIsUnused, HolderTypes, AbortUnload
  <2>2. OneUnload'
    BY <1>25, <2>a, <2>b DEF OneUnload, AbortUnload, UnloadTypes, EndFinish
  <2> QED
    BY <2>1, <2>2
<1>26. ASSUME NEW h \in Holders, NEW back \in BOOLEAN, CoolDown(h, back) PROVE RemovedIsUnused' /\ OneUnload'
  <2>a. finish # <<>> /\ h = holder /\ Tail(finish) = <<>> /\ saving = <<>>
    BY <1>26, UnloadShape DEF CoolDown, Finishing
  <2>b. Len(<<>>) = 0
    OBVIOUS
  <2>1. RemovedIsUnused'
    BY <1>26, <2>a DEF RemovedIsUnused, HolderTypes, CoolDown, CancelWork
  <2>2. OneUnload'
    BY <1>26, <2>a, <2>b DEF OneUnload, CoolDown, UnloadTypes, EndFinish
  <2> QED
    BY <2>1, <2>2
<1>27. ASSUME NEW h \in Holders, Remove(h) PROVE RemovedIsUnused' /\ OneUnload'
  <2>a. finish # <<>> /\ h = holder /\ Tail(finish) = <<>> /\ saving = <<>>
    BY <1>27, UnloadShape DEF Remove, Finishing
  <2>b. Len(<<>>) = 0
    OBVIOUS
  <2>1. RemovedIsUnused'
    BY <1>27, <2>a DEF RemovedIsUnused, HolderTypes, Remove, CancelWork, InUse
  <2>2. OneUnload'
    BY <1>27, <2>a, <2>b DEF OneUnload, Remove, UnloadTypes, EndFinish
  <2> QED
    BY <2>1, <2>2
<1>28. ASSUME CoolEnds PROVE RemovedIsUnused' /\ OneUnload'
  <2>1. RemovedIsUnused'
    BY <1>28 DEF RemovedIsUnused, HolderTypes, CoolEnds
  <2>2. OneUnload'
    BY <1>28 DEF OneUnload, CoolEnds
  <2> QED
    BY <2>1, <2>2
<1>0. CASE UNCHANGED vars
  BY <1>0 DEF vars, RemovedIsUnused, OneUnload
<1> QED
  <2>1. CASE Next
    <3>1. CASE MainStep
      BY <3>1, <1>1, <1>2, <1>3, <1>4, <1>5, <1>6, <1>8, <1>9, <1>22, <1>23, <1>25, <1>26, <1>27, <1>28, Zenon DEF MainStep, Finish
    <3>2. CASE Storage
      BY <3>2, <1>7, <1>24, Zenon DEF Storage
    <3>3. CASE \E t \in Threads : Store(t)
      BY <3>3, <1>10, Zenon
    <3>4. ASSUME NEW w \in Workers, PoolStep(w) PROVE RemovedIsUnused' /\ OneUnload'
      BY <3>4, <1>15, <1>16, <1>17, <1>18, <1>19, <1>20, <1>21, Zenon DEF PoolStep
    <3>5. ASSUME NEW w \in Workers, Around(w) PROVE RemovedIsUnused' /\ OneUnload'
      BY <3>5, <1>11, <1>12, <1>13, <1>14, Zenon DEF Around
    <3> QED
      BY <2>1, <3>1, <3>2, <3>3, <3>4, <3>5, Zenon DEF Next
  <2> QED
    BY <2>1, <1>0, Zenon

(* No record is None.                                                      *)
LEMMA NoRecord == None \notin Chunks /\ None \notin Loads
<1>1. ASSUME NEW c \in Chunks PROVE c # None
  <2>1. c = Chunk(c.content, c.dirty, c.of) /\ c.content \in Contents /\ c.dirty \in BOOLEAN /\ c.of \in Holders
    BY DEF Chunks, Chunk
  <2> QED
    BY <2>1, NoRecordAssumption DEF Contents
<1>2. ASSUME NEW l \in Loads PROVE l # None
  <2>1. /\ l = Load(l.owner, l.attached, l.read, l.content)
        /\ l.owner \in Holders /\ l.attached \in SUBSET Holders /\ l.read \in BOOLEAN
        /\ l.content \in Contents \cup {None}
    BY DEF Loads, Load
  <2> QED
    BY <2>1, NoRecordAssumption DEF Contents
<1> QED
  BY <1>1, <1>2

LEMMA NewChunk ==
    /\ \A c \in Contents, d \in BOOLEAN, h \in Holders : Chunk(c, d, h) # None
    /\ TypeOK /\ chunk # None => Clean # None /\ chunk \in Chunks
<1>1. \A c \in Contents, d \in BOOLEAN, h \in Holders : Chunk(c, d, h) # None
  BY NoRecordAssumption DEF Contents
<1>2. ASSUME TypeOK, chunk # None PROVE Clean # None /\ chunk \in Chunks
  BY <1>1, <1>2, RecordFields DEF Clean, TypeOK, DataTypes
<1> QED
  BY <1>1, <1>2

LEMMA ResolveShape ==
    ASSUME TypeOK, NEW h \in Holders, Resolve(h)
    PROVE  /\ state' = [state EXCEPT ![h] = "resolving"]
           /\ load' # None
           /\ load = None => load'.owner = h /\ load'.attached = {} /\ ~load'.read
           /\ load # None => /\ load'.owner = load.owner /\ load'.attached = load.attached \cup {h}
                            /\ load'.read = load.read /\ load'.content = load.content
<1>1. load' \in Loads
  <2>1. CASE load = None
    BY <2>1, RecordTypes, NoneFresh DEF Resolve
  <2>2. CASE load \in Loads
    <3>1. load' = Load(load.owner, load.attached \cup {h}, load.read, load.content)
      BY <2>2, NoRecord DEF Resolve
    <3> QED
      BY <2>2, <3>1, RecordFields, RecordTypes
  <2> QED
    BY <2>1, <2>2 DEF TypeOK, DataTypes
<1> QED
  BY <1>1, NoRecord DEF Resolve, Load

LEMMA AdvanceShape ==
    ASSUME NEW h, Advance(h) \/ NoAdvance
    PROVE  (state[h] = "new" /\ Resolve(h)) \/ UNCHANGED <<state, load>>
  BY DEF Advance, NoAdvance

LEMMA LoadsAdvance ==
    ASSUME TypeOK, LoadsKnown, LoadsAreAwaited, NEW h \in Holders,
           holder' = h,
           holder # None => h = holder /\ made' = made,
           holder = None => h = made + 1 /\ made' = h,
           (state[h] = "new" /\ Resolve(h)) \/ UNCHANGED <<state, load>>,
           \A g \in Holders : task'[g] # "none" => task[g] # "none" \/ state[g] = "missing",
           UNCHANGED <<chunk, work>>
    PROVE  LoadsKnown' /\ LoadsAreAwaited'
<1> USE NoneFresh DEF TypeOK, HolderTypes
<1>0. made \in Nat /\ made' \in Nat /\ made' >= made /\ h <= made' /\ h \in Nat
  BY UnloadAssumption DEF Holders
<1>1. CASE UNCHANGED <<state, load>>
  <2>1. LoadsKnown'
    BY <1>0, <1>1, RecordFields DEF LoadsKnown, DataTypes, Holders
  <2>2. LoadsAreAwaited'
    <3>1. CASE holder = None
      <4>1. state[h] = "new" /\ (load # None => h \notin {load.owner} \cup load.attached)
        BY <3>1, <1>0, RecordFields DEF LoadsKnown, DataTypes, Holders
      <4> QED
        BY <1>1, <4>1 DEF LoadsAreAwaited
    <3>2. CASE holder # None
      BY <1>1, <3>2 DEF LoadsAreAwaited
    <3> QED
      BY <3>1, <3>2
  <2> QED
    BY <2>1, <2>2
<1>2. CASE state[h] = "new" /\ Resolve(h)
  <2>1. LoadsKnown'
    <3>1. \A g \in Holders : state'[g] = IF g = h THEN "resolving" ELSE state[g]
      BY <1>2, ResolveShape
    <3>2. task[h] = "none" /\ task'[h] = "none" /\ \A w \in Workers : work[w] # h
      BY <1>2 DEF LoadsKnown, WorkerTypes
    <3>3. load' # None => load'.owner <= made' /\ \A g \in load'.attached : g <= made'
      <4>1. CASE load = None
        BY <1>0, <1>2, <4>1, ResolveShape
      <4>2. CASE load # None
        <5>1. load \in Loads /\ load.owner \in Nat /\ \A g \in load.attached : g \in Nat
          BY <4>2, RecordFields DEF DataTypes, Holders
        <5> QED
          BY <1>0, <1>2, <4>2, <5>1, ResolveShape DEF LoadsKnown
      <4> QED
        BY <4>1, <4>2
    <3>4. \A g \in Holders : g > made' => state'[g] = "new"
      BY <1>0, <3>1 DEF LoadsKnown, Holders
    <3> QED
      BY <3>1, <3>2, <3>3, <3>4 DEF LoadsKnown, WorkerTypes
  <2>2. LoadsAreAwaited'
    BY <1>2, ResolveShape DEF LoadsAreAwaited
  <2> QED
    BY <2>1, <2>2
<1> QED
  BY <1>1, <1>2

LEMMA LoadsLevel ==
    ASSUME TypeOK, LoadsKnown, LoadsAreAwaited, UNCHANGED <<chunk, work>>,
           \/ UNCHANGED <<holder, made, task>> /\ NoAdvance
           \/ \E h \in Holders : LevelDone(h)
    PROVE  LoadsKnown' /\ LoadsAreAwaited'
<1>1. CASE UNCHANGED <<holder, made, task>> /\ NoAdvance
  BY <1>1 DEF LoadsKnown, LoadsAreAwaited, NoAdvance
<1>2. ASSUME NEW h \in Holders, LevelDone(h) PROVE LoadsKnown' /\ LoadsAreAwaited'
  <2>1. \A g \in Holders : task'[g] # "none" => task[g] # "none" \/ state[g] = "missing"
    BY <1>2 DEF LevelDone, Revoke, TypeOK, HolderTypes
  <2>2. (state[h] = "new" /\ Resolve(h)) \/ UNCHANGED <<state, load>>
    BY <1>2, AdvanceShape DEF LevelDone
  <2> QED
    BY <1>2, <2>1, <2>2, LoadsAdvance DEF LevelDone
<1> QED
  BY <1>1, <1>2

LEMMA LoadsStep ==
    ASSUME TypeOK, OneUnload, LoadsKnown, LoadsAreAwaited
    PROVE  [Next]_vars => LoadsKnown' /\ LoadsAreAwaited'
<1> USE UnloadAssumption, NoneFresh DEF TypeOK, HolderTypes, holderVars, poolVars, candidateVars, unloadVars, dataVars
<1>1. ASSUME MoveLevel PROVE LoadsKnown' /\ LoadsAreAwaited'
  BY <1>1, LevelShape, LoadsLevel DEF MoveLevel
<1>2. ASSUME DrainDeferred PROVE LoadsKnown' /\ LoadsAreAwaited'
  BY <1>2, LevelShape, LoadsLevel DEF DrainDeferred
<1>3. ASSUME Request PROVE LoadsKnown' /\ LoadsAreAwaited'
  <2>1. PICK h \in Holders : Present(h, level) /\ Advance(h)
    BY <1>3 DEF Request
  <2> QED
    BY <1>3, <2>1, PresentShape, AdvanceShape, LoadsAdvance DEF Request
<1>4. ASSUME Edit PROVE LoadsKnown' /\ LoadsAreAwaited'
  <2>a. chunk' # None
    <3>1. latest + 1 \in Contents /\ chunk.of \in Holders
      BY <1>4, NewChunk, RecordFields DEF Edit, DataTypes, Contents
    <3> QED
      BY <1>4, <3>1, NewChunk DEF Edit, Edited
  <2>1. LoadsKnown'
    BY <1>4 DEF LoadsKnown, Edit
  <2>2. LoadsAreAwaited'
    BY <1>4, RecordFields, RecordTypes, NoRecord, <2>a DEF LoadsAreAwaited, DataTypes, Edit, Edited
  <2> QED
    BY <2>1, <2>2
<1>5. ASSUME GatherDirty PROVE LoadsKnown' /\ LoadsAreAwaited'
  <2>1. LoadsKnown'
    BY <1>5 DEF LoadsKnown, GatherDirty
  <2>2. LoadsAreAwaited'
    BY <1>5 DEF LoadsAreAwaited, GatherDirty
  <2> QED
    BY <2>1, <2>2
<1>6. ASSUME NEW ok \in BOOLEAN, SaveGathered(ok) PROVE LoadsKnown' /\ LoadsAreAwaited'
  <2>a. chunk # None => chunk' # None
    BY <1>6, NewChunk DEF SaveGathered
  <2>1. LoadsKnown'
    BY <1>6 DEF LoadsKnown, SaveGathered
  <2>2. LoadsAreAwaited'
    BY <1>6, <2>a DEF LoadsAreAwaited, SaveGathered
  <2> QED
    BY <2>1, <2>2
<1>7. ASSUME Read PROVE LoadsKnown' /\ LoadsAreAwaited'
  <2>a. load # None /\ load' # None /\ load'.owner = load.owner /\ load'.attached = load.attached
    <3>1. load \in Loads
      BY <1>7 DEF Read, DataTypes
    <3>2. load' \in Loads
      BY <1>7, <3>1, RecordFields, RecordTypes DEF Read, DataTypes
    <3> QED
      BY <1>7, <3>2, NoRecord DEF Read, Load
  <2>1. LoadsKnown'
    BY <1>7, <2>a DEF LoadsKnown, Read
  <2>2. LoadsAreAwaited'
    BY <1>7, <2>a DEF LoadsAreAwaited, Read
  <2> QED
    BY <2>1, <2>2
<1>8. ASSUME LoadHit PROVE LoadsKnown' /\ LoadsAreAwaited'
  <2>a. holder \in Holders /\ load \in Loads /\ load.owner = holder
    BY <1>8, RecordFields DEF LoadHit, LoadedHere, DataTypes
  <2>b. chunk' # None
    <3>1. load.content \in Contents
      BY <1>8, <2>a, RecordFields DEF LoadHit
    <3> QED
      BY <1>8, <2>a, <3>1, NewChunk DEF LoadHit
  <2>1. LoadsKnown'
    BY <1>8, <2>a DEF LoadsKnown, LoadHit
  <2>2. LoadsAreAwaited'
    BY <1>8, <2>a, <2>b DEF LoadsAreAwaited, LoadHit
  <2> QED
    BY <2>1, <2>2
<1>9. ASSUME LoadMissing PROVE LoadsKnown' /\ LoadsAreAwaited'
  <2>a. load # None /\ MissingFor = {holder} \cap (load.attached \cup {load.owner}) /\ load \in Loads
    BY <1>9 DEF LoadMissing, LoadedHere, MissingFor, DataTypes
  <2>c. \A h \in MissingFor : h \in Holders /\ h = holder
    BY <2>a, RecordFields
  <2>d. \A h \in MissingFor : state[h] = "resolving" /\ h <= made
    BY <2>a, <2>c DEF LoadsAreAwaited, Holders
  <2>1. LoadsKnown'
    BY <1>9, <2>a, <2>c, <2>d DEF LoadsKnown, LoadMissing, WorkerTypes
  <2>2. LoadsAreAwaited'
    BY <1>9, <2>a DEF LoadsAreAwaited, LoadMissing
  <2> QED
    BY <2>1, <2>2
<1>10. ASSUME NEW t \in Threads, Store(t) PROVE LoadsKnown' /\ LoadsAreAwaited'
  <2>1. LoadsKnown'
    BY <1>10 DEF LoadsKnown, Store
  <2>2. LoadsAreAwaited'
    BY <1>10 DEF LoadsAreAwaited, Store
  <2> QED
    BY <2>1, <2>2
<1>11. ASSUME NEW w \in Workers, NEW h \in Holders, Use(w, h) PROVE LoadsKnown' /\ LoadsAreAwaited'
  <2>1. LoadsKnown'
    BY <1>11 DEF LoadsKnown, Use
  <2>2. LoadsAreAwaited'
    BY <1>11 DEF LoadsAreAwaited, Use
  <2> QED
    BY <2>1, <2>2
<1>12. ASSUME NEW w \in Workers, Release(w) PROVE LoadsKnown' /\ LoadsAreAwaited'
  <2>1. LoadsKnown'
    BY <1>12 DEF LoadsKnown, Release
  <2>2. LoadsAreAwaited'
    BY <1>12 DEF LoadsAreAwaited, Release
  <2> QED
    BY <2>1, <2>2
<1>13. ASSUME NEW w \in Workers, NEW h \in Holders, AwaitIt(w, h) PROVE LoadsKnown' /\ LoadsAreAwaited'
  <2>1. (state[h] = "new" /\ Resolve(h)) \/ UNCHANGED <<state, load>>
    BY <1>13 DEF AwaitIt
  <2>2. \A g \in Holders : task'[g] # "none" => task[g] # "none" \/ state[g] = "missing"
    BY <1>13 DEF AwaitIt
  <2> QED
    BY <1>13, <2>1, <2>2, PresentShape, LoadsAdvance DEF AwaitIt
<1>14. ASSUME NEW w \in Workers, Forgo(w) PROVE LoadsKnown' /\ LoadsAreAwaited'
  <2>1. LoadsKnown'
    BY <1>14 DEF LoadsKnown, Forgo, Revoke
  <2>2. LoadsAreAwaited'
    BY <1>14 DEF LoadsAreAwaited, Forgo
  <2> QED
    BY <2>1, <2>2
<1>15. ASSUME NEW w \in Workers, NEW h \in Holders, ScheduleJob(w, h) PROVE LoadsKnown' /\ LoadsAreAwaited'
  <2>1. LoadsKnown'
    BY <1>15 DEF LoadsKnown, ScheduleJob, Schedulable
  <2>2. LoadsAreAwaited'
    BY <1>15 DEF LoadsAreAwaited, ScheduleJob
  <2> QED
    BY <2>1, <2>2
<1>16. ASSUME NEW w \in Workers, NEW h \in Holders, NotifyJob(w, h) PROVE LoadsKnown' /\ LoadsAreAwaited'
  <2>1. LoadsKnown'
    BY <1>16 DEF LoadsKnown, NotifyJob
  <2>2. LoadsAreAwaited'
    BY <1>16 DEF LoadsAreAwaited, NotifyJob
  <2> QED
    BY <2>1, <2>2
<1>17. ASSUME NEW w \in Workers, NEW h \in Holders, CancelTask(w, h) PROVE LoadsKnown' /\ LoadsAreAwaited'
  <2>1. LoadsKnown'
    BY <1>17 DEF LoadsKnown, CancelTask
  <2>2. LoadsAreAwaited'
    BY <1>17 DEF LoadsAreAwaited, CancelTask
  <2> QED
    BY <2>1, <2>2
<1>18. ASSUME NEW w \in Workers, NEW h \in Holders, Start(w, h) PROVE LoadsKnown' /\ LoadsAreAwaited'
  <2>1. LoadsKnown'
    BY <1>18 DEF LoadsKnown, Start
  <2>2. LoadsAreAwaited'
    BY <1>18 DEF LoadsAreAwaited, Start
  <2> QED
    BY <2>1, <2>2
<1>19. ASSUME NEW w \in Workers, NEW h \in Holders, Publish(w, h) PROVE LoadsKnown' /\ LoadsAreAwaited'
  <2>a. chunk' # None
    BY <1>19, NewChunk DEF Publish
  <2>b. state[h] \in {"missing", "done"} /\ (h = holder => state'[h] = "done") /\ (h # holder => state' = state)
    BY <1>19 DEF Publish, LoadsKnown
  <2>c. UNCHANGED <<holder, load>>
    BY <1>19 DEF Publish
  <2>1. LoadsKnown'
    BY <1>19 DEF LoadsKnown, Publish, WorkerTypes
  <2>2. LoadsAreAwaited'
    BY <1>19, <2>a, <2>b, <2>c DEF LoadsAreAwaited
  <2> QED
    BY <2>1, <2>2
<1>20. ASSUME NEW w \in Workers, NEW h \in Holders, Complete(w, h) PROVE LoadsKnown' /\ LoadsAreAwaited'
  <2>1. LoadsKnown'
    BY <1>20 DEF LoadsKnown, Complete
  <2>2. LoadsAreAwaited'
    BY <1>20 DEF LoadsAreAwaited, Complete
  <2> QED
    BY <2>1, <2>2
<1>21. ASSUME NEW w \in Workers, Leave(w) PROVE LoadsKnown' /\ LoadsAreAwaited'
  <2>1. LoadsKnown'
    BY <1>21 DEF LoadsKnown, Leave
  <2>2. LoadsAreAwaited'
    BY <1>21 DEF LoadsAreAwaited, Leave
  <2> QED
    BY <2>1, <2>2
<1>22. ASSUME NEW idle \in BOOLEAN, Arm(idle) PROVE LoadsKnown' /\ LoadsAreAwaited'
  <2>1. LoadsKnown'
    BY <1>22 DEF LoadsKnown, Arm
  <2>2. LoadsAreAwaited'
    BY <1>22 DEF LoadsAreAwaited, Arm
  <2> QED
    BY <2>1, <2>2
<1>23. ASSUME PopCandidate PROVE LoadsKnown' /\ LoadsAreAwaited'
  <2>a. chunk # None => chunk' # None
    BY <1>23, NewChunk DEF PopCandidate, ToSave
  <2>1. LoadsKnown'
    BY <1>23 DEF LoadsKnown, PopCandidate
  <2>2. LoadsAreAwaited'
    BY <1>23, <2>a DEF LoadsAreAwaited, PopCandidate, ToSave
  <2> QED
    BY <2>1, <2>2
<1>24. ASSUME NEW ok \in BOOLEAN, Saved(ok) PROVE LoadsKnown' /\ LoadsAreAwaited'
  <2>1. LoadsKnown'
    BY <1>24 DEF LoadsKnown, Saved
  <2>2. LoadsAreAwaited'
    BY <1>24 DEF LoadsAreAwaited, Saved
  <2> QED
    BY <2>1, <2>2
<1>25. ASSUME NEW h \in Holders, AbortUnload(h) PROVE LoadsKnown' /\ LoadsAreAwaited'
  <2>1. LoadsKnown'
    BY <1>25 DEF LoadsKnown, AbortUnload
  <2>2. LoadsAreAwaited'
    BY <1>25 DEF LoadsAreAwaited, AbortUnload
  <2> QED
    BY <2>1, <2>2
<1>26. ASSUME NEW h \in Holders, NEW back \in BOOLEAN, CoolDown(h, back) PROVE LoadsKnown' /\ LoadsAreAwaited'
  <2>1. LoadsKnown'
    BY <1>26 DEF LoadsKnown, CoolDown, CancelWork
  <2>2. LoadsAreAwaited'
    BY <1>26 DEF LoadsAreAwaited, CoolDown
  <2> QED
    BY <2>1, <2>2
<1>27. ASSUME NEW h \in Holders, Remove(h) PROVE LoadsKnown' /\ LoadsAreAwaited'
  <2>a. load' # None => load # None /\ load'.owner = load.owner /\ load'.attached \subseteq load.attached
    BY <1>27 DEF Remove, Load
  <2>b. holder' = None
    BY <1>27, UnloadShape DEF Remove, Finishing
  <2>1. LoadsKnown'
    BY <1>27, <2>a DEF LoadsKnown, Remove, CancelWork
  <2>2. LoadsAreAwaited'
    BY <1>27, <2>b DEF LoadsAreAwaited, Remove
  <2> QED
    BY <2>1, <2>2
<1>28. ASSUME CoolEnds PROVE LoadsKnown' /\ LoadsAreAwaited'
  <2>1. LoadsKnown'
    BY <1>28 DEF LoadsKnown, CoolEnds
  <2>2. LoadsAreAwaited'
    BY <1>28 DEF LoadsAreAwaited, CoolEnds
  <2> QED
    BY <2>1, <2>2
<1>0. CASE UNCHANGED vars
  BY <1>0 DEF vars, LoadsKnown, LoadsAreAwaited
<1> QED
  <2>1. CASE Next
    <3>1. CASE MainStep
      BY <3>1, <1>1, <1>2, <1>3, <1>4, <1>5, <1>6, <1>8, <1>9, <1>22, <1>23, <1>25, <1>26, <1>27, <1>28, Zenon DEF MainStep, Finish
    <3>2. CASE Storage
      BY <3>2, <1>7, <1>24, Zenon DEF Storage
    <3>3. CASE \E t \in Threads : Store(t)
      BY <3>3, <1>10, Zenon
    <3>4. ASSUME NEW w \in Workers, PoolStep(w) PROVE LoadsKnown' /\ LoadsAreAwaited'
      BY <3>4, <1>15, <1>16, <1>17, <1>18, <1>19, <1>20, <1>21, Zenon DEF PoolStep
    <3>5. ASSUME NEW w \in Workers, Around(w) PROVE LoadsKnown' /\ LoadsAreAwaited'
      BY <3>5, <1>11, <1>12, <1>13, <1>14, Zenon DEF Around
    <3> QED
      BY <2>1, <3>1, <3>2, <3>3, <3>4, <3>5, Zenon DEF Next
  <2> QED
    BY <2>1, <1>0, Zenon

(* What is written is a number.                                            *)
LEMMA DiskNat ==
    ASSUME TypeOK
    PROVE  latest \in Nat /\ latest # None /\ (disk # None => disk \in Nat) /\ 0 # None
  BY UnloadAssumption DEF TypeOK, DataTypes, Contents

LEMMA DataFrame ==
    ASSUME Written, NothingLost, unloading' => unloading,
           UNCHANGED <<holder, state, chunk, disk, latest, saving, batch, autosaving, load, excused>>
    PROVE  Written' /\ NothingLost'
  BY DEF Written, NothingLost

LEMMA DataAdvance ==
    ASSUME TypeOK, OneUnload, LoadsKnown, Written, NothingLost, NEW h \in Holders,
           holder' = h,
           holder # None => h = holder,
           holder = None => h = made + 1,
           (state[h] = "new" /\ Resolve(h)) \/ UNCHANGED <<state, load>>,
           UNCHANGED <<chunk, disk, latest, saving, batch, autosaving, unloading, excused>>
    PROVE  Written' /\ NothingLost'
<1>1. NothingLost'
  BY DEF NothingLost
<1>2. SUFFICES ASSUME ~excused' PROVE Written'
  BY <1>1 DEF Written
<1>3. ~excused /\ h # None
  BY <1>2, NoneFresh
<1>4. holder = None => state[h] = "new" /\ chunk = None /\ saving = <<>>
  BY <1>3, UnloadShape, NoneFresh DEF LoadsKnown, Written, TypeOK, HolderTypes, Holders
<1>5. (state'[h] = state[h]) \/ (state[h] = "new" /\ state'[h] = "resolving")
  BY ResolveShape DEF TypeOK, HolderTypes
<1>6. load' # None /\ load'.owner = h /\ load'.read /\ load'.content # None =>
         load'.content = latest /\ disk = latest
  <2>1. CASE UNCHANGED load /\ holder = h
    BY <1>3, <2>1 DEF Written
  <2>2. CASE UNCHANGED load /\ holder = None
    BY <2>2, RecordFields DEF LoadsKnown, TypeOK, HolderTypes, DataTypes, Holders
  <2>3. CASE Resolve(h) /\ load = None
    BY <2>3, ResolveShape
  <2>4. CASE Resolve(h) /\ load # None /\ holder = h
    BY <1>3, <2>4, ResolveShape DEF Written
  <2>5. CASE Resolve(h) /\ load # None /\ holder = None
    <3>1. load.owner \in Nat /\ load.owner <= made
      BY <2>5, RecordFields DEF LoadsKnown, TypeOK, DataTypes, Holders
    <3>2. made \in Nat /\ h = made + 1
      BY <2>5, UnloadAssumption DEF TypeOK, HolderTypes
    <3>3. load'.owner # h
      BY <2>5, <3>1, <3>2, ResolveShape
    <3> QED
      BY <3>3
  <2> QED
    BY <2>1, <2>2, <2>3, <2>4, <2>5
<1> QED
  BY <1>3, <1>4, <1>5, <1>6 DEF Written

LEMMA DataLevel ==
    ASSUME TypeOK, OneUnload, LoadsKnown, Written, NothingLost,
           \/ UNCHANGED <<holder, made, task>> /\ NoAdvance
           \/ \E h \in Holders : LevelDone(h),
           UNCHANGED <<chunk, disk, latest, saving, batch, autosaving, unloading, excused>>
    PROVE  Written' /\ NothingLost'
<1>1. CASE UNCHANGED <<holder, made, task>> /\ NoAdvance
  BY <1>1, DataFrame DEF NoAdvance
<1>2. ASSUME NEW h \in Holders, LevelDone(h) PROVE Written' /\ NothingLost'
  BY <1>2, AdvanceShape, DataAdvance DEF LevelDone
<1> QED
  BY <1>1, <1>2

LEMMA DataStep ==
    ASSUME TypeOK, OneUnload, LoadsKnown, LoadsAreAwaited, Written, NothingLost
    PROVE  [Next]_vars => Written' /\ NothingLost'
<1> USE UnloadAssumption, NoneFresh DEF TypeOK, HolderTypes, holderVars, poolVars, candidateVars, unloadVars, dataVars
<1>1. ASSUME MoveLevel PROVE Written' /\ NothingLost'
  BY <1>1, LevelShape, DataLevel DEF MoveLevel
<1>2. ASSUME DrainDeferred PROVE Written' /\ NothingLost'
  BY <1>2, LevelShape, DataLevel DEF DrainDeferred
<1>3. ASSUME Request PROVE Written' /\ NothingLost'
  <2>1. PICK h \in Holders : Present(h, level) /\ Advance(h)
    BY <1>3 DEF Request
  <2> QED
    BY <1>3, <2>1, PresentShape, AdvanceShape, DataAdvance DEF Request
<1>4. ASSUME Edit PROVE Written' /\ NothingLost'
  <2>1. SUFFICES ASSUME ~excused' PROVE Written' /\ NothingLost'
    BY DEF Written, NothingLost
  <2>2. ~excused /\ ~unloading /\ chunk # None /\ ~autosaving
    BY <1>4, <2>1 DEF Edit, MainFree, DataTypes
  <2>3. saving = <<>> /\ batch = {} /\ holder # None /\ state[holder] = "done" /\ chunk.of = holder
    BY <2>2, UnloadShape DEF Written
  <2>4. chunk' # None /\ chunk'.content = latest' /\ chunk'.dirty /\ chunk'.of = holder
    <3>1. latest + 1 \in Contents /\ chunk.of \in Holders
      BY <1>4, NewChunk, RecordFields DEF Edit, DataTypes, Contents
    <3> QED
      BY <1>4, <2>3, <3>1, NewChunk DEF Edit, Edited, Chunk
  <2>5. UNCHANGED <<holder, state, saving, batch, autosaving, unloading, load, disk>>
    BY <1>4 DEF Edit
  <2>6. ~(load # None /\ load.owner = holder)
    BY <2>3 DEF LoadsAreAwaited
  <2>7. disk # None => disk <= latest'
    BY <1>4, <2>2, DiskNat DEF Edit, Written
  <2> QED
    BY <2>2, <2>3, <2>4, <2>5, <2>6, <2>7 DEF Written, NothingLost
<1>5. ASSUME GatherDirty PROVE Written' /\ NothingLost'
  <2>1. SUFFICES ASSUME ~excused' PROVE Written' /\ NothingLost'
    BY DEF Written, NothingLost
  <2>2. ~excused /\ UNCHANGED <<holder, state, saving, unloading, load, disk, chunk, latest>> /\ autosaving' = TRUE
    BY <1>5, <2>1 DEF GatherDirty
  <2>3. batch' = IF chunk # None /\ chunk.dirty THEN {latest} ELSE {}
    BY <1>5, <2>2 DEF GatherDirty, NothingLost
  <2> QED
    BY <2>2, <2>3 DEF Written, NothingLost
<1>6. ASSUME NEW ok \in BOOLEAN, SaveGathered(ok) PROVE Written' /\ NothingLost'
  <2>1. SUFFICES ASSUME ~excused' PROVE Written' /\ NothingLost'
    BY DEF Written, NothingLost
  <2>2. /\ ~excused /\ UNCHANGED <<holder, state, saving, unloading, load, latest>>
        /\ autosaving /\ autosaving' = FALSE /\ batch' = {}
    BY <1>6, <2>1 DEF SaveGathered
  <2>3. CASE ~ok
    <3>1. UNCHANGED <<disk, chunk>>
      BY <1>6, <2>3 DEF SaveGathered
    <3> QED
      BY <2>2, <3>1 DEF Written, NothingLost
  <2>4. CASE ok /\ chunk = None
    <3>1. UNCHANGED <<disk, chunk>>
      BY <1>6, <2>2, <2>4 DEF SaveGathered, Written
    <3> QED
      BY <2>2, <3>1 DEF Written, NothingLost
  <2>5. CASE ok /\ chunk # None
    <3>1. chunk' # None /\ chunk'.content = chunk.content /\ ~chunk'.dirty /\ chunk'.of = chunk.of
      BY <1>6, <2>5, NewChunk DEF SaveGathered, Clean, Chunk
    <3>2. disk' = IF batch # {} THEN latest ELSE disk
      <4>1. batch # {} => (CHOOSE c \in batch : TRUE) = latest
        BY <2>2 DEF Written
      <4> QED
        BY <1>6, <2>5, <4>1 DEF SaveGathered
    <3>3. chunk.dirty /\ batch = {} => latest = 0
      BY <2>2, <2>5 DEF Written
    <3>4. NothingLost'
      BY <2>2, <2>5, <3>1, <3>2, <3>3, RecordFields, NewChunk DEF NothingLost, DataTypes
    <3>5. Written'
      BY <2>2, <2>5, <3>1, <3>2, DiskNat DEF Written
    <3> QED
      BY <3>4, <3>5
  <2> QED
    BY <2>3, <2>4, <2>5
<1>7. ASSUME Read PROVE Written' /\ NothingLost'
  <2>1. SUFFICES ASSUME ~excused' PROVE Written' /\ NothingLost'
    BY DEF Written, NothingLost
  <2>2. ~excused /\ UNCHANGED <<holder, state, saving, unloading, disk, chunk, latest, autosaving, batch>>
    BY <1>7, <2>1 DEF Read
  <2>3. load'.owner = load.owner /\ load'.content = disk /\ load # None
    BY <1>7 DEF Read, Load
  <2>4. load.owner = holder => chunk = None
    <3>1. load.owner \in Holders
      BY <2>3, RecordFields DEF DataTypes
    <3> QED
      BY <2>2, <2>3, <3>1 DEF LoadsAreAwaited, Written
  <2>5. load.owner = holder /\ disk # None => disk = latest
    BY <2>2, <2>4, DiskNat DEF Written, NothingLost
  <2> QED
    BY <2>2, <2>3, <2>5 DEF Written, NothingLost
<1>8. ASSUME LoadHit PROVE Written' /\ NothingLost'
  <2>1. SUFFICES ASSUME ~excused' PROVE Written' /\ NothingLost'
    BY DEF Written, NothingLost
  <2>2. ~excused /\ UNCHANGED <<holder, saving, unloading, disk, latest, autosaving, batch>> /\ load' = None
    BY <1>8, <2>1 DEF LoadHit
  <2>3. holder \in Holders /\ load # None /\ load \in Loads /\ load.owner = holder /\ load.read /\ load.content # None
    BY <1>8, RecordFields DEF LoadHit, LoadedHere, DataTypes
  <2>4. load.content = latest /\ disk = latest /\ load.content \in Contents
    BY <2>2, <2>3, RecordFields DEF Written
  <2>5. state[holder] = "resolving" /\ state'[holder] = "done"
    BY <1>8, <2>3 DEF LoadHit, LoadsAreAwaited
  <2>6. chunk = None /\ saving = <<>> /\ batch = {}
    BY <2>2, <2>3, <2>5 DEF Written
  <2>7. chunk' # None /\ chunk'.content = latest /\ ~chunk'.dirty /\ chunk'.of = holder
    BY <1>8, <2>3, <2>4, NewChunk DEF LoadHit, Chunk
  <2>8. NothingLost'
    BY <2>2, <2>4, <2>7 DEF NothingLost
  <2>9. disk' # None => disk' <= latest'
    BY <2>2, <2>4, DiskNat
  <2>10. Written'
    BY <2>2, <2>3, <2>4, <2>5, <2>6, <2>7, <2>9 DEF Written
  <2> QED
    BY <2>8, <2>10
<1>9. ASSUME LoadMissing PROVE Written' /\ NothingLost'
  <2>1. SUFFICES ASSUME ~excused' PROVE Written' /\ NothingLost'
    BY DEF Written, NothingLost
  <2>2. /\ ~excused /\ UNCHANGED <<holder, saving, unloading, disk, latest, autosaving, batch, chunk>> /\ load' = None
        /\ MissingFor # {} => disk = None
    BY <1>9, <2>1 DEF LoadMissing, DataTypes
  <2>3. MissingFor \subseteq {holder} /\ (MissingFor # {} => holder # None /\ state[holder] = "resolving")
    BY <1>9, RecordFields DEF LoadMissing, LoadedHere, MissingFor, LoadsAreAwaited, DataTypes
  <2>4. MissingFor # {} => chunk = None /\ latest = 0
    BY <2>2, <2>3, DiskNat DEF Written, NothingLost
  <2>5. holder # None => state'[holder] = IF MissingFor # {} THEN "missing" ELSE state[holder]
    BY <1>9, <2>3 DEF LoadMissing
  <2>6. NothingLost'
    BY <2>2 DEF NothingLost
  <2>7. saving # <<>> => holder # None
    BY UnloadShape
  <2>8. Written'
    BY <2>2, <2>3, <2>4, <2>5, <2>7 DEF Written
  <2> QED
    BY <2>6, <2>8
<1>10. ASSUME NEW t \in Threads, Store(t) PROVE Written' /\ NothingLost'
  BY <1>10, DataFrame DEF Store
<1>11. ASSUME NEW w \in Workers, NEW h \in Holders, Use(w, h) PROVE Written' /\ NothingLost'
  BY <1>11, DataFrame DEF Use
<1>12. ASSUME NEW w \in Workers, Release(w) PROVE Written' /\ NothingLost'
  BY <1>12, DataFrame DEF Release
<1>13. ASSUME NEW w \in Workers, NEW h \in Holders, AwaitIt(w, h) PROVE Written' /\ NothingLost'
  <2>1. (state[h] = "new" /\ Resolve(h)) \/ UNCHANGED <<state, load>>
    BY <1>13 DEF AwaitIt
  <2> QED
    BY <1>13, <2>1, PresentShape, DataAdvance DEF AwaitIt
<1>14. ASSUME NEW w \in Workers, Forgo(w) PROVE Written' /\ NothingLost'
  BY <1>14, DataFrame DEF Forgo
<1>15. ASSUME NEW w \in Workers, NEW h \in Holders, ScheduleJob(w, h) PROVE Written' /\ NothingLost'
  BY <1>15, DataFrame DEF ScheduleJob
<1>16. ASSUME NEW w \in Workers, NEW h \in Holders, NotifyJob(w, h) PROVE Written' /\ NothingLost'
  BY <1>16, DataFrame DEF NotifyJob
<1>17. ASSUME NEW w \in Workers, NEW h \in Holders, CancelTask(w, h) PROVE Written' /\ NothingLost'
  BY <1>17, DataFrame DEF CancelTask
<1>18. ASSUME NEW w \in Workers, NEW h \in Holders, Start(w, h) PROVE Written' /\ NothingLost'
  BY <1>18, DataFrame DEF Start
<1>19. ASSUME NEW w \in Workers, NEW h \in Holders, Publish(w, h) PROVE Written' /\ NothingLost'
  <2>1. SUFFICES ASSUME ~excused' PROVE Written' /\ NothingLost'
    BY DEF Written, NothingLost
  <2>2. /\ ~excused /\ h = holder /\ state' = [state EXCEPT ![h] = "done"]
        /\ UNCHANGED <<holder, saving, unloading, disk, latest, autosaving, batch, load>>
    BY <1>19, <2>1 DEF Publish, DataTypes
  <2>3. state[h] \in {"missing", "done"} /\ state'[h] = "done"
    BY <1>19, <2>2 DEF Publish, LoadsKnown
  <2>4. ~(load # None /\ load.owner = holder)
    BY <2>2, <2>3 DEF LoadsAreAwaited
  <2>5. CASE chunk # None
    <3>1. UNCHANGED chunk
      BY <1>19, <2>2, <2>5 DEF Publish, Written
    <3> QED
      BY <2>2, <2>3, <2>4, <2>5, <3>1 DEF Written, NothingLost
  <2>6. CASE chunk = None
    <3>1. state[h] = "missing"
      BY <2>2, <2>3, <2>6 DEF LoadsAreAwaited
    <3>2. latest = 0 /\ disk = None /\ saving = <<>> /\ batch = {}
      BY <2>2, <2>6, <3>1 DEF Written
    <3>3. chunk' # None /\ chunk'.content = 0 /\ chunk'.dirty /\ chunk'.of = h
      BY <1>19, <2>6, NewChunk DEF Publish, Chunk
    <3> QED
      BY <2>2, <2>3, <2>4, <3>2, <3>3 DEF Written, NothingLost
  <2> QED
    BY <2>5, <2>6
<1>20. ASSUME NEW w \in Workers, NEW h \in Holders, Complete(w, h) PROVE Written' /\ NothingLost'
  BY <1>20, DataFrame DEF Complete
<1>21. ASSUME NEW w \in Workers, Leave(w) PROVE Written' /\ NothingLost'
  BY <1>21, DataFrame DEF Leave
<1>22. ASSUME NEW idle \in BOOLEAN, Arm(idle) PROVE Written' /\ NothingLost'
  BY <1>22, DataFrame DEF Arm
<1>23. ASSUME PopCandidate PROVE Written' /\ NothingLost'
  <2>1. SUFFICES ASSUME ~excused' PROVE Written' /\ NothingLost'
    BY DEF Written, NothingLost
  <2>2. ~excused /\ UNCHANGED <<holder, state, disk, latest, autosaving, batch, load>> /\ ~autosaving
    BY <1>23, <2>1 DEF PopCandidate, MainFree
  <2>3. CASE UNCHANGED <<unloading, saving, chunk>>
    BY <2>2, <2>3 DEF Written, NothingLost
  <2>4. CASE unloading' = TRUE /\ ~ToSave /\ UNCHANGED <<saving, chunk>>
    BY <2>2, <2>4 DEF Written, NothingLost, ToSave
  <2>5. CASE /\ ToSave /\ holder # None /\ ~unloading /\ chunk' = Clean
             /\ saving' = Append(saving, [content |-> chunk.content, of |-> holder])
    <3>1. saving = <<>>
      BY <2>5, UnloadShape
    <3>2. saving' # <<>> /\ Len(saving') = 1 /\ saving'[1].content = chunk.content
      BY <2>5, <3>1
    <3>3. chunk' # None /\ chunk'.content = chunk.content /\ ~chunk'.dirty /\ chunk'.of = chunk.of
      BY <2>5, NewChunk DEF ToSave, Clean, Chunk
    <3>4. chunk # None /\ chunk.content = latest /\ state[holder] = "done"
      BY <2>2, <2>5 DEF ToSave, NothingLost, Written
    <3>5. NothingLost'
      BY <2>2, <3>2, <3>3, <3>4 DEF NothingLost
    <3>6. Written'
      BY <2>2, <3>2, <3>3, <3>4 DEF Written
    <3> QED
      BY <3>5, <3>6
  <2> QED
    BY <1>23, <2>3, <2>4, <2>5 DEF PopCandidate, Candidate
<1>24. ASSUME NEW ok \in BOOLEAN, Saved(ok) PROVE Written' /\ NothingLost'
  <2>1. SUFFICES ASSUME ~excused' PROVE Written' /\ NothingLost'
    BY DEF Written, NothingLost
  <2>2. ~excused /\ ok /\ UNCHANGED <<holder, state, latest, autosaving, batch, load, chunk, unloading>>
    BY <1>24, <2>1 DEF Saved, DataTypes
  <2>3. /\ saving # <<>> /\ saving' = <<>> /\ Head(saving) = saving[1]
        /\ disk' = latest /\ state[holder] = "done" /\ holder \in Holders
    BY <1>24, <2>2, UnloadShape DEF Saved, Written
  <2>4. chunk # None /\ chunk.content = latest /\ chunk.of = holder
    BY <2>2, <2>3 DEF LoadsAreAwaited, Written, NothingLost
  <2>5. NothingLost'
    BY <2>2, <2>3, <2>4 DEF NothingLost
  <2>6. Written'
    BY <2>2, <2>3, <2>4, DiskNat DEF Written
  <2> QED
    BY <2>5, <2>6
<1>25. ASSUME NEW h \in Holders, AbortUnload(h) PROVE Written' /\ NothingLost'
  BY <1>25, DataFrame DEF AbortUnload, EndFinish
<1>26. ASSUME NEW h \in Holders, NEW back \in BOOLEAN, CoolDown(h, back) PROVE Written' /\ NothingLost'
  BY <1>26, DataFrame DEF CoolDown, EndFinish
<1>27. ASSUME NEW h \in Holders, Remove(h) PROVE Written' /\ NothingLost'
  <2>1. SUFFICES ASSUME ~excused' PROVE Written' /\ NothingLost'
    BY DEF Written, NothingLost
  <2>2. /\ ~excused /\ UNCHANGED <<state, latest, autosaving, batch, disk, saving>> /\ chunk' = None
        /\ ~autosaving /\ finish # <<>> /\ Head(finish) = h
    BY <1>27, <2>1 DEF Remove, Finishing, MainFree
  <2>3. saving = <<>> /\ unloading /\ h = holder /\ holder' = None
    BY <1>27, <2>2, UnloadShape DEF Remove
  <2>4. batch = {}
    BY <2>2 DEF Written
  <2>5. latest = 0 \/ disk = latest
    <3>1. \A i \in 1 .. Len(saving) : FALSE
      BY <2>3
    <3> QED
      BY <2>2, <2>3, <3>1 DEF NothingLost, Written
  <2>6. ~(load' # None /\ load'.owner = None)
    BY <1>27, RecordFields DEF Remove, Load, DataTypes
  <2>7. NothingLost'
    BY <2>2, <2>5 DEF NothingLost
  <2>8. Written'
    BY <2>2, <2>3, <2>4, <2>6 DEF Written
  <2> QED
    BY <2>7, <2>8
<1>28. ASSUME CoolEnds PROVE Written' /\ NothingLost'
  BY <1>28, DataFrame DEF CoolEnds
<1>0. CASE UNCHANGED vars
  BY <1>0, DataFrame DEF vars
<1> QED
  <2>1. CASE Next
    <3>1. CASE MainStep
      BY <3>1, <1>1, <1>2, <1>3, <1>4, <1>5, <1>6, <1>8, <1>9, <1>22, <1>23, <1>25, <1>26, <1>27, <1>28, Zenon DEF MainStep, Finish
    <3>2. CASE Storage
      BY <3>2, <1>7, <1>24, Zenon DEF Storage
    <3>3. CASE \E t \in Threads : Store(t)
      BY <3>3, <1>10, Zenon
    <3>4. ASSUME NEW w \in Workers, PoolStep(w) PROVE Written' /\ NothingLost'
      BY <3>4, <1>15, <1>16, <1>17, <1>18, <1>19, <1>20, <1>21, Zenon DEF PoolStep
    <3>5. ASSUME NEW w \in Workers, Around(w) PROVE Written' /\ NothingLost'
      BY <3>5, <1>11, <1>12, <1>13, <1>14, Zenon DEF Around
    <3> QED
      BY <2>1, <3>1, <3>2, <3>3, <3>4, <3>5, Zenon DEF Next
  <2> QED
    BY <2>1, <1>0, Zenon

(***************************************************************************)
(* The theorems.                                                           *)
(***************************************************************************)
UnloadInv == TypeOK /\ RemovedIsUnused /\ OneUnload /\ LoadsKnown /\ LoadsAreAwaited /\ Written /\ NothingLost

LEMMA UnloadInit == Init => UnloadInv
<1> SUFFICES ASSUME Init PROVE UnloadInv
  OBVIOUS
<1> USE UnloadAssumption, NoneFresh DEF Init
<1>1. HolderTypes
  <2>1. 0 \in 0 .. MaxHolders /\ 0 \in 0 .. MaxMoves /\ 0 \in 0 .. MaxCalls
    OBVIOUS
  <2>2. wanted \in TicketLevels /\ level \in [Holders -> TicketLevels]
    BY DEF TicketLevels
  <2>3. state \in [Holders -> {"new", "resolving", "missing", "done"}] /\ asked \in [Holders -> BOOLEAN]
    OBVIOUS
  <2>4. waiting \in [Holders -> BOOLEAN] /\ refs \in [Holders -> Nat]
    OBVIOUS
  <2>5. task \in [Holders -> {"none", "queued", "revoked", "running"}]
    OBVIOUS
  <2> QED
    BY <2>1, <2>2, <2>3, <2>4, <2>5, Zenon DEF HolderTypes
<1>2. WorkerTypes
  BY DEF WorkerTypes, Threads
<1>3. UnloadTypes
  <2>1. <<>> \in Seq(Saves) /\ <<>> \in Seq(Holders)
    OBVIOUS
  <2> QED
    BY <2>1 DEF UnloadTypes
<1>4. DataTypes
  <2>1. disk \in Contents \cup {None} /\ latest \in Contents
    BY DEF Contents
  <2> QED
    BY <2>1 DEF DataTypes
<1>5. RemovedIsUnused /\ OneUnload
  BY DEF RemovedIsUnused, OneUnload
<1>6. LoadsKnown /\ LoadsAreAwaited
  BY DEF LoadsKnown, LoadsAreAwaited
<1>7. Written /\ NothingLost
  BY DEF Written, NothingLost
<1> QED
  BY <1>1, <1>2, <1>3, <1>4, <1>5, <1>6, <1>7 DEF UnloadInv, TypeOK

(* What unloading keeps true, all together.                                *)
THEOREM UnloadCorrect == Spec => []UnloadInv
<1>1. UnloadInv /\ [Next]_vars => UnloadInv'
  BY TypeStep, UnloadStep, LoadsStep, DataStep, Zenon DEF UnloadInv
<1> QED
  BY UnloadInit, <1>1, PTL DEF Spec

(* Types.                                                                  *)
THEOREM UnloadTypesCorrect == Spec => []TypeOK
<1>1. UnloadInv => TypeOK
  BY DEF UnloadInv
<1> QED
  BY UnloadCorrect, <1>1, PTL

(* A removed holder is unused: a worker that looks the holder up, uses it  *)
(* or schedules it from a job begun before finds it gone, or is in time to *)
(* keep it.                                                                *)
THEOREM RemovalSafe == Spec => []RemovedIsUnused
<1>1. UnloadInv => RemovedIsUnused
  BY DEF UnloadInv
<1> QED
  BY UnloadCorrect, <1>1, PTL

(* An unload in flight is in one place and the present holder's.           *)
THEOREM UnloadsAreSingle == Spec => []OneUnload
<1>1. UnloadInv => OneUnload
  BY DEF UnloadInv
<1> QED
  BY UnloadCorrect, <1>1, PTL

(* A load tells its result to a holder that still waits for it.            *)
THEOREM LoadsCorrect == Spec => []LoadsAreAwaited
<1>1. UnloadInv => LoadsAreAwaited
  BY DEF UnloadInv
<1> QED
  BY UnloadCorrect, <1>1, PTL

(* No edit is lost but in the ways excused.                                *)
THEOREM EditsSurvive == Spec => []NothingLost
<1>1. UnloadInv => NothingLost
  BY DEF UnloadInv
<1> QED
  BY UnloadCorrect, <1>1, PTL
=============================================================================
