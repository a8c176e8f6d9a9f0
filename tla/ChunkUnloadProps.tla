-------------------------- MODULE ChunkUnloadProps --------------------------
(* What unloading promises.                                                *)
EXTENDS ChunkUnload

Contents == 0 .. MaxEdits + 1

Saves == [content : Contents, of : Holders]
Chunks == [content : Contents, dirty : BOOLEAN, of : Holders]
Loads == [owner : Holders, attached : SUBSET Holders, read : BOOLEAN, content : Contents \cup {None}]

HolderTypes ==
    /\ wanted \in TicketLevels /\ deferred \in BOOLEAN
    /\ made \in 0 .. MaxHolders
    /\ holder \in {None} \cup {h \in Holders : h = made}
    /\ level \in [Holders -> TicketLevels]
    /\ state \in [Holders -> {"new", "resolving", "missing", "done"}]
    /\ asked \in [Holders -> BOOLEAN] /\ waiting \in [Holders -> BOOLEAN]
    /\ refs \in [Holders -> Nat]
    /\ task \in [Holders -> {"none", "queued", "revoked", "running"}]
    /\ moves \in 0 .. MaxMoves /\ calls \in 0 .. MaxCalls

WorkerTypes ==
    /\ reading \in Nat
    /\ jobs \subseteq [kind : {"schedule", "notify"}, of : Holders]
    /\ work \in [Workers -> Holders \cup {None}] /\ published \in [Workers -> BOOLEAN]
    /\ lock \in Workers \cup {None}
    /\ lock # None => work[lock] = None
    /\ check \in [Threads -> {"none", "yes", "no"}]
    /\ \A w \in Workers : check[w] # "none" => lock = w

UnloadTypes ==
    /\ queued \in BOOLEAN /\ armed \in BOOLEAN /\ unloading \in BOOLEAN
    /\ saving \in Seq(Saves) /\ finish \in Seq(Holders)
    /\ cooldown \in BOOLEAN /\ coolTicket \in BOOLEAN

DataTypes ==
    /\ chunk \in {None} \cup Chunks
    /\ disk \in Contents \cup {None} /\ latest \in Contents
    /\ load \in {None} \cup Loads
    /\ autosaving \in BOOLEAN /\ batch \subseteq Contents
    /\ excused \in BOOLEAN

(* Types; a worker inside the area generates nothing, and only there, or   *)
(* on the main thread, is an answer kept.                                  *)
TypeOK == HolderTypes /\ WorkerTypes /\ UnloadTypes /\ DataTypes

(* A holder that is gone is done with: nobody reads its chunk, waits for   *)
(* it or has asked for it, and no task of it is left, although workers     *)
(* look the holder up, use it and schedule it from jobs begun long before. *)
(* And as the references are given back by position, the present holder    *)
(* has exactly those of the tasks that read.                               *)
RemovedIsUnused ==
    /\ \A h \in Holders \ {holder} :
          refs[h] = 0 /\ ~waiting[h] /\ ~asked[h] /\ task[h] = "none"
    /\ reading = (IF holder = None THEN 0 ELSE refs[holder])

(* An unload in flight is in exactly one place, the storage or the queue   *)
(* of the ones to finish, and belongs to the holder that is there now: it  *)
(* is never finished twice, for another holder, or forgotten.              *)
OneUnload ==
    /\ Len(saving) + Len(finish) = (IF unloading THEN 1 ELSE 0)
    /\ \A i \in 1 .. Len(saving) : saving[i].of = holder
    /\ \A i \in 1 .. Len(finish) : finish[i] = holder

(* What a load will tell its result to still waits for it: none has got    *)
(* another chunk meanwhile, so that neither publishStorageLoaded nor       *)
(* noteStorageMissing fails the assertion on the source's state.  A holder *)
(* with a chunk has it in memory.                                          *)
LoadsAreAwaited ==
    /\ holder # None =>
          (state[holder] = "resolving") = (load # None /\ holder \in {load.owner} \cup load.attached)
    /\ holder # None /\ state[holder] = "done" => chunk # None

(* No edit is lost through all unloads, saves and loads: the last one is   *)
(* in the chunk in memory, marked to be saved or on its way, or else in    *)
(* the storage.  Excused are an edit made while an unload is in flight, a  *)
(* stage 1 save that failed, a stored chunk hidden by a load whose owner   *)
(* was unloaded, and a chunk generated for a holder that is gone.          *)
NothingLost ==
    ~excused =>
        IF chunk # None
        THEN /\ chunk.content = latest
             /\ chunk.dirty \/ disk = latest \/ latest = 0
                \/ \E i \in 1 .. Len(saving) : saving[i].content = latest
        ELSE latest = 0 \/ disk = latest

(* A chunk not marked dirty is in the storage or on its way there          *)
(* ("落盘成功后才清脏标记", ServerWorld.cpp:322).                                  *)
CleanIsStored ==
    chunk # None /\ ~chunk.dirty /\ ~excused =>
        disk # None \/ saving # <<>>

(* An unload ends, by removal or not, even when levels are deferred and    *)
(* workers hold the area.                                                  *)
UnloadsEnd == unloading ~> ~unloading

(* A request is answered: by a load, by generation, or by being failed     *)
(* when an unload takes the holder.                                        *)
RequestsEnd == \A h \in Holders : asked[h] ~> ~asked[h]

(* The level of the holder becomes the one of the graph, though the main   *)
(* thread never waits for the area.                                        *)
LevelsArrive == <>[](~deferred /\ (holder # None => level[holder] = wanted))

(* A holder out of every ticket's reach that could go is queued to go      *)
(* ("资格变化会经观察者回调重新入队，无需在此重试", ServerChunkManager.cpp:1591; no scan  *)
(* looks for it later, :1638), once every answer is stored.                *)
CandidatesQueued ==
    (/\ holder # None
     /\ level[holder] = "far" /\ ~deferred
     /\ Candidate(holder)
     /\ \A t \in Threads : check[t] = "none") => queued
=============================================================================
