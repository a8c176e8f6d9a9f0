------------------------ MODULE ChunkDeliveryProofs ------------------------
(***************************************************************************)
(* What is proved of ChunkDelivery for any players and any bound: its      *)
(* types, that there are no ghost chunks, that edits arrive, that a LIGHT  *)
(* ticket is owed to somebody and that a chunk has one light task.         *)
(***************************************************************************)
EXTENDS ChunkDeliveryProps, SequenceTheorems, TLAPS

(* What TicketIsOwed leans on: a task without a chunk is known of.         *)
SkipsKnown == (\E i \in DOMAIN tasks : tasks[i].kind = "light" /\ tasks[i].of = "none") => skipped

-----------------------------------------------------------------------------
(* The sequences a step makes.                                             *)

(* One after the other                                                     *)
LEMMA Concat ==
    ASSUME NEW S, NEW s \in Seq(S), NEW t \in Seq(S)
    PROVE  /\ s \o t \in Seq(S)
           /\ \A i \in DOMAIN s : i \in DOMAIN (s \o t) /\ (s \o t)[i] = s[i]
           /\ \A i \in DOMAIN (s \o t) :
                 \/ i \in DOMAIN s
                 \/ \E j \in DOMAIN t : i = Len(s) + j /\ (s \o t)[i] = t[j]
<1>1. /\ s \o t \in Seq(S) /\ Len(s \o t) = Len(s) + Len(t) /\ Len(s) \in Nat /\ Len(t) \in Nat
      /\ DOMAIN s = 1 .. Len(s) /\ DOMAIN t = 1 .. Len(t) /\ DOMAIN (s \o t) = 1 .. Len(s \o t)
      /\ \A i \in 1 .. Len(s) + Len(t) : (s \o t)[i] = IF i <= Len(s) THEN s[i] ELSE t[i - Len(s)]
  BY ConcatProperties, LenProperties
<1>2. \A i \in DOMAIN s : i \in DOMAIN (s \o t) /\ (s \o t)[i] = s[i]
  BY <1>1
<1>3. ASSUME NEW i \in DOMAIN (s \o t), i \notin DOMAIN s
      PROVE  \E j \in DOMAIN t : i = Len(s) + j /\ (s \o t)[i] = t[j]
  <2>1. i - Len(s) \in DOMAIN t /\ i = Len(s) + (i - Len(s)) /\ (s \o t)[i] = t[i - Len(s)]
    BY <1>1, <1>3
  <2> QED
    BY <2>1
<1> QED
  BY <1>1, <1>2, <1>3

(* One more                                                                *)
LEMMA Appended ==
    ASSUME NEW S, NEW s \in Seq(S), NEW e \in S
    PROVE  /\ Append(s, e) \in Seq(S)
           /\ \A i \in DOMAIN s : i \in DOMAIN Append(s, e) /\ Append(s, e)[i] = s[i]
           /\ Len(s) + 1 \in DOMAIN Append(s, e) /\ Append(s, e)[Len(s) + 1] = e
           /\ \A i \in DOMAIN Append(s, e) : i \in DOMAIN s \/ i = Len(s) + 1
  BY LenProperties

(* Without the first                                                       *)
LEMMA Shifted ==
    ASSUME NEW S, NEW s \in Seq(S), s # <<>>
    PROVE  /\ Head(s) \in S /\ Head(s) = s[1] /\ 1 \in DOMAIN s
           /\ Tail(s) \in Seq(S)
           /\ \A i \in DOMAIN Tail(s) : i \in Nat /\ i + 1 \in DOMAIN s /\ Tail(s)[i] = s[i + 1]
           /\ \A i \in DOMAIN s : i = 1 \/ (i - 1 \in DOMAIN Tail(s) /\ Tail(s)[i - 1] = s[i])
<1>1. /\ Head(s) \in S /\ Tail(s) \in Seq(S) /\ Len(Tail(s)) = Len(s) - 1 /\ Len(s) \in Nat
      /\ DOMAIN s = 1 .. Len(s) /\ DOMAIN Tail(s) = 1 .. Len(Tail(s))
      /\ \A i \in 1 .. Len(Tail(s)) : Tail(s)[i] = s[i + 1]
  BY HeadTailProperties, LenProperties
<1>2. Len(s) > 0 /\ Head(s) = s[1]
  BY <1>1, EmptySeq
<1>3. ASSUME NEW i \in DOMAIN s, i # 1
      PROVE  i - 1 \in DOMAIN Tail(s) /\ Tail(s)[i - 1] = s[i]
  <2>1. i - 1 \in 1 .. Len(Tail(s)) /\ (i - 1) + 1 = i
    BY <1>1, <1>3
  <2> QED
    BY <1>1, <2>1
<1> QED
  BY <1>1, <1>2, <1>3

(* What changes the elements and keeps their places                        *)
LEMMA Mapped ==
    ASSUME NEW S, NEW T, NEW s \in Seq(S), NEW t, DOMAIN t = DOMAIN s,
           t = [i \in DOMAIN s |-> t[i]], \A i \in DOMAIN s : t[i] \in T
    PROVE  t \in Seq(T)
<1>1. DOMAIN s = 1 .. Len(s) /\ Len(s) \in Nat
  BY LenProperties
<1>2. t \in [1 .. Len(s) -> T]
  BY <1>1
<1> QED
  BY <1>1, <1>2, SeqDef

(* The tasks made and what stays in them                                   *)
LEMMA MadeTypes ==
    ASSUME TypeOK
    PROVE  /\ Snapshot \in Snapshots
           /\ \A of \in {"live", "gone", "none"} : Light(of) \in Tasks /\ Light(of).kind = "light" /\ Light(of).of = of
           /\ \A ps \in SUBSET Players, c \in BOOLEAN :
                 /\ BuildsFor(ps, c) \in Seq(Tasks)
                 /\ \A i \in DOMAIN BuildsFor(ps, c) : BuildsFor(ps, c)[i].kind = "build"
                 /\ RequestsFor(ps, c) \in Seq(Requests)
           /\ \A t \in Tasks : /\ Frozen(t) \in Tasks /\ Frozen(t).kind = t.kind
                               /\ Frozen(t).of = "none" => t.of = "none"
                               /\ t.kind = "light" => Frozen(t).of # "live"
<1>1. Snapshot \in Snapshots /\ NoSnapshot \in Snapshots
  BY DEF TypeOK, Snapshot, NoSnapshot, Snapshots
<1>2. \A of \in {"live", "gone", "none"} : Light(of) \in Tasks /\ Light(of).kind = "light" /\ Light(of).of = of
  BY <1>1 DEF Light, Tasks
<1>3. ASSUME NEW ps \in SUBSET Players, NEW c \in BOOLEAN
      PROVE  /\ BuildsFor(ps, c) \in Seq(Tasks)
             /\ \A i \in DOMAIN BuildsFor(ps, c) : BuildsFor(ps, c)[i].kind = "build"
             /\ RequestsFor(ps, c) \in Seq(Requests)
  <2>1. Build(ps, c) \in Tasks /\ Build(ps, c).kind = "build" /\ Request(ps, c) \in Requests
    BY <1>1 DEF Build, Tasks, Request, Requests
  <2>2. /\ \A S : <<>> \in Seq(S) /\ DOMAIN <<>> = {}
        /\ \A S : \A e \in S : <<e>> \in Seq(S) /\ DOMAIN <<e>> = {1} /\ <<e>>[1] = e
    OBVIOUS
  <2> QED
    BY <2>1, <2>2 DEF BuildsFor, RequestsFor
<1>4. ASSUME NEW t \in Tasks
      PROVE  /\ Frozen(t) \in Tasks /\ Frozen(t).kind = t.kind
             /\ Frozen(t).of = "none" => t.of = "none"
             /\ t.kind = "light" => Frozen(t).of # "live"
  BY <1>1 DEF Frozen, Tasks
<1> QED
  BY <1>1, <1>2, <1>3, <1>4

-----------------------------------------------------------------------------
(* Types.                                                                  *)

LEMMA Copied ==
    ASSUME NEW r \in Readies
    PROVE  Copy(r) \in Copies /\ Copy(r).checked = r.checked /\ Copy(r).content = r.seen.content
  BY DEF Copy, Copies, Readies, Snapshots

LEMMA TypeInit == Init => TypeOK
<1> SUFFICES ASSUME Init PROVE TypeOK
  OBVIOUS
<1>1. <<>> \in Seq(Tasks) /\ <<>> \in Seq(Requests) /\ <<>> \in Seq(Readies)
  OBVIOUS
<1>2. tasks \in Seq(Tasks) /\ asked \in Seq(Requests) /\ ready \in Seq(Readies)
  BY <1>1 DEF Init
<1>3. at \in [Players -> {"here", "away", "gone"}] /\ client \in [Players -> Copies \cup {None}]
  BY DEF Init
<1>4. 0 \in Nat /\ calls \in 0 .. MaxCalls
  BY DeliveryAssumption DEF Init
<1> QED
  BY <1>2, <1>3, <1>4 DEF Init, TypeOK

(* What a player does keeps the types.                                     *)
LEMMA TypePlayer ==
    ASSUME TypeOK, NEW p \in Players, PlayerStep(p)
    PROVE  TypeOK'
<1> USE DeliveryAssumption
<1>1. {p} \in SUBSET Players /\ (Call => calls' \in 0 .. MaxCalls) /\ calls \in Nat
  BY DEF TypeOK, Call
<1>2. Without({p}) \in [Players -> Copies \cup {None}]
  BY DEF TypeOK, Without
<1>3. CASE Enter(p)
  <2>1. tasks' \in Seq(Tasks)
    BY <1>1, <1>3, MadeTypes, Concat DEF Enter, TypeOK
  <2> QED
    BY <1>1, <1>3, <2>1 DEF Enter, TypeOK, chunkVars, lightVars
<1>4. CASE Depart(p)
  BY <1>1, <1>2, <1>4 DEF Depart, TypeOK, chunkVars, lightVars, sendVars
<1>5. CASE TransferAway(p)
  BY <1>1, <1>2, <1>5 DEF TransferAway, TypeOK, chunkVars, lightVars, sendVars
<1>6. CASE \E within, view \in BOOLEAN : TransferHere(p, within, view)
  <2> PICK within \in BOOLEAN, view \in BOOLEAN : TransferHere(p, within, view)
    BY <1>6
  <2>0. <<>> \in Seq(Tasks) /\ <<>> \in Seq(Requests)
    OBVIOUS
  <2>1. \A c \in BOOLEAN : BuildsFor({p}, c) \in Seq(Tasks) /\ RequestsFor({p}, c) \in Seq(Requests)
    BY <1>1, MadeTypes
  <2>2. tasks' \in Seq(Tasks)
    <3>1. tasks \in Seq(Tasks)
      BY DEF TypeOK
    <3>2. \A b \in Seq(Tasks), c \in Seq(Tasks) : (tasks \o b) \o c \in Seq(Tasks)
      BY <3>1, Concat
    <3> QED
      BY <2>0, <2>1, <3>2 DEF TransferHere
  <2>3. asked' \in Seq(Requests)
    <3>1. \A b \in Seq(Requests) : asked \o b \in Seq(Requests)
      BY Concat DEF TypeOK
    <3> QED
      BY <2>0, <2>1, <3>1 DEF TransferHere
  <2> QED
    BY <1>1, <1>2, <2>2, <2>3 DEF TransferHere, TypeOK, chunkVars, lightVars
<1>7. CASE Disconnect(p)
  <2>1. ready' \in Seq(Readies)
    <3> DEFINE f == [i \in DOMAIN ready |-> [ready[i] EXCEPT !.to = @ \ {p}]]
    <3>1. ready \in Seq(Readies)
      BY DEF TypeOK
    <3>2. \A i \in DOMAIN ready : f[i] \in Readies
      <4> TAKE i \in DOMAIN ready
      <4>1. ready[i] \in Readies
        BY <3>1, ElementOfSeq, LenProperties
      <4> QED
        BY <4>1 DEF Readies
    <3>3. f \in Seq(Readies)
      <4> HIDE DEF f
      <4>1. DOMAIN f = DOMAIN ready /\ f = [i \in DOMAIN ready |-> f[i]]
        BY DEF f
      <4> QED
        BY <3>1, <3>2, <4>1, Mapped
    <3> QED
      BY <1>7, <3>1, <3>3 DEF Disconnect
  <2> QED
    BY <1>1, <1>2, <1>7, <2>1 DEF Disconnect, TypeOK, chunkVars, lightVars
<1> QED
  BY <1>3, <1>4, <1>5, <1>6, <1>7 DEF PlayerStep

(* So does what becomes of the chunk.                                      *)
LEMMA TypeChunk ==
    ASSUME TypeOK, Raise \/ Lower \/ Load \/ FailRequests \/ Unload \/ Edit
    PROVE  TypeOK'
<1> USE DeliveryAssumption
<1>1. (Call => calls' \in 0 .. MaxCalls) /\ calls \in Nat
  BY DEF TypeOK, Call
<1>2. CASE Raise
  BY <1>1, <1>2 DEF Raise, TypeOK, lightVars, sendVars, clientVars
<1>3. CASE Lower
  BY <1>1, <1>3 DEF Lower, TypeOK, lightVars, sendVars, clientVars
<1>4. CASE Load
  <2> PICK right \in BOOLEAN : Publish(right)
    BY <1>4 DEF Load
  <2> DEFINE f == [i \in DOMAIN asked |-> Ready([content |-> edits, lit |-> right], asked[i])]
  <2>1. asked \in Seq(Requests) /\ ready \in Seq(Readies) /\ edits \in Nat
    BY DEF TypeOK
  <2>2. \A i \in DOMAIN asked : f[i] \in Readies
    <3> TAKE i \in DOMAIN asked
    <3>1. asked[i] \in Requests
      BY <2>1, ElementOfSeq, LenProperties
    <3> QED
      BY <2>1, <3>1 DEF Ready, Requests, Readies, Snapshots
  <2>3. f \in Seq(Readies)
    <3> HIDE DEF f
    <3>1. DOMAIN f = DOMAIN asked /\ f = [i \in DOMAIN asked |-> f[i]]
      BY DEF f
    <3> QED
      BY <2>1, <2>2, <3>1, Mapped
  <2>4. ready' \in Seq(Readies) /\ asked' \in Seq(Requests)
    <3>1. ready' = ready \o f /\ asked' = <<>>
      BY DEF Publish
    <3> HIDE DEF f
    <3> QED
      BY <2>1, <2>3, <3>1, Concat
  <2> QED
    BY <2>4 DEF Publish, TypeOK, clientVars
<1>5. CASE FailRequests
  BY <1>1, <1>5 DEF FailRequests, TypeOK, chunkVars, lightVars, clientVars
<1>6. CASE Unload
  <2> DEFINE f == [i \in DOMAIN tasks |-> Frozen(tasks[i])]
  <2>1. tasks \in Seq(Tasks)
    BY DEF TypeOK
  <2>2. \A i \in DOMAIN tasks : f[i] \in Tasks
    BY <2>1, ElementOfSeq, LenProperties, MadeTypes
  <2>3. f \in Seq(Tasks)
    <3> HIDE DEF f
    <3>1. DOMAIN f = DOMAIN tasks /\ f = [i \in DOMAIN tasks |-> f[i]]
      BY DEF f
    <3> QED
      BY <2>1, <2>2, <3>1, Mapped
  <2>4. tasks' \in Seq(Tasks) /\ Without(tracking) \in [Players -> Copies \cup {None}]
    BY <1>6, <2>3 DEF Unload, Without, TypeOK
  <2> QED
    BY <1>1, <1>6, <2>4 DEF Unload, TypeOK
<1>7. CASE Edit
  BY <1>1, <1>7 DEF Edit, TypeOK, lightVars, clientVars
<1> QED
  BY <1>2, <1>3, <1>4, <1>5, <1>6, <1>7

(* So do the tasks.                                                        *)
LEMMA TypeTask ==
    ASSUME TypeOK, Task
    PROVE  TypeOK'
<1>1. tasks \in Seq(Tasks) /\ ready \in Seq(Readies)
  BY DEF TypeOK
<1>2. tasks # <<>> => Head(tasks) \in Tasks /\ Tail(tasks) \in Seq(Tasks) /\ 1 \in DOMAIN tasks /\ Head(tasks) = tasks[1]
  BY <1>1, Shifted
<1>3. CASE RunLight
  BY <1>2, <1>3 DEF RunLight, First, TypeOK, clientVars
<1>4. CASE TakeSnapshot
  <2>0. Snapshot \in Snapshots
    BY MadeTypes
  <2>1. [tasks[1] EXCEPT !.taken = TRUE, !.seen = Snapshot] \in Tasks
    <3>1. ASSUME NEW t \in Tasks, NEW s \in Snapshots
          PROVE  [t EXCEPT !.taken = TRUE, !.seen = s] \in Tasks
      BY DEF Tasks
    <3> QED
      BY <1>2, <1>4, <2>0, <3>1 DEF TakeSnapshot, First
  <2>2. tasks' \in Seq(Tasks)
    <3>1. 1 \in 1 .. Len(tasks)
      BY <1>1, <1>2, <1>4, LenProperties DEF TakeSnapshot, First
    <3> QED
      BY <1>1, <1>4, <2>1, <3>1, ExceptSeq DEF TakeSnapshot
  <2> QED
    BY <1>4, <2>2 DEF TakeSnapshot, TypeOK, chunkVars, lightVars, clientVars
<1>5. CASE Submit
  <2>1. Ready(Head(tasks).seen, Head(tasks)) \in Readies
    BY <1>2, <1>5 DEF Submit, First, Ready, Readies, Tasks
  <2>2. ready' \in Seq(Readies) /\ tasks' \in Seq(Tasks)
    BY <1>1, <1>2, <1>5, <2>1, Appended DEF Submit, First
  <2> QED
    BY <1>5, <2>2 DEF Submit, TypeOK, chunkVars, lightVars, clientVars
<1> QED
  BY <1>3, <1>4, <1>5 DEF Task

(* And what the ticks drain.                                               *)
LEMMA TypeDrain ==
    ASSUME TypeOK, Drain
    PROVE  TypeOK'
<1>1. tasks \in Seq(Tasks) /\ ready \in Seq(Readies) /\ asked \in Seq(Requests)
  BY DEF TypeOK
<1>2. CASE PostProcess
  <2>1. Light(IF present THEN "live" ELSE "none") \in Tasks
    BY MadeTypes
  <2>2. tasks' \in Seq(Tasks)
    BY <1>1, <1>2, <2>1, Appended DEF PostProcess
  <2>3. edits' \in Nat /\ shaped' \in Nat /\ settled' \in Nat /\ owed' \subseteq Players /\ stale' \subseteq Players
    BY <1>2 DEF PostProcess, PostProcessChunk, TypeOK
  <2>4. backlog' \in Nat /\ ticket' \in BOOLEAN /\ skipped' \in BOOLEAN /\ raw' \in BOOLEAN /\ processed' \in BOOLEAN
    BY <1>2 DEF PostProcess, TypeOK
  <2> QED
    BY <1>2, <2>2, <2>3, <2>4 DEF PostProcess, TypeOK
<1>3. CASE DrainSend
  <2>1. tracking \in SUBSET Players
    BY DEF TypeOK
  <2>2. tasks' \in Seq(Tasks) /\ asked' \in Seq(Requests)
    BY <1>1, <1>3, <2>1, MadeTypes, Concat DEF DrainSend
  <2>3. sends' \in Nat
    BY <1>3 DEF DrainSend, TypeOK
  <2> QED
    BY <1>3, <2>2, <2>3 DEF DrainSend, TypeOK, chunkVars, clientVars
<1>4. CASE Deliver
  <2>1. Head(ready) \in Readies /\ ready' \in Seq(Readies)
    BY <1>1, <1>4, Shifted DEF Deliver
  <2>2. Copy(Head(ready)) \in Copies /\ Receivers(Head(ready)) \subseteq Players
    BY <2>1, Copied DEF Receivers, Readies
  <2>3. client' \in [Players -> Copies \cup {None}] /\ owed' \subseteq Players /\ stale' \subseteq Players
    BY <1>4, <2>2 DEF Deliver, TypeOK
  <2> QED
    BY <1>4, <2>1, <2>3 DEF Deliver, TypeOK, chunkVars, lightVars
<1>5. CASE FlushUpdates
  <2>1. \A p \in Players : client[p] # None => [client[p] EXCEPT !.content = edits] \in Copies
    BY DEF TypeOK, Copies
  <2>2. client' \in [Players -> Copies \cup {None}]
    BY <1>5, <2>1 DEF FlushUpdates, TypeOK
  <2> QED
    BY <1>5, <2>2 DEF FlushUpdates, TypeOK, chunkVars, lightVars
<1> QED
  BY <1>2, <1>3, <1>4, <1>5 DEF Drain

LEMMA TypeStep == TypeOK /\ [Next]_vars => TypeOK'
<1> SUFFICES ASSUME TypeOK, [Next]_vars PROVE TypeOK'
  OBVIOUS
<1>1. CASE UNCHANGED vars
  BY <1>1 DEF vars, TypeOK, chunkVars, lightVars, sendVars, clientVars
<1>2. CASE Next
  BY <1>2, TypePlayer, TypeChunk, TypeTask, TypeDrain DEF Next
<1> QED
  BY <1>1, <1>2

(* The queues and the copies keep their types.                             *)
THEOREM TypeCorrect == Spec => []TypeOK
  BY TypeInit, TypeStep, PTL DEF Spec

-----------------------------------------------------------------------------
(* What the clients have.                                                  *)

(* The copies that go or come                                              *)
LEMMA WithoutKeeps ==
    ASSUME NEW S, NEW p \in Players
    PROVE  /\ Without(S)[p] = None \/ Without(S)[p] = client[p]
           /\ p \in S => Without(S)[p] = None
  BY DEF Without

(* What UpToDate leans on: with no update waiting every edit is settled.    *)
AllSettled == updates \/ settled = edits

LEMMA GhostInit == Init => NoGhost /\ UpToDate /\ AllSettled
  BY DEF Init, NoGhost, UpToDate, AllSettled

LEMMA SettledStep == TypeOK /\ AllSettled /\ [Next]_vars => AllSettled'
<1> SUFFICES ASSUME TypeOK, AllSettled, [Next]_vars PROVE AllSettled'
  OBVIOUS
<1>1. ASSUME NEW p \in Players, PlayerStep(p)
      PROVE  AllSettled'
  BY <1>1 DEF AllSettled, PlayerStep, Enter, Depart, TransferAway, TransferHere, Disconnect, chunkVars, sendVars
<1>2. CASE Raise \/ Lower \/ Load \/ FailRequests \/ Unload \/ Edit
  BY <1>2 DEF AllSettled, Raise, Lower, Load, Publish, FailRequests, Unload, Edit, chunkVars, sendVars
<1>3. CASE Task
  BY <1>3 DEF AllSettled, Task, RunLight, TakeSnapshot, Submit, chunkVars
<1>4. CASE PostProcess
  BY <1>4 DEF AllSettled, PostProcess, PostProcessChunk
<1>5. CASE DrainSend \/ Deliver \/ FlushUpdates
  BY <1>5 DEF AllSettled, DrainSend, Deliver, FlushUpdates, chunkVars
<1>6. CASE UNCHANGED vars
  BY <1>6 DEF AllSettled, vars, chunkVars, sendVars
<1> QED
  BY <1>1, <1>2, <1>3, <1>4, <1>5, <1>6 DEF Next, Drain

LEMMA GhostStep == TypeOK /\ NoGhost /\ [Next]_vars => NoGhost'
<1> SUFFICES ASSUME TypeOK, NoGhost, [Next]_vars,
                    NEW p \in Players, client'[p] # None, client'[p].checked
             PROVE  p \in tracking'
  BY DEF NoGhost
<1>1. client[p] # None /\ client[p].checked => p \in tracking
  BY DEF NoGhost
<1>2. ASSUME NEW q \in Players, PlayerStep(q)
      PROVE  p \in tracking'
  <2>1. CASE Enter(q)
    BY <1>1, <2>1 DEF Enter
  <2>2. CASE Depart(q)
    BY <1>1, <2>2, WithoutKeeps DEF Depart
  <2>3. CASE TransferAway(q)
    BY <1>1, <2>3, WithoutKeeps DEF TransferAway
  <2>4. CASE \E within, view \in BOOLEAN : TransferHere(q, within, view)
    BY <1>1, <2>4, WithoutKeeps DEF TransferHere
  <2>5. CASE Disconnect(q)
    BY <1>1, <2>5, WithoutKeeps DEF Disconnect
  <2> QED
    BY <1>2, <2>1, <2>2, <2>3, <2>4, <2>5 DEF PlayerStep
<1>3. CASE Unload
  BY <1>1, <1>3, WithoutKeeps DEF Unload
<1>4. CASE Deliver
  <2>1. Head(ready) \in Readies
    BY <1>4, Shifted DEF Deliver, TypeOK
  <2>2. p \in Receivers(Head(ready)) => (client'[p].checked => p \in tracking)
    BY <1>4, <2>1, Copied DEF Deliver, Receivers
  <2> QED
    BY <1>1, <1>4, <2>2 DEF Deliver
<1>5. CASE FlushUpdates
  BY <1>1, <1>5 DEF FlushUpdates
<1>6. CASE \/ Raise \/ Lower \/ Load \/ FailRequests \/ Edit \/ Task \/ PostProcess \/ DrainSend \/ UNCHANGED vars
  BY <1>1, <1>6 DEF Raise, Lower, Load, Publish, FailRequests, Edit, Task, RunLight, TakeSnapshot, Submit,
                    PostProcess, DrainSend, vars, clientVars
<1> QED
  BY <1>2, <1>3, <1>4, <1>5, <1>6 DEF Next, Drain

LEMMA UpToDateStep == TypeOK /\ NoGhost /\ AllSettled /\ UpToDate /\ [Next]_vars => UpToDate'
<1> SUFFICES ASSUME TypeOK, NoGhost, AllSettled, UpToDate, [Next]_vars,
                    NEW p \in Players, client'[p] # None, client'[p].checked, p \notin stale'
             PROVE  client'[p].content = edits' \/ updates'
  BY DEF UpToDate
<1>1. client[p] # None /\ client[p].checked /\ p \notin stale => client[p].content = edits \/ updates
  BY DEF UpToDate
<1>2. ASSUME NEW q \in Players, PlayerStep(q)
      PROVE  client'[p].content = edits' \/ updates'
  <2>1. client'[p] = client[p] /\ stale' = stale /\ edits' = edits /\ updates' = updates
    <3>1. CASE Enter(q)
      BY <3>1 DEF Enter, chunkVars
    <3>2. CASE Depart(q)
      BY <3>2, WithoutKeeps DEF Depart, chunkVars, sendVars
    <3>3. CASE TransferAway(q)
      BY <3>3, WithoutKeeps DEF TransferAway, chunkVars, sendVars
    <3>4. CASE \E within, view \in BOOLEAN : TransferHere(q, within, view)
      BY <3>4, WithoutKeeps DEF TransferHere, chunkVars
    <3>5. CASE Disconnect(q)
      BY <3>5, WithoutKeeps DEF Disconnect, chunkVars
    <3> QED
      BY <1>2, <3>1, <3>2, <3>3, <3>4, <3>5 DEF PlayerStep
  <2> QED
    BY <1>1, <2>1
<1>3. CASE Unload
  BY <1>1, <1>3, WithoutKeeps DEF Unload
<1>4. CASE Edit
  BY <1>4 DEF Edit
<1>5. CASE Deliver
  <2>1. Head(ready) \in Readies
    BY <1>5, Shifted DEF Deliver, TypeOK
  <2>2. CASE p \in Receivers(Head(ready))
    <3>0. settled \in Nat /\ edits \in Nat
      BY DEF TypeOK
    <3>1. Head(ready).seen.content = edits \/ updates
      BY <1>5, <2>2, <3>0 DEF Deliver, AllSettled
    <3> QED
      BY <1>5, <2>1, <2>2, <3>1, Copied DEF Deliver, chunkVars
  <2>3. CASE p \notin Receivers(Head(ready))
    BY <1>1, <1>5, <2>3 DEF Deliver, chunkVars
  <2> QED
    BY <2>2, <2>3
<1>6. CASE FlushUpdates
  <2>1. client[p] # None /\ client[p].checked /\ p \notin stale
    <3>1. p \notin tracking \ stale => client'[p] = client[p]
      BY <1>6 DEF FlushUpdates
    <3>2. client[p] = None => client'[p] = client[p]
      BY <1>6 DEF FlushUpdates
    <3>3. client[p] # None => client[p] \in Copies
      BY DEF TypeOK
    <3>4. client[p] # None /\ p \in tracking \ stale => client'[p] = [client[p] EXCEPT !.content = edits]
      BY <1>6 DEF FlushUpdates
    <3>5. client[p] # None => client[p].checked
      BY <3>1, <3>3, <3>4 DEF Copies
    <3> QED
      BY <1>6, <3>2, <3>5 DEF FlushUpdates
  <2>2. p \in tracking \ stale
    BY <2>1 DEF NoGhost
  <2>3. client[p] \in Copies
    BY <2>1 DEF TypeOK
  <2>4. client'[p] = [client[p] EXCEPT !.content = edits]
    BY <1>6, <2>1, <2>2 DEF FlushUpdates
  <2> QED
    BY <1>6, <2>3, <2>4 DEF FlushUpdates, Copies, chunkVars
<1>8. CASE PostProcess
  <2>1. client' = client /\ updates' = updates
    BY <1>8 DEF PostProcess
  <2>2. \/ edits' = edits /\ stale' = stale
        \/ stale' = stale \cup {q \in Players : client[q] # None}
    BY <1>8 DEF PostProcess, PostProcessChunk
  <2> QED
    BY <1>1, <2>1, <2>2
<1>7. CASE \/ Raise \/ Lower \/ Load \/ FailRequests \/ Task \/ DrainSend \/ UNCHANGED vars
  <2>1. client' = client /\ stale' = stale /\ edits' = edits /\ updates' = updates
    <3>1. CASE Raise \/ Lower
      BY <3>1 DEF Raise, Lower, sendVars, clientVars
    <3>2. CASE Load \/ FailRequests
      BY <3>2 DEF Load, Publish, FailRequests, chunkVars, clientVars
    <3>3. CASE Task
      BY <3>3 DEF Task, RunLight, TakeSnapshot, Submit, chunkVars, clientVars
    <3>4. CASE DrainSend
      BY <3>4 DEF DrainSend, chunkVars, clientVars
    <3>5. CASE UNCHANGED vars
      BY <3>5 DEF vars, chunkVars, sendVars, clientVars
    <3> QED
      BY <1>7, <3>1, <3>2, <3>3, <3>4, <3>5
  <2> QED
    BY <1>1, <2>1
<1> QED
  BY <1>2, <1>3, <1>4, <1>5, <1>6, <1>7, <1>8 DEF Next, Drain

(* However long a snapshot is under way, no client has a chunk sent with   *)
(* validation that the server does not have it tracking.                   *)
THEOREM NoGhostCorrect == Spec => []NoGhost
  BY TypeInit, TypeStep, GhostInit, GhostStep, PTL DEF Spec

(* An edit reaches every client that has the chunk.                        *)
THEOREM UpToDateCorrect == Spec => []UpToDate
  BY TypeInit, TypeStep, GhostInit, GhostStep, SettledStep, UpToDateStep, PTL DEF Spec

-----------------------------------------------------------------------------
(* The light tasks.                                                        *)

(* Build tasks join behind the light tasks.                                *)
LEMMA BuildsAdded ==
    ASSUME NEW s \in Seq(Tasks), NEW b \in Seq(Tasks), \A i \in DOMAIN b : b[i].kind = "build"
    PROVE  /\ s \o b \in Seq(Tasks)
           /\ \A i \in DOMAIN s : i \in DOMAIN (s \o b) /\ (s \o b)[i] = s[i]
           /\ \A i \in DOMAIN (s \o b) : (s \o b)[i].kind = "light" => i \in DOMAIN s
  BY Concat

(* The light tasks are where they were.                                    *)
SameLights ==
    /\ \A i \in DOMAIN tasks : tasks[i].kind = "light" => i \in DOMAIN tasks' /\ tasks'[i] = tasks[i]
    /\ \A i \in DOMAIN tasks' : tasks'[i].kind = "light" => i \in DOMAIN tasks /\ tasks'[i] = tasks[i]

(* What most steps do to the light tasks: nothing.                         *)
Quiet ==
    /\ SameLights
    /\ skipped' = skipped /\ processed' = processed /\ (present => present')
    /\ ticket' => ticket /\ sends' = sends

LEMMA Quietly ==
    ASSUME TypeOK, [Next]_vars
    PROVE  Quiet \/ RunLight \/ Submit \/ Unload \/ PostProcess
<1>1. tasks \in Seq(Tasks)
  BY DEF TypeOK
<1>2. ASSUME NEW p \in Players, PlayerStep(p)
      PROVE  Quiet
  <2>1. skipped' = skipped /\ processed' = processed /\ present' = present /\ ticket' = ticket /\ sends' = sends
    BY <1>2 DEF PlayerStep, Enter, Depart, TransferAway, TransferHere, Disconnect, chunkVars, lightVars
  <2>2. SameLights
    <3>0. \A c \in BOOLEAN : BuildsFor({p}, c) \in Seq(Tasks) /\ \A i \in DOMAIN BuildsFor({p}, c) : BuildsFor({p}, c)[i].kind = "build"
      <4>1. {p} \in SUBSET Players
        OBVIOUS
      <4> QED
        BY <4>1, MadeTypes
    <3>1. CASE Enter(p)
      BY <1>1, <3>0, <3>1, BuildsAdded DEF Enter, SameLights
    <3>2. CASE Depart(p) \/ TransferAway(p) \/ Disconnect(p)
      BY <3>2 DEF Depart, TransferAway, Disconnect, SameLights, sendVars
    <3>3. CASE \E within, view \in BOOLEAN : TransferHere(p, within, view)
      <4> PICK within \in BOOLEAN, view \in BOOLEAN : TransferHere(p, within, view)
        BY <3>3
      <4> DEFINE b == IF within THEN BuildsFor({p}, FALSE) ELSE <<>>
                 c == IF view /\ p \notin tracking THEN BuildsFor({p}, TRUE) ELSE <<>>
      <4>1. <<>> \in Seq(Tasks) /\ \A i \in DOMAIN <<>> : <<>>[i].kind = "build"
        OBVIOUS
      <4>2. /\ b \in Seq(Tasks) /\ \A i \in DOMAIN b : b[i].kind = "build"
            /\ c \in Seq(Tasks) /\ \A i \in DOMAIN c : c[i].kind = "build"
        BY <3>0, <4>1
      <4>3. tasks' = tasks \o b \o c
        BY DEF TransferHere
      <4> HIDE DEF b, c
      <4> DEFINE r == tasks \o b
      <4>4. /\ r \in Seq(Tasks)
            /\ \A i \in DOMAIN tasks : i \in DOMAIN r /\ r[i] = tasks[i]
            /\ \A i \in DOMAIN r : r[i].kind = "light" => i \in DOMAIN tasks
        BY <1>1, <4>2, BuildsAdded
      <4>5. tasks' = r \o c
        BY <4>3
      <4> HIDE DEF r
      <4>6. /\ \A i \in DOMAIN r : i \in DOMAIN tasks' /\ tasks'[i] = r[i]
            /\ \A i \in DOMAIN tasks' : tasks'[i].kind = "light" => i \in DOMAIN r
        BY <4>2, <4>4, <4>5, BuildsAdded
      <4>7. \A i \in DOMAIN tasks : i \in DOMAIN tasks' /\ tasks'[i] = tasks[i]
        BY <4>4, <4>6
      <4>8. \A i \in DOMAIN tasks' : tasks'[i].kind = "light" => i \in DOMAIN tasks /\ tasks'[i] = tasks[i]
        BY <4>4, <4>6
      <4> QED
        BY <4>7, <4>8 DEF SameLights
    <3> QED
      BY <1>2, <3>1, <3>2, <3>3 DEF PlayerStep
  <2> QED
    BY <2>1, <2>2 DEF Quiet
<1>3. CASE Raise \/ Lower
  BY <1>3 DEF Raise, Lower, Quiet, SameLights, lightVars, sendVars
<1>4. CASE Load \/ FailRequests \/ Edit
  BY <1>4 DEF Load, Publish, FailRequests, Edit, Quiet, SameLights, chunkVars, lightVars
<1>5. CASE TakeSnapshot
  <2>1. Head(tasks) = tasks[1]
    BY <1>1, <1>5, Shifted DEF TakeSnapshot, First
  <2>2. /\ DOMAIN tasks' = DOMAIN tasks
        /\ \A i \in DOMAIN tasks : i # 1 => tasks'[i] = tasks[i]
        /\ tasks[1].kind = "build"
    BY <1>5, <2>1 DEF TakeSnapshot, First
  <2>3. 1 \in DOMAIN tasks => tasks'[1].kind = "build"
    <3>1. ASSUME NEW t \in Tasks, t.kind = "build"
          PROVE  [t EXCEPT !.taken = TRUE, !.seen = Snapshot].kind = "build"
      BY <3>1 DEF Tasks
    <3>2. 1 \in DOMAIN tasks => tasks[1] \in Tasks
      BY <1>1, ElementOfSeq, LenProperties
    <3> QED
      BY <1>5, <2>2, <3>1, <3>2 DEF TakeSnapshot
  <2>4. SameLights
    BY <2>2, <2>3 DEF SameLights
  <2> QED
    BY <1>5, <2>4 DEF TakeSnapshot, Quiet, chunkVars, lightVars
<1>6. CASE DrainSend
  <2>1. BuildsFor(tracking, TRUE) \in Seq(Tasks) /\ \A i \in DOMAIN BuildsFor(tracking, TRUE) : BuildsFor(tracking, TRUE)[i].kind = "build"
    <3>1. tracking \in SUBSET Players
      BY DEF TypeOK
    <3> QED
      BY <3>1, MadeTypes
  <2>2. SameLights
    <3> DEFINE b == BuildsFor(tracking, TRUE)
    <3>1. tasks' = tasks \o b
      BY <1>6 DEF DrainSend
    <3> HIDE DEF b
    <3>2. b \in Seq(Tasks) /\ \A i \in DOMAIN b : b[i].kind = "build"
      BY <2>1 DEF b
    <3> QED
      BY <1>1, <3>1, <3>2, BuildsAdded DEF SameLights
  <2> QED
    BY <1>6, <2>2 DEF DrainSend, Quiet, chunkVars
<1>7. CASE Deliver \/ FlushUpdates
  BY <1>7 DEF Deliver, FlushUpdates, Quiet, SameLights, chunkVars, lightVars
<1>8. CASE UNCHANGED vars
  BY <1>8 DEF vars, Quiet, SameLights, chunkVars, lightVars, sendVars
<1> QED
  BY <1>2, <1>3, <1>4, <1>5, <1>6, <1>7, <1>8 DEF Next, Task, Drain

(* What the ticket's holder leans on.                                      *)
Owing == TicketIsOwed /\ SkipsKnown

LEMMA OwingInit == Init => Owing /\ LitOnce
<1> SUFFICES ASSUME Init PROVE Owing /\ LitOnce
  OBVIOUS
<1>1. DOMAIN tasks = {} /\ ticket = FALSE
  BY DEF Init
<1> QED
  BY <1>1 DEF Owing, TicketIsOwed, SkipsKnown, LitOnce

LEMMA OwingStep == TypeOK /\ Owing /\ [Next]_vars => Owing'
<1> SUFFICES ASSUME TypeOK, Owing, [Next]_vars PROVE Owing'
  OBVIOUS
<1>1. tasks \in Seq(Tasks) /\ sends \in Nat /\ ticket \in BOOLEAN /\ skipped \in BOOLEAN
  BY DEF TypeOK
<1>2. tasks # <<>> => /\ Head(tasks) = tasks[1] /\ 1 \in DOMAIN tasks
                      /\ \A i \in DOMAIN Tail(tasks) : i + 1 \in DOMAIN tasks /\ Tail(tasks)[i] = tasks[i + 1]
                      /\ \A i \in DOMAIN tasks : i = 1 \/ (i - 1 \in DOMAIN Tail(tasks) /\ Tail(tasks)[i - 1] = tasks[i])
  BY <1>1, Shifted
<1>3. CASE Quiet
  BY <1>3 DEF Quiet, SameLights, Owing, TicketIsOwed, LightPending, SkipsKnown
<1>4. CASE RunLight
  <2>1. tasks # <<>> /\ tasks' = Tail(tasks) /\ ticket' = ticket /\ skipped' = skipped
        /\ Head(tasks).kind = "light"
    BY <1>4 DEF RunLight, First
  <2>2. Head(tasks).of = "none" => skipped
    BY <1>2, <2>1 DEF Owing, SkipsKnown
  <2>3. Head(tasks).of # "none" => sends' > 0
    BY <1>1, <1>4 DEF RunLight
  <2>4. TicketIsOwed'
    BY <2>1, <2>2, <2>3 DEF TicketIsOwed, LightPending
  <2>5. SkipsKnown'
    BY <1>2, <2>1 DEF Owing, SkipsKnown
  <2> QED
    BY <2>4, <2>5 DEF Owing
<1>5. CASE Submit
  <2>1. tasks # <<>> /\ tasks' = Tail(tasks) /\ ticket' = ticket /\ skipped' = skipped /\ sends' = sends
        /\ Head(tasks).kind = "build"
    BY <1>5 DEF Submit, First, lightVars
  <2>2. LightPending => LightPending'
    BY <1>2, <2>1 DEF LightPending
  <2>3. SkipsKnown'
    BY <1>2, <2>1 DEF Owing, SkipsKnown
  <2> QED
    BY <2>1, <2>2, <2>3 DEF Owing, TicketIsOwed
<1>6. CASE Unload
  <2>1. DOMAIN tasks' = DOMAIN tasks /\ ticket' = ticket /\ skipped' = skipped /\ sends' = sends
    BY <1>6 DEF Unload
  <2>2. \A i \in DOMAIN tasks : tasks[i] \in Tasks /\ tasks'[i] = Frozen(tasks[i])
    BY <1>1, <1>6, ElementOfSeq, LenProperties DEF Unload
  <2>3. \A i \in DOMAIN tasks : tasks'[i].kind = tasks[i].kind /\ (tasks'[i].of = "none" => tasks[i].of = "none")
    BY <2>2, MadeTypes
  <2> QED
    BY <2>1, <2>3 DEF Owing, TicketIsOwed, LightPending, SkipsKnown
<1>7. CASE PostProcess
  <2> DEFINE l == Light(IF present THEN "live" ELSE "none")
  <2>1. l \in Tasks /\ l.kind = "light" /\ (l.of = "none" => ~present)
    BY MadeTypes DEF TypeOK
  <2>2. sends' = sends /\ ticket' = (ticket \/ ~processed) /\ skipped' = (skipped \/ (~processed /\ ~present))
        /\ tasks' = IF processed THEN tasks ELSE Append(tasks, l)
    BY <1>7 DEF PostProcess
  <2> HIDE DEF l
  <2>3. /\ \A i \in DOMAIN tasks : i \in DOMAIN Append(tasks, l) /\ Append(tasks, l)[i] = tasks[i]
        /\ Len(tasks) + 1 \in DOMAIN Append(tasks, l) /\ Append(tasks, l)[Len(tasks) + 1] = l
        /\ \A i \in DOMAIN Append(tasks, l) : i \in DOMAIN tasks \/ i = Len(tasks) + 1
    BY <1>1, <2>1, Appended
  <2>4. CASE processed
    BY <2>2, <2>4 DEF Owing, TicketIsOwed, LightPending, SkipsKnown
  <2>5. CASE ~processed
    <3>1. LightPending'
      BY <2>1, <2>2, <2>3, <2>5 DEF LightPending
    <3>2. SkipsKnown'
      BY <2>1, <2>2, <2>3, <2>5 DEF Owing, SkipsKnown
    <3> QED
      BY <3>1, <3>2 DEF Owing, TicketIsOwed
  <2> QED
    BY <2>4, <2>5
<1> QED
  BY <1>3, <1>4, <1>5, <1>6, <1>7, Quietly

(* A LIGHT ticket is owed to a light task or to a send, unless a task was  *)
(* made without its chunk.                                                 *)
THEOREM TicketIsOwedCorrect == Spec => []TicketIsOwed
<1>1. Owing => TicketIsOwed
  BY DEF Owing
<1> QED
  BY <1>1, TypeInit, TypeStep, OwingInit, OwingStep, PTL DEF Spec

LEMMA LitOnceStep == TypeOK /\ LitOnce /\ [Next]_vars => LitOnce'
<1> SUFFICES ASSUME TypeOK, LitOnce, [Next]_vars PROVE LitOnce'
  OBVIOUS
<1>1. tasks \in Seq(Tasks)
  BY DEF TypeOK
<1>2. tasks # <<>> => \A i \in DOMAIN Tail(tasks) : i \in Nat /\ i + 1 \in DOMAIN tasks /\ Tail(tasks)[i] = tasks[i + 1]
  BY <1>1, Shifted
<1>3. CASE Quiet
  BY <1>3 DEF Quiet, SameLights, LitOnce, LiveLight
<1>4. CASE RunLight \/ Submit
  <2>1. tasks # <<>> /\ tasks' = Tail(tasks) /\ present' = present /\ processed' = processed
    BY <1>4 DEF RunLight, Submit, First, chunkVars, lightVars
  <2>2. ASSUME NEW i \in DOMAIN tasks', NEW j \in DOMAIN tasks', LiveLight(tasks'[i]), LiveLight(tasks'[j])
        PROVE  i = j
    <3>1. i + 1 = j + 1 /\ i \in Nat /\ j \in Nat
      BY <1>2, <2>1, <2>2 DEF LitOnce
    <3> QED
      BY <3>1
  <2>3. \A i \in DOMAIN tasks' : LiveLight(tasks'[i]) => present' /\ processed'
    BY <1>2, <2>1 DEF LitOnce
  <2> QED
    BY <2>2, <2>3 DEF LitOnce, LiveLight
<1>5. CASE Unload
  <2>1. \A i \in DOMAIN tasks : tasks[i] \in Tasks /\ tasks'[i] = Frozen(tasks[i])
    BY <1>1, <1>5, ElementOfSeq, LenProperties DEF Unload
  <2>2. \A i \in DOMAIN tasks : tasks'[i].kind = "light" => tasks'[i].of # "live"
    BY <2>1, MadeTypes
  <2>3. DOMAIN tasks' = DOMAIN tasks
    BY <1>5 DEF Unload
  <2> QED
    BY <2>2, <2>3 DEF LitOnce, LiveLight
<1>6. CASE PostProcess
  <2> DEFINE l == Light(IF present THEN "live" ELSE "none")
  <2>1. l \in Tasks /\ (l.of = "live" => present)
    BY MadeTypes DEF TypeOK
  <2>2. present' = present /\ processed' = TRUE /\ tasks' = IF processed THEN tasks ELSE Append(tasks, l)
    BY <1>6 DEF PostProcess, chunkVars
  <2> HIDE DEF l
  <2>3. \A i \in DOMAIN Append(tasks, l) : \/ i \in DOMAIN tasks /\ Append(tasks, l)[i] = tasks[i]
                                           \/ i = Len(tasks) + 1 /\ Append(tasks, l)[i] = l
    BY <1>1, <2>1, Appended
  <2>4. CASE processed
    BY <2>2, <2>4 DEF LitOnce, LiveLight
  <2>5. CASE ~processed
    <3>1. \A i \in DOMAIN tasks : ~LiveLight(tasks[i])
      BY <2>5 DEF LitOnce
    <3>2. \A i \in DOMAIN tasks' : LiveLight(tasks'[i]) => i = Len(tasks) + 1 /\ tasks'[i] = l
      BY <2>2, <2>3, <2>5, <3>1
    <3> QED
      BY <2>1, <2>2, <3>2 DEF LitOnce, LiveLight
  <2> QED
    BY <2>4, <2>5
<1> QED
  BY <1>3, <1>4, <1>5, <1>6, Quietly

(* The chunk in memory has one light task at most.                         *)
THEOREM LitOnceCorrect == Spec => []LitOnce
  BY TypeInit, TypeStep, OwingInit, LitOnceStep, PTL DEF Spec
=============================================================================
