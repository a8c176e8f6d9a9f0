---------------------- MODULE ReentrantAreaLockProofs ----------------------
(***************************************************************************)
(* What is proved of ReentrantAreaLock for every set of threads, sections  *)
(* and areas and every use of it, nested or not: its types, that the table *)
(* and the nodes' own lists agree, that it implements AreaOwnership, and   *)
(* that who parks is woken exactly once; and where nobody nests areas,     *)
(* that nobody is asleep when nobody else can go on.                       *)
(***************************************************************************)
EXTENDS ReentrantAreaLockProps, FiniteSetTheorems, WellFoundedInduction, TLAPS

(* A node has put into the table what the table says it owns.              *)
Ledger == \A n \in Node, s \in Sections : s \in mine[n] <=> owner[s] = n

(* The handles of a thread are different nodes of its own.                 *)
HandlesApart == \A t \in Threads : \A i \in DOMAIN held[t] :
    /\ held[t][i][1] = t
    /\ \A j \in DOMAIN held[t] : held[t][i] = held[t][j] => i = j

(* A call works on a node of its thread that no handle has, and a call of  *)
(* lock or tryLock remembers its area.                                     *)
CallOK(t) == call[t].at # "idle" =>
    /\ call[t].node \in Node /\ call[t].node[1] = t
    /\ \A i \in DOMAIN held[t] : held[t][i] # call[t].node
    /\ call[t].mode # "unlock" => call[t].area \in Areas
    /\ call[t].at \notin {"remove", "drain", "unpark", "notify"} => call[t].mode # "unlock"

(* What a node owns is a handle's, or a call is putting it in or out.      *)
NothingStray == \A n \in Node : mine[n] # {} =>
    \/ \E i \in DOMAIN held[n[1]] : held[n[1]][i] = n
    \/ call[n[1]].at \in {"scan", "remove"} /\ call[n[1]].node = n

(* What a scan has behind it is the thread's, unless it has met another.   *)
ScanOK(t) == call[t].at = "scan" =>
    /\ \A i \in DOMAIN call[t].rows : call[t].rows[i] # <<>>
    /\ Of(call[t].rows) \subseteq Of(call[t].area)
    /\ mine[call[t].node] \subseteq Of(call[t].area)
    /\ ~ call[t].added => mine[call[t].node] = {}
    /\ call[t].park = NoNode =>
         \A s \in Of(call[t].area) : s \in Of(call[t].rows) \/ OwnedBy(t, s)

LockInv ==
    /\ TypeOK /\ Ledger /\ HandlesApart /\ NothingStray
    /\ \A t \in Threads : CallOK(t) /\ ScanOK(t)

(***************************************************************************)
(* Rows and their sections.                                                *)
(***************************************************************************)
LEMMA RowFacts ==
    ASSUME NEW rows \in Seq(Seq(Sections)), rows # <<>>,
           \A i \in DOMAIN rows : rows[i] # <<>>
    PROVE  /\ Head(rows) \in Seq(Sections) /\ Head(rows) # <<>> /\ Head(Head(rows)) \in Sections
           /\ Head(Head(rows)) \in Of(rows)
           /\ Tail(rows) \in Seq(Seq(Sections)) /\ Advance(rows) \in Seq(Seq(Sections))
           /\ \A i \in DOMAIN Tail(rows) : Tail(rows)[i] # <<>>
           /\ \A i \in DOMAIN Advance(rows) : Advance(rows)[i] # <<>>
           /\ Of(Tail(rows)) \subseteq Of(rows) /\ Of(Advance(rows)) \subseteq Of(rows)
           /\ Of(rows) \subseteq Of(Advance(rows)) \union {Head(Head(rows))}
<1> DEFINE row == Head(rows)
           rest == Tail(rows)
           adv == Advance(rows)
<1>1. /\ row = rows[1] /\ row \in Seq(Sections) /\ row # <<>> /\ 1 \in DOMAIN rows
      /\ Len(rows) \in Nat /\ DOMAIN rows = 1 .. Len(rows)
  OBVIOUS
<1>2. /\ Head(row) = row[1] /\ row[1] \in Sections /\ 1 \in DOMAIN row
      /\ Len(row) \in Nat /\ DOMAIN row = 1 .. Len(row)
  BY <1>1
<1>3. /\ rest \in Seq(Seq(Sections)) /\ DOMAIN rest = 1 .. (Len(rows) - 1)
      /\ \A i \in DOMAIN rest : rest[i] = rows[i + 1] /\ i + 1 \in DOMAIN rows
  BY <1>1
<1>4. /\ Tail(row) \in Seq(Sections) /\ DOMAIN Tail(row) = 1 .. (Len(row) - 1)
      /\ \A j \in DOMAIN Tail(row) : Tail(row)[j] = row[j + 1] /\ j + 1 \in DOMAIN row
  BY <1>1, <1>2
<1>5. \A s : s \in Of(rows) <=> \E i \in DOMAIN rows : \E j \in DOMAIN rows[i] : s = rows[i][j]
  BY DEF Of
<1>6. \A s : s \in Of(rest) <=> \E i \in DOMAIN rest : \E j \in DOMAIN rest[i] : s = rest[i][j]
  BY DEF Of
<1>7. \A s : s \in Of(adv) <=> \E i \in DOMAIN adv : \E j \in DOMAIN adv[i] : s = adv[i][j]
  BY DEF Of
<1>8. Head(row) \in Of(rows)
  BY <1>1, <1>2, <1>5
<1>9. Of(rest) \subseteq Of(rows)
  BY <1>3, <1>5, <1>6
<1>10. \A s \in Of(rows) : s \in Of(rest) \/ \E j \in DOMAIN row : s = row[j]
  <2> SUFFICES ASSUME NEW s \in Of(rows) PROVE s \in Of(rest) \/ \E j \in DOMAIN row : s = row[j]
    OBVIOUS
  <2>1. PICK i \in DOMAIN rows : \E j \in DOMAIN rows[i] : s = rows[i][j]
    BY <1>5
  <2>2. CASE i = 1
    BY <2>1, <2>2, <1>1
  <2>3. CASE i # 1
    <3>1. i - 1 \in DOMAIN rest /\ rest[i - 1] = rows[i]
      BY <2>3, <1>1, <1>3
    <3> QED
      BY <3>1, <2>1, <1>6
  <2> QED
    BY <2>2, <2>3
<1>11. CASE Tail(row) = <<>>
  <2>1. adv = rest
    BY <1>11 DEF Advance
  <2>2. \A j \in DOMAIN row : row[j] = Head(row)
    <3>1. Len(Tail(row)) = Len(row) - 1
      BY <1>1
    <3>2. Len(Tail(row)) = 0
      <4>1. \A e \in Seq(Sections) : e = <<>> => Len(e) = 0
        OBVIOUS
      <4> QED
        BY <4>1, <1>4, <1>11
    <3> QED
      BY <3>1, <3>2, <1>2
  <2> QED
    BY <2>1, <2>2, <1>1, <1>2, <1>3, <1>8, <1>9, <1>10
<1>12. CASE Tail(row) # <<>>
  <2>1. adv = <<Tail(row)>> \o rest
    BY <1>12 DEF Advance
  <2>2. /\ adv \in Seq(Seq(Sections)) /\ DOMAIN adv = 1 .. Len(rows)
        /\ adv[1] = Tail(row)
        /\ \A i \in DOMAIN adv : i # 1 => adv[i] = rows[i]
    BY <2>1, <1>1, <1>3, <1>4
  <2>3. Of(adv) \subseteq Of(rows)
    <3> SUFFICES ASSUME NEW s \in Of(adv) PROVE s \in Of(rows)
      OBVIOUS
    <3>1. PICK i \in DOMAIN adv : \E j \in DOMAIN adv[i] : s = adv[i][j]
      BY <1>7
    <3>2. CASE i = 1
      <4>1. PICK j \in DOMAIN Tail(row) : s = Tail(row)[j]
        BY <3>1, <3>2, <2>2
      <4>2. s = rows[1][j + 1] /\ j + 1 \in DOMAIN rows[1]
        BY <4>1, <1>1, <1>4
      <4> QED
        BY <4>2, <1>1, <1>5
    <3>3. CASE i # 1
      BY <3>1, <3>3, <2>2, <1>1, <1>5
    <3> QED
      BY <3>2, <3>3
  <2>4. Of(rest) \subseteq Of(adv)
    <3> SUFFICES ASSUME NEW s \in Of(rest) PROVE s \in Of(adv)
      OBVIOUS
    <3>1. PICK i \in DOMAIN rest : \E j \in DOMAIN rest[i] : s = rest[i][j]
      BY <1>6
    <3>2. i + 1 \in DOMAIN adv /\ adv[i + 1] = rest[i]
      BY <2>2, <1>1, <1>3
    <3> QED
      BY <3>1, <3>2, <1>7
  <2>5. \A j \in DOMAIN row : row[j] = Head(row) \/ row[j] \in Of(adv)
    <3> SUFFICES ASSUME NEW j \in DOMAIN row, j # 1 PROVE row[j] \in Of(adv)
      BY <1>2
    <3>1. j - 1 \in DOMAIN Tail(row) /\ Tail(row)[j - 1] = row[j]
      BY <1>2, <1>4
    <3>2. 1 \in DOMAIN adv
      BY <2>2, <1>1
    <3> QED
      BY <3>1, <3>2, <2>2, <1>7
  <2>6. (\A i \in DOMAIN rest : rest[i] # <<>>) /\ (\A i \in DOMAIN adv : adv[i] # <<>>)
    BY <2>2, <1>1, <1>3, <1>12
  <2>7. Of(rows) \subseteq Of(adv) \union {Head(row)}
    BY <2>4, <2>5, <1>10
  <2> HIDE DEF row, rest, adv
  <2> QED
    BY <2>2, <2>3, <2>6, <2>7, <1>1, <1>2, <1>3, <1>8, <1>9 DEF row, rest, adv
<1> QED
  BY <1>11, <1>12

LEMMA AreaSections ==
    ASSUME NEW area \in Areas
    PROVE  Of(area) \subseteq Sections
<1>1. area \in Seq(Seq(Sections))
  BY LockAssumption
<1>2. \A i \in DOMAIN area : area[i] \in Seq(Sections)
  BY <1>1
<1>3. \A i \in DOMAIN area : \A j \in DOMAIN area[i] : area[i][j] \in Sections
  BY <1>2
<1> QED
  BY <1>3 DEF Of

(***************************************************************************)
(* Types.                                                                  *)
(***************************************************************************)
LEMMA CallFields ==
    ASSUME NEW c \in Calls
    PROVE  /\ c.node \in Node \union {NoNode} /\ c.park \in Node \union {NoNode}
           /\ c.area \in Areas \union {<<>>} /\ c.rows \in Seq(Seq(Sections))
           /\ c.target \subseteq Threads /\ c.added \in BOOLEAN
           /\ \A r \in Seq(Seq(Sections)) : [c EXCEPT !.rows = r] \in Calls
           /\ \A r \in Seq(Seq(Sections)) : [c EXCEPT !.rows = r, !.added = TRUE] \in Calls
           /\ \A r \in Seq(Seq(Sections)), n \in Node : [c EXCEPT !.rows = r, !.park = n] \in Calls
           /\ \A r \in Seq(Seq(Sections)) :
                [c EXCEPT !.at = "scan", !.rows = r, !.park = NoNode, !.added = FALSE] \in Calls
           /\ \A w \in Threads : [c EXCEPT !.at = "unpark", !.target = {w}] \in Calls
           /\ [c EXCEPT !.at = "drain", !.target = {}] \in Calls
           /\ [c EXCEPT !.at = "notify"] \in Calls /\ [c EXCEPT !.at = "check"] \in Calls
<1> USE DEF Calls
<1>1. \A r \in Seq(Seq(Sections)) : [c EXCEPT !.rows = r] \in Calls
  OBVIOUS
<1>2. \A r \in Seq(Seq(Sections)) : [c EXCEPT !.rows = r, !.added = TRUE] \in Calls
  OBVIOUS
<1>3. \A r \in Seq(Seq(Sections)), n \in Node : [c EXCEPT !.rows = r, !.park = n] \in Calls
  OBVIOUS
<1>4. \A r \in Seq(Seq(Sections)) :
        [c EXCEPT !.at = "scan", !.rows = r, !.park = NoNode, !.added = FALSE] \in Calls
  OBVIOUS
<1>5. \A w \in Threads : [c EXCEPT !.at = "unpark", !.target = {w}] \in Calls
  OBVIOUS
<1>6. [c EXCEPT !.at = "drain", !.target = {}] \in Calls
  OBVIOUS
<1>7. [c EXCEPT !.at = "notify"] \in Calls /\ [c EXCEPT !.at = "check"] \in Calls
  BY DEF Parking
<1> QED
  BY <1>1, <1>2, <1>3, <1>4, <1>5, <1>6, <1>7

LEMMA BecomeFacts ==
    ASSUME TypeOK, NEW t \in Threads, NEW c \in Calls, Become(t, c)
    PROVE  /\ call' \in [Threads -> Calls] /\ call'[t] = c
           /\ \A u \in Threads \ {t} : call'[u] = call[u]
  BY DEF TypeOK, Become

LEMMA CallsStay ==
    ASSUME TypeOK, NEW t \in Threads
    PROVE  /\ call[t] \in Calls /\ Idle \in Calls
           /\ \A at \in Parking \union {"idle", "scan", "remove", "drain", "unpark", "notify",
                                      "wait", "again"} :
                /\ [call[t] EXCEPT !.at = at] \in Calls
                /\ Go(t, at) => call' \in [Threads -> Calls]
           /\ Return(t) => call' \in [Threads -> Calls]
<1>1. call[t] \in Calls /\ Idle \in Calls
  BY DEF TypeOK, Idle, Calls
<1>2. ASSUME NEW at \in Parking \union {"idle", "scan", "remove", "drain", "unpark", "notify",
                                      "wait", "again"}
      PROVE  [call[t] EXCEPT !.at = at] \in Calls
  BY <1>1 DEF Calls
<1>3. Return(t) => call' \in [Threads -> Calls]
  BY <1>1, BecomeFacts DEF Return
<1> QED
  BY <1>1, <1>2, <1>3, BecomeFacts DEF Go

LEMMA SeqFacts ==
    ASSUME NEW S, NEW s \in Seq(S)
    PROVE  /\ \A e \in S : Append(s, e) \in Seq(S)
           /\ s # <<>> => /\ Head(s) \in S /\ Tail(s) \in Seq(S) /\ s[Len(s)] \in S
                          /\ SubSeq(s, 1, Len(s) - 1) \in Seq(S)
  OBVIOUS

LEMMA NewCalls ==
    ASSUME NEW n \in Node
    PROVE  /\ \A mode \in {"lock", "try"}, area \in Areas :
                [Idle EXCEPT !.at = "scan", !.mode = mode, !.node = n,
                             !.area = area, !.rows = area] \in Calls
           /\ [Idle EXCEPT !.at = "remove", !.mode = "unlock", !.node = n] \in Calls
<1>1. \A area \in Areas : area \in Seq(Seq(Sections))
  BY LockAssumption
<1>2. <<>> \in Seq(Seq(Sections)) /\ NoNode \in Node \union {NoNode} /\ <<>> \in Areas \union {<<>>}
  OBVIOUS
<1> QED
  BY <1>1, <1>2 DEF Idle, Calls

LEMMA TypeStep ==
    ASSUME TypeOK, \A t \in Threads : CallOK(t) /\ ScanOK(t), Next
    PROVE  TypeOK'
<1> USE DEF TypeOK
<1>1. ASSUME NEW t \in Threads, NEW mode \in {"lock", "try"}, NEW area \in Areas, Call(t, mode, area)
      PROVE  TypeOK'
  <2>1. PICK n \in Node : /\ Become(t, [Idle EXCEPT !.at = "scan", !.mode = mode,
                                  !.node = n, !.area = area, !.rows = area])
                          /\ waiters' = [waiters EXCEPT ![n] = {}]
                          /\ blocked' = [blocked EXCEPT ![n] = FALSE]
    BY <1>1 DEF Call, Node
  <2>2. call' \in [Threads -> Calls]
    BY <2>1, NewCalls, BecomeFacts
  <2>3. todo' \in [Threads -> Seq({"lock", "try"} \X Areas)]
    BY <1>1, SeqFacts DEF Call
  <2> QED
    BY <1>1, <2>1, <2>2, <2>3 DEF Call
<1>2. ASSUME NEW t \in Threads, PutIfAbsent(t) PROVE TypeOK'
  <2>1. call[t] \in Calls /\ call[t].rows \in Seq(Seq(Sections)) /\ call[t].rows # <<>>
    BY <1>2, CallsStay DEF PutIfAbsent, Calls
  <2>2. \A i \in DOMAIN call[t].rows : call[t].rows[i] # <<>>
    BY <1>2 DEF ScanOK, PutIfAbsent
  <2>3. call[t].node \in Node
    BY <1>2 DEF CallOK, PutIfAbsent
  <2>4. /\ Head(Head(call[t].rows)) \in Sections
        /\ Advance(call[t].rows) \in Seq(Seq(Sections)) /\ Tail(call[t].rows) \in Seq(Seq(Sections))
    BY <2>1, <2>2, RowFacts
  <2>5. owner' \in [Sections -> Node \union {NoNode}] /\ mine' \in [Node -> SUBSET Sections]
    <3>1. \/ UNCHANGED <<owner, mine>>
          \/ /\ owner' = [owner EXCEPT ![Head(Head(call[t].rows))] = call[t].node]
             /\ mine' = [mine EXCEPT ![call[t].node] = @ \union {Head(Head(call[t].rows))}]
      BY <1>2 DEF PutIfAbsent
    <3>2. \A q \in Sections, n \in Node :
            /\ [owner EXCEPT ![q] = n] \in [Sections -> Node \union {NoNode}]
            /\ [mine EXCEPT ![n] = @ \union {q}] \in [Node -> SUBSET Sections]
      OBVIOUS
    <3>3. CASE UNCHANGED <<owner, mine>>
      BY <3>3
    <3>4. CASE /\ owner' = [owner EXCEPT ![Head(Head(call[t].rows))] = call[t].node]
               /\ mine' = [mine EXCEPT ![call[t].node] = @ \union {Head(Head(call[t].rows))}]
      <4> DEFINE q == Head(Head(call[t].rows))
                 n == call[t].node
      <4>1. q \in Sections /\ n \in Node
        BY <2>3, <2>4
      <4>2. owner' = [owner EXCEPT ![q] = n] /\ mine' = [mine EXCEPT ![n] = @ \union {q}]
        BY <3>4
      <4> HIDE DEF q, n
      <4> QED
        BY <4>1, <4>2, <3>2
    <3> QED
      BY <3>1, <3>3, <3>4
  <2>6. call' \in [Threads -> Calls]
    <3>1. owner[Head(Head(call[t].rows))] # NoNode => owner[Head(Head(call[t].rows))] \in Node
      BY <2>4
    <3>2. \/ Become(t, [call[t] EXCEPT !.rows = Advance(call[t].rows), !.added = TRUE])
          \/ Become(t, [call[t] EXCEPT !.rows = Advance(call[t].rows)])
          \/ /\ owner[Head(Head(call[t].rows))] # NoNode
             /\ Become(t, [call[t] EXCEPT !.rows = Tail(call[t].rows),
                                          !.park = owner[Head(Head(call[t].rows))]])
      BY <1>2 DEF PutIfAbsent
    <3>3. /\ [call[t] EXCEPT !.rows = Advance(call[t].rows), !.added = TRUE] \in Calls
          /\ [call[t] EXCEPT !.rows = Advance(call[t].rows)] \in Calls
          /\ owner[Head(Head(call[t].rows))] # NoNode =>
               [call[t] EXCEPT !.rows = Tail(call[t].rows),
                               !.park = owner[Head(Head(call[t].rows))]] \in Calls
      BY <2>1, <2>4, <3>1, CallFields
    <3> QED
      BY <3>2, <3>3, BecomeFacts
  <2> QED
    BY <1>2, <2>5, <2>6 DEF PutIfAbsent
<1>3. ASSUME NEW t \in Threads, Acquired(t) PROVE TypeOK'
  BY <1>3, CallsStay, SeqFacts DEF Acquired, CallOK
<1>4. ASSUME NEW t \in Threads, Failed(t) PROVE TypeOK'
  BY <1>4, CallsStay DEF Failed
<1>5. ASSUME NEW t \in Threads, Unlock(t) PROVE TypeOK'
  <2>1. held[t] \in Seq(Node) /\ held[t][Len(held[t])] \in Node
        /\ SubSeq(held[t], 1, Len(held[t]) - 1) \in Seq(Node)
    BY <1>5, SeqFacts DEF Unlock
  <2>2. \/ UNCHANGED call
        \/ Become(t, [Idle EXCEPT !.at = "remove", !.mode = "unlock",
                                  !.node = held[t][Len(held[t])]])
    BY <1>5 DEF Unlock
  <2>3. call' \in [Threads -> Calls]
    BY <2>1, <2>2, NewCalls, BecomeFacts
  <2> QED
    BY <1>5, <2>1, <2>3 DEF Unlock
<1>6. ASSUME NEW t \in Threads, Remove(t) PROVE TypeOK'
  <2>1. call[t].node \in Node
    BY <1>6 DEF CallOK, Remove
  <2>2. call' \in [Threads -> Calls]
    BY <1>6, CallsStay DEF Remove
  <2>3. owner' \in [Sections -> Node \union {NoNode}] /\ mine' \in [Node -> SUBSET Sections]
    BY <1>6, <2>1 DEF Remove
  <2> QED
    BY <1>6, <2>2, <2>3 DEF Remove
<1>7. ASSUME NEW t \in Threads, Poll(t) PROVE TypeOK'
  <2>1. call[t].node \in Node /\ waiters[call[t].node] \subseteq Threads
    BY <1>7 DEF CallOK, Poll
  <2>2. PICK w \in Threads : Become(t, [call[t] EXCEPT !.at = "unpark", !.target = {w}])
    BY <1>7, <2>1 DEF Poll
  <2>3. call' \in [Threads -> Calls]
    BY <2>2, CallsStay, CallFields, BecomeFacts
  <2> QED
    BY <1>7, <2>1, <2>3 DEF Poll
<1>8. ASSUME NEW t \in Threads, BlockAdds(t) PROVE TypeOK'
  BY <1>8, CallsStay DEF BlockAdds, CallOK
<1>9. ASSUME NEW t \in Threads, Unpark(t) PROVE TypeOK'
  <2>1. \/ Become(t, [call[t] EXCEPT !.at = "drain", !.target = {}])
        \/ Become(t, [call[t] EXCEPT !.at = "notify"])
    BY <1>9 DEF Unpark, Go
  <2>2. call' \in [Threads -> Calls]
    BY <2>1, CallsStay, CallFields, BecomeFacts
  <2>3. permit' \in [Threads -> BOOLEAN]
    BY <1>9 DEF Unpark
  <2> QED
    BY <1>9, <2>2, <2>3 DEF Unpark
<1>10. ASSUME NEW t \in Threads, NotifyOne(t) PROVE TypeOK'
  <2>1. \A u \in Threads : /\ call[u] \in Calls /\ [call[u] EXCEPT !.at = "drain", !.target = {}] \in Calls
                          /\ [call[u] EXCEPT !.at = "check"] \in Calls
    BY CallsStay, CallFields
  <2>2. call' \in [Threads -> Calls]
    BY <1>10, <2>1 DEF NotifyOne
  <2> QED
    BY <1>10, <2>2 DEF NotifyOne
<1>11. ASSUME NEW t \in Threads, BackOff(t) \/ Look(t) \/ Sleep(t) PROVE TypeOK'
  <2>1. call' \in [Threads -> Calls]
    BY <1>11, CallsStay DEF BackOff, Look, Sleep, Parking
  <2> QED
    BY <1>11, <2>1 DEF BackOff, Look, Sleep
<1>12. ASSUME NEW t \in Threads, Add(t) PROVE TypeOK'
  <2>1. call' \in [Threads -> Calls]
    BY <1>12, CallsStay DEF Add, Parking
  <2> QED
    BY <1>12, <2>1 DEF Add
<1>13. ASSUME NEW t \in Threads, Retry(t) PROVE TypeOK'
  <2>1. call[t].area \in Seq(Seq(Sections)) /\ call[t] \in Calls /\ call[t].node \in Node
    BY <1>13, LockAssumption, CallsStay DEF CallOK, Retry, Calls
  <2>2. Become(t, [call[t] EXCEPT !.at = "scan", !.rows = call[t].area,
                                 !.park = NoNode, !.added = FALSE])
    BY <1>13 DEF Retry
  <2>3. [call[t] EXCEPT !.at = "scan", !.rows = call[t].area,
                        !.park = NoNode, !.added = FALSE] \in Calls
    BY <2>1, CallFields
  <2>4. call' \in [Threads -> Calls]
    BY <2>2, <2>3, BecomeFacts
  <2> QED
    BY <1>13, <2>1, <2>4 DEF Retry
<1> QED
  BY <1>1, <1>2, <1>3, <1>4, <1>5, <1>6, <1>7, <1>8, <1>9, <1>10, <1>11, <1>12, <1>13
  DEF Next, Proceed

(***************************************************************************)
(* The table. Most steps leave it and the handles alone: they keep the     *)
(* invariant if the mover's own call is still in order and nothing that    *)
(* its node owns is left behind.                                           *)
(***************************************************************************)
LEMMA Quiet ==
    ASSUME LockInv, TypeOK', NEW t \in Threads, UNCHANGED <<owner, mine, held>>,
           CallOK(t)', ScanOK(t)',
           \A u \in Threads \ {t} : \/ call'[u] = call[u]
                                   \/ /\ call[u].at = "sleep"
                                      /\ call'[u] = [call[u] EXCEPT !.at = "check"],
           \A n \in Node : call[t].at \in {"scan", "remove"} /\ call[t].node = n /\ mine[n] # {} =>
                call'[t].at \in {"scan", "remove"} /\ call'[t].node = n
    PROVE  LockInv'
<1>0. /\ TypeOK /\ Ledger /\ HandlesApart /\ NothingStray
      /\ \A u \in Threads : CallOK(u) /\ ScanOK(u)
  BY DEF LockInv
<1>1. Ledger' /\ HandlesApart'
  BY <1>0 DEF Ledger, HandlesApart
<1>2. ASSUME NEW u \in Threads \ {t}, call[u].at \in {"scan", "remove"} PROVE call'[u] = call[u]
  BY <1>2
<1>3. ASSUME NEW u \in Threads \ {t} PROVE CallOK(u)' /\ ScanOK(u)'
  <2>1. held'[u] = held[u] /\ owner' = owner /\ mine' = mine
    OBVIOUS
  <2>2. CallOK(u) /\ ScanOK(u)
    BY <1>0
  <2>3. CASE call'[u] = call[u]
    BY <2>1, <2>2, <2>3 DEF CallOK, ScanOK, OwnedBy
  <2>4. CASE call[u].at = "sleep" /\ call'[u] = [call[u] EXCEPT !.at = "check"]
    <3>1. call[u] \in Calls
      BY <1>0 DEF TypeOK
    <3>2. /\ call'[u].at = "check" /\ call'[u].node = call[u].node
          /\ call'[u].area = call[u].area /\ call'[u].mode = call[u].mode
      BY <2>4, <3>1 DEF Calls
    <3> QED
      BY <2>1, <2>2, <2>4, <3>2 DEF CallOK, ScanOK
  <2> QED
    BY <2>3, <2>4
<1>5. NothingStray'
  <2> SUFFICES ASSUME NEW n \in Node, mine[n] # {}
               PROVE  \/ \E i \in DOMAIN held[n[1]] : held[n[1]][i] = n
                      \/ call'[n[1]].at \in {"scan", "remove"} /\ call'[n[1]].node = n
    BY DEF NothingStray
  <2>1. n[1] \in Threads
    BY DEF Node
  <2>2. CASE call[n[1]].at \in {"scan", "remove"} /\ call[n[1]].node = n
    BY <2>1, <2>2, <1>2
  <2> QED
    BY <2>2, <1>0 DEF NothingStray
<1> QED
  BY <1>1, <1>3, <1>5 DEF LockInv

(* A step within a call that leaves the scan, or was never in it.          *)
LEMMA Passing ==
    ASSUME LockInv, TypeOK', NEW t \in Threads, UNCHANGED <<owner, mine, held>>,
           NEW c \in Calls, Become(t, c),
           \/ c = Idle
           \/ /\ call[t].at # "idle" /\ c.node = call[t].node
              /\ c.area = call[t].area /\ c.mode = call[t].mode
              /\ c.at \notin {"remove", "drain", "unpark", "notify"} => c.mode # "unlock",
           c.at # "scan",
           \/ call[t].at \notin {"scan", "remove"} \/ mine[call[t].node] = {}
           \/ c.at = "remove" /\ c.node = call[t].node
    PROVE  LockInv'
<1>1. /\ call'[t] = c /\ \A u \in Threads \ {t} : call'[u] = call[u]
  BY BecomeFacts DEF LockInv
<1>2. CallOK(t)' /\ ScanOK(t)'
  BY <1>1 DEF LockInv, CallOK, ScanOK, Idle
<1> QED
  BY <1>1, <1>2, Quiet

(***************************************************************************)
(* Every step keeps the invariant.                                         *)
(***************************************************************************)
LEMMA CallStep ==
    ASSUME LockInv, TypeOK', NEW t \in Threads, NEW mode \in {"lock", "try"}, NEW area \in Areas,
           Call(t, mode, area)
    PROVE  LockInv'
<1>0. /\ TypeOK /\ Ledger /\ HandlesApart /\ NothingStray
      /\ \A u \in Threads : CallOK(u) /\ ScanOK(u)
  BY DEF LockInv
<1>1. PICK n \in Node :
        /\ n[1] = t /\ Unused(n)
        /\ Become(t, [Idle EXCEPT !.at = "scan", !.mode = mode, !.node = n,
                                  !.area = area, !.rows = area])
  BY DEF Call, Node
<1> DEFINE c == [Idle EXCEPT !.at = "scan", !.mode = mode, !.node = n, !.area = area, !.rows = area]
<1>2. c \in Calls /\ c.at = "scan" /\ c.node = n /\ c.area = area /\ c.rows = area /\ c.mode = mode
      /\ c.park = NoNode /\ c.added = FALSE
  BY NewCalls DEF Idle
<1>3. call'[t] = c /\ \A u \in Threads \ {t} : call'[u] = call[u]
  BY <1>0, <1>1, <1>2, BecomeFacts
<1>4. UNCHANGED <<owner, mine, held>> /\ call[t].at = "idle"
  BY DEF Call
<1>5. mine[n] = {} /\ \A i \in DOMAIN held[t] : held[t][i] # n
  BY <1>0, <1>1 DEF Unused, NothingStray
<1>6. CallOK(t)'
  BY <1>1, <1>2, <1>3, <1>4, <1>5 DEF CallOK
<1>7. ScanOK(t)'
  BY <1>2, <1>3, <1>4, <1>5, LockAssumption DEF ScanOK
<1> QED
  BY <1>3, <1>4, <1>6, <1>7, Quiet

LEMMA PutStep ==
    ASSUME LockInv, TypeOK', NEW t \in Threads, PutIfAbsent(t)
    PROVE  LockInv'
<1>0. /\ TypeOK /\ Ledger /\ HandlesApart /\ NothingStray
      /\ \A u \in Threads : CallOK(u) /\ ScanOK(u)
  BY DEF LockInv
<1> DEFINE n == call[t].node
           rows == call[t].rows
           s == Head(Head(rows))
<1>1. /\ call[t] \in Calls /\ n \in Node /\ n[1] = t /\ call[t].at = "scan"
      /\ \A i \in DOMAIN held[t] : held[t][i] # n
  BY <1>0, CallsStay DEF PutIfAbsent, CallOK
<1>2. rows \in Seq(Seq(Sections)) /\ rows # <<>> /\ \A i \in DOMAIN rows : rows[i] # <<>>
  BY <1>0, <1>1, CallFields DEF PutIfAbsent, ScanOK
<1>3. /\ s \in Sections /\ s \in Of(rows)
      /\ Tail(rows) \in Seq(Seq(Sections)) /\ Advance(rows) \in Seq(Seq(Sections))
      /\ \A i \in DOMAIN Tail(rows) : Tail(rows)[i] # <<>>
      /\ \A i \in DOMAIN Advance(rows) : Advance(rows)[i] # <<>>
      /\ Of(Tail(rows)) \subseteq Of(rows) /\ Of(Advance(rows)) \subseteq Of(rows)
      /\ Of(rows) \subseteq Of(Advance(rows)) \union {s}
  BY <1>2, RowFacts
<1> HIDE DEF n, rows, s
<1>4. CASE /\ owner[s] = NoNode
           /\ owner' = [owner EXCEPT ![s] = n]
           /\ mine' = [mine EXCEPT ![n] = @ \union {s}]
           /\ Become(t, [call[t] EXCEPT !.rows = Advance(rows), !.added = TRUE])
           /\ UNCHANGED held
  <2> DEFINE c == [call[t] EXCEPT !.rows = Advance(rows), !.added = TRUE]
  <2>1. /\ c \in Calls /\ c.at = "scan" /\ c.node = n /\ c.rows = Advance(rows) /\ c.added = TRUE
        /\ c.area = call[t].area /\ c.mode = call[t].mode /\ c.park = call[t].park
    <3>1. c \in Calls
      BY <1>1, <1>3, CallFields
    <3> QED
      BY <1>1, <3>1 DEF Calls, n
  <2>2. call'[t] = c /\ \A u \in Threads \ {t} : call'[u] = call[u]
    BY <1>0, <1>4, <2>1, BecomeFacts
  <2>3. \A q \in Sections : owner'[q] = IF q = s THEN n ELSE owner[q]
    BY <1>0, <1>3, <1>4 DEF TypeOK
  <2>4. \A m \in Node : mine'[m] = IF m = n THEN mine[n] \union {s} ELSE mine[m]
    BY <1>0, <1>1, <1>4 DEF TypeOK
  <2>5. Ledger'
    BY <1>0, <1>1, <1>3, <1>4, <2>3, <2>4, LockAssumption DEF Ledger
  <2>6. HandlesApart'
    BY <1>0, <1>4 DEF HandlesApart
  <2>7. NothingStray'
    <3> SUFFICES ASSUME NEW m \in Node, mine'[m] # {}
                 PROVE  \/ \E i \in DOMAIN held[m[1]] : held[m[1]][i] = m
                        \/ call'[m[1]].at \in {"scan", "remove"} /\ call'[m[1]].node = m
      BY <1>4 DEF NothingStray
    <3>1. m[1] \in Threads
      BY DEF Node
    <3>2. CASE m = n
      BY <3>2, <1>1, <2>1, <2>2
    <3>3. CASE m # n
      <4>1. mine[m] # {}
        BY <3>3, <2>4
      <4>2. CASE m[1] = t
        BY <3>3, <4>1, <4>2, <1>0 DEF NothingStray, n
      <4>3. CASE m[1] # t
        BY <3>1, <4>1, <4>3, <1>0, <2>2 DEF NothingStray
      <4> QED
        BY <4>2, <4>3
    <3> QED
      BY <3>2, <3>3
  <2>8. ASSUME NEW u \in Threads PROVE CallOK(u)'
    <3>1. CASE u = t
      BY <3>1, <1>0, <1>4, <2>1, <2>2 DEF CallOK, n
    <3>2. CASE u # t
      BY <3>2, <1>0, <1>4, <2>2 DEF CallOK
    <3> QED
      BY <3>1, <3>2
  <2>9. ASSUME NEW u \in Threads \ {t} PROVE ScanOK(u)'
    <3> SUFFICES ASSUME call[u].at = "scan" PROVE ScanOK(u)'
      BY <2>2 DEF ScanOK
    <3>1. call[u].node \in Node /\ call[u].node # n
      BY <1>0, <1>1 DEF CallOK
    <3>2. mine'[call[u].node] = mine[call[u].node]
      BY <3>1, <2>4
    <3>3. \A q \in Sections : OwnedBy(u, q) => OwnedBy(u, q)'
      BY <1>1, <1>4, <2>3 DEF OwnedBy
    <3>4. Of(call[u].area) \subseteq Sections
      BY <1>0, AreaSections DEF CallOK
    <3>5. ScanOK(u) /\ call'[u] = call[u]
      BY <1>0, <2>2
    <3> QED
      BY <3>2, <3>3, <3>4, <3>5 DEF ScanOK
  <2>10. ScanOK(t)'
    <3>1. \A q \in Sections : OwnedBy(t, q) \/ q = s => OwnedBy(t, q)'
      BY <1>1, <1>4, <2>3, LockAssumption DEF OwnedBy
    <3>2. Of(call[t].area) \subseteq Sections
      BY <1>0, <1>1, AreaSections DEF CallOK
    <3>3. mine'[n] = mine[n] \union {s}
      BY <1>1, <2>4
    <3>4. ScanOK(t) /\ call'[t] = c
      BY <1>0, <2>2
    <3>5. /\ Of(rows) \subseteq Of(call[t].area) /\ mine[n] \subseteq Of(call[t].area)
          /\ call[t].park = NoNode => \A q \in Of(call[t].area) : q \in Of(rows) \/ OwnedBy(t, q)
      BY <3>4, <1>1 DEF ScanOK, n, rows
    <3>6. mine'[n] \subseteq Of(call[t].area) /\ Of(Advance(rows)) \subseteq Of(call[t].area)
      BY <3>3, <3>5, <1>3
    <3>7. call[t].park = NoNode =>
            \A q \in Of(call[t].area) : q \in Of(Advance(rows)) \/ OwnedBy(t, q)'
      BY <3>1, <3>2, <3>5, <1>3
    <3> QED
      BY <1>3, <2>1, <3>4, <3>6, <3>7 DEF ScanOK
  <2> QED
    BY <2>5, <2>6, <2>7, <2>8, <2>9, <2>10 DEF LockInv
<1>5. CASE /\ OwnedBy(t, s)
           /\ Become(t, [call[t] EXCEPT !.rows = Advance(rows)])
           /\ UNCHANGED <<owner, mine, held>>
  <2> DEFINE c == [call[t] EXCEPT !.rows = Advance(rows)]
  <2>1. /\ c \in Calls /\ c.at = "scan" /\ c.node = n /\ c.rows = Advance(rows) /\ c.added = call[t].added
        /\ c.area = call[t].area /\ c.mode = call[t].mode /\ c.park = call[t].park
    <3>1. c \in Calls
      BY <1>1, <1>3, CallFields
    <3> QED
      BY <1>1, <3>1 DEF Calls, n
  <2>2. call'[t] = c /\ \A u \in Threads \ {t} : call'[u] = call[u]
    BY <1>0, <1>5, <2>1, BecomeFacts
  <2>3. CallOK(t)'
    BY <1>0, <1>5, <2>1, <2>2 DEF CallOK, n
  <2>4. ScanOK(t)'
    <3>1. ScanOK(t) /\ call'[t] = c
      BY <1>0, <2>2
    <3>2. /\ Of(rows) \subseteq Of(call[t].area) /\ mine[n] \subseteq Of(call[t].area)
          /\ ~ call[t].added => mine[n] = {}
          /\ call[t].park = NoNode => \A q \in Of(call[t].area) : q \in Of(rows) \/ OwnedBy(t, q)
      BY <3>1, <1>1 DEF ScanOK, n, rows
    <3>3. call[t].park = NoNode =>
            \A q \in Of(call[t].area) : q \in Of(Advance(rows)) \/ OwnedBy(t, q)
      BY <3>2, <1>3, <1>5
    <3> QED
      BY <1>3, <1>5, <2>1, <3>1, <3>2, <3>3 DEF ScanOK, OwnedBy
  <2> QED
    BY <1>1, <1>5, <2>1, <2>2, <2>3, <2>4, Quiet DEF n
<1>6. CASE /\ owner[s] # NoNode
           /\ Become(t, [call[t] EXCEPT !.rows = Tail(rows), !.park = owner[s]])
           /\ UNCHANGED <<owner, mine, held>>
  <2> DEFINE c == [call[t] EXCEPT !.rows = Tail(rows), !.park = owner[s]]
  <2>1. owner[s] \in Node
    BY <1>0, <1>3, <1>6 DEF TypeOK
  <2>2. /\ c \in Calls /\ c.at = "scan" /\ c.node = n /\ c.rows = Tail(rows) /\ c.added = call[t].added
        /\ c.area = call[t].area /\ c.mode = call[t].mode /\ c.park = owner[s]
    <3>1. c \in Calls
      BY <1>1, <1>3, <2>1, CallFields
    <3> QED
      BY <1>1, <3>1 DEF Calls, n
  <2>3. call'[t] = c /\ \A u \in Threads \ {t} : call'[u] = call[u]
    BY <1>0, <1>6, <2>2, BecomeFacts
  <2>4. CallOK(t)'
    BY <1>0, <1>6, <2>2, <2>3 DEF CallOK, n
  <2>5. ScanOK(t)'
    <3>1. ScanOK(t) /\ call'[t] = c
      BY <1>0, <2>3
    <3>2. /\ Of(rows) \subseteq Of(call[t].area) /\ mine[n] \subseteq Of(call[t].area)
          /\ ~ call[t].added => mine[n] = {}
      BY <3>1, <1>1 DEF ScanOK, n, rows
    <3> QED
      BY <1>3, <1>6, <2>2, <3>1, <3>2 DEF ScanOK
  <2> QED
    BY <1>1, <1>6, <2>2, <2>3, <2>4, <2>5, Quiet DEF n
<1> QED
  BY <1>4, <1>5, <1>6 DEF PutIfAbsent, n, rows, s

LEMMA AcquiredStep ==
    ASSUME LockInv, TypeOK', NEW t \in Threads, Acquired(t)
    PROVE  LockInv'
<1>0. /\ TypeOK /\ Ledger /\ HandlesApart /\ NothingStray
      /\ \A u \in Threads : CallOK(u) /\ ScanOK(u)
  BY DEF LockInv
<1> DEFINE n == call[t].node
<1>1. n \in Node /\ n[1] = t /\ \A i \in DOMAIN held[t] : held[t][i] # n
  BY <1>0 DEF Acquired, CallOK
<1>2. call'[t] = Idle /\ \A u \in Threads \ {t} : call'[u] = call[u]
  BY <1>0, CallsStay, BecomeFacts DEF Acquired, Return
<1>3. UNCHANGED <<owner, mine>>
  BY DEF Acquired
<1>4. /\ held[t] \in Seq(Node) /\ held'[t] = Append(held[t], n)
      /\ \A u \in Threads \ {t} : held'[u] = held[u]
  BY <1>0 DEF Acquired, TypeOK
<1>5. /\ DOMAIN held[t] = 1 .. Len(held[t]) /\ DOMAIN held'[t] = 1 .. (Len(held[t]) + 1)
      /\ Len(held[t]) \in Nat /\ held'[t][Len(held[t]) + 1] = n
      /\ \A i \in DOMAIN held[t] : held'[t][i] = held[t][i]
  BY <1>1, <1>4
<1>6. HandlesApart'
  <2>1. \A i \in DOMAIN held'[t] : i = Len(held[t]) + 1 \/ i \in DOMAIN held[t]
    BY <1>5
  <2>2. \A i \in DOMAIN held'[t] :
            /\ held'[t][i][1] = t
            /\ \A j \in DOMAIN held'[t] : held'[t][i] = held'[t][j] => i = j
    BY <1>0, <1>1, <1>5, <2>1 DEF HandlesApart
  <2> QED
    BY <1>0, <1>4, <2>2 DEF HandlesApart
<1>7. NothingStray'
  <2> SUFFICES ASSUME NEW m \in Node, mine[m] # {}
               PROVE  \/ \E i \in DOMAIN held'[m[1]] : held'[m[1]][i] = m
                      \/ call'[m[1]].at \in {"scan", "remove"} /\ call'[m[1]].node = m
    BY <1>3 DEF NothingStray
  <2>1. m[1] \in Threads
    BY DEF Node
  <2>2. CASE m[1] = t
    BY <1>0, <2>2, <1>5 DEF NothingStray
  <2>3. CASE m[1] # t
    BY <1>0, <2>1, <2>3, <1>2, <1>4 DEF NothingStray
  <2> QED
    BY <2>2, <2>3
<1>8. ASSUME NEW u \in Threads PROVE CallOK(u)' /\ ScanOK(u)'
  <2>1. CASE u = t
    BY <2>1, <1>2 DEF CallOK, ScanOK, Idle
  <2>2. CASE u # t
    <3>1. call'[u] = call[u] /\ held'[u] = held[u] /\ CallOK(u) /\ ScanOK(u)
      BY <2>2, <1>0, <1>2, <1>4
    <3> QED
      BY <3>1, <1>3 DEF CallOK, ScanOK, OwnedBy
  <2> QED
    BY <2>1, <2>2
<1>9. Ledger'
  BY <1>0, <1>3 DEF Ledger
<1> QED
  BY <1>6, <1>7, <1>8, <1>9 DEF LockInv

LEMMA UnlockStep ==
    ASSUME LockInv, TypeOK', NEW t \in Threads, Unlock(t)
    PROVE  LockInv'
<1>0. /\ TypeOK /\ Ledger /\ HandlesApart /\ NothingStray
      /\ \A u \in Threads : CallOK(u) /\ ScanOK(u)
  BY DEF LockInv
<1> DEFINE n == held[t][Len(held[t])]
<1>1. held[t] \in Seq(Node) /\ held[t] # <<>> /\ n \in Node /\ call[t].at = "idle"
  BY <1>0, SeqFacts DEF Unlock, TypeOK
<1>2. UNCHANGED <<owner, mine>>
  BY DEF Unlock
<1>3. /\ held'[t] = SubSeq(held[t], 1, Len(held[t]) - 1)
      /\ \A u \in Threads \ {t} : held'[u] = held[u]
  BY <1>0 DEF Unlock, TypeOK
<1>4. /\ DOMAIN held[t] = 1 .. Len(held[t]) /\ DOMAIN held'[t] = 1 .. (Len(held[t]) - 1)
      /\ Len(held[t]) \in DOMAIN held[t]
      /\ \A i \in DOMAIN held'[t] : held'[t][i] = held[t][i] /\ i \in DOMAIN held[t] /\ i # Len(held[t])
      /\ \A i \in DOMAIN held[t] : i # Len(held[t]) => i \in DOMAIN held'[t]
  BY <1>1, <1>3
<1>5. n[1] = t /\ \A i \in DOMAIN held'[t] : held'[t][i] # n
  BY <1>0, <1>4 DEF HandlesApart
<1>6. \/ mine[n] = {} /\ UNCHANGED call
      \/ Become(t, [Idle EXCEPT !.at = "remove", !.mode = "unlock", !.node = n])
  BY DEF Unlock
<1>7. /\ \A u \in Threads \ {t} : call'[u] = call[u]
      /\ \/ mine[n] = {} /\ call'[t].at = "idle"
         \/ call'[t].at = "remove" /\ call'[t].mode = "unlock" /\ call'[t].node = n
  <2> DEFINE c == [Idle EXCEPT !.at = "remove", !.mode = "unlock", !.node = n]
  <2>1. c \in Calls /\ c.at = "remove" /\ c.mode = "unlock" /\ c.node = n
    BY <1>1, NewCalls DEF Idle
  <2> HIDE DEF c
  <2>2. Become(t, c) => call'[t] = c /\ \A u \in Threads \ {t} : call'[u] = call[u]
    BY <1>0, <2>1, BecomeFacts
  <2> QED
    BY <1>1, <1>6, <2>1, <2>2 DEF c
<1>8. HandlesApart'
  <2>1. ASSUME NEW u \in Threads, NEW i \in DOMAIN held'[u]
        PROVE  /\ held'[u][i] = held[u][i] /\ i \in DOMAIN held[u]
    BY <1>3, <1>4
  <2> QED
    BY <2>1, <1>0 DEF HandlesApart
<1>9. NothingStray'
  <2> SUFFICES ASSUME NEW m \in Node, mine[m] # {}
               PROVE  \/ \E i \in DOMAIN held'[m[1]] : held'[m[1]][i] = m
                      \/ call'[m[1]].at \in {"scan", "remove"} /\ call'[m[1]].node = m
    BY <1>2 DEF NothingStray
  <2>1. m[1] \in Threads
    BY DEF Node
  <2>2. CASE m[1] = t
    <3>1. PICK i \in DOMAIN held[t] : held[t][i] = m
      BY <1>0, <2>2, <1>1 DEF NothingStray
    <3>2. CASE i = Len(held[t])
      BY <3>1, <3>2, <2>2, <1>7
    <3>3. CASE i # Len(held[t])
      BY <3>1, <3>3, <2>2, <1>4
    <3> QED
      BY <3>2, <3>3
  <2>3. CASE m[1] # t
    BY <1>0, <2>1, <2>3, <1>3, <1>7 DEF NothingStray
  <2> QED
    BY <2>2, <2>3
<1>10. ASSUME NEW u \in Threads PROVE ScanOK(u)' /\ CallOK(u)'
  <2>1. CASE u = t
    BY <2>1, <1>1, <1>5, <1>7 DEF ScanOK, CallOK
  <2>2. CASE u # t
    <3>1. call'[u] = call[u] /\ held'[u] = held[u] /\ CallOK(u) /\ ScanOK(u)
      BY <2>2, <1>0, <1>3, <1>7
    <3> QED
      BY <3>1, <1>2 DEF CallOK, ScanOK, OwnedBy
  <2> QED
    BY <2>1, <2>2
<1>11. Ledger'
  BY <1>0, <1>2 DEF Ledger
<1> QED
  BY <1>8, <1>9, <1>10, <1>11 DEF LockInv

LEMMA RemoveStep ==
    ASSUME LockInv, TypeOK', NEW t \in Threads, Remove(t)
    PROVE  LockInv'
<1>0. /\ TypeOK /\ Ledger /\ HandlesApart /\ NothingStray
      /\ \A u \in Threads : CallOK(u) /\ ScanOK(u)
  BY DEF LockInv
<1> DEFINE n == call[t].node
<1>1. n \in Node /\ n[1] = t /\ (\A i \in DOMAIN held[t] : held[t][i] # n) /\ call[t].at = "remove"
  BY <1>0 DEF Remove, CallOK
<1>2. PICK s \in mine[n] :
        /\ owner' = [owner EXCEPT ![s] = NoNode]
        /\ mine' = [mine EXCEPT ![n] = @ \ {s}]
        /\ IF mine[n] = {s} THEN Go(t, "drain") ELSE UNCHANGED call
  BY DEF Remove
<1>3. s \in Sections /\ owner[s] = n /\ UNCHANGED held
  BY <1>0, <1>1 DEF Remove, TypeOK, Ledger
<1>4. /\ \A q \in Sections : owner'[q] = IF q = s THEN NoNode ELSE owner[q]
      /\ \A m \in Node : mine'[m] = IF m = n THEN mine[n] \ {s} ELSE mine[m]
  BY <1>0, <1>1, <1>2, <1>3 DEF TypeOK
<1>5. /\ \A u \in Threads \ {t} : call'[u] = call[u]
      /\ call'[t].node = n /\ call'[t].area = call[t].area /\ call'[t].mode = call[t].mode
      /\ call'[t].at \in {"remove", "drain"}
      /\ mine[n] # {s} => call'[t].at = "remove"
  <2> DEFINE c == [call[t] EXCEPT !.at = "drain"]
  <2>1. c \in Calls /\ call[t] \in Calls
    BY <1>0, CallsStay
  <2>2. c.at = "drain" /\ c.node = n /\ c.area = call[t].area /\ c.mode = call[t].mode
    BY <2>1 DEF Calls
  <2>3. mine[n] = {s} => Become(t, c)
    BY <1>2 DEF Go
  <2> HIDE DEF c
  <2>4. Become(t, c) => call'[t] = c /\ \A u \in Threads \ {t} : call'[u] = call[u]
    BY <1>0, <2>1, BecomeFacts
  <2> QED
    BY <1>1, <1>2, <2>2, <2>3, <2>4
<1>6. Ledger'
  BY <1>0, <1>1, <1>3, <1>4, LockAssumption DEF Ledger
<1>7. HandlesApart'
  BY <1>0, <1>3 DEF HandlesApart
<1>8. NothingStray'
  <2> SUFFICES ASSUME NEW m \in Node, mine'[m] # {}
               PROVE  \/ \E i \in DOMAIN held[m[1]] : held[m[1]][i] = m
                      \/ call'[m[1]].at \in {"scan", "remove"} /\ call'[m[1]].node = m
    BY <1>3 DEF NothingStray
  <2>1. m[1] \in Threads /\ mine[m] # {}
    BY <1>4 DEF Node
  <2>2. CASE m = n
    BY <2>2, <1>1, <1>4, <1>5
  <2>3. CASE m # n /\ m[1] = t
    BY <2>1, <2>3, <1>0 DEF NothingStray
  <2>4. CASE m[1] # t
    BY <2>1, <2>4, <1>0, <1>5 DEF NothingStray
  <2> QED
    BY <2>2, <2>3, <2>4
<1>9. ASSUME NEW u \in Threads PROVE CallOK(u)'
  <2>1. CASE u = t
    BY <2>1, <1>0, <1>1, <1>3, <1>5 DEF CallOK
  <2>2. CASE u # t
    BY <2>2, <1>0, <1>3, <1>5 DEF CallOK
  <2> QED
    BY <2>1, <2>2
<1>10. ASSUME NEW u \in Threads PROVE ScanOK(u)'
  <2> SUFFICES ASSUME u # t, call[u].at = "scan" PROVE ScanOK(u)'
    BY <1>5 DEF ScanOK
  <2>1. call[u].node \in Node /\ call[u].node # n
    BY <1>0, <1>1 DEF CallOK
  <2>2. mine'[call[u].node] = mine[call[u].node]
    BY <1>4, <2>1
  <2>3. \A q \in Sections : OwnedBy(u, q) => OwnedBy(u, q)'
    BY <1>1, <1>3, <1>4 DEF OwnedBy
  <2>4. Of(call[u].area) \subseteq Sections
    BY <1>0, AreaSections DEF CallOK
  <2>5. ScanOK(u) /\ call'[u] = call[u]
    BY <1>0, <1>5
  <2> QED
    BY <2>2, <2>3, <2>4, <2>5 DEF ScanOK
<1> QED
  BY <1>6, <1>7, <1>8, <1>9, <1>10 DEF LockInv

LEMMA RetryStep ==
    ASSUME LockInv, TypeOK', NEW t \in Threads, Retry(t)
    PROVE  LockInv'
<1>0. /\ TypeOK /\ Ledger /\ HandlesApart /\ NothingStray
      /\ \A u \in Threads : CallOK(u) /\ ScanOK(u)
  BY DEF LockInv
<1> DEFINE c == [call[t] EXCEPT !.at = "scan", !.rows = call[t].area, !.park = NoNode, !.added = FALSE]
<1>1. /\ call[t].at = "again" /\ call[t].node \in Node /\ call[t].node[1] = t
      /\ call[t].area \in Areas /\ call[t].mode # "unlock"
      /\ \A i \in DOMAIN held[t] : held[t][i] # call[t].node
  BY <1>0 DEF Retry, CallOK
<1>2. call[t].area \in Seq(Seq(Sections)) /\ \A i \in DOMAIN call[t].area : call[t].area[i] # <<>>
  BY <1>1, LockAssumption
<1>3. /\ c \in Calls /\ c.at = "scan" /\ c.node = call[t].node /\ c.area = call[t].area
      /\ c.rows = call[t].area /\ c.mode = call[t].mode /\ c.added = FALSE
  <2>1. c \in Calls /\ call[t] \in Calls
    BY <1>0, <1>2, CallsStay, CallFields
  <2> QED
    BY <2>1 DEF Calls
<1>4. call'[t] = c /\ \A u \in Threads \ {t} : call'[u] = call[u]
  BY <1>0, <1>3, BecomeFacts DEF Retry
<1>5. mine[call[t].node] = {} /\ UNCHANGED <<owner, mine, held>>
  BY <1>0, <1>1 DEF NothingStray, Retry
<1>6. CallOK(t)'
  BY <1>1, <1>3, <1>4, <1>5 DEF CallOK
<1>7. ScanOK(t)'
  BY <1>2, <1>3, <1>4, <1>5 DEF ScanOK
<1> QED
  BY <1>1, <1>4, <1>5, <1>6, <1>7, Quiet

LEMMA GoKeeps ==
    ASSUME LockInv, TypeOK', NEW t \in Threads, UNCHANGED <<owner, mine, held>>,
           NEW at \in Parking \union {"remove", "drain", "notify", "wait", "again"}, Go(t, at),
           call[t].at # "idle",
           at \notin {"remove", "drain", "notify"} => call[t].mode # "unlock",
           \/ call[t].at \notin {"scan", "remove"} \/ mine[call[t].node] = {} \/ at = "remove"
    PROVE  LockInv'
<1> DEFINE c == [call[t] EXCEPT !.at = at]
<1>1. c \in Calls /\ call[t] \in Calls
  BY CallsStay DEF LockInv
<1>2. /\ c.at = at /\ c.node = call[t].node /\ c.area = call[t].area /\ c.mode = call[t].mode
  BY <1>1 DEF Calls
<1>3. Become(t, c) /\ at # "scan" /\ at # "unpark"
  BY DEF Go, Parking
<1> HIDE DEF c
<1> QED
  BY <1>1, <1>2, <1>3, Passing

LEMMA PassStep ==
    ASSUME LockInv, TypeOK', NEW t \in Threads,
           \/ Failed(t) \/ Poll(t) \/ BlockAdds(t) \/ Unpark(t)
           \/ BackOff(t) \/ Add(t) \/ Look(t) \/ Sleep(t)
    PROVE  LockInv'
<1>0. TypeOK /\ NothingStray /\ CallOK(t) /\ ScanOK(t)
  BY DEF LockInv
<1>1. call[t] \in Calls /\ Idle \in Calls /\ Idle.at = "idle"
  BY <1>0, CallsStay DEF Idle
<1>3. call[t].at \in {"drain", "unpark", "notify", "wait", "again"} \union Parking => mine[call[t].node] = {}
  BY <1>0 DEF NothingStray, CallOK, Parking
<1>4. CASE Failed(t)
  <2>1. CASE call[t].added /\ Go(t, "remove")
    BY <1>4, <2>1, GoKeeps DEF Failed
  <2>2. CASE ~ call[t].added /\ call[t].mode = "lock" /\ Go(t, "wait")
    BY <1>0, <1>4, <2>2, GoKeeps DEF Failed, ScanOK
  <2>3. CASE ~ call[t].added /\ call[t].mode = "try" /\ Return(t)
    BY <1>0, <1>1, <1>4, <2>3, Passing DEF Failed, Return, ScanOK
  <2> QED
    BY <1>4, <2>1, <2>2, <2>3 DEF Failed
<1>5. CASE Poll(t)
  <2>1. waiters[call[t].node] \subseteq Threads
    BY <1>0, <1>5 DEF TypeOK, CallOK, Poll
  <2>2. PICK w \in Threads : Become(t, [call[t] EXCEPT !.at = "unpark", !.target = {w}])
    BY <1>5, <2>1 DEF Poll
  <2> DEFINE c == [call[t] EXCEPT !.at = "unpark", !.target = {w}]
  <2>3. c \in Calls
    BY <1>1, CallFields
  <2>4. /\ c.at = "unpark" /\ c.node = call[t].node
        /\ c.area = call[t].area /\ c.mode = call[t].mode
    BY <1>1, <2>3 DEF Calls
  <2> QED
    BY <1>3, <1>5, <2>2, <2>3, <2>4, Passing DEF Poll
<1>6. CASE BlockAdds(t)
  <2>1. CASE call[t].mode = "lock" /\ Go(t, "wait")
    BY <1>3, <1>6, <2>1, GoKeeps DEF BlockAdds
  <2>2. CASE Return(t)
    BY <1>1, <1>3, <1>6, <2>2, Passing DEF BlockAdds, Return
  <2> QED
    BY <1>6, <2>1, <2>2 DEF BlockAdds
<1>7. CASE Unpark(t)
  <2>1. CASE Go(t, "notify")
    BY <1>3, <1>7, <2>1, GoKeeps DEF Unpark
  <2>2. CASE Become(t, [call[t] EXCEPT !.at = "drain", !.target = {}])
    <3> DEFINE c == [call[t] EXCEPT !.at = "drain", !.target = {}]
    <3>1. c \in Calls
      BY <1>1, CallFields
    <3>2. /\ c.at = "drain" /\ c.node = call[t].node
          /\ c.area = call[t].area /\ c.mode = call[t].mode
      BY <1>1, <3>1 DEF Calls
    <3> QED
      BY <1>3, <1>7, <2>2, <3>1, <3>2, Passing DEF Unpark
  <2> QED
    BY <1>7, <2>1, <2>2 DEF Unpark
<1>8. CASE BackOff(t)
  BY <1>0, <1>8, GoKeeps DEF BackOff, CallOK
<1>9. CASE Add(t)
  BY <1>0, <1>9, GoKeeps DEF Add, CallOK, Parking
<1>10. CASE Look(t)
  <2>1. PICK at \in {"again", "check", "doze"} : Go(t, at)
    BY <1>10 DEF Look
  <2> QED
    BY <1>0, <1>10, <2>1, GoKeeps DEF Look, CallOK, Parking
<1>11. CASE Sleep(t)
  BY <1>0, <1>11, GoKeeps DEF Sleep, CallOK, Parking
<1> QED
  BY <1>4, <1>5, <1>6, <1>7, <1>8, <1>9, <1>10, <1>11

LEMMA NotifyStep ==
    ASSUME LockInv, TypeOK', NEW t \in Threads, NotifyOne(t)
    PROVE  LockInv'
<1>0. TypeOK /\ NothingStray /\ CallOK(t) /\ ScanOK(t)
  BY DEF LockInv
<1> DEFINE c == [call[t] EXCEPT !.at = "drain", !.target = {}]
<1>1. call[t].at = "notify" /\ call'[t] = c /\ UNCHANGED <<owner, mine, held>>
  BY DEF NotifyOne
<1>2. \A u \in Threads \ {t} : \/ call'[u] = call[u]
                              \/ /\ call[u].at = "sleep"
                                 /\ call'[u] = [call[u] EXCEPT !.at = "check"]
  BY DEF NotifyOne
<1>3. c \in Calls /\ call[t] \in Calls
  BY <1>0, CallsStay, CallFields
<1>4. /\ c.at = "drain" /\ c.node = call[t].node
      /\ c.area = call[t].area /\ c.mode = call[t].mode
  BY <1>3 DEF Calls
<1> HIDE DEF c
<1>5. CallOK(t)' /\ ScanOK(t)'
  BY <1>0, <1>1, <1>4 DEF CallOK, ScanOK
<1> QED
  BY <1>1, <1>2, <1>5, Quiet

LEMMA LockStep ==
    ASSUME LockInv, [Next]_vars
    PROVE  LockInv'
<1>0. TypeOK /\ \A t \in Threads : CallOK(t) /\ ScanOK(t)
  BY DEF LockInv
<1>1. CASE UNCHANGED vars
  <2>1. TypeOK'
    BY <1>0, <1>1 DEF vars, TypeOK
  <2>2. Ledger' /\ HandlesApart' /\ NothingStray'
    BY <1>1 DEF LockInv, vars, Ledger, HandlesApart, NothingStray
  <2>3. \A t \in Threads : CallOK(t)'
    BY <1>0, <1>1 DEF vars, CallOK
  <2>4. \A t \in Threads : ScanOK(t)'
    BY <1>0, <1>1 DEF vars, ScanOK, OwnedBy
  <2> QED
    BY <2>1, <2>2, <2>3, <2>4 DEF LockInv
<1>2. CASE Next
  <2>1. TypeOK'
    BY <1>0, <1>2, TypeStep
  <2>2. PICK t \in Threads : \/ Proceed(t)
                            \/ \E mode \in {"lock", "try"}, area \in Areas : Call(t, mode, area)
    BY <1>2 DEF Next
  <2>3. CASE \E mode \in {"lock", "try"}, area \in Areas : Call(t, mode, area)
    BY <2>1, <2>3, CallStep
  <2>4. CASE PutIfAbsent(t)
    BY <2>1, <2>4, PutStep
  <2>5. CASE Acquired(t)
    BY <2>1, <2>5, AcquiredStep
  <2>6. CASE Unlock(t)
    BY <2>1, <2>6, UnlockStep
  <2>7. CASE Remove(t)
    BY <2>1, <2>7, RemoveStep
  <2>8. CASE NotifyOne(t)
    BY <2>1, <2>8, NotifyStep
  <2>9. CASE Retry(t)
    BY <2>1, <2>9, RetryStep
  <2>10. CASE \/ Failed(t) \/ Poll(t) \/ BlockAdds(t) \/ Unpark(t)
              \/ BackOff(t) \/ Add(t) \/ Look(t) \/ Sleep(t)
    BY <2>1, <2>10, PassStep
  <2> QED
    BY <2>2, <2>3, <2>4, <2>5, <2>6, <2>7, <2>8, <2>9, <2>10 DEF Proceed
<1> QED
  BY <1>1, <1>2

(* What the table says of owners is what the nodes say of themselves, in   *)
(* every state of every use of the lock: ReentrantAreaLock's m_nodes and   *)
(* m_areaAffected never disagree, no section is left in the table without  *)
(* a handle or a call to take it out, and a scan that met nobody has all   *)
(* that is behind it.                                                      *)
THEOREM LockCorrect == Spec => []LockInv
<1>1. Init => LockInv
  <2> SUFFICES ASSUME Init PROVE LockInv
    OBVIOUS
  <2>1. TypeOK
    <3>1. Idle \in Calls
      BY DEF Idle, Calls
    <3>2. todo \in [Threads -> Seq({"lock", "try"} \X Areas)]
      BY LockAssumption DEF Init
    <3> QED
      BY <3>1, <3>2 DEF Init, TypeOK
  <2>2. Ledger
    BY LockAssumption DEF Init, Ledger
  <2>3. \A t \in Threads : held[t] = <<>> /\ call[t].at = "idle"
    BY DEF Init, Idle
  <2>4. HandlesApart
    BY <2>3 DEF HandlesApart
  <2>5. NothingStray
    BY DEF Init, NothingStray
  <2>6. \A t \in Threads : CallOK(t) /\ ScanOK(t)
    BY <2>3 DEF CallOK, ScanOK
  <2> QED
    BY <2>1, <2>2, <2>4, <2>5, <2>6 DEF LockInv
<1>2. LockInv /\ [Next]_vars => LockInv'
  BY LockStep
<1> QED
  BY <1>1, <1>2, PTL DEF Spec

(***************************************************************************)
(* What the lock promises. A handle's node owns what its scope has added:  *)
(* only Acquired and Unlock change that, and whatever a call puts into the *)
(* table and takes out again is not a handle's.                            *)
(***************************************************************************)
Gained == [t \in Threads |-> [i \in DOMAIN held[t] |-> mine[held[t][i]]]]

(* A step that keeps the handles and what their nodes own is a stutter.    *)
LEMMA HandlesStay ==
    ASSUME LockInv, LockInv', UNCHANGED held,
           \A t \in Threads : \A i \in DOMAIN held[t] : mine'[held[t][i]] = mine[held[t][i]]
    PROVE  Gained' = Gained
  BY DEF Gained

LEMMA GainedFacts ==
    ASSUME LockInv, NEW t \in Threads
    PROVE  /\ Gained[t] \in Seq(SUBSET Sections)
           /\ Len(Gained[t]) = Len(held[t])
           /\ DOMAIN Gained[t] = DOMAIN held[t]
           /\ \A i \in DOMAIN held[t] : Gained[t][i] = mine[held[t][i]]
           /\ UNION {Gained[t][i] : i \in DOMAIN Gained[t]}
                = {s \in Sections : \E i \in DOMAIN held[t] : s \in mine[held[t][i]]}
<1>1. held[t] \in Seq(Node) /\ mine \in [Node -> SUBSET Sections]
  BY DEF LockInv, TypeOK
<1>2. Gained[t] = [i \in DOMAIN held[t] |-> mine[held[t][i]]]
  BY DEF Gained
<1>3. DOMAIN held[t] = 1 .. Len(held[t]) /\ Len(held[t]) \in Nat
      /\ \A i \in DOMAIN held[t] : mine[held[t][i]] \in SUBSET Sections
  BY <1>1
<1>4. Gained[t] \in Seq(SUBSET Sections) /\ Len(Gained[t]) = Len(held[t])
      /\ DOMAIN Gained[t] = DOMAIN held[t]
  BY <1>2, <1>3
<1>5. \A i \in DOMAIN held[t] : Gained[t][i] = mine[held[t][i]]
  BY <1>2
<1>6. UNION {Gained[t][i] : i \in DOMAIN Gained[t]}
        = {s \in Sections : \E i \in DOMAIN held[t] : s \in mine[held[t][i]]}
  BY <1>3, <1>4, <1>5
<1> QED
  BY <1>4, <1>5, <1>6

LEMMA AcquiredIsAcquire ==
    ASSUME LockInv, LockInv', NEW t \in Threads, Acquired(t)
    PROVE  Ownership!Next
<1>0. TypeOK /\ Ledger /\ HandlesApart /\ NothingStray /\ CallOK(t) /\ ScanOK(t)
  BY DEF LockInv
<1> DEFINE n == call[t].node
           own == {s \in Sections : \E i \in DOMAIN held[t] : s \in mine[held[t][i]]}
           wanted == Of(call[t].area)
<1>1. /\ n \in Node /\ n[1] = t /\ \A i \in DOMAIN held[t] : held[t][i] # n
      /\ call[t].mode # "unlock" /\ call[t].at = "scan" /\ call[t].rows = <<>>
      /\ call[t].park = NoNode
  BY <1>0 DEF Acquired, CallOK
<1>2. call[t].area \in Areas /\ wanted \subseteq Sections
  <2>1. call[t].area \in Areas
    BY <1>0, <1>1 DEF CallOK
  <2> QED
    BY <2>1, AreaSections
<1>3. Of(call[t].rows) = {}
  BY <1>1 DEF Of
<1>4. mine[n] \subseteq wanted /\ \A s \in wanted : OwnedBy(t, s)
  BY <1>0, <1>1, <1>3 DEF ScanOK
<1>5. \A s \in wanted : owner[s] \in Node /\ owner[s][1] = t /\ s \in mine[owner[s]]
  <2> SUFFICES ASSUME NEW s \in wanted
               PROVE  owner[s] \in Node /\ owner[s][1] = t /\ s \in mine[owner[s]]
    OBVIOUS
  <2>1. owner[s] # NoNode /\ owner[s][1] = t /\ s \in Sections
    BY <1>2, <1>4 DEF OwnedBy
  <2>2. owner[s] \in Node
    BY <2>1, <1>0 DEF TypeOK
  <2> QED
    BY <2>1, <2>2, <1>0 DEF Ledger
<1>6. mine[n] = wanted \ own
  <2>1. ASSUME NEW s \in mine[n] PROVE s \in wanted \ own
    <3>1. s \in Sections /\ owner[s] = n
      BY <1>0, <1>1, <1>2, <1>4 DEF Ledger
    <3>2. \A i \in DOMAIN held[t] : held[t][i] \in Node /\ s \notin mine[held[t][i]]
      BY <3>1, <1>0, <1>1 DEF Ledger, TypeOK
    <3> QED
      BY <3>2, <1>4
  <2>2. ASSUME NEW s \in wanted, s \notin own PROVE s \in mine[n]
    <3>1. mine[owner[s]] # {} /\ owner[s] \in Node /\ owner[s][1] = t /\ s \in mine[owner[s]]
      BY <1>5
    <3>2. CASE \E i \in DOMAIN held[t] : held[t][i] = owner[s]
      BY <3>1, <3>2, <2>2, <1>2
    <3>3. CASE call[t].node = owner[s]
      BY <3>1, <3>3
    <3> QED
      BY <3>1, <3>2, <3>3, <1>0 DEF NothingStray
  <2> QED
    BY <2>1, <2>2
<1>7. \A u \in Threads \ {t} :
        {s \in Sections : \E i \in DOMAIN held[u] : s \in mine[held[u][i]]} \intersect wanted = {}
  <2> SUFFICES ASSUME NEW u \in Threads \ {t}, NEW s \in wanted, NEW i \in DOMAIN held[u],
                      s \in mine[held[u][i]]
               PROVE  FALSE
    OBVIOUS
  <2>1. held[u][i] \in Node /\ held[u][i][1] = u
    BY <1>0 DEF TypeOK, HandlesApart
  <2>2. owner[s] = held[u][i]
    BY <2>1, <1>0, <1>2 DEF Ledger
  <2> QED
    BY <2>1, <2>2, <1>5
<1>8. Gained' = [Gained EXCEPT ![t] = Append(Gained[t], mine[n])]
  <2>1. held' = [held EXCEPT ![t] = Append(held[t], n)] /\ mine' = mine
    BY DEF Acquired
  <2>2. held[t] \in Seq(Node) /\ held \in [Threads -> Seq(Node)]
    BY <1>0 DEF TypeOK
  <2>3. ASSUME NEW u \in Threads
        PROVE  Gained'[u] = [Gained EXCEPT ![t] = Append(Gained[t], mine[n])][u]
    <3>1. CASE u # t
      BY <2>1, <2>2, <3>1 DEF Gained
    <3>2. CASE u = t
      <4>1. held'[t] = Append(held[t], n)
        BY <2>1, <2>2
      <4>2. DOMAIN held'[t] = 1 .. (Len(held[t]) + 1) /\ Len(held[t]) \in Nat
        BY <1>1, <2>2, <4>1
      <4>3. Gained'[t] = [i \in 1 .. (Len(held[t]) + 1) |-> mine[held'[t][i]]]
        BY <2>1, <4>2 DEF Gained
      <4>4. \A i \in 1 .. (Len(held[t]) + 1) :
              held'[t][i] = IF i = Len(held[t]) + 1 THEN n ELSE held[t][i]
        BY <1>1, <2>2, <4>1
      <4>5. /\ Gained[t] \in Seq(SUBSET Sections) /\ Len(Gained[t]) = Len(held[t])
            /\ \A i \in 1 .. Len(held[t]) : Gained[t][i] = mine[held[t][i]]
            /\ mine[n] \in SUBSET Sections
        BY GainedFacts, <2>2, <1>0, <1>1 DEF TypeOK
      <4> DEFINE g == Gained[t]
                 m == mine[n]
                 l == Len(held[t])
      <4>6. Append(g, m) = [i \in 1 .. (l + 1) |-> IF i = l + 1 THEN m ELSE g[i]]
        <5> HIDE DEF g, m, l
        <5>1. g \in Seq(SUBSET Sections) /\ Len(g) = l /\ m \in SUBSET Sections
          BY <4>5 DEF g, m, l
        <5>2. /\ Append(g, m) \in Seq(SUBSET Sections) /\ Len(Append(g, m)) = l + 1
              /\ \A i \in 1 .. (l + 1) : Append(g, m)[i] = IF i = l + 1 THEN m ELSE g[i]
          BY <5>1
        <5>3. Append(g, m) = [i \in 1 .. (l + 1) |-> Append(g, m)[i]]
          <6>1. \A q \in Seq(SUBSET Sections) : q = [i \in 1 .. Len(q) |-> q[i]]
            OBVIOUS
          <6> QED
            BY <5>2, <6>1
        <5> QED
          BY <5>2, <5>3
      <4>7. \A i \in 1 .. (l + 1) : mine[held'[t][i]] = IF i = l + 1 THEN m ELSE g[i]
        BY <4>2, <4>4, <4>5
      <4>8. Gained'[t] = Append(g, m)
        BY <4>3, <4>6, <4>7
      <4> QED
        BY <3>2, <4>8 DEF Gained
    <3> QED
      BY <3>1, <3>2
  <2> QED
    BY <2>3 DEF Gained
<1>9. PICK r \in {Of(area) : area \in Areas} : r = wanted
  BY <1>2
<1>10. Ownership!Acquire(t, r)
  <2>1. \A u \in Threads : Ownership!Owned(u) = {s \in Sections : \E i \in DOMAIN held[u] : s \in mine[held[u][i]]}
    BY GainedFacts DEF Ownership!Owned, Gained
  <2> QED
    BY <2>1, <1>6, <1>7, <1>8, <1>9 DEF Ownership!Acquire, Gained
<1> QED
  BY <1>10 DEF Ownership!Next

LEMMA UnlockIsRelease ==
    ASSUME LockInv, LockInv', NEW t \in Threads, Unlock(t)
    PROVE  Ownership!Next
<1>1. held' = [held EXCEPT ![t] = SubSeq(held[t], 1, Len(held[t]) - 1)] /\ mine' = mine /\ held[t] # <<>>
  BY DEF Unlock
<1>2. held[t] \in Seq(Node) /\ held \in [Threads -> Seq(Node)]
  BY DEF LockInv, TypeOK
<1>3. ASSUME NEW u \in Threads
      PROVE  Gained'[u] = [Gained EXCEPT ![t] = SubSeq(Gained[t], 1, Len(Gained[t]) - 1)][u]
  <2>1. CASE u # t
    BY <1>1, <1>2, <2>1 DEF Gained
  <2>2. CASE u = t
    <3> DEFINE g == Gained[t]
               l == Len(held[t])
    <3>1. g \in Seq(SUBSET Sections) /\ Len(g) = l /\ l \in Nat \ {0}
          /\ \A i \in 1 .. l : g[i] = mine[held[t][i]]
      BY <1>1, <1>2, GainedFacts
    <3>2. held'[t] = SubSeq(held[t], 1, l - 1)
      BY <1>1, <1>2
    <3>3. DOMAIN held'[t] = 1 .. (l - 1) /\ \A i \in 1 .. (l - 1) : held'[t][i] = held[t][i]
      BY <1>2, <3>1, <3>2
    <3>4. Gained'[t] = [i \in 1 .. (l - 1) |-> mine[held'[t][i]]]
      BY <1>1, <3>3 DEF Gained
    <3>5. SubSeq(g, 1, l - 1) = [i \in 1 .. (l - 1) |-> g[i]]
      <4> HIDE DEF g, l
      <4> QED
        BY <3>1
    <3>6. \A i \in 1 .. (l - 1) : mine[held'[t][i]] = g[i]
      BY <3>1, <3>3
    <3>7. Gained'[t] = SubSeq(g, 1, Len(g) - 1)
      BY <3>1, <3>4, <3>5, <3>6
    <3> QED
      BY <2>2, <3>7 DEF Gained
  <2> QED
    BY <2>1, <2>2
<1>4. Gained' = [Gained EXCEPT ![t] = SubSeq(Gained[t], 1, Len(Gained[t]) - 1)]
  BY <1>3 DEF Gained
<1>5. Gained[t] # <<>>
  BY <1>1, <1>2, GainedFacts
<1>6. Ownership!Release(t)
  BY <1>4, <1>5 DEF Ownership!Release, Gained
<1> QED
  BY <1>6 DEF Ownership!Next

(* ReentrantAreaLock implements AreaOwnership: areas are acquired whole and *)
(* never with a section of another thread's in them, and the end of a scope *)
(* gives back what the scope had added, for every set of threads and areas  *)
(* and however calls nest and fail.                                         *)
THEOREM LockImplementsAreaOwnership == Spec => ImplementsAreaOwnership
<1>1. Init => Ownership!Init
  BY DEF Init, Ownership!Init
<1>2. ASSUME LockInv, LockInv', [Next]_vars PROVE Ownership!Next \/ UNCHANGED Gained
  <2>0. TypeOK /\ \A t \in Threads : CallOK(t)
    BY <1>2 DEF LockInv
  <2>1. ASSUME NEW t \in Threads, Acquired(t) PROVE Ownership!Next
    BY <1>2, <2>1, AcquiredIsAcquire
  <2>2. ASSUME NEW t \in Threads, Unlock(t) PROVE Ownership!Next
    BY <1>2, <2>2, UnlockIsRelease
  <2>3. ASSUME NEW t \in Threads, PutIfAbsent(t) \/ Remove(t) PROVE UNCHANGED Gained
    <3>1. UNCHANGED held
      BY <2>3 DEF PutIfAbsent, Remove
    <3>2. \A m \in Node \ {call[t].node} : mine'[m] = mine[m]
      BY <2>0, <2>3 DEF PutIfAbsent, Remove, TypeOK
    <3>3. ASSUME NEW u \in Threads, NEW i \in DOMAIN held[u] PROVE held[u][i] \in Node \ {call[t].node}
      <4>1. held[u][i] \in Node /\ held[u][i][1] = u
        BY <1>2, <2>0 DEF LockInv, TypeOK, HandlesApart
      <4>2. call[t].node[1] = t /\ \A j \in DOMAIN held[t] : held[t][j] # call[t].node
        BY <2>0, <2>3 DEF CallOK, PutIfAbsent, Remove
      <4> QED
        BY <4>1, <4>2
    <3> QED
      BY <1>2, <3>1, <3>2, <3>3, HandlesStay
  <2>4. ASSUME UNCHANGED <<held, mine>> PROVE UNCHANGED Gained
    BY <2>4 DEF Gained
  <2>5. CASE UNCHANGED vars
    BY <2>4, <2>5 DEF vars
  <2>6. CASE Next
    <3>1. PICK t \in Threads : \/ Proceed(t)
                              \/ \E mode \in {"lock", "try"}, area \in Areas : Call(t, mode, area)
      BY <2>6 DEF Next
    <3>2. CASE \/ \E mode \in {"lock", "try"}, area \in Areas : Call(t, mode, area)
               \/ Failed(t) \/ Poll(t) \/ BlockAdds(t) \/ Unpark(t) \/ NotifyOne(t)
               \/ BackOff(t) \/ Add(t) \/ Look(t) \/ Sleep(t) \/ Retry(t)
      <4>1. UNCHANGED <<held, mine>>
        BY <3>2 DEF Call, Failed, Poll, BlockAdds, Unpark, NotifyOne, BackOff, Add, Look, Sleep,
               Retry
      <4> QED
        BY <4>1, <2>4
    <3> QED
      BY <3>1, <3>2, <2>1, <2>2, <2>3 DEF Proceed
  <2> QED
    BY <1>2, <2>5, <2>6
<1>3. Spec => []LockInv
  BY LockCorrect
<1>4. ASSUME LockInv, LockInv', [Next]_vars PROVE [Ownership!Next]_Gained
  BY <1>2, <1>4
<1> QED
  BY <1>1, <1>3, <1>4, PTL DEF Spec, ImplementsAreaOwnership, Ownership!Spec, Gained

(***************************************************************************)
(* Waking.  A thread that parks stands in the queue of one node, the node  *)
(* it parks on, or has been taken out of it by one thread that is about to *)
(* unpark it, or has its permit.  A node with a waiter is therefore never  *)
(* reused, which would empty its queue.                                    *)
(***************************************************************************)
Wakes(t, w) == call[t].at = "unpark" /\ w \in call[t].target

(* A call that is to unpark has one thread to unpark, and a call of lock   *)
(* that leaves its scan knows the node in its way.                         *)
WakeReady(t) ==
    /\ call[t].at = "unpark" => \E w \in Threads : call[t].target = {w}
    /\ \/ call[t].at = "wait"
       \/ call[t].mode = "lock" /\ call[t].at \in {"remove", "drain", "unpark", "notify"}
       => call[t].park \in Node

Once(w) ==
    /\ \A n \in Node : w \in waiters[n] =>
          call[w].at \in Parking /\ call[w].park = n /\ ~ permit[w]
    /\ \A t \in Threads : Wakes(t, w) =>
          /\ call[w].at \in Parking /\ ~ permit[w]
          /\ \A n \in Node : w \notin waiters[n]
          /\ \A u \in Threads : Wakes(u, w) => u = t
    /\ permit[w] => call[w].at \in Parking
    /\ call[w].at \in Parking =>
          \/ permit[w]
          \/ \E n \in Node : w \in waiters[n]
          \/ \E t \in Threads : Wakes(t, w)

WakeInv == \A t \in Threads : WakeReady(t) /\ Once(t)

LEMMA OnceCounts ==
    ASSUME WakeInv
    PROVE  WokenOnce
<1> SUFFICES ASSUME NEW w \in Threads
             PROVE  Cardinality({n \in Node : w \in waiters[n]})
                      + Cardinality({t \in Threads : call[t].at = "unpark" /\ w \in call[t].target})
                      + (IF permit[w] THEN 1 ELSE 0)
                    = IF call[w].at \in Parking THEN 1 ELSE 0
  BY DEF WokenOnce
<1> DEFINE queues == {n \in Node : w \in waiters[n]}
           wakers == {t \in Threads : call[t].at = "unpark" /\ w \in call[t].target}
<1>1. Once(w)
  BY DEF WakeInv
<1>2. Cardinality({}) = 0 /\ \A x : Cardinality({x}) = 1
  BY FS_EmptySet, FS_Singleton
<1>3. \A n \in queues : queues = {n} /\ wakers = {} /\ ~ permit[w] /\ call[w].at \in Parking
  BY <1>1 DEF Once, Wakes
<1>4. \A t \in wakers : wakers = {t} /\ queues = {} /\ ~ permit[w] /\ call[w].at \in Parking
  BY <1>1 DEF Once, Wakes
<1>5. /\ permit[w] => queues = {} /\ wakers = {} /\ call[w].at \in Parking
      /\ call[w].at \in Parking => permit[w] \/ queues # {} \/ wakers # {}
  BY <1>1 DEF Once, Wakes
<1> HIDE DEF queues, wakers
<1>6. CASE queues # {}
  <2>1. PICK n : n \in queues
    BY <1>6
  <2>2. Cardinality(queues) = 1 /\ Cardinality(wakers) = 0
    BY <1>2, <1>3, <2>1
  <2> QED
    BY <1>3, <2>1, <2>2 DEF queues, wakers
<1>7. CASE wakers # {}
  <2>1. PICK t : t \in wakers
    BY <1>7
  <2>2. Cardinality(queues) = 0 /\ Cardinality(wakers) = 1
    BY <1>2, <1>4, <2>1
  <2> QED
    BY <1>4, <2>1, <2>2 DEF queues, wakers
<1>8. CASE queues = {} /\ wakers = {}
  <2>1. Cardinality(queues) = 0 /\ Cardinality(wakers) = 0
    BY <1>2, <1>8
  <2>2. permit[w] <=> call[w].at \in Parking
    BY <1>5, <1>8
  <2> QED
    BY <2>1, <2>2 DEF queues, wakers
<1> QED
  BY <1>6, <1>7, <1>8

(* A step of a thread that neither parks nor is about to unpark another.   *)
LEMMA Elsewhere ==
    ASSUME TypeOK, WakeInv, NEW t \in Threads, NEW c \in Calls, Become(t, c),
           UNCHANGED <<waiters, permit>>,
           call[t].at \notin Parking \union {"unpark"}, c.at \notin Parking \union {"unpark"},
           \/ c.at = "wait"
           \/ c.mode = "lock" /\ c.at \in {"remove", "drain", "notify"}
           => c.park \in Node
    PROVE  WakeInv'
<1>1. call'[t] = c /\ \A u \in Threads \ {t} : call'[u] = call[u]
  BY BecomeFacts
<1>2. \A u \in Threads : WakeReady(u)'
  BY <1>1 DEF WakeInv, WakeReady
<1>3. \A u, w \in Threads : Wakes(u, w)' <=> Wakes(u, w)
  BY <1>1 DEF Wakes
<1>4. \A w \in Threads : call'[w].at \in Parking <=> call[w].at \in Parking
  BY <1>1
<1>5. \A w \in Threads : call'[w].at \in Parking => call'[w].park = call[w].park
  BY <1>1
<1>6. ASSUME NEW w \in Threads PROVE Once(w)'
  BY <1>3, <1>4, <1>5 DEF WakeInv, Once
<1> QED
  BY <1>2, <1>6 DEF WakeInv

LEMMA Goes ==
    ASSUME TypeOK, NEW t \in Threads,
           NEW at \in Parking \union {"idle", "scan", "remove", "drain", "unpark", "notify",
                                      "wait", "again"}, Go(t, at)
    PROVE  /\ call'[t].at = at /\ call'[t].mode = call[t].mode
           /\ call'[t].park = call[t].park /\ call'[t].target = call[t].target
           /\ call'[t].node = call[t].node /\ call'[t].area = call[t].area
           /\ call'[t].added = call[t].added
           /\ \A u \in Threads \ {t} : call'[u] = call[u]
<1>1. call[t] \in Calls /\ [call[t] EXCEPT !.at = at] \in Calls
  BY CallsStay
<1>2. call'[t] = [call[t] EXCEPT !.at = at] /\ \A u \in Threads \ {t} : call'[u] = call[u]
  BY <1>1, BecomeFacts DEF Go
<1> QED
  BY <1>1, <1>2 DEF Calls

(* Poll: a waiter leaves the queue and is about to be unparked.            *)
LEMMA PollWakes ==
    ASSUME TypeOK, WakeInv, NEW t \in Threads, CallOK(t), Poll(t)
    PROVE  WakeInv'
<1>1. call[t].node \in Node /\ waiters[call[t].node] \subseteq Threads /\ call[t] \in Calls
  BY CallsStay DEF Poll, CallOK, TypeOK
<1>2. PICK w \in waiters[call[t].node] :
        /\ waiters' = [waiters EXCEPT ![call[t].node] = @ \ {w}]
        /\ Become(t, [call[t] EXCEPT !.at = "unpark", !.target = {w}])
  BY DEF Poll
<1> DEFINE c == [call[t] EXCEPT !.at = "unpark", !.target = {w}]
           q == call[t].node
<1>3. /\ c \in Calls /\ c.at = "unpark" /\ c.target = {w} /\ c.mode = call[t].mode
      /\ c.park = call[t].park /\ w \in Threads
  <2>1. w \in Threads /\ c \in Calls
    BY <1>1, CallFields
  <2> QED
    BY <1>1, <2>1 DEF Calls
<1>4. call'[t] = c /\ \A u \in Threads \ {t} : call'[u] = call[u]
  BY <1>2, <1>3, BecomeFacts
<1> HIDE DEF c
<1>5. \A u \in Threads : WakeReady(u)'
  BY <1>3, <1>4 DEF WakeInv, WakeReady, Poll
<1>6. \A u, v \in Threads : Wakes(u, v)' <=> Wakes(u, v) \/ (u = t /\ v = w)
  BY <1>3, <1>4 DEF Wakes, Poll
<1>7. \A n \in Node, v \in Threads : v \in waiters'[n] <=> v \in waiters[n] /\ ~ (n = q /\ v = w)
  BY <1>1, <1>2 DEF TypeOK
<1>8. \A v \in Threads : /\ call'[v].at \in Parking <=> call[v].at \in Parking
                         /\ call[v].at \in Parking => call'[v].park = call[v].park
  BY <1>3, <1>4 DEF Poll, Parking
<1>9. permit' = permit /\ q \in Node /\ w \in waiters[q]
  BY <1>1, <1>2 DEF Poll
<1> HIDE DEF q
<1>10. ASSUME NEW v \in Threads PROVE Once(v)'
  <2>1. Once(v)
    BY DEF WakeInv
  <2>2. CASE v # w
    BY <2>1, <2>2, <1>6, <1>7, <1>8, <1>9 DEF Once
  <2>3. CASE v = w
    <3>1. \A u \in Threads : ~ Wakes(u, w)
      BY <2>1, <2>3, <1>9 DEF Once
    <3>2. call[w].at \in Parking /\ ~ permit[w] /\ \A n \in Node : w \in waiters[n] => n = q
      BY <2>1, <2>3, <1>9 DEF Once
    <3> QED
      BY <2>3, <3>1, <3>2, <1>6, <1>7, <1>8, <1>9 DEF Once
  <2> QED
    BY <2>2, <2>3
<1> QED
  BY <1>5, <1>10 DEF WakeInv

(* Unpark: the permit is what the thread was to be unparked with.          *)
LEMMA UnparkWakes ==
    ASSUME TypeOK, WakeInv, NEW t \in Threads, Unpark(t)
    PROVE  WakeInv'
<1>1. PICK w \in Threads : call[t].target = {w}
  BY DEF WakeInv, WakeReady, Unpark
<1>2. Wakes(t, w) /\ ~ permit[w] /\ permit' = [permit EXCEPT ![w] = TRUE] /\ Go(t, "notify")
      /\ call[w].at \in Parking
  BY <1>1 DEF WakeInv, Once, Wakes, Unpark
<1>3. /\ call'[t].at = "notify" /\ call'[t].mode = call[t].mode
      /\ call'[t].park = call[t].park
      /\ \A u \in Threads \ {t} : call'[u] = call[u]
  BY <1>2, Goes
<1>4. \A u \in Threads : WakeReady(u)'
  BY <1>3 DEF WakeInv, WakeReady, Unpark
<1>5. \A u, v \in Threads : Wakes(u, v)' <=> Wakes(u, v) /\ u # t
  BY <1>3 DEF Wakes
<1>6. \A v \in Threads : /\ call'[v].at \in Parking <=> call[v].at \in Parking
                         /\ call[v].at \in Parking => call'[v].park = call[v].park
  BY <1>3 DEF Unpark, Parking
<1>7. waiters' = waiters /\ \A v \in Threads : permit'[v] <=> permit[v] \/ v = w
  BY <1>2 DEF Unpark, TypeOK
<1>8. \A v \in Threads : Wakes(t, v) => v = w
  BY <1>1 DEF Wakes
<1>9. ASSUME NEW v \in Threads PROVE Once(v)'
  <2>1. Once(v)
    BY DEF WakeInv
  <2>2. CASE v # w
    BY <2>1, <2>2, <1>5, <1>6, <1>7, <1>8 DEF Once
  <2>3. CASE v = w
    <3>1. \A n \in Node : w \notin waiters[n]
      BY <2>1, <2>3, <1>2 DEF Once
    <3>2. \A u \in Threads : Wakes(u, w) => u = t
      BY <2>1, <2>3, <1>2 DEF Once
    <3> QED
      BY <2>3, <3>1, <3>2, <1>2, <1>5, <1>6, <1>7 DEF Once
  <2> QED
    BY <2>2, <2>3
<1> QED
  BY <1>4, <1>9 DEF WakeInv

(* NotifyOne: a sleeper looks again.                                       *)
LEMMA NotifyWakes ==
    ASSUME TypeOK, WakeInv, NEW t \in Threads, NotifyOne(t)
    PROVE  WakeInv'
<1>1. \A u \in Threads : call[u] \in Calls
  BY DEF TypeOK
<1>2. /\ \A u \in Threads \ {t} :
           \/ call'[u] = call[u]
           \/ call[u].at = "sleep" /\ call'[u] = [call[u] EXCEPT !.at = "check"]
      /\ call'[t] = [call[t] EXCEPT !.at = "drain", !.target = {}]
  <2>1. PICK w \in call[t].target :
          call' = [u \in Threads |->
                IF u = t THEN [call[t] EXCEPT !.at = "drain", !.target = {}]
                ELSE IF u = w /\ call[w].at = "sleep" THEN [call[w] EXCEPT !.at = "check"]
                ELSE call[u]]
    BY DEF NotifyOne
  <2> QED
    BY <2>1
<1>3. /\ call[t].at = "notify" /\ call'[t].at = "drain" /\ call'[t].mode = call[t].mode
      /\ call'[t].park = call[t].park
  BY <1>1, <1>2 DEF NotifyOne, Calls
<1>4. \A u \in Threads \ {t} :
        \/ call'[u] = call[u]
        \/ /\ call[u].at = "sleep" /\ call'[u].at = "check"
           /\ call'[u].mode = call[u].mode /\ call'[u].park = call[u].park
  <2> SUFFICES ASSUME NEW u \in Threads \ {t},
                      call[u].at = "sleep" /\ call'[u] = [call[u] EXCEPT !.at = "check"]
               PROVE  /\ call[u].at = "sleep" /\ call'[u].at = "check"
                      /\ call'[u].mode = call[u].mode /\ call'[u].park = call[u].park
    BY <1>2
  <2>1. call[u] \in Calls
    BY <1>1
  <2> QED
    BY <2>1 DEF Calls
<1>5. \A u \in Threads : WakeReady(u)'
  BY <1>3, <1>4 DEF WakeInv, WakeReady
<1>6. \A u, v \in Threads : Wakes(u, v)' <=> Wakes(u, v)
  BY <1>3, <1>4 DEF Wakes
<1>7. \A v \in Threads : /\ call'[v].at \in Parking <=> call[v].at \in Parking
                         /\ call[v].at \in Parking => call'[v].park = call[v].park
  BY <1>3, <1>4 DEF Parking
<1>8. waiters' = waiters /\ permit' = permit
  BY DEF NotifyOne
<1>9. ASSUME NEW v \in Threads PROVE Once(v)'
  BY <1>6, <1>7, <1>8 DEF WakeInv, Once
<1> QED
  BY <1>5, <1>9 DEF WakeInv

(* Add: the thread goes into one queue, and park begins.                   *)
LEMMA AddWakes ==
    ASSUME TypeOK, WakeInv, NEW t \in Threads, Add(t)
    PROVE  WakeInv'
<1> DEFINE q == call[t].park
<1>1. q \in Node /\ call[t].at = "wait"
  BY DEF WakeInv, WakeReady, Add
<1>2. /\ call'[t].at = "park" /\ call'[t].mode = call[t].mode
      /\ call'[t].park = q
      /\ \A u \in Threads \ {t} : call'[u] = call[u]
  BY Goes DEF Add, Parking
<1>3. \A u \in Threads : WakeReady(u)'
  BY <1>2 DEF WakeInv, WakeReady
<1>4. \A u, v \in Threads : Wakes(u, v)' <=> Wakes(u, v)
  BY <1>1, <1>2 DEF Wakes
<1>5. \A v \in Threads : /\ call'[v].at \in Parking <=> call[v].at \in Parking \/ v = t
                         /\ call[v].at \in Parking => call'[v].park = call[v].park
  BY <1>1, <1>2 DEF Parking
<1>6. \A n \in Node, v \in Threads : v \in waiters'[n] <=> v \in waiters[n] \/ (n = q /\ v = t)
  BY <1>1 DEF TypeOK, Add
<1>7. permit' = permit /\ call[t].at \notin Parking
  BY <1>1 DEF Add, Parking
<1> HIDE DEF q
<1>8. ASSUME NEW v \in Threads PROVE Once(v)'
  <2>1. Once(v)
    BY DEF WakeInv
  <2>2. CASE v # t
    BY <2>1, <2>2, <1>4, <1>5, <1>6, <1>7 DEF Once
  <2>3. CASE v = t
    <3>1. ~ permit[t] /\ (\A n \in Node : t \notin waiters[n]) /\ \A u \in Threads : ~ Wakes(u, t)
      BY <2>1, <2>3, <1>7 DEF Once
    <3> QED
      BY <2>3, <3>1, <1>1, <1>2, <1>4, <1>5, <1>6, <1>7 DEF Once
  <2> QED
    BY <2>2, <2>3
<1> QED
  BY <1>3, <1>8 DEF WakeInv

(* Look: the thread takes its permit and park is over, or park goes on.    *)
LEMMA LookWakes ==
    ASSUME TypeOK, WakeInv, NEW t \in Threads, Look(t)
    PROVE  WakeInv'
<1>1. PICK at \in {"again", "check", "doze"} :
        /\ Go(t, at) /\ (at = "again" <=> permit[t])
  BY DEF Look
<1>2. /\ call'[t].at = at /\ call'[t].mode = call[t].mode
      /\ call'[t].park = call[t].park
      /\ \A u \in Threads \ {t} : call'[u] = call[u]
  BY <1>1, Goes DEF Parking
<1>3. \A u \in Threads : WakeReady(u)'
  BY <1>2 DEF WakeInv, WakeReady
<1>4. \A u, v \in Threads : Wakes(u, v)' <=> Wakes(u, v)
  BY <1>2 DEF Wakes, Look
<1>5. \A v \in Threads : /\ call'[v].at \in Parking <=> call[v].at \in Parking /\ ~ (v = t /\ permit[t])
                         /\ call[v].at \in Parking => call'[v].park = call[v].park
  BY <1>1, <1>2 DEF Parking, Look
<1>6. waiters' = waiters /\ \A v \in Threads : permit'[v] <=> permit[v] /\ v # t
  BY DEF Look, TypeOK
<1>7. ASSUME NEW v \in Threads PROVE Once(v)'
  <2>1. Once(v)
    BY DEF WakeInv
  <2>2. CASE v # t
    BY <2>1, <2>2, <1>4, <1>5, <1>6 DEF Once
  <2>3. CASE v = t /\ permit[t]
    <3>1. (\A n \in Node : t \notin waiters[n]) /\ \A u \in Threads : ~ Wakes(u, t)
      BY <2>1, <2>3 DEF Once
    <3> QED
      BY <2>3, <3>1, <1>4, <1>5, <1>6 DEF Once
  <2>4. CASE v = t /\ ~ permit[t]
    BY <2>1, <2>4, <1>4, <1>5, <1>6 DEF Once
  <2> QED
    BY <2>2, <2>3, <2>4
<1> QED
  BY <1>3, <1>7 DEF WakeInv

(* Every other step leaves the permits, the queues and those who park or   *)
(* wake alone: a node that is used again has nobody in its queue, and      *)
(* nobody who backs off has a permit to lose.                              *)
LEMMA WakeStep ==
    ASSUME LockInv, WakeInv, NEW t \in Threads,
           \/ Proceed(t)
           \/ \E mode \in {"lock", "try"}, area \in Areas : Call(t, mode, area)
    PROVE  WakeInv'
<1>0. TypeOK /\ CallOK(t) /\ call[t] \in Calls /\ Idle \in Calls
      /\ call[t].rows \in Seq(Seq(Sections)) /\ WakeReady(t) /\ Once(t)
  <2>1. TypeOK /\ CallOK(t) /\ WakeReady(t) /\ Once(t)
    BY DEF LockInv, WakeInv
  <2>2. call[t] \in Calls /\ Idle \in Calls
    BY <2>1, CallsStay
  <2> QED
    BY <2>1, <2>2, CallFields
<1>1. ASSUME NEW mode \in {"lock", "try"}, NEW area \in Areas, Call(t, mode, area)
      PROVE  WakeInv'
  <2>1. PICK n \in Node :
          /\ Unused(n) /\ waiters' = [waiters EXCEPT ![n] = {}]
          /\ Become(t, [Idle EXCEPT !.at = "scan", !.mode = mode, !.node = n,
                                    !.area = area, !.rows = area])
    BY <1>1 DEF Call, Node
  <2>2. \A w \in Threads : w \notin waiters[n]
    BY <2>1 DEF Unused, WakeInv, Once
  <2>3. waiters[n] = {} /\ waiters' = waiters
    BY <2>1, <2>2, <1>0 DEF TypeOK
  <2> DEFINE c == [Idle EXCEPT !.at = "scan", !.mode = mode, !.node = n, !.area = area,
                               !.rows = area]
  <2>4. c \in Calls /\ c.at = "scan"
    BY NewCalls DEF Idle
  <2>5. Become(t, c)
    BY <2>1
  <2> HIDE DEF c
  <2> QED
    BY <1>0, <1>1, <2>3, <2>4, <2>5, Elsewhere DEF Call, Parking
<1>2. CASE PutIfAbsent(t)
  <2>1. /\ call[t].at = "scan" /\ UNCHANGED <<waiters, permit>>
        /\ call[t].rows # <<>> /\ \A i \in DOMAIN call[t].rows : call[t].rows[i] # <<>>
    BY <1>2 DEF PutIfAbsent, LockInv, ScanOK
  <2>2. PICK c \in Calls : Become(t, c) /\ c.at = "scan"
    <3>1. /\ Advance(call[t].rows) \in Seq(Seq(Sections)) /\ Tail(call[t].rows) \in Seq(Seq(Sections))
          /\ Head(Head(call[t].rows)) \in Sections
      BY <1>0, <2>1, RowFacts
    <3> DEFINE c1 == [call[t] EXCEPT !.rows = Advance(call[t].rows), !.added = TRUE]
               c2 == [call[t] EXCEPT !.rows = Advance(call[t].rows)]
               c3 == [call[t] EXCEPT !.rows = Tail(call[t].rows),
                                     !.park = owner[Head(Head(call[t].rows))]]
    <3>2. owner[Head(Head(call[t].rows))] # NoNode => owner[Head(Head(call[t].rows))] \in Node
      BY <1>0, <3>1 DEF TypeOK
    <3>3. /\ c1 \in Calls /\ c2 \in Calls
          /\ owner[Head(Head(call[t].rows))] # NoNode => c3 \in Calls
      BY <1>0, <3>1, <3>2, CallFields
    <3>4. c1.at = "scan" /\ c2.at = "scan" /\ c3.at = "scan"
      BY <1>0, <2>1 DEF Calls
    <3>5. \/ Become(t, c1) \/ Become(t, c2)
          \/ owner[Head(Head(call[t].rows))] # NoNode /\ Become(t, c3)
      BY <1>2 DEF PutIfAbsent
    <3> HIDE DEF c1, c2, c3
    <3> QED
      BY <3>3, <3>4, <3>5
  <2> QED
    BY <1>0, <2>1, <2>2, Elsewhere DEF Parking
<1>3. CASE Acquired(t)
  BY <1>0, <1>3, Elsewhere DEF Acquired, Return, Idle, Parking
<1>4. CASE Failed(t)
  <2>1. call[t].at = "scan" /\ UNCHANGED <<waiters, permit>> /\ call[t].park \in Node
    BY <1>0, <1>4 DEF Failed, Calls
  <2>2. ASSUME NEW at \in {"remove", "wait"}, Go(t, at)
        PROVE  WakeInv'
    <3> DEFINE c == [call[t] EXCEPT !.at = at]
    <3>1. c \in Calls /\ c.at = at /\ c.park = call[t].park /\ Become(t, c)
      BY <1>0, <2>2, CallsStay DEF Calls, Go
    <3> HIDE DEF c
    <3> QED
      BY <1>0, <2>1, <3>1, Elsewhere DEF Parking
  <2>3. CASE Return(t)
    BY <1>0, <2>1, <2>3, Elsewhere DEF Return, Idle, Parking
  <2> QED
    BY <1>4, <2>2, <2>3 DEF Failed
<1>5. ASSUME UNCHANGED <<waiters, permit, call>>
      PROVE  WakeInv'
  BY <1>5 DEF WakeInv, WakeReady, Once, Wakes
<1>6. CASE Unlock(t)
  <2> DEFINE n == held[t][Len(held[t])]
             c == [Idle EXCEPT !.at = "remove", !.mode = "unlock", !.node = n]
  <2>1. n \in Node
    BY <1>0, <1>6, SeqFacts DEF Unlock, TypeOK
  <2>2. UNCHANGED call \/ Become(t, c)
    BY <1>6 DEF Unlock
  <2>3. c \in Calls /\ c.at = "remove" /\ c.mode = "unlock"
    BY <2>1, NewCalls DEF Idle
  <2> HIDE DEF c
  <2>4. call[t].at = "idle" /\ UNCHANGED <<waiters, permit>>
    BY <1>6 DEF Unlock
  <2> QED
    BY <1>0, <1>5, <2>2, <2>3, <2>4, Elsewhere DEF Parking
<1>7. CASE Remove(t)
  <2> DEFINE c == [call[t] EXCEPT !.at = "drain"]
  <2>1. UNCHANGED call \/ Become(t, c)
    BY <1>7 DEF Remove, Go
  <2>2. c \in Calls /\ c.at = "drain" /\ c.mode = call[t].mode /\ c.park = call[t].park
    BY <1>0, CallsStay DEF Calls
  <2> HIDE DEF c
  <2>3. call[t].at = "remove" /\ UNCHANGED <<waiters, permit>>
    BY <1>7 DEF Remove
  <2> QED
    BY <1>0, <1>5, <2>1, <2>2, <2>3, Elsewhere DEF Parking, WakeReady
<1>8. CASE BlockAdds(t)
  <2> DEFINE c == [call[t] EXCEPT !.at = "wait"]
  <2>1. (call[t].mode = "lock" /\ Become(t, c)) \/ Become(t, Idle)
    BY <1>8 DEF BlockAdds, Go, Return
  <2>2. c \in Calls /\ c.at = "wait" /\ c.mode = call[t].mode /\ c.park = call[t].park
    BY <1>0, CallsStay DEF Calls
  <2> HIDE DEF c
  <2>3. call[t].at = "drain" /\ UNCHANGED <<waiters, permit>>
    BY <1>8 DEF BlockAdds
  <2>4. Idle.at = "idle"
    BY DEF Idle
  <2> QED
    BY <1>0, <2>1, <2>2, <2>3, <2>4, Elsewhere DEF Parking, WakeReady
<1>9. CASE BackOff(t)
  <2> DEFINE c == [call[t] EXCEPT !.at = "again"]
  <2>1. c \in Calls /\ c.at = "again" /\ Become(t, c)
    BY <1>0, <1>9, CallsStay DEF Calls, BackOff, Go
  <2>2. call[t].at = "wait" /\ ~ permit[t]
    BY <1>0, <1>9 DEF BackOff, Once, Parking
  <2>3. permit' = permit /\ waiters' = waiters
    BY <1>0, <1>9, <2>2 DEF BackOff, TypeOK
  <2> HIDE DEF c
  <2> QED
    BY <1>0, <2>1, <2>2, <2>3, Elsewhere DEF Parking
<1>10. CASE Sleep(t)
  <2>1. /\ call[t].at = "doze" /\ call'[t].at = "sleep" /\ call'[t].mode = call[t].mode
        /\ call'[t].park = call[t].park
        /\ \A u \in Threads \ {t} : call'[u] = call[u]
    BY <1>0, <1>10, Goes DEF Sleep, Parking
  <2>2. \A u \in Threads : WakeReady(u)'
    BY <2>1 DEF WakeInv, WakeReady
  <2>3. \A u, v \in Threads : Wakes(u, v)' <=> Wakes(u, v)
    BY <2>1 DEF Wakes
  <2>4. \A v \in Threads : /\ call'[v].at \in Parking <=> call[v].at \in Parking
                           /\ call[v].at \in Parking => call'[v].park = call[v].park
    BY <2>1 DEF Parking
  <2>5. waiters' = waiters /\ permit' = permit
    BY <1>10 DEF Sleep
  <2>6. ASSUME NEW v \in Threads PROVE Once(v)'
    BY <2>3, <2>4, <2>5 DEF WakeInv, Once
  <2> QED
    BY <2>2, <2>6 DEF WakeInv
<1>11. CASE Retry(t)
  <2> DEFINE c == [call[t] EXCEPT !.at = "scan", !.rows = call[t].area,
                                  !.park = NoNode, !.added = FALSE]
  <2>1. call[t].area \in Seq(Seq(Sections)) /\ call[t].at = "again" /\ UNCHANGED <<waiters, permit>>
    BY <1>0, <1>11, LockAssumption DEF Retry, CallOK
  <2>2. c \in Calls
    BY <1>0, <2>1, CallFields
  <2>3. c.at = "scan" /\ Become(t, c)
    BY <1>0, <1>11 DEF Retry, Calls
  <2> HIDE DEF c
  <2> QED
    BY <1>0, <2>1, <2>2, <2>3, Elsewhere DEF Parking
<1> QED
  BY <1>0, <1>1, <1>2, <1>3, <1>4, <1>6, <1>7, <1>8, <1>9, <1>10, <1>11, PollWakes, UnparkWakes,
     NotifyWakes, AddWakes, LookWakes DEF Proceed

LEMMA WokenAlways == Spec => []WakeInv
<1>1. Init => WakeInv
  <2> SUFFICES ASSUME Init
               PROVE  WakeInv
    OBVIOUS
  <2>1. \A t \in Threads : call[t].at = "idle" /\ ~ permit[t] /\ call[t].mode = "none"
    BY DEF Init, Idle
  <2>2. \A n \in Node : waiters[n] = {}
    BY DEF Init
  <2> QED
    BY <2>1, <2>2 DEF WakeInv, WakeReady, Once, Wakes, Parking
<1>2. LockInv /\ WakeInv /\ [Next]_vars => WakeInv'
  <2>1. ASSUME WakeInv, UNCHANGED vars
        PROVE  WakeInv'
    BY <2>1 DEF vars, WakeInv, WakeReady, Once, Wakes
  <2> QED
    BY <2>1, WakeStep DEF Next
<1> QED
  BY <1>1, <1>2, LockCorrect, PTL DEF Spec

(* Whoever parks on a lock has exactly one wake-up coming: it waits in one *)
(* queue, or one thread is on its way to unpark it, or its permit is set;  *)
(* and no permit is ever left over.                                        *)
THEOREM WokenExactlyOnce == Spec => []WokenOnce
<1>1. WakeInv => WokenOnce
  BY OnceCounts
<1> QED
  BY <1>1, WokenAlways, PTL

(***************************************************************************)
(* No deadlock.  Where nobody nests areas, who waits for another's node    *)
(* owns nothing, so the node is given back, or was, which blocked its      *)
(* queue.  Only an attempt that begins again (allowAdds) lets threads join *)
(* the queue of a node that owns nothing any more; it began later than     *)
(* the attempt of any thread that has met the node before, and it is that  *)
(* order of the attempts, which no variable keeps, that rules out a circle *)
(* of threads asleep in each other's queues.                               *)
(***************************************************************************)
Steps(t) ==
    \/ Proceed(t)
    \/ \E mode \in {"lock", "try"}, area \in Areas : Call(t, mode, area)

(* A call has no handle above it, but for one that only goes through       *)
(* sections its thread owns; what waits is a call of lock that met a node; *)
(* what takes sections out has some.                                       *)
Alone(t) ==
    /\ call[t].at # "idle" => call[t].mode # "none"
    /\ call[t].mode \in {"lock", "try"} =>
          \/ held[t] = <<>>
          \/ /\ call[t].at = "scan" /\ call[t].park = NoNode /\ ~ call[t].added
             /\ \A s \in Of(call[t].area) : OwnedBy(t, s)
    /\ call[t].at \in {"wait", "again"} \union Parking =>
          call[t].mode = "lock" /\ call[t].park # NoNode
    /\ call[t].park # NoNode =>
          held[t] = <<>> /\ Of(call[t].area) # {} /\ call[t].mode \in {"lock", "try"}
    /\ call[t].at = "remove" \/ (call[t].at = "scan" /\ call[t].added) => mine[call[t].node] # {}

(* Nobody is in a queue that refuses to add.                               *)
Joinable == \A n \in Node : waiters[n] # {} => ~ blocked[n]

(* Who sleeps on a permit is about to be notified.                         *)
Notified(w) == call[w].at \in {"doze", "sleep"} /\ permit[w] =>
    \E t \in Threads : call[t].at = "notify" /\ call[t].target = {w}

(* A node that will be drained.                                            *)
Due(n) == mine[n] # {} \/ (call[n[1]].node = n /\ call[n[1]].at \in {"drain", "unpark", "notify"})

(* A node of a lock that is still trying.                                  *)
Late(n) ==
    /\ call[n[1]].node = n /\ call[n[1]].mode = "lock"
    /\ call[n[1]].at \in {"scan", "wait", "again"} \union Parking
    /\ held[n[1]] = <<>> /\ Of(call[n[1]].area) # {}

(* What may be said of the node w has met, where rank orders the attempts. *)
Sees(rank, w) == call[w].park # NoNode =>
    \/ Due(call[w].park) \/ blocked[call[w].park]
    \/ Late(call[w].park) /\ rank[w] < rank[call[w].park[1]]

Ranked == \E rank \in [Threads -> Nat], last \in Nat :
    \A w \in Threads : rank[w] <= last /\ Sees(rank, w)

RestInv == Joinable /\ Ranked /\ \A t \in Threads : Alone(t) /\ Notified(t)

(***************************************************************************)
(* What a step leaves alone.                                               *)
(***************************************************************************)
LEMMA NewScan ==
    ASSUME TypeOK, NEW t \in Threads,
           \E mode \in {"lock", "try"}, area \in Areas : Call(t, mode, area)
    PROVE  /\ call[t].at = "idle" /\ UNCHANGED <<owner, mine, permit, held>>
           /\ call'[t].at = "scan" /\ call'[t].mode \in {"lock", "try"}
           /\ call'[t].park = NoNode /\ call'[t].added = FALSE
           /\ held[t] # <<>> /\ t \notin Nesting => \A s \in Of(call'[t].area) : OwnedBy(t, s)
           /\ \A u \in Threads \ {t} : call'[u] = call[u]
           /\ \E n \in Node :
                /\ n[1] = t /\ Unused(n) /\ call'[t].node = n
                /\ waiters' = [waiters EXCEPT ![n] = {}] /\ blocked' = [blocked EXCEPT ![n] = FALSE]
<1>0. PICK mode \in {"lock", "try"}, area \in Areas : Call(t, mode, area)
  OBVIOUS
<1>1. PICK n \in Node :
        /\ n[1] = t /\ Unused(n)
        /\ waiters' = [waiters EXCEPT ![n] = {}] /\ blocked' = [blocked EXCEPT ![n] = FALSE]
        /\ Become(t, [Idle EXCEPT !.at = "scan", !.mode = mode, !.node = n,
                                  !.area = area, !.rows = area])
  BY <1>0 DEF Call, Node
<1> DEFINE c == [Idle EXCEPT !.at = "scan", !.mode = mode, !.node = n, !.area = area,
                             !.rows = area]
<1>2. /\ c \in Calls /\ c.at = "scan" /\ c.mode = mode /\ c.node = n /\ c.area = area
      /\ c.park = NoNode /\ c.added = FALSE
  BY NewCalls DEF Idle
<1>3. Become(t, c)
  BY <1>1
<1> HIDE DEF c
<1>4. call'[t] = c /\ \A u \in Threads \ {t} : call'[u] = call[u]
  BY <1>2, <1>3, BecomeFacts
<1>5. /\ call[t].at = "idle" /\ UNCHANGED <<owner, mine, permit, held>>
      /\ held[t] # <<>> /\ t \notin Nesting => \A s \in Of(area) : OwnedBy(t, s)
  BY <1>0 DEF Call, IsHeldByCurrentThread
<1>6. /\ n[1] = t /\ Unused(n) /\ call'[t].node = n
      /\ waiters' = [waiters EXCEPT ![n] = {}] /\ blocked' = [blocked EXCEPT ![n] = FALSE]
  BY <1>1, <1>2, <1>4
<1> QED
  BY <1>2, <1>4, <1>5, <1>6

(* A section that is free, the thread's own, or another's.                 *)
LEMMA OneSection ==
    ASSUME LockInv, NEW t \in Threads, PutIfAbsent(t)
    PROVE  /\ call'[t].at = "scan" /\ call'[t].node = call[t].node
           /\ call'[t].mode = call[t].mode /\ call'[t].area = call[t].area
           /\ \A u \in Threads \ {t} : call'[u] = call[u]
           /\ call[t].node \in Node /\ call[t].node[1] = t /\ call[t].mode # "unlock"
           /\ \E s \in Of(call[t].area) : s \in Sections /\
                \/ /\ owner[s] = NoNode /\ owner' = [owner EXCEPT ![s] = call[t].node]
                   /\ mine' = [mine EXCEPT ![call[t].node] = @ \union {s}]
                   /\ call'[t].added = TRUE /\ call'[t].park = call[t].park
                \/ /\ OwnedBy(t, s) /\ UNCHANGED <<owner, mine>>
                   /\ call'[t].added = call[t].added /\ call'[t].park = call[t].park
                \/ /\ owner[s] # NoNode /\ ~ OwnedBy(t, s) /\ UNCHANGED <<owner, mine>>
                   /\ call'[t].added = call[t].added /\ call'[t].park = owner[s]
<1>0. /\ TypeOK /\ CallOK(t) /\ ScanOK(t) /\ call[t] \in Calls
      /\ call[t].at = "scan" /\ call[t].rows # <<>> /\ call[t].rows \in Seq(Seq(Sections))
  <2>1. TypeOK /\ CallOK(t) /\ ScanOK(t)
    BY DEF LockInv
  <2> QED
    BY <2>1, CallsStay, CallFields DEF PutIfAbsent
<1> DEFINE rows == call[t].rows
           s == Head(Head(rows))
           c1 == [call[t] EXCEPT !.rows = Advance(rows), !.added = TRUE]
           c2 == [call[t] EXCEPT !.rows = Advance(rows)]
           c3 == [call[t] EXCEPT !.rows = Tail(rows), !.park = owner[s]]
<1>1. /\ s \in Sections /\ s \in Of(call[t].area)
      /\ Advance(rows) \in Seq(Seq(Sections)) /\ Tail(rows) \in Seq(Seq(Sections))
  BY <1>0, RowFacts DEF ScanOK
<1>2. call[t].node \in Node /\ call[t].node[1] = t /\ call[t].mode # "unlock"
  BY <1>0 DEF CallOK
<1>3. owner[s] # NoNode => owner[s] \in Node
  BY <1>0, <1>1 DEF TypeOK
<1>4. c1 \in Calls /\ c2 \in Calls /\ (owner[s] # NoNode => c3 \in Calls)
  BY <1>0, <1>1, <1>3, CallFields
<1>5. /\ c1.at = "scan" /\ c1.node = call[t].node /\ c1.mode = call[t].mode
      /\ c1.area = call[t].area /\ c1.added = TRUE /\ c1.park = call[t].park
  BY <1>0 DEF Calls
<1>6. /\ c2.at = "scan" /\ c2.node = call[t].node /\ c2.mode = call[t].mode
      /\ c2.area = call[t].area /\ c2.added = call[t].added /\ c2.park = call[t].park
  BY <1>0 DEF Calls
<1>7. /\ c3.at = "scan" /\ c3.node = call[t].node /\ c3.mode = call[t].mode
      /\ c3.area = call[t].area /\ c3.added = call[t].added /\ c3.park = owner[s]
  BY <1>0 DEF Calls
<1>8. \/ /\ owner[s] = NoNode /\ owner' = [owner EXCEPT ![s] = call[t].node]
         /\ mine' = [mine EXCEPT ![call[t].node] = @ \union {s}] /\ Become(t, c1)
      \/ OwnedBy(t, s) /\ UNCHANGED <<owner, mine>> /\ Become(t, c2)
      \/ owner[s] # NoNode /\ ~ OwnedBy(t, s) /\ UNCHANGED <<owner, mine>> /\ Become(t, c3)
  BY DEF PutIfAbsent
<1> HIDE DEF c1, c2, c3, s, rows
<1>9. \A e \in Calls : Become(t, e) => call'[t] = e /\ \A u \in Threads \ {t} : call'[u] = call[u]
  BY <1>0, BecomeFacts
<1>10. /\ call'[t].at = "scan" /\ call'[t].node = call[t].node
       /\ call'[t].mode = call[t].mode /\ call'[t].area = call[t].area
       /\ \A u \in Threads \ {t} : call'[u] = call[u]
  BY <1>4, <1>5, <1>6, <1>7, <1>8, <1>9
<1>11. \/ /\ owner[s] = NoNode /\ owner' = [owner EXCEPT ![s] = call[t].node]
          /\ mine' = [mine EXCEPT ![call[t].node] = @ \union {s}]
          /\ call'[t].added = TRUE /\ call'[t].park = call[t].park
       \/ /\ OwnedBy(t, s) /\ UNCHANGED <<owner, mine>>
          /\ call'[t].added = call[t].added /\ call'[t].park = call[t].park
       \/ /\ owner[s] # NoNode /\ ~ OwnedBy(t, s) /\ UNCHANGED <<owner, mine>>
          /\ call'[t].added = call[t].added /\ call'[t].park = owner[s]
  BY <1>4, <1>5, <1>6, <1>7, <1>8, <1>9
<1> QED
  BY <1>1, <1>2, <1>10, <1>11

(* The other threads: only one that is notified moves, and nobody takes    *)
(* sections from another or touches another's nodes.                       *)
LEMMA OthersStay ==
    ASSUME LockInv, NEW t \in Threads, Steps(t), NEW u \in Threads \ {t}
    PROVE  /\ \/ call'[u] = call[u]
              \/ /\ NotifyOne(t) /\ call[u].at = "sleep" /\ call'[u].at = "check"
                 /\ u \in call[t].target
           /\ call'[u].node = call[u].node /\ call'[u].mode = call[u].mode
           /\ call'[u].area = call[u].area /\ call'[u].park = call[u].park
           /\ call'[u].added = call[u].added /\ call'[u].target = call[u].target
           /\ held'[u] = held[u]
<1>0. /\ TypeOK /\ CallOK(t) /\ ScanOK(t) /\ call[t] \in Calls /\ Idle \in Calls
      /\ call[t].rows \in Seq(Seq(Sections)) /\ call[u] \in Calls
  <2>1. TypeOK /\ CallOK(t) /\ ScanOK(t)
    BY DEF LockInv
  <2> QED
    BY <2>1, CallsStay, CallFields
<1>1. held'[u] = held[u]
  <2>1. held \in [Threads -> Seq(Node)]
    BY <1>0 DEF TypeOK
  <2>2. UNCHANGED held \/ \E h : held' = [held EXCEPT ![t] = h]
    BY DEF Steps, Proceed, Call, PutIfAbsent, Acquired, Failed, Unlock, Remove, Poll, BlockAdds,
           Unpark, NotifyOne, BackOff, Add, Look, Sleep, Retry
  <2> QED
    BY <2>1, <2>2
<1>2. CASE NotifyOne(t)
  <2>1. PICK w \in call[t].target :
          call' = [v \in Threads |->
                IF v = t THEN [call[t] EXCEPT !.at = "drain", !.target = {}]
                ELSE IF v = w /\ call[w].at = "sleep" THEN [call[w] EXCEPT !.at = "check"]
                ELSE call[v]]
    BY <1>2 DEF NotifyOne
  <2>2. CASE u = w /\ call[w].at = "sleep"
    <3>1. call'[u] = [call[u] EXCEPT !.at = "check"]
      BY <2>1, <2>2
    <3> QED
      BY <1>0, <1>1, <1>2, <2>1, <2>2, <3>1 DEF Calls
  <2>3. CASE ~ (u = w /\ call[w].at = "sleep")
    <3>1. call'[u] = call[u]
      BY <2>1, <2>3
    <3> QED
      BY <1>1, <3>1
  <2> QED
    BY <2>2, <2>3
<1>3. CASE ~ NotifyOne(t)
  <2>1. call'[u] = call[u]
    <3>1. UNCHANGED call \/ \E c : Become(t, c)
      BY <1>3 DEF Steps, Proceed, Call, PutIfAbsent, Acquired, Failed, Unlock, Remove, Poll,
             BlockAdds,
             Unpark, BackOff, Add, Look, Sleep, Retry, Go, Return
    <3>2. call \in [Threads -> Calls]
      BY <1>0 DEF TypeOK
    <3> QED
      BY <3>1, <3>2 DEF Become
  <2> QED
    BY <1>1, <2>1
<1> QED
  BY <1>2, <1>3

LEMMA NodesStay ==
    ASSUME LockInv, NEW t \in Threads, Steps(t)
    PROVE  /\ \A n \in Node : n[1] # t => mine'[n] = mine[n] /\ blocked'[n] = blocked[n]
           /\ \A u \in Threads \ {t}, s \in Sections : OwnedBy(u, s) => OwnedBy(u, s)'
           /\ ~ PutIfAbsent(t) /\ ~ Remove(t) => mine' = mine /\ owner' = owner
<1>0. TypeOK /\ CallOK(t) /\ ScanOK(t) /\ Ledger
  BY DEF LockInv
<1>1. CASE ~ PutIfAbsent(t) /\ ~ Remove(t)
  <2>1. mine' = mine /\ owner' = owner
    BY <1>1 DEF Steps, Proceed, Call, Acquired, Failed, Unlock, Poll, BlockAdds,
           Unpark, NotifyOne, BackOff, Add, Look, Sleep, Retry
  <2>2. CASE UNCHANGED blocked
    BY <2>1, <2>2 DEF OwnedBy
  <2>3. CASE \E mode \in {"lock", "try"}, area \in Areas : Call(t, mode, area)
    <3>1. \E n \in Node : n[1] = t /\ blocked' = [blocked EXCEPT ![n] = FALSE]
      BY <1>0, <2>3, NewScan
    <3>2. PICK n \in Node : n[1] = t /\ blocked' = [blocked EXCEPT ![n] = FALSE]
      BY <3>1
    <3> QED
      BY <1>0, <2>1, <3>2 DEF OwnedBy, TypeOK
  <2>4. CASE BlockAdds(t) \/ Retry(t)
    <3>1. call[t].node \in Node /\ call[t].node[1] = t
      BY <1>0, <2>4 DEF CallOK, BlockAdds, Retry
    <3>2. \E e : blocked' = [blocked EXCEPT ![call[t].node] = e]
      BY <2>4 DEF BlockAdds, Retry
    <3> QED
      BY <1>0, <2>1, <3>1, <3>2 DEF OwnedBy, TypeOK
  <2> QED
    BY <1>1, <2>2, <2>3, <2>4 DEF Steps, Proceed, Acquired, Failed, Unlock, Poll,
           Unpark, NotifyOne, BackOff, Add, Look, Sleep
<1>2. CASE PutIfAbsent(t)
  <2>1. call[t].node \in Node /\ call[t].node[1] = t /\ UNCHANGED blocked
    BY <1>0, <1>2 DEF CallOK, PutIfAbsent
  <2>2. \/ UNCHANGED <<owner, mine>>
        \/ \E s \in Sections : /\ owner[s] = NoNode /\ owner' = [owner EXCEPT ![s] = call[t].node]
                               /\ mine' = [mine EXCEPT ![call[t].node] = @ \union {s}]
    BY <1>2, OneSection
  <2> QED
    BY <1>0, <1>2, <2>1, <2>2 DEF OwnedBy, TypeOK
<1>3. CASE Remove(t)
  <2>1. call[t].node \in Node /\ call[t].node[1] = t /\ UNCHANGED blocked
    BY <1>0, <1>3 DEF CallOK, Remove
  <2>2. PICK s \in mine[call[t].node] : /\ owner' = [owner EXCEPT ![s] = NoNode]
                                        /\ mine' = [mine EXCEPT ![call[t].node] = @ \ {s}]
    BY <1>3 DEF Remove
  <2>3. s \in Sections /\ owner[s] = call[t].node
    BY <1>0, <2>1 DEF Ledger, TypeOK
  <2> QED
    BY <1>0, <1>3, <2>1, <2>2, <2>3 DEF OwnedBy, TypeOK
<1> QED
  BY <1>1, <1>2, <1>3

LEMMA StaysJoinable ==
    ASSUME LockInv, Joinable, NEW t \in Threads, Steps(t)
    PROVE  Joinable'
<1>0. TypeOK /\ CallOK(t)
  BY DEF LockInv
<1>1. CASE UNCHANGED <<waiters, blocked>>
  BY <1>1 DEF Joinable
<1>2. CASE \E mode \in {"lock", "try"}, area \in Areas : Call(t, mode, area)
  <2>2. \E n \in Node : /\ waiters' = [waiters EXCEPT ![n] = {}]
                       /\ blocked' = [blocked EXCEPT ![n] = FALSE]
    BY <1>0, <1>2, NewScan
  <2> QED
    BY <1>0, <2>2 DEF Joinable, TypeOK
<1>3. CASE Poll(t)
  BY <1>0, <1>3 DEF Poll, Joinable, TypeOK, CallOK
<1>4. CASE BlockAdds(t)
  BY <1>0, <1>4 DEF BlockAdds, Joinable, TypeOK, CallOK
<1>5. CASE Add(t)
  BY <1>0, <1>5 DEF Add, Joinable, TypeOK
<1>6. CASE Retry(t)
  BY <1>0, <1>6 DEF Retry, Joinable, TypeOK
<1> QED
  BY <1>1, <1>2, <1>3, <1>4, <1>5, <1>6
  DEF Steps, Proceed, PutIfAbsent, Acquired, Failed, Unlock, Remove, Unpark, NotifyOne, BackOff,
         Look,
      Sleep

(* A permit is set by one who then notifies; the mutex that the sleeper    *)
(* keeps from its look to its sleep makes the notification late enough.    *)
LEMMA StaysNotified ==
    ASSUME LockInv, WakeInv, \A u \in Threads : Notified(u), NEW t \in Threads, Steps(t),
           NEW w \in Threads
    PROVE  Notified(w)'
<1>0. TypeOK /\ CallOK(t) /\ call[t] \in Calls /\ Notified(w) /\ Once(w) /\ WakeReady(t)
  <2>1. TypeOK /\ CallOK(t) /\ Notified(w) /\ Once(w) /\ WakeReady(t)
    BY DEF LockInv, WakeInv
  <2> QED
    BY <2>1, CallsStay
<1> SUFFICES ASSUME call'[w].at \in {"doze", "sleep"}, permit'[w]
             PROVE  \E u \in Threads : call'[u].at = "notify" /\ call'[u].target = {w}
  BY DEF Notified
<1>1. CASE Unpark(t)
  <2>1. PICK v \in Threads : call[t].target = {v}
    BY <1>0, <1>1 DEF WakeReady, Unpark
  <2>2. v # w => permit[w]
    BY <1>0, <1>1, <2>1 DEF Unpark, TypeOK
  <2>3. CASE v = w
    <3>1. ~ permit[w]
      BY <1>0, <1>1, <2>1, <2>3 DEF Once, Wakes, Unpark
    <3>2. Go(t, "notify")
      BY <1>1, <2>1, <2>3, <3>1 DEF Unpark
    <3>3. call'[t].at = "notify" /\ call'[t].target = call[t].target
      BY <1>0, <3>2, Goes
    <3> QED
      BY <2>1, <2>3, <3>3
  <2>4. CASE v # w
    <3>1. call[w].at \in {"doze", "sleep"}
      <4>1. CASE w = t
        <5>1. call'[t].at \in {"drain", "notify"}
          <6>1. \/ Become(t, [call[t] EXCEPT !.at = "drain", !.target = {}])
                \/ Go(t, "notify")
            BY <1>1 DEF Unpark
          <6>5. [call[t] EXCEPT !.at = "drain", !.target = {}] \in Calls
            BY <1>0, CallFields
          <6>2. [call[t] EXCEPT !.at = "drain", !.target = {}].at = "drain"
                /\ [call[t] EXCEPT !.at = "drain", !.target = {}] \in Calls
            BY <1>0, <6>5 DEF Calls
          <6>3. CASE Go(t, "notify")
            BY <1>0, <6>3, Goes
          <6>4. CASE Become(t, [call[t] EXCEPT !.at = "drain", !.target = {}])
            BY <1>0, <6>2, <6>4, BecomeFacts
          <6> QED
            BY <6>1, <6>3, <6>4
        <5> QED
          BY <4>1, <5>1
      <4>2. CASE w # t
        <5>1. ~ NotifyOne(t)
          BY <1>1 DEF NotifyOne, Unpark
        <5> QED
          BY <4>2, <5>1, OthersStay
      <4> QED
        BY <4>1, <4>2
    <3>2. PICK u \in Threads : call[u].at = "notify" /\ call[u].target = {w}
      BY <1>0, <2>2, <2>4, <3>1 DEF Notified
    <3>3. u # t
      BY <1>1, <3>2 DEF Unpark
    <3> QED
      BY <1>1, <3>2, <3>3, OthersStay
  <2> QED
    BY <2>3, <2>4
<1>2. CASE NotifyOne(t)
  <2>1. PICK v \in call[t].target : call[v].at # "doze" /\
          call' = [x \in Threads |->
                IF x = t THEN [call[t] EXCEPT !.at = "drain", !.target = {}]
                ELSE IF x = v /\ call[v].at = "sleep" THEN [call[v] EXCEPT !.at = "check"]
                ELSE call[x]]
    BY <1>2 DEF NotifyOne
  <2>2. w # t
    <3>1. call'[t].at = "drain"
      <4>1. call'[t] = [call[t] EXCEPT !.at = "drain", !.target = {}]
        BY <2>1
      <4> QED
        BY <1>0, <4>1 DEF Calls
    <3> QED
      BY <3>1
  <2>3. call[w].at \in {"doze", "sleep"} /\ w # v
    <3>1. call[w] \in Calls
      BY <1>0 DEF TypeOK
    <3>2. CASE w = v /\ call[v].at = "sleep"
      <4>1. call'[w] = [call[w] EXCEPT !.at = "check"]
        BY <2>1, <2>2, <3>2
      <4> QED
        BY <3>1, <4>1 DEF Calls
    <3>3. CASE ~ (w = v /\ call[v].at = "sleep")
      BY <2>1, <2>2, <3>3
    <3> QED
      BY <3>2, <3>3
  <2>4. permit[w]
    BY <1>2 DEF NotifyOne
  <2>5. PICK u \in Threads : call[u].at = "notify" /\ call[u].target = {w}
    BY <1>0, <2>3, <2>4 DEF Notified
  <2>6. u # t /\ u # w
    BY <2>1, <2>3, <2>5
  <2> QED
    BY <2>5, <2>6, OthersStay
<1>3. CASE ~ Unpark(t) /\ ~ NotifyOne(t)
  <2>1. permit[w] /\ call[t].at # "notify"
    BY <1>0, <1>3 DEF Steps, Proceed, Call, PutIfAbsent, Acquired, Failed, Unlock, Remove, Poll,
           BlockAdds,
           BackOff, Add, Look, Sleep, Retry, TypeOK
  <2>2. call[w].at \in {"doze", "sleep"}
    <3>1. CASE w # t
      BY <1>3, <3>1, OthersStay
    <3>2. CASE w = t
      <4>1. call[t].at \in Parking
        BY <1>0, <2>1, <3>2 DEF Once
      <4>2. Look(t) \/ Sleep(t)
        BY <1>3, <4>1 DEF Steps, Proceed, Call, PutIfAbsent, Acquired, Failed, Unlock, Remove, Poll,
               BlockAdds, BackOff, Add, Retry, Parking
      <4> QED
        BY <1>0, <2>1, <3>2, <4>2 DEF Look, Sleep, TypeOK
    <3> QED
      BY <3>1, <3>2
  <2>3. PICK u \in Threads : call[u].at = "notify" /\ call[u].target = {w}
    BY <1>0, <2>1, <2>2 DEF Notified
  <2> QED
    BY <2>1, <2>3, OthersStay
<1> QED
  BY <1>1, <1>2, <1>3

(* While a node is drained, and while a thread waits, a call stays the     *)
(* same but for where it is.                                               *)
LEMMA Within ==
    ASSUME TypeOK, NEW t \in Threads
    PROVE  /\ Poll(t) \/ Unpark(t) \/ NotifyOne(t) =>
                /\ call[t].at \in {"drain", "unpark", "notify"}
                /\ call'[t].at \in {"drain", "unpark", "notify"}
           /\ BackOff(t) \/ Add(t) \/ Look(t) \/ Sleep(t) =>
                /\ call[t].at \in {"wait"} \union Parking
                /\ call'[t].at \in {"again"} \union Parking
           /\ \/ Poll(t) \/ Unpark(t) \/ NotifyOne(t)
              \/ BackOff(t) \/ Add(t) \/ Look(t) \/ Sleep(t)
              => /\ call'[t].node = call[t].node /\ call'[t].mode = call[t].mode
                 /\ call'[t].area = call[t].area /\ call'[t].park = call[t].park
                 /\ call'[t].added = call[t].added
                 /\ UNCHANGED <<owner, mine, held, blocked>>
<1> DEFINE c == [call[t] EXCEPT !.at = "drain", !.target = {}]
           d(w) == [call[t] EXCEPT !.at = "unpark", !.target = {w}]
<1>0. call[t] \in Calls /\ c \in Calls /\ \A w \in Threads : d(w) \in Calls
  BY CallsStay, CallFields
<1>1. /\ c.at = "drain" /\ c.node = call[t].node /\ c.mode = call[t].mode
      /\ c.area = call[t].area /\ c.park = call[t].park /\ c.added = call[t].added
  BY <1>0 DEF Calls
<1>2. ASSUME Poll(t)
      PROVE  /\ call'[t].at = "unpark"
             /\ call'[t].node = call[t].node /\ call'[t].mode = call[t].mode
             /\ call'[t].area = call[t].area /\ call'[t].park = call[t].park
             /\ call'[t].added = call[t].added
  <2>1. PICK w \in waiters[call[t].node] : Become(t, d(w))
    BY <1>2 DEF Poll
  <2>2. call' = [call EXCEPT ![t] = d(w)]
    BY <2>1 DEF Become
  <2>3. call'[t] = d(w)
    BY <2>2 DEF TypeOK
  <2> QED
    BY <1>0, <2>3 DEF Calls
<1>3. ASSUME Unpark(t)
      PROVE  /\ call'[t].at \in {"drain", "notify"}
             /\ call'[t].node = call[t].node /\ call'[t].mode = call[t].mode
             /\ call'[t].area = call[t].area /\ call'[t].park = call[t].park
             /\ call'[t].added = call[t].added
  <2>1. Become(t, c) \/ Go(t, "notify")
    BY <1>3 DEF Unpark
  <2>2. CASE Become(t, c)
    <3> HIDE DEF c
    <3> QED
      BY <1>0, <1>1, <2>2, BecomeFacts
  <2>3. CASE Go(t, "notify")
    BY <2>3, Goes
  <2> QED
    BY <2>1, <2>2, <2>3
<1>4. ASSUME NotifyOne(t)
      PROVE  /\ call'[t].at = "drain"
             /\ call'[t].node = call[t].node /\ call'[t].mode = call[t].mode
             /\ call'[t].area = call[t].area /\ call'[t].park = call[t].park
             /\ call'[t].added = call[t].added
  <2>1. call'[t] = c
    BY <1>4 DEF NotifyOne
  <2> HIDE DEF c
  <2> QED
    BY <1>1, <2>1
<1>5. ASSUME BackOff(t) \/ Add(t) \/ Look(t) \/ Sleep(t)
      PROVE  /\ call'[t].at \in {"again"} \union Parking
             /\ call'[t].node = call[t].node /\ call'[t].mode = call[t].mode
             /\ call'[t].area = call[t].area /\ call'[t].park = call[t].park
             /\ call'[t].added = call[t].added
  <2>1. PICK at \in {"again"} \union Parking : Go(t, at)
    BY <1>5 DEF BackOff, Add, Look, Sleep, Parking
  <2> QED
    BY <2>1, Goes
<1> QED
  BY <1>2, <1>3, <1>4, <1>5
  DEF Poll, Unpark, NotifyOne, BackOff, Add, Look, Sleep, Parking

LEMMA RetryFields ==
    ASSUME LockInv, NEW t \in Threads, Retry(t)
    PROVE  /\ call[t].at = "again" /\ UNCHANGED <<owner, mine, held>>
           /\ call[t].node \in Node /\ call[t].node[1] = t
           /\ blocked' = [blocked EXCEPT ![call[t].node] = @ /\ ~ call[t].added]
           /\ call'[t].at = "scan" /\ call'[t].park = NoNode /\ call'[t].added = FALSE
           /\ call'[t].node = call[t].node /\ call'[t].mode = call[t].mode
           /\ call'[t].area = call[t].area
           /\ \A u \in Threads \ {t} : call'[u] = call[u]
<1> DEFINE c == [call[t] EXCEPT !.at = "scan", !.rows = call[t].area,
                                !.park = NoNode, !.added = FALSE]
<1>1. TypeOK /\ CallOK(t)
  BY DEF LockInv
<1>2. call[t] \in Calls
  BY <1>1, CallsStay
<1>3. call[t].area \in Seq(Seq(Sections)) /\ call[t].node \in Node /\ call[t].node[1] = t
  BY <1>1, LockAssumption DEF Retry, CallOK
<1>4. c \in Calls
  BY <1>2, <1>3, CallFields
<1>5. /\ c.at = "scan" /\ c.park = NoNode /\ c.added = FALSE /\ c.node = call[t].node
      /\ c.mode = call[t].mode /\ c.area = call[t].area
  BY <1>2 DEF Calls
<1>6. Become(t, c)
  BY DEF Retry
<1> HIDE DEF c
<1>7. call'[t] = c /\ \A u \in Threads \ {t} : call'[u] = call[u]
  BY <1>1, <1>4, <1>6, BecomeFacts
<1> QED
  BY <1>3, <1>5, <1>7 DEF Retry

LEMMA OthersStayAlone ==
    ASSUME LockInv, NEW t \in Threads, Steps(t), NEW u \in Threads \ {t}, Alone(u)
    PROVE  Alone(u)'
<1>0. CallOK(u)
  BY DEF LockInv
<1>1. /\ call'[u].node = call[u].node /\ call'[u].mode = call[u].mode
      /\ call'[u].area = call[u].area /\ call'[u].park = call[u].park
      /\ call'[u].added = call[u].added /\ held'[u] = held[u]
      /\ call'[u].at = call[u].at \/ (call[u].at = "sleep" /\ call'[u].at = "check")
  BY OthersStay
<1>2. call[u].at # "idle" => mine'[call[u].node] = mine[call[u].node]
  BY <1>0, NodesStay DEF CallOK
<1>3. call[u].at # "idle" /\ call[u].mode # "unlock" =>
        \A s \in Of(call[u].area) : OwnedBy(u, s) => OwnedBy(u, s)'
  BY <1>0, AreaSections, NodesStay DEF CallOK
<1> QED
  BY <1>1, <1>2, <1>3 DEF Alone, Parking

LEMMA MoverStaysAlone ==
    ASSUME LockInv, WakeInv, NEW t \in Threads, t \notin Nesting, Alone(t), Steps(t)
    PROVE  Alone(t)'
<1>0. /\ TypeOK /\ Ledger /\ CallOK(t) /\ ScanOK(t) /\ WakeReady(t) /\ call[t] \in Calls
      /\ Idle \in Calls /\ mine \in [Node -> SUBSET Sections]
  <2>1. TypeOK /\ Ledger /\ CallOK(t) /\ ScanOK(t) /\ WakeReady(t)
    BY DEF LockInv, WakeInv
  <2> QED
    BY <2>1, CallsStay DEF TypeOK
<1>1. ASSUME Return(t)
      PROVE  Alone(t)'
  <2>1. call'[t] = Idle
    BY <1>0, <1>1, BecomeFacts DEF Return
  <2> QED
    BY <2>1 DEF Alone, Idle, Parking
<1>2. CASE \E mode \in {"lock", "try"}, area \in Areas : Call(t, mode, area)
  <2>1. /\ call[t].at = "idle" /\ UNCHANGED <<owner, held>>
        /\ call'[t].at = "scan" /\ call'[t].mode \in {"lock", "try"}
        /\ call'[t].park = NoNode /\ call'[t].added = FALSE
        /\ held[t] # <<>> => \A s \in Of(call'[t].area) : OwnedBy(t, s)
    BY <1>0, <1>2, NewScan
  <2>2. held'[t] # <<>> => \A s \in Of(call'[t].area) : OwnedBy(t, s)'
    BY <2>1 DEF OwnedBy
  <2> QED
    BY <2>1, <2>2 DEF Alone, Parking
<1>3. CASE PutIfAbsent(t)
  <2>1. /\ call[t].at = "scan" /\ call'[t].at = "scan" /\ call'[t].node = call[t].node
        /\ call'[t].mode = call[t].mode /\ call'[t].area = call[t].area /\ held' = held
        /\ call[t].node \in Node /\ call[t].mode \in {"lock", "try"}
    BY <1>0, <1>3, OneSection DEF PutIfAbsent, Alone, Calls
  <2>2. PICK s \in Of(call[t].area) : s \in Sections /\
           \/ /\ owner[s] = NoNode /\ owner' = [owner EXCEPT ![s] = call[t].node]
              /\ mine' = [mine EXCEPT ![call[t].node] = @ \union {s}]
              /\ call'[t].added = TRUE /\ call'[t].park = call[t].park
           \/ /\ OwnedBy(t, s) /\ UNCHANGED <<owner, mine>>
              /\ call'[t].added = call[t].added /\ call'[t].park = call[t].park
           \/ /\ owner[s] # NoNode /\ ~ OwnedBy(t, s) /\ UNCHANGED <<owner, mine>>
              /\ call'[t].added = call[t].added /\ call'[t].park = owner[s]
    BY <1>3, OneSection
  <2>3. CASE held[t] # <<>>
    <3>1. /\ call[t].park = NoNode /\ ~ call[t].added
          /\ \A r \in Of(call[t].area) : OwnedBy(t, r)
      BY <2>1, <2>3 DEF Alone
    <3>2. /\ UNCHANGED <<owner, mine>>
          /\ call'[t].added = call[t].added /\ call'[t].park = call[t].park
      BY <2>2, <3>1 DEF OwnedBy
    <3> QED
      BY <2>1, <3>1, <3>2 DEF Alone, Parking, OwnedBy
  <2>4. CASE held[t] = <<>>
    <3>1. call'[t].added => mine'[call[t].node] # {}
      BY <1>0, <2>1, <2>2 DEF Alone
    <3> QED
      BY <2>1, <2>2, <2>4, <3>1 DEF Alone, Parking
  <2> QED
    BY <2>3, <2>4
<1>4. CASE Acquired(t)
  BY <1>1, <1>4 DEF Acquired
<1>5. CASE Failed(t)
  <2>1. ASSUME Go(t, "remove"), call[t].added
        PROVE  Alone(t)'
    <3>1. /\ call'[t].at = "remove" /\ call'[t].node = call[t].node
          /\ call'[t].mode = call[t].mode /\ call'[t].area = call[t].area
          /\ call'[t].park = call[t].park /\ held' = held /\ mine' = mine
      BY <1>0, <1>5, <2>1, Goes DEF Failed
    <3> QED
      BY <1>5, <2>1, <3>1 DEF Failed, Alone, Parking
  <2>2. ASSUME Go(t, "wait"), call[t].mode = "lock"
        PROVE  Alone(t)'
    <3>1. /\ call'[t].at = "wait" /\ call'[t].node = call[t].node
          /\ call'[t].mode = call[t].mode /\ call'[t].area = call[t].area
          /\ call'[t].park = call[t].park /\ held' = held /\ mine' = mine
      BY <1>0, <1>5, <2>2, Goes DEF Failed
    <3> QED
      BY <1>5, <2>2, <3>1 DEF Failed, Alone, Parking
  <2> QED
    BY <1>1, <1>5, <2>1, <2>2 DEF Failed
<1>6. CASE Unlock(t)
  <2> DEFINE n == held[t][Len(held[t])]
             c == [Idle EXCEPT !.at = "remove", !.mode = "unlock", !.node = n]
  <2>1. n \in Node
    BY <1>0, <1>6, SeqFacts DEF Unlock, TypeOK
  <2>2. c \in Calls /\ c.at = "remove" /\ c.mode = "unlock" /\ c.node = n /\ c.park = NoNode
    BY <2>1, NewCalls DEF Idle
  <2>3. /\ call[t].at = "idle" /\ held[t] # <<>> /\ mine' = mine
        /\ UNCHANGED call \/ (mine[n] # {} /\ Become(t, c))
    BY <1>6 DEF Unlock
  <2>4. CASE UNCHANGED call
    BY <2>3, <2>4 DEF Alone, Parking
  <2>5. CASE mine[n] # {} /\ Become(t, c)
    <3> HIDE DEF c, n
    <3>1. call'[t] = c
      BY <1>0, <2>2, <2>5, BecomeFacts
    <3> QED
      BY <2>2, <2>3, <2>5, <3>1 DEF Alone, Parking
  <2> QED
    BY <2>3, <2>4, <2>5
<1>7. CASE Remove(t)
  <2>1. call[t].at = "remove" /\ call[t].node \in Node /\ held' = held
    BY <1>0, <1>7 DEF Remove, CallOK
  <2>2. PICK s \in mine[call[t].node] :
          /\ mine' = [mine EXCEPT ![call[t].node] = @ \ {s}]
          /\ IF mine[call[t].node] = {s} THEN Go(t, "drain") ELSE UNCHANGED call
    BY <1>7 DEF Remove
  <2>3. CASE mine[call[t].node] = {s}
    <3>1. /\ call'[t].at = "drain" /\ call'[t].node = call[t].node
          /\ call'[t].mode = call[t].mode /\ call'[t].area = call[t].area
          /\ call'[t].park = call[t].park
      BY <1>0, <2>2, <2>3, Goes
    <3> QED
      BY <2>1, <3>1 DEF Alone, Parking
  <2>4. CASE mine[call[t].node] # {s}
    <3>1. mine'[call[t].node] # {} /\ UNCHANGED call
      BY <1>0, <2>1, <2>2, <2>4
    <3> QED
      BY <2>1, <3>1 DEF Alone, Parking
  <2> QED
    BY <2>3, <2>4
<1>8. CASE BlockAdds(t)
  <2>1. CASE call[t].mode = "lock" /\ Go(t, "wait")
    <3>1. /\ call'[t].at = "wait" /\ call'[t].node = call[t].node
          /\ call'[t].mode = call[t].mode /\ call'[t].area = call[t].area
          /\ call'[t].park = call[t].park /\ held' = held /\ mine' = mine
      BY <1>0, <1>8, <2>1, Goes DEF BlockAdds
    <3>2. call[t].park # NoNode
      BY <1>0, <1>8, <2>1, LockAssumption DEF BlockAdds, WakeReady
    <3> QED
      BY <2>1, <3>1, <3>2 DEF Alone, Parking
  <2> QED
    BY <1>1, <1>8, <2>1 DEF BlockAdds
<1>9. CASE Poll(t) \/ Unpark(t) \/ NotifyOne(t)
  BY <1>0, <1>9, Within DEF Alone, Parking
<1>10. CASE BackOff(t) \/ Add(t) \/ Look(t) \/ Sleep(t)
  BY <1>0, <1>10, Within DEF Alone, Parking
<1>11. CASE Retry(t)
  BY <1>11, RetryFields DEF Alone, Parking
<1> QED
  BY <1>2, <1>3, <1>4, <1>5, <1>6, <1>7, <1>8, <1>9, <1>10, <1>11 DEF Steps, Proceed

(* A node that its thread has not given up yet, or has blocked: what the   *)
(* thread does next keeps it so, but for a new attempt, which begins late. *)
LEMMA NodeKept ==
    ASSUME LockInv, NEW t \in Threads, Alone(t), Alone(t)', Steps(t), ~ Retry(t),
           NEW n \in Node, n[1] = t, \E u \in Threads : call[u].park = n
    PROVE  /\ Due(n) => Due(n)' \/ blocked'[n]
           /\ blocked[n] => blocked'[n]
           /\ Late(n) => Late(n)' \/ Due(n)' \/ blocked'[n]
<1>0. /\ TypeOK /\ Ledger /\ NothingStray /\ CallOK(t) /\ ScanOK(t) /\ call[t] \in Calls
      /\ mine \in [Node -> SUBSET Sections] /\ blocked \in [Node -> BOOLEAN]
  <2>1. TypeOK /\ Ledger /\ NothingStray /\ CallOK(t) /\ ScanOK(t)
    BY DEF LockInv
  <2> QED
    BY <2>1, CallsStay DEF TypeOK
<1>1. CASE \E mode \in {"lock", "try"}, area \in Areas : Call(t, mode, area)
  <2>1. PICK m \in Node : Unused(m) /\ blocked' = [blocked EXCEPT ![m] = FALSE]
    BY <1>0, <1>1, NewScan
  <2>2. m # n
    BY <2>1 DEF Unused
  <2>3. call[t].at = "idle" /\ mine' = mine
    BY <1>0, <1>1, NewScan
  <2> QED
    BY <1>0, <2>1, <2>2, <2>3 DEF Due, Late, Parking
<1>2. CASE PutIfAbsent(t)
  <2>1. /\ call[t].at = "scan" /\ call'[t].at = "scan" /\ call'[t].node = call[t].node
        /\ call'[t].mode = call[t].mode /\ call'[t].area = call[t].area
        /\ UNCHANGED <<held, blocked>>
    BY <1>2, OneSection DEF PutIfAbsent
  <2>2. mine[n] # {} => mine'[n] # {}
    <3>1. UNCHANGED mine \/ \E s : mine' = [mine EXCEPT ![call[t].node] = @ \union {s}]
      BY <1>2 DEF PutIfAbsent
    <3> QED
      BY <1>0, <3>1
  <2> QED
    BY <2>1, <2>2 DEF Due, Late
<1>3. CASE Acquired(t)
  <2>1. /\ call[t].at = "scan" /\ call[t].rows = <<>> /\ call[t].park = NoNode
        /\ UNCHANGED <<mine, blocked>>
    BY <1>3 DEF Acquired
  <2>2. Late(n) => mine[n] # {}
    <3> SUFFICES ASSUME Late(n) PROVE mine[n] # {}
      OBVIOUS
    <3>1. call[t].node = n /\ held[t] = <<>> /\ Of(call[t].area) # {} /\ call[t].mode = "lock"
      BY DEF Late
    <3>2. Of(call[t].rows) = {}
      BY <2>1 DEF Of
    <3>3. PICK s \in Of(call[t].area) : OwnedBy(t, s)
      BY <1>0, <2>1, <3>1, <3>2 DEF ScanOK
    <3>4. s \in Sections
      BY <1>0, <2>1, <3>1, <3>3, AreaSections DEF CallOK
    <3>5. owner[s] \in Node /\ owner[s][1] = t /\ s \in mine[owner[s]]
      BY <1>0, <3>3, <3>4 DEF OwnedBy, Ledger, TypeOK
    <3>6. owner[s] = n
      BY <1>0, <3>1, <3>5 DEF NothingStray
    <3> QED
      BY <3>5, <3>6
  <2> QED
    BY <2>1, <2>2 DEF Due
<1>4. CASE Failed(t)
  <2>1. call[t].at = "scan" /\ UNCHANGED <<mine, blocked, held>>
    BY <1>4 DEF Failed
  <2>2. CASE call[t].added
    BY <2>1, <2>2 DEF Alone, Due, Late
  <2>3. CASE ~ call[t].added /\ call[t].mode = "lock" /\ Go(t, "wait")
    <3>1. /\ call'[t].at = "wait" /\ call'[t].node = call[t].node
          /\ call'[t].mode = call[t].mode /\ call'[t].area = call[t].area
      BY <1>0, <2>3, Goes
    <3> QED
      BY <2>1, <3>1 DEF Due, Late
  <2>4. CASE ~ call[t].added /\ call[t].mode = "try"
    BY <2>1, <2>4 DEF Due, Late
  <2> QED
    BY <1>4, <2>2, <2>3, <2>4 DEF Failed
<1>5. CASE Unlock(t)
  BY <1>5 DEF Unlock, Due, Late, Parking
<1>6. CASE Remove(t)
  <2>1. call[t].at = "remove" /\ call[t].node \in Node /\ UNCHANGED blocked
    BY <1>0, <1>6 DEF Remove, CallOK
  <2>2. PICK s \in mine[call[t].node] :
          /\ mine' = [mine EXCEPT ![call[t].node] = @ \ {s}]
          /\ IF mine[call[t].node] = {s} THEN Go(t, "drain") ELSE UNCHANGED call
    BY <1>6 DEF Remove
  <2>3. CASE n # call[t].node
    BY <1>0, <2>1, <2>2, <2>3 DEF Due, Late, Parking
  <2>4. CASE n = call[t].node /\ mine[n] = {s}
    <3>1. call'[t].at = "drain" /\ call'[t].node = n
      BY <1>0, <2>2, <2>4, Goes
    <3> QED
      BY <2>1, <3>1 DEF Due, Late, Parking
  <2>5. CASE n = call[t].node /\ mine[n] # {s}
    <3>1. mine'[n] # {}
      BY <1>0, <2>1, <2>2, <2>5
    <3> QED
      BY <2>1, <3>1 DEF Due, Late, Parking
  <2> QED
    BY <2>3, <2>4, <2>5
<1>7. CASE BlockAdds(t)
  <2>1. call[t].at = "drain" /\ call[t].node \in Node /\ UNCHANGED mine
        /\ blocked' = [blocked EXCEPT ![call[t].node] = TRUE]
    BY <1>0, <1>7 DEF BlockAdds, CallOK
  <2> QED
    BY <1>0, <2>1 DEF Due, Late, Parking
<1>8. CASE Poll(t) \/ Unpark(t) \/ NotifyOne(t)
  BY <1>0, <1>8, Within DEF Due, Late, Parking
<1>9. CASE BackOff(t) \/ Add(t) \/ Look(t) \/ Sleep(t)
  BY <1>0, <1>9, Within DEF Due, Late, Parking
<1> QED
  BY <1>1, <1>2, <1>3, <1>4, <1>5, <1>6, <1>7, <1>8, <1>9 DEF Steps, Proceed

(* The nodes of the others.                                                *)
LEMMA OthersNodeKept ==
    ASSUME LockInv, NEW t \in Threads, Steps(t), NEW n \in Node, n[1] # t
    PROVE  /\ Due(n) => Due(n)'
           /\ blocked[n] => blocked'[n]
           /\ Late(n) => Late(n)'
<1>1. n[1] \in Threads \ {t}
  BY DEF Node
<1>2. mine'[n] = mine[n] /\ blocked'[n] = blocked[n]
  BY NodesStay
<1>3. /\ call'[n[1]].node = call[n[1]].node /\ call'[n[1]].mode = call[n[1]].mode
      /\ call'[n[1]].area = call[n[1]].area /\ held'[n[1]] = held[n[1]]
      /\ \/ call'[n[1]].at = call[n[1]].at
         \/ call[n[1]].at = "sleep" /\ call'[n[1]].at = "check"
  BY <1>1, OthersStay
<1> QED
  BY <1>2, <1>3 DEF Due, Late, Parking

(* A node met is met by PutIfAbsent, which finds a section of it.          *)
LEMMA MetIsDue ==
    ASSUME LockInv, NEW t \in Threads, Steps(t), NEW w \in Threads, NEW n \in Node,
           call'[w].park = n
    PROVE  call[w].park = n \/ Due(n)'
<1>0. TypeOK /\ Ledger /\ CallOK(t) /\ call[t] \in Calls /\ Idle \in Calls /\ n # NoNode
  <2>1. TypeOK /\ Ledger /\ CallOK(t)
    BY DEF LockInv
  <2> QED
    BY <2>1, CallsStay, LockAssumption
<1>1. CASE w # t
  BY <1>1, OthersStay
<1>2. CASE w = t /\ PutIfAbsent(t)
  <2>1. PICK s \in Sections :
          \/ call'[t].park = call[t].park
          \/ owner[s] # NoNode /\ UNCHANGED <<owner, mine>> /\ call'[t].park = owner[s]
    BY <1>2, OneSection
  <2>2. CASE owner[s] # NoNode /\ UNCHANGED <<owner, mine>> /\ call'[t].park = owner[s]
    <3>1. s \in mine[n] /\ mine' = mine
      BY <1>0, <1>2, <2>2 DEF Ledger
    <3> QED
      BY <3>1 DEF Due
  <2> QED
    BY <1>2, <2>1, <2>2
<1>3. ASSUME Return(t), w = t
      PROVE  FALSE
  <2>1. call'[t] = Idle
    BY <1>0, <1>3, BecomeFacts DEF Return
  <2> QED
    BY <1>0, <1>3, <2>1 DEF Idle
<1>4. CASE w = t /\ \E mode \in {"lock", "try"}, area \in Areas : Call(t, mode, area)
  BY <1>0, <1>4, NewScan
<1>5. ASSUME w = t, NEW at \in {"remove", "wait", "drain"}, Go(t, at)
      PROVE  call[w].park = n
  BY <1>0, <1>5, Goes
<1>6. CASE w = t /\ Unlock(t)
  <2> DEFINE top == held[t][Len(held[t])]
             c == [Idle EXCEPT !.at = "remove", !.mode = "unlock", !.node = top]
  <2>1. top \in Node
    BY <1>0, <1>6, SeqFacts DEF Unlock, TypeOK
  <2>2. c \in Calls /\ c.park = NoNode
    BY <2>1, NewCalls DEF Idle
  <2>3. UNCHANGED call \/ Become(t, c)
    BY <1>6 DEF Unlock
  <2> HIDE DEF c, top
  <2> QED
    BY <1>0, <1>6, <2>2, <2>3, BecomeFacts
<1>7. CASE w = t /\ (Acquired(t) \/ Failed(t) \/ BlockAdds(t))
  BY <1>3, <1>5, <1>7 DEF Acquired, Failed, BlockAdds
<1>8. CASE w = t /\ Remove(t)
  BY <1>5, <1>8 DEF Remove
<1>9. CASE /\ w = t
           /\ \/ Poll(t) \/ Unpark(t) \/ NotifyOne(t)
              \/ BackOff(t) \/ Add(t) \/ Look(t) \/ Sleep(t)
  BY <1>0, <1>9, Within
<1>10. CASE w = t /\ Retry(t)
  BY <1>0, <1>10, RetryFields
<1> QED
  BY <1>1, <1>2, <1>4, <1>6, <1>7, <1>8, <1>9, <1>10 DEF Steps, Proceed

(* A new attempt comes last.                                               *)
LEMMA StaysRanked ==
    ASSUME LockInv, NEW t \in Threads, Alone(t), Alone(t)', Steps(t), Ranked
    PROVE  Ranked'
<1>0. TypeOK /\ call \in [Threads -> Calls]
  BY DEF LockInv, TypeOK
<1>1. PICK rank \in [Threads -> Nat], last \in Nat :
        \A w \in Threads : rank[w] <= last /\ Sees(rank, w)
  BY DEF Ranked
<1>2. \A w \in Threads : call'[w].park # NoNode => call'[w].park \in Node
  <2>1. TypeOK'
    BY TypeStep DEF LockInv, Next, Steps
  <2> QED
    BY <2>1 DEF TypeOK, Calls
<1>3. CASE ~ Retry(t)
  <2>1. ASSUME NEW w \in Threads, NEW n \in Node, call'[w].park = n
        PROVE  Due(n)' \/ blocked'[n] \/ (Late(n)' /\ rank[w] < rank[n[1]])
    <3>1. CASE call[w].park = n
      <4>1. Due(n) \/ blocked[n] \/ (Late(n) /\ rank[w] < rank[n[1]])
        BY <1>1, <3>1, LockAssumption DEF Sees
      <4>2. CASE n[1] = t
        BY <1>3, <3>1, <4>1, <4>2, NodeKept
      <4>3. CASE n[1] # t
        BY <4>1, <4>3, OthersNodeKept
      <4> QED
        BY <4>2, <4>3
    <3> QED
      BY <2>1, <3>1, MetIsDue
  <2>2. \A w \in Threads : rank[w] <= last /\ Sees(rank, w)'
    BY <1>1, <1>2, <2>1 DEF Sees, Due, Late
  <2> QED
    BY <2>2 DEF Ranked
<1>4. CASE Retry(t)
  <2>0. [rank EXCEPT ![t] = last + 1] \in [Threads -> Nat]
    OBVIOUS
  <2>1. PICK now \in [Threads -> Nat] : now = [rank EXCEPT ![t] = last + 1]
    BY <2>0
  <2>2. \A w \in Threads : now[w] <= last + 1
    BY <1>1, <2>1
  <2>3. /\ call[t].at = "again" /\ UNCHANGED <<mine, held>> /\ call[t].node \in Node
        /\ blocked' = [blocked EXCEPT ![call[t].node] = @ /\ ~ call[t].added]
        /\ call'[t].at = "scan" /\ call'[t].node = call[t].node /\ call'[t].park = NoNode
        /\ call'[t].mode = call[t].mode /\ call'[t].area = call[t].area
    BY <1>4, RetryFields
  <2>4. call[t].mode = "lock" /\ held[t] = <<>> /\ Of(call[t].area) # {}
    BY <2>3 DEF Alone
  <2>5. ASSUME NEW w \in Threads, NEW n \in Node, call'[w].park = n
        PROVE  Due(n)' \/ blocked'[n] \/ (Late(n)' /\ now[w] < now[n[1]])
    <3>1. w # t /\ call[w].park = n /\ n[1] \in Threads
      <4>1. w # t /\ n[1] \in Threads
        BY <2>3, <2>5, LockAssumption DEF Node
      <4> QED
        BY <2>5, <4>1, OthersStay
    <3>2. Due(n) \/ blocked[n] \/ (Late(n) /\ rank[w] < rank[n[1]])
      BY <1>1, <3>1, LockAssumption DEF Sees
    <3>3. CASE n[1] # t
      <4>1. now[w] = rank[w] /\ now[n[1]] = rank[n[1]]
        BY <2>1, <3>1, <3>3
      <4> QED
        BY <3>2, <3>3, <4>1, OthersNodeKept
    <3>4. CASE n[1] = t /\ n = call[t].node
      <4>1. now[w] < now[n[1]]
        BY <1>1, <2>1, <3>1, <3>4
      <4>2. Late(n)'
        BY <2>3, <2>4, <3>4 DEF Late
      <4> QED
        BY <4>1, <4>2
    <3>5. CASE n[1] = t /\ n # call[t].node
      <4>1. blocked'[n] = blocked[n]
        BY <1>0, <2>3, <3>5 DEF TypeOK
      <4>2. Due(n) => Due(n)'
        BY <2>3, <3>5 DEF Due
      <4>3. ~ Late(n)
        BY <3>5 DEF Late
      <4> QED
        BY <3>2, <4>1, <4>2, <4>3
    <3> QED
      BY <3>3, <3>4, <3>5
  <2>6. \A w \in Threads : now[w] <= last + 1 /\ Sees(now, w)'
    BY <1>2, <2>2, <2>5 DEF Sees, Due, Late
  <2> QED
    BY <2>6 DEF Ranked
<1> QED
  BY <1>3, <1>4

(***************************************************************************)
(* At rest.                                                                *)
(***************************************************************************)
LEMMA LeastExists ==
    ASSUME NEW S, S \subseteq Nat, S # {}
    PROVE  \E x \in S : \A y \in S : x <= y
<1> DEFINE R == OpToRel(<, Nat)
<1>1. IsWellFoundedOn(R, Nat)
  BY NatLessThanWellFounded
<1>2. \E x \in S : \A y \in S : ~ (<<y, x>> \in R)
  <2> HIDE DEF R
  <2> QED
    BY <1>1, WFMin, Zenon
<1>3. ASSUME NEW x \in Nat, NEW y \in Nat, ~ (<<y, x>> \in R)
      PROVE  x <= y
  <2>1. ~ (y < x)
    BY <1>3, Zenon DEF OpToRel
  <2> QED
    BY <2>1
<1> HIDE DEF R
<1> QED
  BY <1>2, <1>3

(* Of all who sleep, take the one whose attempt began last: the node it    *)
(* waits for would be of one that began later still.                       *)
LEMMA NobodySleeps ==
    ASSUME LockInv, WakeInv, RestInv, AtRest
    PROVE  \A t \in Threads : call[t].at # "sleep"
<1>0. TypeOK /\ NothingStray /\ call \in [Threads -> Calls]
  BY DEF LockInv, TypeOK
<1>1. PICK rank \in [Threads -> Nat], last \in Nat :
        \A w \in Threads : rank[w] <= last /\ Sees(rank, w)
  BY DEF RestInv, Ranked
<1>2. \A t \in Threads : held[t] = <<>> /\ call[t].at \in {"idle", "sleep"}
  BY DEF AtRest, RestInv, Alone, Parking
<1>3. ASSUME NEW w \in Threads, call[w].at = "sleep"
      PROVE  \E u \in Threads : call[u].at = "sleep" /\ rank[w] < rank[u]
  <2>1. Once(w) /\ Notified(w) /\ Sees(rank, w)
    BY <1>1 DEF WakeInv, RestInv
  <2>2. ~ permit[w]
    BY <1>2, <1>3, <2>1 DEF Notified
  <2>3. \A t \in Threads : ~ Wakes(t, w)
    BY <1>2 DEF Wakes
  <2>4. PICK n \in Node : w \in waiters[n]
    BY <1>3, <2>1, <2>2, <2>3 DEF Once, Parking
  <2>5. call[w].park = n /\ ~ blocked[n] /\ n[1] \in Threads
    BY <2>1, <2>4 DEF Once, RestInv, Joinable, Node
  <2>6. ~ Due(n)
    <3>1. mine[n] = {}
      BY <1>0, <1>2, <2>5 DEF NothingStray
    <3> QED
      BY <1>2, <2>5, <3>1 DEF Due
  <2>7. Late(n) /\ rank[w] < rank[n[1]]
    BY <2>1, <2>5, <2>6, LockAssumption DEF Sees
  <2>8. call[n[1]].at = "sleep"
    BY <1>2, <2>5, <2>7 DEF Late, Parking
  <2> QED
    BY <2>5, <2>7, <2>8
<1> SUFFICES ASSUME NEW t \in Threads, call[t].at = "sleep"
             PROVE  FALSE
  OBVIOUS
<1> DEFINE S == {last - rank[u] : u \in {v \in Threads : call[v].at = "sleep"}}
<1>4. S \subseteq Nat /\ S # {}
  BY <1>1
<1>5. PICK x \in S : \A y \in S : x <= y
  <2> HIDE DEF S
  <2> QED
    BY <1>4, LeastExists
<1>6. PICK w \in Threads : call[w].at = "sleep" /\ x = last - rank[w]
  BY <1>5
<1>7. PICK u \in Threads : call[u].at = "sleep" /\ rank[w] < rank[u]
  BY <1>3, <1>6
<1>8. x <= last - rank[u]
  BY <1>5, <1>7
<1> QED
  BY <1>1, <1>6, <1>7, <1>8

LEMMA RestStep ==
    ASSUME Nesting = {}, LockInv, WakeInv, RestInv, [Next]_vars
    PROVE  RestInv'
<1>1. CASE UNCHANGED vars
  <2>1. Joinable' /\ \A t \in Threads : Notified(t)'
    BY <1>1 DEF RestInv, vars, Joinable, Notified
  <2>2. \A t \in Threads : Alone(t)'
    BY <1>1 DEF RestInv, vars, Alone, OwnedBy
  <2>3. Ranked'
    BY <1>1 DEF RestInv, vars, Ranked, Sees, Due, Late
  <2> QED
    BY <2>1, <2>2, <2>3 DEF RestInv
<1>2. ASSUME NEW t \in Threads, Steps(t)
      PROVE  RestInv'
  <2>1. Joinable'
    BY <1>2, StaysJoinable DEF RestInv
  <2>2. ASSUME NEW u \in Threads
        PROVE  Alone(u)' /\ Notified(u)'
    <3>1. Notified(u)'
      BY <1>2, StaysNotified DEF RestInv
    <3>2. Alone(u)'
      BY <1>2, MoverStaysAlone, OthersStayAlone DEF RestInv
    <3> QED
      BY <3>1, <3>2
  <2>3. Ranked'
    BY <1>2, <2>2, StaysRanked DEF RestInv
  <2> QED
    BY <2>1, <2>2, <2>3 DEF RestInv
<1> QED
  BY <1>1, <1>2 DEF Next, Steps

(* No deadlock: threads that ask for another area only within the one they *)
(* hold never end up asleep in each other's queues. Whenever nobody can go *)
(* on by itself, nobody waits and the table is empty, for any threads,     *)
(* areas, crossings, tries, backoffs and permits.                          *)
THEOREM LockRestsFree ==
    ASSUME Nesting = {}
    PROVE  Spec => []RestsOnlyFree
<1>1. Init => RestInv
  <2> SUFFICES ASSUME Init
               PROVE  RestInv
    OBVIOUS
  <2>1. \A t \in Threads : call[t].at = "idle" /\ call[t].mode = "none" /\ call[t].park = NoNode
    BY DEF Init, Idle
  <2>2. \A n \in Node : waiters[n] = {}
    BY DEF Init
  <2>3. Ranked
    <3>1. [t \in Threads |-> 0] \in [Threads -> Nat]
      OBVIOUS
    <3>2. \A w \in Threads : [t \in Threads |-> 0][w] <= 0 /\ Sees([t \in Threads |-> 0], w)
      BY <2>1 DEF Sees
    <3> QED
      BY <3>1, <3>2 DEF Ranked
  <2> QED
    BY <2>1, <2>2, <2>3 DEF RestInv, Joinable, Alone, Notified, Parking
<1>2. LockInv /\ WakeInv /\ RestInv /\ [Next]_vars => RestInv'
  BY RestStep
<1>3. LockInv /\ WakeInv /\ RestInv => RestsOnlyFree
  <2> SUFFICES ASSUME LockInv, WakeInv, RestInv, AtRest
               PROVE  /\ \A t \in Threads : call[t].at = "idle"
                      /\ \A s \in Sections : owner[s] = NoNode
    BY DEF RestsOnlyFree
  <2>1. \A t \in Threads : call[t].at = "idle" /\ held[t] = <<>>
    BY NobodySleeps DEF AtRest
  <2>2. \A n \in Node : mine[n] = {}
    <3>1. \A n \in Node : n[1] \in Threads
      BY DEF Node
    <3> QED
      BY <2>1, <3>1 DEF LockInv, NothingStray
  <2> QED
    BY <2>1, <2>2 DEF LockInv, Ledger, TypeOK
<1> QED
  BY <1>1, <1>2, <1>3, LockCorrect, WokenAlways, PTL DEF Spec
=============================================================================
