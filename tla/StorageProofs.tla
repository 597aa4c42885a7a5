--------------------------- MODULE StorageProofs ----------------------------
(***************************************************************************)
(* Safety of what the program keeps on disk.                               *)
(*                                                                         *)
(*   - The two tables of src/src/koe_db.c, the offline queue and the       *)
(*     message store, for any number of peers, messages, rows and crashes, *)
(*     any limits, lifetimes and clocks.                                   *)
(*   - The files of an account: what a crash can and cannot do to them,    *)
(*     for any passphrases, PINs and number of crashes.                    *)
(***************************************************************************)
EXTENDS OfflineQueue, MessageStore, DataDir, FiniteSetTheorems, TLAPS

(* A sequence without its first element.                                   *)
LEMMA HeadTailProperties ==
    ASSUME NEW S, NEW s \in Seq(S), s # << >>
    PROVE  /\ Head(s) \in S /\ Tail(s) \in Seq(S) /\ Len(Tail(s)) = Len(s) - 1
           /\ \A i \in 1..Len(Tail(s)) : Tail(s)[i] = s[i + 1]
OBVIOUS

(* Two sequences joined.                                                   *)
LEMMA ConcatProperties ==
    ASSUME NEW S, NEW s \in Seq(S), NEW t \in Seq(S)
    PROVE  /\ s \o t \in Seq(S) /\ Len(s \o t) = Len(s) + Len(t)
           /\ \A i \in 1..(Len(s) + Len(t)) :
                 (s \o t)[i] = IF i <= Len(s) THEN s[i] ELSE t[i - Len(s)]
OBVIOUS

-----------------------------------------------------------------------------
(* The offline queue.  Sequence order needs two facts beside itself:       *)
(* nothing handed out carries a sequence in the future, and the clock does *)
(* not run backwards.  The bound on a backlog needs that no limit in force *)
(* exceeds the largest one so far.                                         *)

QueueInv ==
    /\ QueueTypeOK
    /\ HandedOutOnce
    /\ SequenceOrder
    /\ \A p \in Peers : lastSeq[p] <= clock
    /\ limit # None => limit <= most
    /\ IsFiniteSet(queue)

(* An empty table.                                                         *)
LEMMA QueueInitial == QueueInit => QueueInv
  BY FS_EmptySet, QueueAssumption
     DEF QueueInit, QueueInv, QueueTypeOK, HandedOutOnce, SequenceOrder

(* koe_db_queue_pop of an oldest row of a peer: what remains of that peer  *)
(* follows it.                                                             *)
LEMMA TakeRowKeeps ==
    ASSUME QueueInv, NEW p \in Peers, NEW r \in Oldest(p), TakeRow(r),
           UNCHANGED <<nextId, clock, limit, excess, restarts>>, hand' \in {hand, r}
    PROVE  QueueInv'
<1> USE DEF QueueInv
<1>1. r \in queue /\ r \in QueueRow /\ r.to = p
  BY Zenon DEF Oldest, RowsOf, QueueTypeOK
<1>2. QueueTypeOK'
  BY <1>1, Zenon DEF QueueTypeOK, TakeRow, QueueRow, excess
<1>3. HandedOutOnce'
  <2>1. queue' \subseteq queue /\ r.id < nextId
    BY <1>1, Zenon DEF TakeRow, HandedOutOnce
  <2>2. \A s \in queue' : s.id \in left' => s.id \in undeleted'
    <3> SUFFICES ASSUME NEW s \in queue', s.id \in left' PROVE s.id \in undeleted'
      BY Zenon
    <3>1. CASE s.id = r.id
      BY <1>1, <2>1, <3>1, Zenon DEF TakeRow, HandedOutOnce
    <3>2. CASE s.id # r.id
      BY <2>1, <3>2, Zenon DEF TakeRow, HandedOutOnce
    <3> QED
      BY <3>1, <3>2, Zenon
  <2> QED
    BY <2>1, <2>2, Zenon DEF TakeRow, HandedOutOnce
<1>4. SequenceOrder'
  <2> SUFFICES ASSUME NEW s \in queue'
               PROVE  lastSeq'[s.to] <= s.sequence /\ s.sequence <= clock'
    BY Zenon DEF SequenceOrder
  <2>1. s \in queue
    BY Zenon DEF TakeRow
  <2>2. s \in QueueRow /\ s.to \in Peers
    BY <2>1, Zenon DEF QueueTypeOK, QueueRow
  <2>3. CASE s.to = p
    BY <1>1, <2>1, <2>2, <2>3, Zenon DEF TakeRow, Oldest, RowsOf, SequenceOrder, QueueTypeOK
  <2>4. CASE s.to # p
    BY <1>1, <2>1, <2>2, <2>4, Zenon DEF TakeRow, SequenceOrder, QueueTypeOK
  <2> QED
    BY <2>3, <2>4, Zenon
<1>5. \A q \in Peers : lastSeq'[q] <= clock'
  BY <1>1, Zenon DEF TakeRow, SequenceOrder, QueueTypeOK
<1>6. IsFiniteSet(queue')
  <2>1. queue' \in SUBSET queue
    BY Zenon DEF TakeRow
  <2> QED
    BY <2>1, FS_Subset, Zenon
<1> QED
  BY <1>2, <1>3, <1>4, <1>5, <1>6, Zenon DEF excess

(* The table koe_queue_push inserts into: all of it when there is room or  *)
(* making room failed, else without one oldest row of the peer.            *)
LEMMA RoomShape ==
    ASSUME QueueInv, NEW p \in Peers, NEW room \in MakeRoom(p)
    PROVE  \/ room.table = queue /\ (room.failed \/ ~(Count(p) >= limit))
           \/ \E o \in Oldest(p) : room.table = queue \ {o}
<1>1. \/ room \in koe_db_queue_pop(p)
      \/ \E c \in koe_db_queue_count(p) :
            ~(c.value >= limit) /\ room = [table |-> queue, failed |-> c.failed]
  BY DEF MakeRoom
<1>2. CASE room \in koe_db_queue_pop(p)
  <2>1. \/ room = [table |-> queue, failed |-> TRUE]
        \/ \E o \in Oldest(p) : room = [table |-> queue \ {o}, failed |-> FALSE]
    BY <1>2, Zenon DEF koe_db_queue_pop
  <2> QED
    BY <2>1
<1>3. CASE \E c \in koe_db_queue_count(p) :
            ~(c.value >= limit) /\ room = [table |-> queue, failed |-> c.failed]
  <2>1. PICK c \in koe_db_queue_count(p) :
            ~(c.value >= limit) /\ room = [table |-> queue, failed |-> c.failed]
    BY <1>3, Zenon
  <2>2. room.table = queue /\ room.failed = c.failed
    BY <2>1, Zenon
  <2>3. c.failed \/ c.value = Count(p)
    BY DEF koe_db_queue_count
  <2> QED
    BY <2>1, <2>2, <2>3, Zenon
<1> QED
  BY <1>1, <1>2, <1>3, Zenon

(* The three outcomes of koe_queue_push: with or without eviction a part   *)
(* of the table is kept, and the new row may or may not be added.          *)
LEMMA PushKeeps ==
    ASSUME QueueInv, NEW p \in Peers, Push(p)
    PROVE  QueueInv'
<1> USE DEF QueueInv
<1>1. PICK room \in MakeRoom(p) :
          \/ queue' = room.table \cup {NewRow(p)} /\ nextId' = nextId + 1
          \/ queue' = room.table /\ nextId' = nextId
  BY Zenon DEF Push
<1>2. room.table \subseteq queue
  BY RoomShape, Zenon
<1>3. IsFiniteSet(queue')
  <2>1. IsFiniteSet(room.table)
    BY <1>2, FS_Subset, Zenon
  <2> QED
    BY <1>1, <2>1, FS_AddElement, Zenon
<1>4. NewRow(p) \in QueueRow
  BY QueueAssumption DEF NewRow, QueueRow, QueueTypeOK
<1>5. QueueTypeOK'
  <2>1. overfull' \in Nat
    BY DEF QueueTypeOK, Push
  <2>2. queue' \subseteq QueueRow /\ nextId' \in Nat
    BY <1>1, <1>2, <1>4 DEF QueueTypeOK
  <2> QED
    BY <2>1, <2>2, Zenon DEF QueueTypeOK, Push, handedOut
<1>6. HandedOutOnce'
  BY <1>1, <1>2 DEF HandedOutOnce, Push, NewRow, QueueTypeOK, QueueRow, handedOut
<1>7. SequenceOrder' /\ \A q \in Peers : lastSeq'[q] <= clock'
  BY <1>1, <1>2 DEF SequenceOrder, Push, NewRow, QueueTypeOK, QueueRow, handedOut
<1> QED
  BY <1>3, <1>5, <1>6, <1>7, Zenon DEF Push

(* Every operation, crash and clock tick preserves the invariant.          *)
LEMMA QueueStep == QueueInv /\ [QueueNext]_queueVars => QueueInv'
<1> SUFFICES ASSUME QueueInv, [QueueNext]_queueVars PROVE QueueInv'
  BY Zenon
<1>1. CASE \E n \in Limits : Open(n)
  <2>1. PICK n \in Limits : Open(n)
    BY <1>1, Zenon
  <2>2. n \in Nat /\ most \in Nat
    BY QueueAssumption, Zenon DEF QueueInv, QueueTypeOK
  <2>3. limit' = n /\ most' \in Nat /\ n <= most'
    BY <2>1, <2>2 DEF Open
  <2> QED
    BY <2>1, <2>3, Zenon DEF Open, QueueInv, QueueTypeOK, HandedOutOnce, SequenceOrder, handedOut
<1>2. CASE Close
  BY <1>2 DEF Close, QueueInv, QueueTypeOK, HandedOutOnce, SequenceOrder, handedOut, excess
<1>3. CASE Crash
  BY <1>3 DEF Crash, QueueInv, QueueTypeOK, HandedOutOnce, SequenceOrder, handedOut, excess
<1>4. CASE \E p \in Peers : Push(p)
  BY <1>4, PushKeeps, Zenon
<1>5. CASE \E p \in Peers : Pop(p)
  BY <1>5, TakeRowKeeps, Zenon DEF Pop
<1>6. CASE \E p \in Peers : DrainPop(p)
  BY <1>6, TakeRowKeeps, Zenon DEF DrainPop
<1>7. CASE DrainSent
  BY <1>7, Zenon DEF DrainSent, QueueInv, QueueTypeOK, HandedOutOnce, SequenceOrder, handedOut, excess
<1>8. CASE Expire
  <2>1. queue' \in SUBSET queue
    BY <1>8, Zenon DEF Expire
  <2>2. IsFiniteSet(queue')
    BY <2>1, FS_Subset, Zenon DEF QueueInv
  <2> QED
    BY <1>8, <2>1, <2>2, Zenon DEF Expire, QueueInv, QueueTypeOK, HandedOutOnce, SequenceOrder, handedOut, excess
<1>9. CASE QueueTick
  BY <1>9 DEF QueueTick, QueueInv, QueueTypeOK, HandedOutOnce, SequenceOrder, QueueRow, handedOut, excess
<1>10. CASE UNCHANGED queueVars
  BY <1>10, Zenon DEF queueVars, QueueInv, QueueTypeOK, HandedOutOnce, SequenceOrder, handedOut, excess
<1> QED
  BY <1>1, <1>2, <1>3, <1>4, <1>5, <1>6, <1>7, <1>8, <1>9, <1>10, Zenon DEF QueueNext

(* The invariant holds in every reachable state.                          *)
LEMMA QueueAlways == QueueSpec => []QueueInv
  BY QueueInitial, QueueStep, PTL DEF QueueSpec

(* Type correctness of the queue.                                          *)
THEOREM QueueTypeCorrect == QueueSpec => []QueueTypeOK
<1>1. QueueInv => QueueTypeOK
  BY Zenon DEF QueueInv
<1> QED
  BY QueueAlways, <1>1, PTL

(* A packet is handed out twice only after a DELETE that failed, whatever  *)
(* crashes and restarts happen.                                            *)
THEOREM AtMostOnce == QueueSpec => []HandedOutOnce
<1>1. QueueInv => HandedOutOnce
  BY Zenon DEF QueueInv
<1> QED
  BY QueueAlways, <1>1, PTL

(* Packets to a peer leave in the order of their sequence numbers.         *)
THEOREM InSequence == QueueSpec => []SequenceOrder
<1>1. QueueInv => SequenceOrder
  BY Zenon DEF QueueInv
<1> QED
  BY QueueAlways, <1>1, PTL

(* A push, pop or drain takes away an oldest row of its peer at most.      *)
LEMMA OwnRowLeaves ==
    ASSUME QueueInv, NEW p \in Peers, Push(p) \/ Pop(p) \/ DrainPop(p),
           NEW r \in queue, r \notin queue'
    PROVE  r \in Oldest(p)
<1>1. CASE Push(p)
  <2>1. PICK room \in MakeRoom(p) : queue' = room.table \cup {NewRow(p)} \/ queue' = room.table
    BY <1>1, Zenon DEF Push
  <2>2. room.table = queue \/ \E o \in Oldest(p) : room.table = queue \ {o}
    BY RoomShape, Zenon
  <2>3. r \notin room.table
    BY <2>1, Zenon
  <2> QED
    BY <2>2, <2>3, Zenon
<1>2. CASE Pop(p) \/ DrainPop(p)
  BY <1>2, Zenon DEF Pop, DrainPop, TakeRow
<1> QED
  BY <1>1, <1>2, Zenon

(* A push, pop or drain adds a row of its own peer at most.                *)
LEMMA OwnRowComes ==
    ASSUME QueueInv, NEW p \in Peers, Push(p) \/ Pop(p) \/ DrainPop(p),
           NEW r \in queue', r \notin queue
    PROVE  r.to = p
<1>1. CASE Push(p)
  <2>1. PICK room \in MakeRoom(p) : queue' = room.table \cup {NewRow(p)} \/ queue' = room.table
    BY <1>1, Zenon DEF Push
  <2>2. room.table = queue \/ \E o \in Oldest(p) : room.table = queue \ {o}
    BY RoomShape, Zenon
  <2>3. r \notin room.table
    BY <2>2, Zenon
  <2>4. r = NewRow(p)
    BY <2>1, <2>3, Zenon
  <2> QED
    BY <2>4, Zenon DEF NewRow
<1>2. CASE Pop(p) \/ DrainPop(p)
  BY <1>2, Zenon DEF Pop, DrainPop, TakeRow
<1> QED
  BY <1>1, <1>2, Zenon

(* A row leaves the table only as an oldest one of its peer or expired,    *)
(* and what is done for one peer leaves the rows of the others alone.      *)
THEOREM OldestOrExpired == QueueSpec => OnlyOldestOrExpiredLeave
<1>1. ASSUME QueueInv, [QueueNext]_queueVars, NEW r \in queue \ queue'
      PROVE  r \in Oldest(r.to) \/ r.expires_at <= clock
  <2>1. CASE \E p \in Peers : Push(p) \/ Pop(p) \/ DrainPop(p)
    <3>1. PICK p \in Peers : Push(p) \/ Pop(p) \/ DrainPop(p)
      BY <2>1, Zenon
    <3>2. r \in Oldest(p)
      BY <1>1, <3>1, OwnRowLeaves, Zenon
    <3> QED
      BY <3>2, Zenon DEF Oldest, RowsOf
  <2>2. CASE Expire
    <3>1. r \in QueueRow /\ clock \in Nat /\ ~(r.expires_at > clock)
      BY <1>1, <2>2, Zenon DEF Expire, QueueInv, QueueTypeOK
    <3> QED
      BY <3>1 DEF QueueRow
  <2>3. CASE UNCHANGED queue
    BY <1>1, <2>3, Zenon
  <2> QED
    BY <1>1, <2>1, <2>2, <2>3, Zenon
       DEF QueueNext, Open, Close, Crash, DrainSent, QueueTick, queueVars
<1>2. ASSUME QueueInv, NEW p \in Peers, NEW q \in Peers, p # q,
             Push(p) \/ Pop(p) \/ DrainPop(p)
      PROVE  RowsOf(q)' = RowsOf(q)
  <2>1. ASSUME NEW r, r.to = q PROVE r \in queue' <=> r \in queue
    <3>1. r \in queue /\ r \notin queue' => r \in Oldest(p)
      BY <1>2, OwnRowLeaves, Zenon
    <3>2. r \in queue' /\ r \notin queue => r.to = p
      BY <1>2, OwnRowComes, Zenon
    <3> QED
      BY <1>2, <2>1, <3>1, <3>2, Zenon DEF Oldest, RowsOf
  <2> QED
    BY <2>1, Zenon DEF RowsOf
<1>3. QueueInv /\ [QueueNext]_queueVars =>
        [/\ \A r \in queue \ queue' : r \in Oldest(r.to) \/ r.expires_at <= clock
         /\ \A p, q \in Peers :
               p # q /\ (Push(p) \/ Pop(p) \/ DrainPop(p)) => RowsOf(q)' = RowsOf(q)]_queueVars
  BY <1>1, <1>2, Zenon
<1> QED
  BY QueueAlways, <1>3, PTL DEF QueueSpec, OnlyOldestOrExpiredLeave

(* The backlogs are finite.                                                *)
LEMMA CountType ==
    ASSUME QueueInv, NEW p \in Peers
    PROVE  IsFiniteSet(RowsOf(p)) /\ Count(p) \in Nat /\ Count(p) = Cardinality(RowsOf(p))
<1>1. RowsOf(p) \in SUBSET queue
  BY Zenon DEF RowsOf
<1> QED
  BY <1>1, FS_Subset, FS_CardinalityType, Zenon DEF QueueInv, Count

(* A step that adds no row grows no backlog.                               *)
LEMMA NoGrowth ==
    ASSUME QueueInv, NEW q \in Peers, queue' \subseteq queue
    PROVE  Cardinality(RowsOf(q)') \in Nat /\ Cardinality(RowsOf(q)') <= Count(q)
<1>1. RowsOf(q)' \in SUBSET RowsOf(q)
  BY Zenon DEF RowsOf
<1>2. IsFiniteSet(RowsOf(q)) /\ Count(q) = Cardinality(RowsOf(q))
  BY CountType, Zenon
<1> QED
  BY <1>1, <1>2, FS_Subset, FS_CardinalityType, Zenon

(* A push adds at most one row to the backlog of its peer, and when that   *)
(* is at its limit it evicts a row, unless making room failed.             *)
LEMMA PushGrowth ==
    ASSUME QueueInv, NEW p \in Peers, Push(p), NEW q \in Peers,
           Cardinality(RowsOf(q)') > Count(q)
    PROVE  /\ Cardinality(RowsOf(q)') \in Nat
           /\ Cardinality(RowsOf(q)') <= Count(q) + 1
           /\ Cardinality(RowsOf(q)') <= limit \/ overfull' = overfull + 1
<1> DEFINE Of(S) == {r \in S : r.to = q}
<1>1. PICK room \in MakeRoom(p) :
         \/ /\ queue' = room.table \cup {NewRow(p)}
            /\ overfull' = IF room.failed /\ Count(p) >= limit THEN overfull + 1 ELSE overfull
         \/ queue' = room.table
  BY Zenon DEF Push
<1> DEFINE kept == room.table
<1>2. /\ Of(kept) \in SUBSET Of(queue)
      /\ Of(queue') = Of(kept) \/ (p = q /\ Of(queue') = Of(kept) \cup {NewRow(p)})
  <2>1. kept \subseteq queue
    BY RoomShape, Zenon
  <2>2. NewRow(p).to = p
    BY Zenon DEF NewRow
  <2> HIDE DEF kept
  <2>3. queue' = kept \cup {NewRow(p)} \/ queue' = kept
    BY <1>1, Zenon DEF kept
  <2>4. CASE queue' = kept
    BY <2>1, <2>4, Zenon
  <2>5. CASE queue' = kept \cup {NewRow(p)} /\ p = q
    BY <2>1, <2>2, <2>5, Zenon
  <2>6. CASE queue' = kept \cup {NewRow(p)} /\ p # q
    BY <2>1, <2>2, <2>6, Zenon
  <2> QED
    BY <2>3, <2>4, <2>5, <2>6, Zenon
<1>3. p = q => \/ room.failed \/ ~(Count(q) >= limit)
               \/ \E o \in Of(queue) : Of(kept) = Of(queue) \ {o}
  <2> SUFFICES ASSUME p = q, ~room.failed, Count(q) >= limit
               PROVE  \E o \in Of(queue) : Of(kept) = Of(queue) \ {o}
    BY Zenon
  <2>1. PICK o \in Oldest(p) : kept = queue \ {o}
    BY RoomShape, Zenon
  <2>2. o \in Of(queue)
    BY Zenon DEF Oldest, RowsOf
  <2>3. Of(kept) = Of(queue) \ {o}
    BY <2>1, Zenon
  <2> QED
    BY <2>2, <2>3, Zenon
<1>4. Of(queue') = RowsOf(q)' /\ Of(queue) = RowsOf(q)
  BY Zenon DEF RowsOf
<1> HIDE DEF Of
<1>5. IsFiniteSet(Of(queue)) /\ Cardinality(Of(queue)) \in Nat /\ Count(q) = Cardinality(Of(queue))
  BY <1>4, CountType, Zenon
<1>6. /\ IsFiniteSet(Of(kept)) /\ Cardinality(Of(kept)) \in Nat
      /\ Cardinality(Of(kept)) <= Cardinality(Of(queue))
  BY <1>2, <1>5, FS_Subset, FS_CardinalityType, Zenon
<1>7. Cardinality(Of(queue')) > Cardinality(Of(queue))
  BY <1>4, <1>5, Zenon
<1>8. Of(queue') # Of(kept)
  BY <1>5, <1>6, <1>7
<1>9. p = q /\ Of(queue') = Of(kept) \cup {NewRow(p)}
  BY <1>2, <1>8, Zenon
<1>10. Cardinality(Of(queue')) \in Nat /\ Cardinality(Of(queue')) <= Cardinality(Of(kept)) + 1
  <2>1. Cardinality(Of(kept) \cup {NewRow(p)}) =
           IF NewRow(p) \in Of(kept) THEN Cardinality(Of(kept)) ELSE Cardinality(Of(kept)) + 1
    BY <1>6, FS_AddElement, Zenon
  <2>2. Cardinality(Of(queue')) = Cardinality(Of(kept) \cup {NewRow(p)})
    BY <1>9, Zenon
  <2> HIDE DEF kept
  <2> QED
    BY <1>6, <2>1, <2>2
<1>11. queue' # kept
  BY <1>8, Zenon
<1>12. overfull' = IF room.failed /\ Count(p) >= limit THEN overfull + 1 ELSE overfull
  BY <1>1, <1>11, Zenon
<1>13. limit \in Nat
  BY QueueAssumption, Zenon DEF Push, QueueInv, QueueTypeOK
<1>14. ~(room.failed /\ Count(q) >= limit) => ~(Count(q) >= limit)
  <2> SUFFICES ASSUME ~room.failed, Count(q) >= limit PROVE FALSE
    BY Zenon
  <2>1. PICK o \in Of(queue) : Of(kept) = Of(queue) \ {o}
    BY <1>3, <1>9, Zenon
  <2>2. Cardinality(Of(kept)) = Cardinality(Of(queue)) - 1
    BY <1>5, <2>1, FS_RemoveElement, Zenon
  <2> HIDE DEF kept
  <2> QED
    BY <1>5, <1>6, <1>7, <1>10, <2>2
<1>15. Cardinality(Of(queue')) <= Count(q) + 1
  <2> HIDE DEF kept
  <2> QED
    BY <1>5, <1>6, <1>10
<1>16. Cardinality(Of(queue')) <= limit \/ overfull' = overfull + 1
  <2>1. CASE room.failed /\ Count(q) >= limit
    BY <1>9, <1>12, <2>1, Zenon
  <2>2. CASE ~(Count(q) >= limit)
    BY <1>5, <1>10, <1>13, <1>15, <2>2
  <2> QED
    BY <1>14, <2>1, <2>2, Zenon
<1> QED
  BY <1>4, <1>10, <1>15, <1>16, Zenon

(* No action but a push adds a row or counts as an excess.                 *)
LEMMA OnlyPushAdds ==
    ASSUME QueueInv, [QueueNext]_queueVars
    PROVE  \/ \E p \in Peers : Push(p)
           \/ queue' \subseteq queue /\ overfull' = overfull
<1>1. CASE UNCHANGED queueVars
  BY <1>1, Zenon DEF queueVars, excess
<1>2. CASE \E n \in Limits : Open(n)
  BY <1>2, Zenon DEF Open
<1>3. CASE \E p \in Peers : Pop(p) \/ DrainPop(p)
  BY <1>3, Zenon DEF Pop, DrainPop, TakeRow, excess
<1>4. CASE Close \/ Crash \/ DrainSent \/ Expire \/ QueueTick
  BY <1>4, Zenon DEF Close, Crash, DrainSent, Expire, QueueTick, excess
<1> QED
  BY <1>1, <1>2, <1>3, <1>4, Zenon DEF QueueNext

(* A push grows a backlog beyond the limit in force only when making room  *)
(* failed.                                                                 *)
THEOREM PushBounded == QueueSpec => PushRespectsLimit
<1>1. ASSUME QueueInv, [QueueNext]_queueVars, NEW q \in Peers,
             Cardinality(RowsOf(q)') > Count(q)
      PROVE  Cardinality(RowsOf(q)') <= limit \/ overfull' > overfull
  <2>1. CASE \E p \in Peers : Push(p)
    <3>1. Cardinality(RowsOf(q)') <= limit \/ overfull' = overfull + 1
      BY <1>1, <2>1, PushGrowth, Zenon
    <3>2. overfull \in Nat
      BY <1>1, Zenon DEF QueueInv, QueueTypeOK
    <3> QED
      BY <3>1, <3>2
  <2>2. CASE queue' \subseteq queue
    <3>1. /\ Cardinality(RowsOf(q)') <= Count(q)
          /\ Cardinality(RowsOf(q)') \in Nat /\ Count(q) \in Nat
      BY <1>1, <2>2, NoGrowth, CountType, Zenon
    <3> QED
      BY <1>1, <3>1
  <2> QED
    BY <1>1, <2>1, <2>2, OnlyPushAdds, Zenon
<1>2. QueueInv /\ [QueueNext]_queueVars =>
        [\A p \in Peers : Cardinality(RowsOf(p)') > Count(p)
            => Cardinality(RowsOf(p)') <= limit \/ overfull' > overfull]_queueVars
  BY <1>1, Zenon
<1> QED
  BY QueueAlways, <1>2, PTL DEF QueueSpec, PushRespectsLimit

(* One step of a backlog against the bound, which itself never falls.      *)
LEMMA BacklogStep ==
    ASSUME QueueInv, QueueInv', BacklogBounded, [QueueNext]_queueVars
    PROVE  BacklogBounded'
<1> SUFFICES ASSUME NEW q \in Peers PROVE Count(q)' <= most' + overfull'
  BY Zenon DEF BacklogBounded
<1>1. Count(q)' = Cardinality(RowsOf(q)')
  BY Zenon DEF Count
<1>2. /\ Count(q) \in Nat /\ Count(q) <= most + overfull
      /\ most \in Nat /\ overfull \in Nat /\ most' \in Nat /\ overfull' \in Nat
  BY CountType, Zenon DEF BacklogBounded, QueueInv, QueueTypeOK
<1>3. CASE \E p \in Peers : Push(p)
  <2>1. most' = most /\ (overfull' = overfull \/ overfull' = overfull + 1)
    BY <1>3, Zenon DEF Push
  <2>2. limit \in Nat /\ limit <= most
    BY <1>3, QueueAssumption, Zenon DEF Push, QueueInv, QueueTypeOK
  <2>3. CASE Cardinality(RowsOf(q)') > Count(q)
    <3>1. /\ Cardinality(RowsOf(q)') \in Nat
          /\ Cardinality(RowsOf(q)') <= Count(q) + 1
          /\ Cardinality(RowsOf(q)') <= limit \/ overfull' = overfull + 1
      BY <1>3, <2>3, PushGrowth, Zenon
    <3> QED
      BY <1>1, <1>2, <2>1, <2>2, <3>1
  <2>4. CASE ~(Cardinality(RowsOf(q)') > Count(q))
    <3>1. Count(q)' \in Nat
      <4>1. RowsOf(q)' \in SUBSET queue'
        BY Zenon DEF RowsOf
      <4> QED
        BY <1>1, <4>1, FS_Subset, FS_CardinalityType, Zenon DEF QueueInv
    <3> QED
      BY <1>1, <1>2, <2>1, <2>4, <3>1
  <2> QED
    BY <2>3, <2>4, Zenon
<1>4. CASE queue' \subseteq queue /\ overfull' = overfull
  <2>1. Cardinality(RowsOf(q)') \in Nat /\ Cardinality(RowsOf(q)') <= Count(q)
    BY <1>4, NoGrowth, Zenon
  <2>2. most' >= most
    <3>1. CASE \E n \in Limits : Open(n)
      <4>1. PICK n \in Limits : Open(n)
        BY <3>1, Zenon
      <4>2. n \in Nat
        BY QueueAssumption, Zenon
      <4> QED
        BY <1>2, <4>1, <4>2 DEF Open
    <3>2. CASE ~\E n \in Limits : Open(n)
      <4>1. most' = most
        BY <3>2, Zenon DEF QueueNext, Push, Pop, DrainPop, Close, Crash, DrainSent, Expire,
                           QueueTick, queueVars, excess
      <4> QED
        BY <1>2, <4>1
    <3> QED
      BY <3>1, <3>2, Zenon
  <2> QED
    BY <1>1, <1>2, <1>4, <2>1, <2>2
<1> QED
  BY <1>3, <1>4, OnlyPushAdds, Zenon

(* Over all limits and restarts, a backlog exceeds the largest limit so    *)
(* far by at most one row for each push whose making of room failed.       *)
THEOREM BacklogCorrect == QueueSpec => []BacklogBounded
<1>1. QueueInit => BacklogBounded
  <2> SUFFICES ASSUME QueueInit, NEW p \in Peers PROVE Count(p) <= most + overfull
    BY Zenon DEF BacklogBounded
  <2>1. RowsOf(p) = {}
    BY Zenon DEF QueueInit, RowsOf
  <2>2. Count(p) = 0
    BY <2>1, FS_EmptySet, Zenon DEF Count
  <2> QED
    BY <2>2 DEF QueueInit
<1>2. QueueInv /\ QueueInv' /\ BacklogBounded /\ [QueueNext]_queueVars => BacklogBounded'
  BY BacklogStep, Zenon
<1> QED
  BY QueueAlways, <1>1, <1>2, PTL DEF QueueSpec

(* A row that has left the table, popped, evicted or expired, also by a    *)
(* pop that a crash follows, never comes back, and nothing changes it: a   *)
(* restart or a push from inside send_fn neither revives it nor puts off   *)
(* its expiry.                                                             *)
GoneForGood ==
    [][\A n \in Nat : n < nextId =>
          \A r \in queue' : r.id = n => r \in queue]_queueVars

(* The number of a row that was not there before is nextId.                *)
THEOREM GoneForGoodCorrect == QueueSpec => GoneForGood
<1>1. ASSUME QueueInv, [QueueNext]_queueVars, NEW n \in Nat, n < nextId,
             NEW r \in queue', r.id = n
      PROVE  r \in queue
  <2>1. CASE \E p \in Peers : Push(p)
    <3>1. PICK p \in Peers : Push(p)
      BY <2>1, Zenon
    <3>2. PICK room \in MakeRoom(p) : queue' = room.table \cup {NewRow(p)} \/ queue' = room.table
      BY <3>1, Zenon DEF Push
    <3>3. room.table \subseteq queue
      BY <1>1, RoomShape, Zenon
    <3>4. NewRow(p).id = nextId /\ nextId \in Nat
      BY <1>1 DEF NewRow, QueueInv, QueueTypeOK
    <3>5. r # NewRow(p)
      BY <1>1, <3>4
    <3> QED
      BY <1>1, <3>2, <3>3, <3>5, Zenon
  <2>2. CASE queue' \subseteq queue
    BY <1>1, <2>2, Zenon
  <2> QED
    BY <1>1, <2>1, <2>2, OnlyPushAdds, Zenon
<1>2. QueueInv /\ [QueueNext]_queueVars =>
        [\A n \in Nat : n < nextId =>
            \A r \in queue' : r.id = n => r \in queue]_queueVars
  BY <1>1, Zenon
<1> QED
  BY QueueAlways, <1>2, PTL DEF QueueSpec, GoneForGood

-----------------------------------------------------------------------------
(* The message store.                                                      *)

(* Every row and every number that a caller got with success is at most    *)
(* lastId, which is what makes the next number fresh.                      *)
IdsBounded ==
    /\ \A r \in rows : r.id <= lastId
    /\ \A k \in known : k.ok => k.id <= lastId

(* destruct_after_seconds and destruct_at are set together.                *)
TimerPaired == \A m \in Messages : timer[m].after = 0 <=> timer[m].at = 0

IInv == TypeOK /\ IdsBounded /\ NumberMeansOneMessage /\ TimerPaired

(* An empty table, no timers.                                              *)
LEMMA InitIInv == Init => IInv
<1> SUFFICES ASSUME Init PROVE IInv
  BY Zenon
<1>1. [after |-> 0, at |-> 0] \in Timer
  BY Zenon DEF Timer
<1>2. TypeOK
  <2>1. open \in BOOLEAN
    BY Zenon DEF Init
  <2>2. timer \in [Messages -> Timer]
    BY <1>1, Zenon DEF Init
  <2> QED BY <2>1, <2>2 DEF Init, TypeOK
<1>3. TimerPaired
  BY Zenon DEF Init, TimerPaired
<1> QED
  BY <1>2, <1>3, Zenon DEF Init, IInv, IdsBounded, NumberMeansOneMessage

(* A step that only removes rows keeps the invariant.                      *)
LEMMA RemoveKeeps ==
    ASSUME IInv, rows' \subseteq rows,
           UNCHANGED <<timer, lastId, lastRowid, known, open, now>>
    PROVE  IInv'
  BY Zenon DEF IInv, TypeOK, IdsBounded, NumberMeansOneMessage, TimerPaired

(* A step that maps every row to one with its id and message keeps the     *)
(* invariant.                                                              *)
LEMMA ChangeKeeps ==
    ASSUME IInv, NEW id, NEW G \in [Row -> Row],
           \A r \in Row : G[r].id = r.id /\ G[r].msg = r.msg,
           rows' = {IF r.id = id THEN G[r] ELSE r : r \in rows},
           UNCHANGED <<timer, lastId, lastRowid, known, open, now>>
    PROVE  IInv'
<1>1. /\ rows' \subseteq Row
      /\ \A s \in rows' : \E r \in rows :
            /\ s = (IF r.id = id THEN G[r] ELSE r)
            /\ s.id = r.id /\ s.msg = r.msg
  BY DEF IInv, TypeOK
<1>2. TypeOK'
  BY <1>1, Zenon DEF IInv, TypeOK
<1>3. IdsBounded'
  BY <1>1, Zenon DEF IInv, IdsBounded
<1>4. NumberMeansOneMessage'
  <2>1. \A s, u \in rows' : s.id = u.id => s = u
    BY <1>1 DEF IInv, NumberMeansOneMessage
  <2>2. \A k \in known', s \in rows' : k.ok /\ k.id = s.id => k.msg = s.msg
    BY <1>1 DEF IInv, NumberMeansOneMessage
  <2> QED BY <2>1, <2>2, Zenon DEF NumberMeansOneMessage
<1>5. TimerPaired'
  BY Zenon DEF IInv, TimerPaired
<1> QED BY <1>2, <1>3, <1>4, <1>5, Zenon DEF IInv

(* A new row has a number no row and no caller has.                        *)
LEMMA InsertKeeps ==
    ASSUME IInv, NEW m \in Messages, Insert(m),
           known' \subseteq known \cup {[id |-> NextRowId, msg |-> m, ok |-> TRUE]},
           UNCHANGED <<timer, open, now>>
    PROVE  IInv'
<1> DEFINE new == [id |-> lastId + 1, msg |-> m, destruct_at |-> timer[m].at,
                   status |-> 0]
<1>1. /\ rows' = rows \cup {new} /\ lastId' = lastId + 1 /\ lastRowid' = lastId + 1
      /\ known' \subseteq known \cup {[id |-> lastId + 1, msg |-> m, ok |-> TRUE]}
  BY Zenon DEF Insert, NextRowId, Pending
<1>2. lastId \in Nat /\ timer[m].at \in Nat
  BY Zenon DEF IInv, TypeOK, Timer
<1>3. new \in Row
  BY <1>2 DEF Row
<1>4. TypeOK'
  <2>1. [id |-> lastId + 1, msg |-> m, ok |-> TRUE] \in [id : Nat, msg : Messages, ok : BOOLEAN]
    BY <1>2
  <2>2. known' \subseteq [id : Nat, msg : Messages, ok : BOOLEAN]
    BY <1>1, <2>1, Zenon DEF IInv, TypeOK
  <2>3. rows' \subseteq Row
    BY <1>1, <1>3, Zenon DEF IInv, TypeOK
  <2>4. lastId' \in Nat /\ lastRowid' \in Nat
    BY <1>1, <1>2
  <2> QED BY <2>2, <2>3, <2>4, Zenon DEF IInv, TypeOK
<1>5. IdsBounded'
  BY <1>1, <1>2 DEF IInv, TypeOK, IdsBounded, Row
<1>6. NumberMeansOneMessage'
  <2>1. /\ \A r \in rows : r.id # lastId + 1
        /\ \A k \in known : k.ok => k.id # lastId + 1
    BY <1>2 DEF IInv, TypeOK, IdsBounded, Row
  <2>2. new.id = lastId + 1 /\ new.msg = m
    BY Zenon
  <2> HIDE DEF new
  <2>3. \A r, s \in rows' : r.id = s.id => r = s
    BY <1>1, <2>1, <2>2, Zenon DEF IInv, NumberMeansOneMessage
  <2>4. \A k \in known', r \in rows' : k.ok /\ k.id = r.id => k.msg = r.msg
    BY <1>1, <2>1, <2>2 DEF IInv, NumberMeansOneMessage
  <2> QED BY <2>3, <2>4, Zenon DEF NumberMeansOneMessage
<1>7. TimerPaired'
  BY Zenon DEF IInv, TimerPaired
<1> QED BY <1>4, <1>5, <1>6, <1>7, Zenon DEF IInv

(* A number that comes with the return value -1.                           *)
LEMMA FailedInsertKeeps ==
    ASSUME IInv, NEW m \in Messages, UNCHANGED <<timer, rows, lastId, lastRowid, open, now>>,
           known' = known \cup {[id |-> lastRowid, msg |-> m, ok |-> FALSE]}
    PROVE  IInv'
<1> DEFINE new == [id |-> lastRowid, msg |-> m, ok |-> FALSE]
<1>1. new \in [id : Nat, msg : Messages, ok : BOOLEAN] /\ new.ok = FALSE
  BY DEF IInv, TypeOK
<1> HIDE DEF new
<1>2. \A k \in known' : k.ok => k \in known
  BY <1>1, Zenon DEF new
<1>3. TypeOK'
  BY <1>1, Zenon DEF IInv, TypeOK, new
<1>4. IdsBounded' /\ NumberMeansOneMessage' /\ TimerPaired'
  BY <1>2, Zenon DEF IInv, IdsBounded, NumberMeansOneMessage, TimerPaired
<1> QED
  BY <1>3, <1>4, Zenon DEF IInv

(* The UPDATE statements keep id and message of the row.                   *)
LEMMA ReceiptKeeps ==
    ASSUME IInv, NEW id, Receipt(id)
    PROVE  IInv'
<1>1. ASSUME NEW s \in 0..4, koe_db_message_update_status(id, s) PROVE IInv'
  <2> DEFINE G == [r \in Row |-> [r EXCEPT !.status = s]]
  <2>1. G \in [Row -> Row] /\ \A r \in Row : G[r].id = r.id /\ G[r].msg = r.msg
    BY Zenon DEF Row
  <2>2. rows' = {IF r.id = id THEN G[r] ELSE r : r \in rows}
    BY <1>1, Zenon DEF koe_db_message_update_status, IInv, TypeOK
  <2> HIDE DEF G
  <2> QED BY <1>1, <2>1, <2>2, ChangeKeeps, Zenon DEF koe_db_message_update_status
<1>2. Delivered \in 0..4 /\ Read \in 0..4 /\ \A s \in Statuses : s \in 0..4
  BY StoreAssumption DEF Delivered, Read
<1>3. CASE koe_db_message_delete(id)
  BY <1>3, RemoveKeeps, Zenon DEF koe_db_message_delete
<1> QED
  BY <1>1, <1>2, <1>3, Zenon
     DEF Receipt, koe_db_message_mark_delivered, koe_db_message_mark_read

(* Every operation on the store keeps the invariant.                       *)
LEMMA NextIInv == IInv /\ [Next]_vars => IInv'
<1> SUFFICES ASSUME IInv, [Next]_vars PROVE IInv'
  BY Zenon
<1>1. ASSUME NEW m \in Messages, NEW ttl \in TTLs, koe_message_set_destruct(m, ttl)
      PROVE  IInv'
  <2>1. [after |-> ttl, at |-> now + ttl] \in Timer /\ ttl # 0 /\ now + ttl # 0
    BY <1>1, StoreAssumption DEF koe_message_set_destruct, Timer, IInv, TypeOK
  <2>2. TypeOK'
    BY <1>1, <2>1, Zenon DEF koe_message_set_destruct, IInv, TypeOK
  <2>3. TimerPaired'
    BY <1>1, <2>1, Zenon DEF koe_message_set_destruct, IInv, TypeOK, TimerPaired
  <2> QED
    BY <1>1, <2>2, <2>3, Zenon DEF koe_message_set_destruct, IInv, IdsBounded, NumberMeansOneMessage
<1>2. ASSUME NEW m \in Messages, koe_db_message_insert(m) \/ koe_store_put(m)
      PROVE  IInv'
  BY <1>2, InsertKeeps, FailedInsertKeeps, Zenon DEF koe_db_message_insert, koe_store_put
<1>3. ASSUME NEW m \in Messages, koe_store_delete(m) PROVE IInv'
  BY <1>3, RemoveKeeps, Zenon DEF koe_store_delete, koe_db_message_delete
<1>4. ASSUME NEW k \in known, Receipt(k.id) PROVE IInv'
  BY <1>4, ReceiptKeeps, Zenon
<1>5. CASE koe_store_sweep_destruct \/ koe_store_wipe
  BY <1>5, RemoveKeeps, Zenon DEF koe_store_sweep_destruct, koe_store_wipe, koe_db_destruct_sweep
<1>6. CASE koe_store_open \/ koe_store_close \/ OtherTableInsert \/ Tick \/ UNCHANGED vars
  <2>1. open' \in BOOLEAN
    BY <1>6, Zenon
       DEF koe_store_open, koe_store_close, OtherTableInsert, Tick, vars, IInv, TypeOK
  <2>2. UNCHANGED <<timer, rows, lastId, known>>
    BY <1>6, Zenon DEF koe_store_open, koe_store_close, OtherTableInsert, Tick, vars
  <2>3. now' \in Nat \ {0}
    BY <1>6 DEF koe_store_open, koe_store_close, OtherTableInsert, Tick, vars, IInv, TypeOK
  <2>4. lastRowid' \in Nat
    BY <1>6 DEF koe_store_open, koe_store_close, OtherTableInsert, Tick, vars, IInv, TypeOK
  <2>5. TypeOK'
    BY <2>1, <2>2, <2>3, <2>4, Zenon DEF IInv, TypeOK
  <2> QED
    BY <2>2, <2>5, Zenon DEF IInv, IdsBounded, NumberMeansOneMessage, TimerPaired
<1> QED
  BY <1>1, <1>2, <1>3, <1>4, <1>5, <1>6, Zenon DEF Next

(* The invariant holds throughout.                                         *)
LEMMA AlwaysIInv == Spec => []IInv
  BY InitIInv, NextIInv, PTL DEF Spec

(* Every variable keeps its type.                                          *)
THEOREM TypeCorrect == Spec => []TypeOK
<1>1. IInv => TypeOK
  BY Zenon DEF IInv
<1> QED BY AlwaysIInv, <1>1, PTL

(* A row number handed to a caller with success never comes to mean        *)
(* another message: late receipts and deletes hit their own row or none,   *)
(* whatever inserts fail in between.                                       *)
THEOREM NumbersAreStable == Spec => []NumberMeansOneMessage
<1>1. IInv => NumberMeansOneMessage
  BY Zenon DEF IInv
<1> QED BY AlwaysIInv, <1>1, PTL

(* The sweep of the table and koe_message_should_destruct agree on every   *)
(* message whose timer was not changed after it was put.                   *)
THEOREM SweepCorrect == Spec => SweepMatchesMessage
<1>1. ASSUME IInv, koe_store_sweep_destruct, NEW r \in rows,
             r.destruct_at = timer[r.msg].at
      PROVE  r \notin rows' <=> koe_message_should_destruct(r.msg)
  <2>1. r.msg \in Messages /\ timer[r.msg].at \in Nat /\ now \in Nat
    BY <1>1, Zenon DEF IInv, TypeOK, Row, Timer
  <2>2. timer[r.msg].after = 0 <=> timer[r.msg].at = 0
    BY <1>1, <2>1, Zenon DEF IInv, TimerPaired
  <2>3. r \notin rows' <=> r.destruct_at > 0 /\ r.destruct_at <= now
    BY <1>1, Zenon DEF koe_store_sweep_destruct, koe_db_destruct_sweep, Due
  <2> QED
    BY <1>1, <2>1, <2>2, <2>3 DEF koe_message_should_destruct
<1>2. IInv /\ [Next]_vars =>
        [koe_store_sweep_destruct =>
            \A r \in rows : r.destruct_at = timer[r.msg].at =>
               (r \notin rows' <=> koe_message_should_destruct(r.msg))]_vars
  BY <1>1, Zenon
<1> QED
  BY AlwaysIInv, <1>2, PTL DEF Spec, SweepMatchesMessage

-----------------------------------------------------------------------------
(* The files of an account.  The properties speak of the time between      *)
(* operations.  To get there the invariant follows an operation by what    *)
(* each file is going to hold when the writes that are left have been      *)
(* done: EndsIn.                                                           *)

WholeContents == Contents \ {Torn}

(* The writes w include one to f.                                          *)
PendingIn(w, f) == \E i \in 1..Len(w) : w[i][1] = f

(* A file f that now holds "cur" holds a member of S after the writes w.   *)
EndsIn(w, f, cur, S) ==
    \/ ~PendingIn(w, f) /\ cur \in S
    \/ \E i \in 1..Len(w) :
          /\ w[i][1] = f /\ w[i][2] \in S
          /\ \A j \in 1..Len(w) : j > i => w[j][1] # f

(* The passphrases of which koe_account_t keeps a.                         *)
Opening(a) == {pass \in Passphrases : Kept[pass] = a}

GoodArchive(a) == \A f \in {"accounts", "identity"} : f \in DOMAIN a /\ Whole(a[f])

(* Every archive that the writes w make is a good one.                     *)
MakesGood(w) ==
    \A i \in 1..Len(w) :
       w[i][1] = "backup" /\ w[i][2] # Torn => GoodArchive(w[i][2])

(* What an operation leaves in memory agrees with what it leaves on disk,  *)
(* unless an import is under way or came before, and an import finds its   *)
(* archive as it was.                                                      *)
OpInv ==
    /\ ~op.busy => op.writes = << >> /\ op.extract = {}
    /\ op.busy /\ ~imported =>
          /\ loaded => EndsIn(op.writes, "accounts", files["accounts"], WholeContents)
          /\ op.account # NoAccount =>
                /\ loaded
                /\ EndsIn(op.writes, "identity", files["identity"], Opening(op.account))
    /\ op.busy /\ op.unlocked => EndsIn(op.writes, "secret", files["secret"], Contents)
    /\ op.extract # {} =>
          /\ imported
          /\ backup \in Archives /\ op.extract \subseteq DOMAIN backup
          /\ ~PendingIn(op.writes, "backup")

ArchiveInv ==
    sound => (backup \in Archives => GoodArchive(backup)) /\ MakesGood(op.writes)

(* With a sound export: before the first crash the identity and the        *)
(* archive are never both in pieces, not even during an operation; before  *)
(* the second, an operation that is let finish leaves one of them whole.   *)
RecoverInv ==
    sound =>
       /\ crashes = 0 =>
             /\ EndsIn(op.writes, "backup", backup, Archives)
             /\ backup \in Archives \/ files["identity"] \in WholeContents
             /\ PendingIn(op.writes, "identity") => backup \in Archives
             /\ PendingIn(op.writes, "backup") =>
                   files["identity"] \in WholeContents /\ ~PendingIn(op.writes, "identity")
       /\ crashes <= 1 =>
             \/ EndsIn(op.writes, "backup", backup, Archives)
             \/ EndsIn(op.writes, "identity", files["identity"], WholeContents)

DirInv == DirTypeOK /\ MemoryMatchesFiles /\ OpInv /\ ArchiveInv /\ RecoverInv

-----------------------------------------------------------------------------
(* Contents and archives *)

(* Whole contents and whole archives, as sets.                             *)
LEMMA WholeLemma ==
    /\ \A c \in Contents \cup {Absent} : Whole(c) <=> c \in WholeContents
    /\ \A a \in Archives \cup {Absent, Torn} : Whole(a) <=> a \in Archives
    /\ Absent \notin Contents /\ Passphrases \subseteq WholeContents
    /\ "registry" \in WholeContents
    /\ \A a : Opening(a) \subseteq WholeContents
BY DataDirAssumption, ArchiveAssumption, Zenon
   DEF DataDirAssumption, ArchiveAssumption, Whole, WholeContents, Contents, Opening

(* What an archive maps.                                                   *)
LEMMA ArchiveLemma ==
    ASSUME NEW a \in Archives
    PROVE  DOMAIN a \subseteq DirFiles /\ \A f \in DOMAIN a : a[f] \in Contents
BY Zenon DEF Archives

-----------------------------------------------------------------------------
(* What lists of writes do *)

(* Nothing to write leaves a file as it is.                                *)
LEMMA EndsEmpty ==
    ASSUME NEW f, NEW cur, NEW S
    PROVE  ~PendingIn(<< >>, f) /\ (EndsIn(<< >>, f, cur, S) <=> cur \in S)
BY DEF PendingIn, EndsIn

(* A single write, such as a removal, decides about its own file only.     *)
LEMMA EndsOne ==
    ASSUME NEW g, NEW c, NEW f, NEW cur, NEW S
    PROVE  LET w == << <<g, c>> >> IN
           /\ PendingIn(w, f) <=> f = g
           /\ c \in S => EndsIn(w, g, cur, S)
           /\ f # g /\ cur \in S => EndsIn(w, f, cur, S)
BY DEF PendingIn, EndsIn

(* A save leaves its content in its file and nothing in others.            *)
LEMMA EndsSave ==
    ASSUME NEW g, NEW c, NEW f, NEW cur, NEW S
    PROVE  /\ PendingIn(Save(g, c), f) <=> f = g
           /\ c \in S => EndsIn(Save(g, c), g, cur, S)
           /\ f # g /\ cur \in S => EndsIn(Save(g, c), f, cur, S)
BY DEF PendingIn, EndsIn, Save

(* koe_account_create writes the identity file and the registry.           *)
LEMMA EndsCreate ==
    ASSUME NEW c, NEW d, NEW f, NEW cur, NEW S
    PROVE  LET w == Save("identity", c) \o Save("accounts", d) IN
           /\ PendingIn(w, f) <=> f \in {"identity", "accounts"}
           /\ c \in S => EndsIn(w, "identity", cur, S)
           /\ d \in S => EndsIn(w, "accounts", cur, S)
           /\ f \notin {"identity", "accounts"} /\ cur \in S => EndsIn(w, f, cur, S)
<1> DEFINE u == Save("identity", c)
           v == Save("accounts", d)
           w == u \o v
           T == {"identity", "accounts"} \X {Torn, c, d}
<1>1. /\ Len(u) = 2 /\ u[1] = <<"identity", Torn>> /\ u[2] = <<"identity", c>>
      /\ Len(v) = 2 /\ v[1] = <<"accounts", Torn>> /\ v[2] = <<"accounts", d>>
      /\ u \in Seq(T) /\ v \in Seq(T)
  BY DEF Save
<1> HIDE DEF u, v, T
<1>2. /\ Len(w) = 4 /\ w[1] = <<"identity", Torn>> /\ w[2] = <<"identity", c>>
      /\ w[3] = <<"accounts", Torn>> /\ w[4] = <<"accounts", d>>
  <2>1. /\ Len(w) = Len(u) + Len(v)
        /\ \A i \in 1 .. Len(u) + Len(v) : w[i] =
              IF i <= Len(u) THEN u[i] ELSE v[i - Len(u)]
    BY <1>1, ConcatProperties, Zenon
  <2> HIDE DEF w
  <2> QED
    BY <1>1, <2>1
<1> HIDE DEF w
<1>3. /\ 1..Len(w) = {1, 2, 3, 4}
      /\ w[1][1] = "identity" /\ w[2][1] = "identity"
      /\ w[3][1] = "accounts" /\ w[4][1] = "accounts"
      /\ w[2][2] = c /\ w[4][2] = d
  BY <1>2
<1>4. /\ PendingIn(w, f) <=> f \in {"identity", "accounts"}
      /\ f \notin {"identity", "accounts"} /\ cur \in S => EndsIn(w, f, cur, S)
  BY <1>3, Zenon DEF PendingIn, EndsIn
<1>5. c \in S => EndsIn(w, "identity", cur, S)
  BY <1>3 DEF EndsIn
<1>6. d \in S => EndsIn(w, "accounts", cur, S)
  BY <1>3 DEF EndsIn
<1> QED
  BY <1>4, <1>5, <1>6, Zenon DEF u, v, w

(* The lists that the operations begin with are lists of writes.           *)
LEMMA WriteLists ==
    /\ \A f \in DirFiles, c \in Contents \cup {Absent} :
          << <<f, c>> >> \in Seq(Writes) /\ Save(f, c) \in Seq(Writes)
    /\ \A a \in Archives : << <<"backup", a>> >> \in Seq(Writes)
    /\ << >> \in Seq(Writes)
<1>1. ASSUME NEW x \in Writes, NEW y \in Writes
      PROVE  <<x>> \in Seq(Writes) /\ <<x, y>> \in Seq(Writes)
  OBVIOUS
<1>2. /\ \A f \in DirFiles, c \in Contents \cup {Absent} : <<f, c>> \in Writes
      /\ \A a \in Archives : <<"backup", a>> \in Writes
      /\ Torn \in Contents
  BY Zenon DEF Writes, Contents
<1> QED
  BY <1>1, <1>2 DEF Save

(* Only an export writes the archive; a good one keeps the archive good.   *)
LEMMA GoodLists ==
    /\ MakesGood(<< >>)
    /\ \A w : ~PendingIn(w, "backup") =>
          MakesGood(w) /\ \A cur, S : cur \in S => EndsIn(w, "backup", cur, S)
    /\ \A a : GoodArchive(a) => MakesGood(<< <<"backup", a>> >>)
<1>1. \A w : ~PendingIn(w, "backup") =>
         MakesGood(w) /\ \A cur, S : cur \in S => EndsIn(w, "backup", cur, S)
  BY Zenon DEF MakesGood, PendingIn, EndsIn
<1>2. MakesGood(<< >>) /\ \A a : GoodArchive(a) => MakesGood(<< <<"backup", a>> >>)
  BY DEF MakesGood
<1> QED
  BY <1>1, <1>2, Zenon

(* koe_account_create writes these two files and no others.                *)
LEMMA PendingCreate ==
    ASSUME NEW c, NEW d, NEW f
    PROVE  PendingIn(Save("identity", c) \o Save("accounts", d), f)
              <=> f \in {"identity", "accounts"}
BY EndsCreate, Zenon

(* Doing the first write does not change where a file ends.                *)
LEMMA EndsTail ==
    ASSUME NEW w \in Seq(Writes), w # << >>, NEW f, NEW cur, NEW S
    PROVE  /\ PendingIn(Tail(w), f) => PendingIn(w, f)
           /\ EndsIn(w, f, cur, S) =>
                 EndsIn(Tail(w), f, IF Head(w)[1] = f THEN Head(w)[2] ELSE cur, S)
           /\ MakesGood(w) => MakesGood(Tail(w))
<1>1. /\ Head(w) = w[1] /\ Len(w) \in Nat /\ Len(w) >= 1 /\ Len(Tail(w)) = Len(w) - 1
      /\ \A i \in 1..Len(Tail(w)) : Tail(w)[i] = w[i + 1] /\ i + 1 \in 1..Len(w)
  OBVIOUS
<1>2. PendingIn(Tail(w), f) => PendingIn(w, f)
  BY <1>1, Zenon DEF PendingIn
<1>3. MakesGood(w) => MakesGood(Tail(w))
  BY <1>1, Zenon DEF MakesGood
<1>4. ASSUME ~PendingIn(w, f), cur \in S
      PROVE  EndsIn(Tail(w), f, IF Head(w)[1] = f THEN Head(w)[2] ELSE cur, S)
  <2>1. Head(w)[1] # f
    BY <1>1, <1>4 DEF PendingIn
  <2> QED
    BY <1>2, <1>4, <2>1, Zenon DEF EndsIn
<1>5. ASSUME NEW i \in 1..Len(w), w[i][1] = f, w[i][2] \in S,
             \A j \in 1..Len(w) : j > i => w[j][1] # f
      PROVE  EndsIn(Tail(w), f, IF Head(w)[1] = f THEN Head(w)[2] ELSE cur, S)
  <2>1. CASE i = 1
    <3>1. ~PendingIn(Tail(w), f)
      BY <1>1, <1>5, <2>1 DEF PendingIn
    <3> QED
      BY <1>1, <1>5, <2>1, <3>1, Zenon DEF EndsIn
  <2>2. CASE i # 1
    <3>1. /\ i - 1 \in 1..Len(Tail(w)) /\ Tail(w)[i - 1] = w[i]
          /\ \A j \in 1..Len(Tail(w)) : j > i - 1 => Tail(w)[j][1] # f
      BY <1>1, <1>5, <2>2
    <3> QED
      BY <1>5, <3>1, Zenon DEF EndsIn
  <2> QED
    BY <2>1, <2>2, Zenon
<1> QED
  BY <1>2, <1>3, <1>4, <1>5, Zenon DEF EndsIn

-----------------------------------------------------------------------------
(* The steps *)

(* The invariant holds in an empty data directory.                         *)
LEMMA DirInitial == DirInit => DirInv
<1> SUFFICES ASSUME DirInit PROVE DirInv
  BY Zenon
<1>1. op = [busy |-> FALSE, writes |-> << >>, account |-> NoAccount, unlocked |-> FALSE,
            extract |-> {}]
  BY Zenon DEF DirInit, NoOperation, Operation
<1>2. DirTypeOK
  <2>1. op \in Operations
    BY <1>1, WriteLists, Zenon DEF Operations, Accounts
  <2>2. crashes \in 0..MaxCrashes
    BY DataDirAssumption DEF DirInit, DataDirAssumption
  <2>3. /\ nested \in BOOLEAN /\ inDir \in BOOLEAN /\ loaded \in BOOLEAN
        /\ unlocked \in BOOLEAN /\ imported \in BOOLEAN /\ sound \in BOOLEAN
        /\ account \in Accounts
    BY Zenon DEF DirInit, Accounts
  <2> QED
    BY <2>1, <2>2, <2>3, Zenon DEF DirInit, DirTypeOK
<1>3. MemoryMatchesFiles
  BY Zenon DEF DirInit, MemoryMatchesFiles
<1>4. OpInv
  BY <1>1, Zenon DEF OpInv
<1>5. ArchiveInv /\ RecoverInv
  BY Zenon DEF DirInit, ArchiveInv, RecoverInv
<1> QED
  BY <1>2, <1>3, <1>4, <1>5, Zenon DEF DirInv

(* What the invariant says between operations.                             *)
LEMMA Between ==
    ASSUME DirInv, ~op.busy
    PROVE  /\ op.writes = << >>
           /\ ~imported =>
                 /\ loaded => files["accounts"] \in WholeContents
                 /\ account # NoAccount => loaded /\ files["identity"] \in Opening(account)
           /\ unlocked => files["secret"] \in Contents
           /\ sound /\ crashes = 0 => backup \in Archives
           /\ sound /\ crashes <= 1 =>
                 backup \in Archives \/ files["identity"] \in WholeContents
<1>1. op.writes = << >>
  BY Zenon DEF DirInv, OpInv
<1>2. /\ files["accounts"] \in Contents \cup {Absent}
      /\ files["secret"] \in Contents \cup {Absent}
  BY Zenon DEF DirInv, DirTypeOK, DirFiles
<1>3. /\ ~imported /\ loaded => files["accounts"] \in WholeContents
      /\ unlocked => files["secret"] \in Contents
  BY <1>2, WholeLemma, Zenon DEF DirInv, MemoryMatchesFiles
<1>4. ~imported /\ account # NoAccount => loaded /\ files["identity"] \in Opening(account)
  BY DEF DirInv, MemoryMatchesFiles, Opens, Opening
<1>5. /\ sound /\ crashes = 0 => backup \in Archives
      /\ sound /\ crashes <= 1 =>
            backup \in Archives \/ files["identity"] \in WholeContents
  BY <1>1, EndsEmpty, Zenon DEF DirInv, RecoverInv
<1> QED
  BY <1>1, <1>3, <1>4, <1>5, Zenon

(* An operation other than an export may begin when its writes bring about *)
(* what it leaves in memory and do not leave the identity in pieces.       *)
LEMMA BeginStep ==
    ASSUME DirInv, NEW w \in Seq(Writes), NEW a \in Accounts,
           NEW u \in BOOLEAN, Begin(w, a, u),
           ~imported =>
              /\ loaded => EndsIn(w, "accounts", files["accounts"], WholeContents)
              /\ a # NoAccount =>
                    loaded /\ EndsIn(w, "identity", files["identity"], Opening(a)),
           u => EndsIn(w, "secret", files["secret"], Contents),
           files["identity"] \in WholeContents =>
              EndsIn(w, "identity", files["identity"], WholeContents),
           ~PendingIn(w, "backup")
    PROVE  DirInv'
<1>1. /\ op' = [busy |-> TRUE, writes |-> w, account |-> a, unlocked |-> u, extract |-> {}]
      /\ files' = files /\ backup' = backup /\ nested' = nested /\ inDir' = inDir
      /\ loaded' = loaded /\ account' = account /\ unlocked' = unlocked
      /\ crashes' = crashes /\ imported' = imported /\ sound' = sound
      /\ ~op.busy
  BY Zenon DEF Begin, Operation, disk, memory, histories
<1>2. /\ op'.busy = TRUE /\ op'.writes = w /\ op'.account = a /\ op'.unlocked = u
      /\ op'.extract = {}
  BY <1>1, Zenon
<1>3. DirTypeOK'
  <2>1. op' \in Operations
    BY <1>1, Zenon DEF Operations
  <2> QED
    BY <1>1, <2>1, Zenon DEF DirInv, DirTypeOK
<1>4. MemoryMatchesFiles'
  BY <1>2, Zenon DEF MemoryMatchesFiles
<1>5. OpInv'
  BY <1>1, <1>2, Zenon DEF OpInv
<1>6. MakesGood(w) /\ (backup \in Archives => EndsIn(w, "backup", backup, Archives))
  BY GoodLists, Zenon
<1>7. ArchiveInv'
  BY <1>1, <1>2, <1>6, Zenon DEF DirInv, ArchiveInv
<1>8. RecoverInv'
  BY <1>1, <1>2, <1>6, Between, Zenon DEF RecoverInv
<1> QED
  BY <1>3, <1>4, <1>5, <1>7, <1>8, Zenon DEF DirInv

(* The file of koe_travel_mode_enable and of the secret partition: neither *)
(* the account nor the archive is touched.                                 *)
LEMMA OtherFileStep ==
    ASSUME DirInv, NEW g \in {"travel", "secret"}, NEW c \in Contents \cup {Absent},
           NEW u \in BOOLEAN, NEW w \in {<< >>, << <<g, c>> >>, Save(g, c)},
           Begin(w, account, u),
           u /\ g = "secret" => c # Absent /\ (w = << >> => files["secret"] # Absent),
           u /\ g # "secret" => unlocked
    PROVE  DirInv'
<1>0. ~op.busy
  BY Zenon DEF Begin
<1>1. w \in Seq(Writes)
  BY WriteLists, Zenon DEF DirFiles
<1>2. ASSUME NEW f, f # g
      PROVE  ~PendingIn(w, f) /\ \A cur, S : cur \in S => EndsIn(w, f, cur, S)
  <2>1. CASE w = << >>
    BY <2>1, EndsEmpty, Zenon
  <2>2. CASE w = << <<g, c>> >>
    BY <1>2, <2>2, EndsOne, Zenon
  <2>3. CASE w = Save(g, c)
    BY <1>2, <2>3, EndsSave, Zenon
  <2> QED
    BY <2>1, <2>2, <2>3, Zenon
<1>3. g # "identity" /\ g # "accounts" /\ g # "backup"
  BY Zenon
<1>4. u => EndsIn(w, "secret", files["secret"], Contents)
  <2>1. files["secret"] \in Contents \cup {Absent}
    BY Zenon DEF DirInv, DirTypeOK, DirFiles
  <2>2. CASE u /\ g = "secret"
    BY <2>1, <2>2, EndsEmpty, EndsOne, EndsSave
  <2>3. CASE u /\ g # "secret"
    BY <2>3, <1>0, <1>2, Between, Zenon
  <2> QED
    BY <2>2, <2>3, Zenon
<1>5. account \in Accounts
  BY Zenon DEF DirInv, DirTypeOK
<1>6. /\ ~imported =>
            /\ loaded => EndsIn(w, "accounts", files["accounts"], WholeContents)
            /\ account # NoAccount =>
                  loaded /\ EndsIn(w, "identity", files["identity"], Opening(account))
      /\ files["identity"] \in WholeContents =>
            EndsIn(w, "identity", files["identity"], WholeContents)
      /\ ~PendingIn(w, "backup")
  <2>1. /\ ~PendingIn(w, "backup")
        /\ \A cur, S : cur \in S => /\ EndsIn(w, "identity", cur, S)
                                    /\ EndsIn(w, "accounts", cur, S)
    BY <1>2, <1>3, Zenon
  <2> QED
    BY <1>0, <2>1, Between, Zenon
<1> QED
  BY <1>1, <1>4, <1>5, <1>6, BeginStep, Zenon

(* Travel mode and the secret partition.                                   *)
LEMMA GhostStep ==
    ASSUME DirInv, \/ \E pin \in Pins : koe_travel_mode_enable(pin) \/ koe_travel_mode_disable(pin)
                 \/ koe_secret_chat_unlock \/ koe_secret_chat_lock \/ koe_secret_chat_wipe
    PROVE  DirInv'
<1>0. unlocked \in BOOLEAN /\ Pins \subseteq Contents /\ "salt" \in Contents
      /\ Absent \notin Contents
  BY WholeLemma, Zenon DEF DirInv, DirTypeOK, Contents
<1>1. ASSUME NEW pin \in Pins, koe_travel_mode_enable(pin) PROVE DirInv'
  BY <1>0, <1>1, OtherFileStep, Zenon DEF koe_travel_mode_enable
<1>2. ASSUME NEW pin \in Pins, koe_travel_mode_disable(pin) PROVE DirInv'
  BY <1>0, <1>2, OtherFileStep, Zenon DEF koe_travel_mode_disable
<1>3. CASE koe_secret_chat_unlock
  <2>1. CASE files["secret"] = Absent
    <3>1. Begin(Save("secret", "salt"), account, TRUE) /\ Save("secret", "salt") # << >>
      BY <1>3, <2>1, Zenon DEF koe_secret_chat_unlock, Save
    <3> QED
      BY <1>0, <3>1, OtherFileStep, Zenon
  <2>2. CASE files["secret"] # Absent
    <3>1. Begin(<< >>, account, TRUE)
      BY <1>3, <2>2, Zenon DEF koe_secret_chat_unlock
    <3> QED
      BY <1>0, <2>2, <3>1, OtherFileStep, Zenon
  <2> QED
    BY <2>1, <2>2, Zenon
<1>4. CASE koe_secret_chat_lock
  BY <1>0, <1>4, OtherFileStep, Zenon DEF koe_secret_chat_lock
<1>5. CASE koe_secret_chat_wipe
  <2>1. \E w \in {<< >>, Save("secret", Absent)} : Begin(w, account, FALSE)
    BY <1>5, Zenon DEF koe_secret_chat_wipe, Save
  <2> QED
    BY <2>1, OtherFileStep, Zenon
<1> QED
  BY <1>1, <1>2, <1>3, <1>4, <1>5, Zenon

(* koe_account_rename and koe_account_change_passphrase.                   *)
LEMMA AccountStep ==
    ASSUME DirInv, \/ koe_account_rename
                 \/ \E old, new \in Passphrases : koe_account_change_passphrase(old, new)
    PROVE  DirInv'
<1>0. /\ unlocked \in BOOLEAN /\ account \in Accounts
      /\ "registry" \in WholeContents /\ "registry" \in Contents
      /\ Passphrases \subseteq WholeContents /\ Passphrases \subseteq Contents
      /\ {"identity", "accounts", "secret"} \subseteq DirFiles
  BY WholeLemma, Zenon DEF DirInv, DirTypeOK, Contents, DirFiles
<1>1. CASE koe_account_rename
  <2> DEFINE w == Save("accounts", "registry")
  <2>1. Begin(w, account, unlocked) /\ ~op.busy
    BY <1>1, Zenon DEF koe_account_rename, koe_account_registry_save, Begin
  <2>2. w \in Seq(Writes) /\ ~PendingIn(w, "backup")
    BY <1>0, WriteLists, EndsSave, Zenon
  <2>3. \A cur, S : /\ "registry" \in S => EndsIn(w, "accounts", cur, S)
                    /\ cur \in S => EndsIn(w, "identity", cur, S) /\ EndsIn(w, "secret", cur, S)
    BY EndsSave, Zenon
  <2> HIDE DEF w
  <2> QED
    BY <1>0, <2>1, <2>2, <2>3, Between, BeginStep, Zenon
<1>2. ASSUME NEW old \in Passphrases, NEW new \in Passphrases,
             koe_account_change_passphrase(old, new)
      PROVE  DirInv'
  <2> DEFINE w == Save("identity", new)
  <2>1. Begin(w, Kept[new], unlocked) /\ ~op.busy /\ account # NoAccount
    BY <1>2, Zenon DEF koe_account_change_passphrase, koe_identity_save, Begin
  <2>2. w \in Seq(Writes) /\ ~PendingIn(w, "backup")
    BY <1>0, WriteLists, EndsSave, Zenon
  <2>3. \A cur, S : /\ new \in S => EndsIn(w, "identity", cur, S)
                    /\ cur \in S => EndsIn(w, "accounts", cur, S) /\ EndsIn(w, "secret", cur, S)
    BY EndsSave, Zenon
  <2>4. new \in Opening(Kept[new]) /\ Kept[new] \in Accounts
    BY Zenon DEF Opening, Accounts
  <2> HIDE DEF w
  <2> QED
    BY <1>0, <2>1, <2>2, <2>3, <2>4, Between, BeginStep, Zenon
<1> QED
  BY <1>1, <1>2, Zenon

(* koe_backup_export: an account that is open, with no import behind it,   *)
(* has whole files; other exports make no promise.                         *)
LEMMA ExportStep ==
    ASSUME DirInv, koe_backup_export
    PROVE  DirInv'
<1>1. PICK skipped \in SUBSET Archived :
         /\ ~op.busy /\ backup' = Torn
         /\ op' = [busy |-> TRUE,
                   writes |-> << <<"backup", [f \in Archived \ skipped |-> files[f]]>> >>,
                   account |-> account, unlocked |-> unlocked, extract |-> {}]
         /\ sound' = (account # NoAccount /\ ~imported /\ skipped = {})
         /\ files' = files /\ nested' = nested /\ inDir' = inDir
         /\ loaded' = loaded /\ account' = account /\ unlocked' = unlocked
         /\ crashes' = crashes /\ imported' = imported
  BY Zenon DEF koe_backup_export, Operation, memory
<1> DEFINE a == [f \in Archived \ skipped |-> files[f]]
           w == << <<"backup", a>> >>
<1>2. /\ unlocked \in BOOLEAN /\ account \in Accounts
      /\ \A f \in DirFiles : files[f] \in Contents \cup {Absent}
  BY Zenon DEF DirInv, DirTypeOK
<1>3. a \in Archives
  <2>1. /\ Archived \ skipped \in SUBSET DirFiles
        /\ \A f \in Archived \ skipped : files[f] \in Contents
    BY <1>2, Zenon DEF Archived
  <2> DEFINE D == Archived \ skipped
  <2>2. [f \in D |-> files[f]] \in [D -> Contents]
    BY <2>1, Zenon
  <2> HIDE DEF D
  <2>3. D \in SUBSET DirFiles => [f \in D |-> files[f]] \in Archives
    BY <2>2, Zenon DEF Archives
  <2> QED
    BY <2>1, <2>3, Zenon DEF D
<1>4. sound' => files["identity"] \in WholeContents /\ files["accounts"] \in WholeContents
  BY <1>1, Between, WholeLemma, Zenon
<1>5. sound' => GoodArchive(a)
  <2>1. ASSUME sound', NEW f \in {"accounts", "identity"}
        PROVE  f \in Archived \ skipped /\ Whole(files[f])
    <3>1. f \in DirFiles /\ files[f] \in WholeContents /\ skipped = {}
      BY <1>1, <1>4, <2>1, Zenon DEF DirFiles
    <3>2. files[f] # Absent
      BY <3>1, WholeLemma, Zenon DEF WholeContents
    <3> QED
      BY <1>2, <3>1, <3>2, WholeLemma, Zenon DEF Archived
  <2> QED
    BY <2>1, Zenon DEF GoodArchive
<1>6. op' = [busy |-> TRUE, writes |-> w, account |-> account, unlocked |-> unlocked,
             extract |-> {}]
  BY <1>1, Zenon
<1> HIDE DEF a
<1>7. w \in Seq(Writes) /\ ~PendingIn(w, "identity") /\ (sound' => MakesGood(w))
  BY <1>3, <1>5, WriteLists, GoodLists, EndsOne, Zenon
<1>8. \A cur, S : /\ a \in S => EndsIn(w, "backup", cur, S)
                  /\ cur \in S => /\ EndsIn(w, "identity", cur, S)
                                  /\ EndsIn(w, "accounts", cur, S)
                                  /\ EndsIn(w, "secret", cur, S)
  BY EndsOne, Zenon
<1> HIDE DEF w
<1>9. /\ op'.busy = TRUE /\ op'.writes = w /\ op'.account = account
      /\ op'.unlocked = unlocked /\ op'.extract = {}
  BY <1>6, Zenon
<1>10. DirTypeOK'
  <2>1. op' \in Operations
    BY <1>2, <1>6, <1>7, Zenon DEF Operations
  <2>2. sound' \in BOOLEAN
    BY <1>1, Zenon
  <2> QED
    BY <1>1, <2>1, <2>2, Zenon DEF DirInv, DirTypeOK
<1>11. MemoryMatchesFiles'
  BY <1>9, Zenon DEF MemoryMatchesFiles
<1>12. OpInv'
  BY <1>1, <1>8, <1>9, Between, Zenon DEF OpInv
<1>13. ArchiveInv'
  BY <1>1, <1>7, <1>9, ArchiveAssumption, Zenon DEF ArchiveInv, ArchiveAssumption
<1>14. RecoverInv'
  BY <1>1, <1>3, <1>4, <1>7, <1>8, <1>9, Zenon DEF RecoverInv
<1> QED
  BY <1>10, <1>11, <1>12, <1>13, <1>14, Zenon DEF DirInv

(* koe_account_create gives up an identity file that no registry names;    *)
(* the new one is whole when the registry is.                              *)
LEMMA CreateStep ==
    ASSUME DirInv, NEW pass \in Passphrases, koe_account_create(pass)
    PROVE  DirInv'
<1> DEFINE w == Save("identity", pass) \o Save("accounts", "registry")
<1>1. /\ op' = [busy |-> TRUE, writes |-> w, account |-> Kept[pass], unlocked |-> unlocked,
                extract |-> {}]
      /\ files' = [files EXCEPT !["identity"] = Absent] /\ nested' = TRUE
      /\ backup' = backup /\ inDir' = inDir
      /\ loaded' = TRUE /\ account' = account /\ unlocked' = unlocked /\ crashes' = crashes
      /\ imported' = FALSE /\ sound' = sound
      /\ ~op.busy
  BY Zenon DEF koe_account_create, koe_identity_save, koe_account_registry_save, Operation
<1>2. w \in Seq(Writes)
  <2>1. Save("identity", pass) \in Seq(Writes) /\ Save("accounts", "registry") \in Seq(Writes)
    BY WriteLists, Zenon DEF DirFiles, Contents
  <2>2. ASSUME NEW u \in Seq(Writes), NEW v \in Seq(Writes) PROVE u \o v \in Seq(Writes)
    BY ConcatProperties, Zenon
  <2> QED
    BY <2>1, <2>2, Zenon
<1>3. MakesGood(w)
  <2>1. ~PendingIn(w, "backup")
    BY PendingCreate
  <2> HIDE DEF w
  <2> QED
    BY <2>1, Zenon DEF MakesGood, PendingIn
<1>4. /\ PendingIn(w, "identity") /\ ~PendingIn(w, "backup")
      /\ \A cur, S : /\ pass \in S => EndsIn(w, "identity", cur, S)
                     /\ "registry" \in S => EndsIn(w, "accounts", cur, S)
                     /\ cur \in S => EndsIn(w, "secret", cur, S) /\ EndsIn(w, "backup", cur, S)
  <2>1. ASSUME NEW cur, NEW S
        PROVE  /\ pass \in S => EndsIn(w, "identity", cur, S)
               /\ "registry" \in S => EndsIn(w, "accounts", cur, S)
               /\ cur \in S => EndsIn(w, "secret", cur, S)
    BY EndsCreate
  <2>2. ASSUME NEW cur, NEW S, cur \in S PROVE EndsIn(w, "backup", cur, S)
    BY <2>2, EndsCreate
  <2>3. PendingIn(w, "identity") /\ ~PendingIn(w, "backup")
    BY PendingCreate
  <2> HIDE DEF w
  <2> QED
    BY <2>1, <2>2, <2>3, Zenon
<1> HIDE DEF w
<1>5. /\ op'.busy = TRUE /\ op'.writes = w /\ op'.account = Kept[pass]
      /\ op'.unlocked = unlocked /\ op'.extract = {}
  BY <1>1, Zenon
<1>6. DirTypeOK'
  <2>1. unlocked \in BOOLEAN /\ files \in [DirFiles -> Contents \cup {Absent}]
    BY Zenon DEF DirInv, DirTypeOK
  <2>2. op' \in Operations
    BY <1>1, <1>2, <2>1, Zenon DEF Operations, Accounts
  <2>3. files' \in [DirFiles -> Contents \cup {Absent}]
    BY <1>1, <2>1, Zenon
  <2> QED
    BY <1>1, <2>2, <2>3, Zenon DEF DirInv, DirTypeOK
<1>7. MemoryMatchesFiles'
  BY <1>5, Zenon DEF MemoryMatchesFiles
<1>8. OpInv'
  <2>1. "registry" \in WholeContents /\ pass \in Opening(Kept[pass])
    BY WholeLemma, Zenon DEF Opening
  <2>2. unlocked => files'["secret"] \in Contents
    BY <1>1, Between, Zenon DEF DirInv, DirTypeOK, DirFiles
  <2> QED
    BY <1>1, <1>4, <1>5, <2>1, <2>2, Zenon DEF OpInv
<1>9. ArchiveInv'
  BY <1>1, <1>3, <1>5, Zenon DEF DirInv, ArchiveInv
<1>10. RecoverInv'
  <2>1. pass \in WholeContents
    BY WholeLemma, Zenon
  <2> QED
    BY <1>1, <1>4, <1>5, <2>1, Between, Zenon DEF RecoverInv
<1> QED
  BY <1>6, <1>7, <1>8, <1>9, <1>10, Zenon DEF DirInv

(* Log-in and log-out change memory only.                                  *)
LEMMA LoginStep ==
    ASSUME DirInv, \/ \E pass \in Passphrases : koe_account_activate(pass)
                 \/ koe_account_deactivate
    PROVE  DirInv'
<1>1. /\ files' = files /\ backup' = backup /\ nested' = nested /\ inDir' = inDir
      /\ unlocked' = unlocked /\ op' = op /\ crashes' = crashes /\ sound' = sound
      /\ ~op.busy
  BY Zenon DEF koe_account_activate, koe_account_deactivate, disk, histories
<1>2. /\ account' \in Accounts /\ loaded' \in BOOLEAN /\ imported' \in BOOLEAN
      /\ ~imported' => /\ loaded' => Whole(files["accounts"])
                       /\ account' # NoAccount =>
                             loaded' /\ \E pass \in Passphrases :
                                          Opens(pass) /\ Kept[pass] = account'
  <2>1. loaded \in BOOLEAN /\ imported \in BOOLEAN
        /\ (loaded /\ ~imported => Whole(files["accounts"]))
    BY <1>1, Zenon DEF DirInv, DirTypeOK, MemoryMatchesFiles
  <2>2. ASSUME NEW pass \in Passphrases, koe_account_activate(pass)
        PROVE  /\ account' = Kept[pass] /\ loaded' = TRUE /\ imported' \in BOOLEAN
               /\ Opens(pass) /\ (~imported' => Whole(files["accounts"]))
    <3>1. /\ account' = Kept[pass] /\ loaded' = TRUE /\ Opens(pass)
          /\ \/ loaded /\ imported' = imported
             \/ Whole(files["accounts"]) /\ imported' = FALSE
      BY <2>2, Zenon DEF koe_account_activate
    <3>2. CASE loaded /\ imported' = imported
      BY <2>1, <3>1, <3>2, Zenon
    <3>3. CASE Whole(files["accounts"]) /\ imported' = FALSE
      BY <3>1, <3>3, Zenon
    <3> QED
      BY <3>1, <3>2, <3>3, Zenon
  <2>3. ASSUME NEW pass \in Passphrases PROVE Kept[pass] \in Accounts
    BY Zenon DEF Accounts
  <2>4. CASE koe_account_deactivate
    <3>1. account' = NoAccount /\ loaded' = loaded /\ imported' = imported
      BY <2>4, Zenon DEF koe_account_deactivate, histories
    <3>2. NoAccount \in Accounts
      BY Zenon DEF Accounts
    <3> QED
      BY <2>1, <3>1, <3>2, Zenon
  <2> QED
    BY <2>2, <2>3, <2>4, Zenon
<1>3. DirTypeOK'
  BY <1>1, <1>2, Zenon DEF DirInv, DirTypeOK
<1>4. MemoryMatchesFiles'
  <2>1. unlocked => files["secret"] # Absent
    BY <1>1, Zenon DEF DirInv, MemoryMatchesFiles
  <2> QED
    BY <1>1, <1>2, <2>1, Zenon DEF MemoryMatchesFiles, Opens
<1>5. OpInv'
  <2>1. op.writes = << >> /\ op.extract = {}
    BY <1>1, Zenon DEF DirInv, OpInv
  <2> QED
    BY <1>1, <2>1, Zenon DEF OpInv
<1>6. ArchiveInv' /\ RecoverInv'
  BY <1>1, Zenon DEF DirInv, ArchiveInv, RecoverInv
<1> QED
  BY <1>3, <1>4, <1>5, <1>6, Zenon DEF DirInv

(* koe_backup_import has nothing to write yet.                             *)
LEMMA ImportStep ==
    ASSUME DirInv, koe_backup_import
    PROVE  DirInv'
<1>1. /\ op' = [busy |-> TRUE, writes |-> << >>, account |-> account, unlocked |-> unlocked,
                extract |-> DOMAIN backup]
      /\ files' = files /\ backup' = backup /\ nested' = nested /\ inDir' = inDir
      /\ loaded' = loaded /\ account' = account /\ unlocked' = unlocked
      /\ crashes' = crashes /\ imported' = TRUE /\ sound' = sound
      /\ ~op.busy /\ Whole(backup)
  BY Zenon DEF koe_backup_import, Operation, disk, memory
<1>2. backup \in Archives /\ DOMAIN backup \subseteq DirFiles
  <2>1. backup \in Archives
    BY <1>1, WholeLemma, Zenon DEF DirInv, DirTypeOK
  <2> QED
    BY <2>1, ArchiveLemma, Zenon
<1>3. /\ op'.busy = TRUE /\ op'.writes = << >> /\ op'.account = account
      /\ op'.unlocked = unlocked /\ op'.extract = DOMAIN backup
  BY <1>1, Zenon
<1>4. DirTypeOK'
  <2>1. op' \in Operations
    BY <1>1, <1>2, WriteLists, Zenon DEF DirInv, DirTypeOK, Operations
  <2> QED
    BY <1>1, <2>1, Zenon DEF DirInv, DirTypeOK
<1>5. MemoryMatchesFiles'
  BY <1>3, Zenon DEF MemoryMatchesFiles
<1>6. OpInv'
  BY <1>1, <1>2, <1>3, Between, EndsEmpty, Zenon DEF OpInv
<1>7. ArchiveInv'
  BY <1>1, <1>3, GoodLists, Zenon DEF DirInv, ArchiveInv
<1>8. RecoverInv'
  BY <1>1, <1>2, <1>3, EndsEmpty, Zenon DEF RecoverInv
<1> QED
  BY <1>4, <1>5, <1>6, <1>7, <1>8, Zenon DEF DirInv

(* The next file of an import; the archive stays.                          *)
LEMMA ExtractStep ==
    ASSUME DirInv, NEW f \in DirFiles, ExtractFile(f)
    PROVE  DirInv'
<1> DEFINE w == IF f = "identity" /\ ~nested THEN << >> ELSE Save(f, backup[f])
<1>1. /\ op' = [op EXCEPT !.extract = @ \ {f}, !.writes = w]
      /\ files' = files /\ backup' = backup /\ nested' = nested /\ inDir' = inDir
      /\ loaded' = loaded /\ account' = account /\ unlocked' = unlocked
      /\ crashes' = crashes /\ imported' = imported /\ sound' = sound
      /\ op.busy /\ op.writes = << >> /\ f \in op.extract
  BY Zenon DEF ExtractFile, disk, memory, histories
<1>2. /\ imported /\ backup \in Archives /\ op.extract \subseteq DOMAIN backup
      /\ f \in DOMAIN backup /\ backup[f] \in Contents /\ f # "backup"
  <2>1. imported /\ backup \in Archives /\ op.extract \subseteq DOMAIN backup
    BY <1>1, Zenon DEF DirInv, OpInv
  <2> QED
    BY <1>1, <2>1, ArchiveLemma, Zenon DEF DirFiles
<1>3. w \in Seq(Writes) /\ ~PendingIn(w, "backup")
  BY <1>2, WriteLists, EndsSave, EndsEmpty, Zenon
<1>4. \A cur : cur \in Contents => EndsIn(w, "secret", cur, Contents)
  BY <1>2, EndsSave, EndsEmpty, Zenon
<1>5. MakesGood(w) /\ EndsIn(w, "backup", backup, Archives)
  BY <1>2, <1>3, GoodLists, Zenon
<1> HIDE DEF w
<1>6. /\ op \in Operations
      /\ op'.busy = op.busy /\ op'.writes = w /\ op'.account = op.account
      /\ op'.unlocked = op.unlocked /\ op'.extract = op.extract \ {f}
  BY <1>1, Zenon DEF DirInv, DirTypeOK, Operations
<1>7. DirTypeOK'
  <2>1. op' \in Operations
    BY <1>1, <1>3, <1>6, Zenon DEF Operations
  <2> QED
    BY <1>1, <2>1, Zenon DEF DirInv, DirTypeOK
<1>8. MemoryMatchesFiles'
  BY <1>1, <1>6, Zenon DEF MemoryMatchesFiles
<1>9. OpInv'
  <2>1. op.unlocked => files["secret"] \in Contents
    BY <1>1, EndsEmpty, Zenon DEF DirInv, OpInv
  <2> QED
    BY <1>1, <1>2, <1>3, <1>4, <1>6, <2>1, Zenon DEF OpInv
<1>10. ArchiveInv'
  BY <1>1, <1>5, <1>6, Zenon DEF DirInv, ArchiveInv
<1>11. RecoverInv'
  BY <1>1, <1>2, <1>3, <1>5, <1>6, Zenon DEF RecoverInv
<1> QED
  BY <1>7, <1>8, <1>9, <1>10, <1>11, Zenon DEF DirInv

(* One write: where each file ends does not change, and the archive and    *)
(* the identity are not in pieces together before the first crash.         *)
LEMMA WriteStep ==
    ASSUME DirInv, Write
    PROVE  DirInv'
<1> DEFINE w == op.writes
           g == Head(w)[1]
           c == Head(w)[2]
<1>1. /\ op' = [op EXCEPT !.writes = Tail(w)]
      /\ nested' = nested /\ inDir' = inDir
      /\ loaded' = loaded /\ account' = account /\ unlocked' = unlocked
      /\ crashes' = crashes /\ imported' = imported /\ sound' = sound
      /\ op.busy /\ w # << >>
  BY Zenon DEF Write, memory, histories
<1>2. /\ op \in Operations /\ w \in Seq(Writes) /\ Tail(w) \in Seq(Writes)
      /\ Head(w) \in Writes
      /\ op'.busy = op.busy /\ op'.writes = Tail(w) /\ op'.account = op.account
      /\ op'.unlocked = op.unlocked /\ op'.extract = op.extract
  <2>1. op \in Operations
    BY Zenon DEF DirInv, DirTypeOK
  <2>2. w \in Seq(Writes)
    BY <2>1, Zenon DEF Operations
  <2>3. /\ op'.busy = op.busy /\ op'.writes = Tail(w) /\ op'.account = op.account
        /\ op'.unlocked = op.unlocked /\ op'.extract = op.extract
    BY <1>1, <2>1, Zenon DEF Operations
  <2> HIDE DEF w
  <2>4. Tail(w) \in Seq(Writes) /\ Head(w) \in Writes
    BY <1>1, <2>2, HeadTailProperties, Zenon
  <2> QED
    BY <2>1, <2>2, <2>3, <2>4, Zenon
<1>3. /\ g \in DirFiles => c \in Contents \cup {Absent}
      /\ g \notin DirFiles => g = "backup" /\ c \in Archives \cup {Torn}
      /\ "backup" \notin DirFiles
  BY <1>2, Zenon DEF Writes, DirFiles
<1>4. /\ files \in [DirFiles -> Contents \cup {Absent}]
      /\ \A f \in DirFiles : files'[f] = IF g = f THEN c ELSE files[f]
      /\ files' \in [DirFiles -> Contents \cup {Absent}]
      /\ backup' = IF g = "backup" THEN c ELSE backup
  <2>1. files \in [DirFiles -> Contents \cup {Absent}]
    BY Zenon DEF DirInv, DirTypeOK
  <2>2. CASE g = "backup"
    BY <1>3, <2>1, <2>2, Zenon DEF Write
  <2>3. CASE g # "backup"
    BY <1>3, <2>1, <2>3, Zenon DEF Write
  <2> QED
    BY <2>2, <2>3, Zenon
<1>5. /\ PendingIn(w, g)
      /\ \A f : PendingIn(Tail(w), f) => PendingIn(w, f)
      /\ \A f \in DirFiles : \A S :
            EndsIn(w, f, files[f], S) => EndsIn(Tail(w), f, files'[f], S)
      /\ \A S : EndsIn(w, "backup", backup, S) => EndsIn(Tail(w), "backup", backup', S)
      /\ sound => MakesGood(Tail(w))
  <2>1. PendingIn(w, g)
    BY <1>1, <1>2 DEF PendingIn
  <2>2. sound => MakesGood(w)
    BY Zenon DEF DirInv, ArchiveInv
  <2> HIDE DEF w
  <2>3. \A f : PendingIn(Tail(w), f) => PendingIn(w, f)
    BY <1>1, <1>2, EndsTail, Zenon
  <2>4. sound => MakesGood(Tail(w))
    BY <1>1, <1>2, <2>2, EndsTail, Zenon
  <2>5. ASSUME NEW f \in DirFiles, NEW S, EndsIn(w, f, files[f], S)
        PROVE  EndsIn(Tail(w), f, files'[f], S)
    <3>1. files'[f] = IF Head(w)[1] = f THEN Head(w)[2] ELSE files[f]
      BY <1>4, Zenon
    <3>2. EndsIn(Tail(w), f, IF Head(w)[1] = f THEN Head(w)[2] ELSE files[f], S)
      BY <1>1, <1>2, <2>5, EndsTail, Zenon
    <3> QED
      BY <3>1, <3>2, Zenon
  <2>6. ASSUME NEW S, EndsIn(w, "backup", backup, S)
        PROVE  EndsIn(Tail(w), "backup", backup', S)
    BY <1>1, <1>2, <1>4, <2>6, EndsTail, Zenon
  <2> QED
    BY <2>1, <2>3, <2>4, <2>5, <2>6, Zenon
<1>6. sound /\ g = "backup" /\ c # Torn => c \in Archives /\ GoodArchive(c)
  <2>1. (sound => MakesGood(w)) /\ 1 \in 1..Len(w) /\ Head(w) = w[1]
    BY <1>1, <1>2 DEF DirInv, ArchiveInv
  <2> QED
    BY <1>3, <2>1, Zenon DEF MakesGood
<1>7. DirTypeOK'
  <2>1. op' \in Operations
    BY <1>1, <1>2, Zenon DEF Operations
  <2>2. backup' \in Archives \cup {Absent, Torn}
    BY <1>3, <1>4, Zenon DEF DirInv, DirTypeOK
  <2> QED
    BY <1>1, <1>4, <2>1, <2>2, Zenon DEF DirInv, DirTypeOK
<1>8. MemoryMatchesFiles'
  BY <1>1, <1>2, Zenon DEF MemoryMatchesFiles
<1>9. OpInv'
  <2>1. {"identity", "accounts", "secret"} \subseteq DirFiles
    BY Zenon DEF DirFiles
  <2>2. op.extract # {} => backup' = backup /\ ~PendingIn(Tail(w), "backup")
    BY <1>4, <1>5, Zenon DEF DirInv, OpInv
  <2>3. ~imported =>
           /\ loaded => EndsIn(Tail(w), "accounts", files'["accounts"], WholeContents)
           /\ op.account # NoAccount =>
                 /\ loaded
                 /\ EndsIn(Tail(w), "identity", files'["identity"], Opening(op.account))
    BY <1>1, <1>5, <2>1, Zenon DEF DirInv, OpInv
  <2>4. op.unlocked => EndsIn(Tail(w), "secret", files'["secret"], Contents)
    BY <1>1, <1>5, <2>1, Zenon DEF DirInv, OpInv
  <2> QED
    BY <1>1, <1>2, <2>2, <2>3, <2>4, Zenon DEF DirInv, OpInv
<1>10. ArchiveInv'
  <2>1. sound /\ backup' \in Archives => GoodArchive(backup')
    BY <1>4, <1>6, ArchiveAssumption, Zenon DEF DirInv, ArchiveInv, ArchiveAssumption
  <2> QED
    BY <1>1, <1>2, <1>5, <2>1, Zenon DEF ArchiveInv
<1>11. RecoverInv'
  <2>1. "identity" \in DirFiles /\ "identity" # "backup"
    BY Zenon DEF DirFiles
  <2>2. sound /\ crashes <= 1 =>
           \/ EndsIn(Tail(w), "backup", backup', Archives)
           \/ EndsIn(Tail(w), "identity", files'["identity"], WholeContents)
    BY <1>5, <2>1, Zenon DEF DirInv, RecoverInv
  <2>3. ASSUME sound, crashes = 0
        PROVE  /\ EndsIn(Tail(w), "backup", backup', Archives)
               /\ backup' \in Archives \/ files'["identity"] \in WholeContents
               /\ PendingIn(Tail(w), "identity") => backup' \in Archives
               /\ PendingIn(Tail(w), "backup") =>
                     /\ files'["identity"] \in WholeContents
                     /\ ~PendingIn(Tail(w), "identity")
    <3>1. /\ EndsIn(w, "backup", backup, Archives)
          /\ backup \in Archives \/ files["identity"] \in WholeContents
          /\ PendingIn(w, "identity") => backup \in Archives
          /\ PendingIn(w, "backup") =>
                files["identity"] \in WholeContents /\ ~PendingIn(w, "identity")
      BY <2>3, Zenon DEF DirInv, RecoverInv
    <3>2. /\ files'["identity"] = IF g = "identity" THEN c ELSE files["identity"]
          /\ backup' = IF g = "backup" THEN c ELSE backup
      BY <1>4, <2>1, Zenon
    <3>3. EndsIn(Tail(w), "backup", backup', Archives)
      BY <1>5, <3>1, Zenon
    <3> HIDE DEF w, g, c
    <3>4. CASE g = "backup"
      BY <1>5, <2>1, <3>1, <3>2, <3>3, <3>4, Zenon
    <3>5. CASE g = "identity"
      BY <1>5, <2>1, <3>1, <3>2, <3>3, <3>5, Zenon
    <3>6. CASE g # "backup" /\ g # "identity"
      BY <1>5, <3>1, <3>2, <3>3, <3>6, Zenon
    <3> QED
      BY <3>4, <3>5, <3>6, Zenon
  <2> QED
    BY <1>1, <1>2, <2>2, <2>3, Zenon DEF RecoverInv
<1> QED
  BY <1>7, <1>8, <1>9, <1>10, <1>11, Zenon DEF DirInv

(* An operation returns: its writes are done.                              *)
LEMMA ReturnStep ==
    ASSUME DirInv, Return
    PROVE  DirInv'
<1>1. /\ op' = [busy |-> FALSE, writes |-> << >>, account |-> NoAccount, unlocked |-> FALSE,
                extract |-> {}]
      /\ files' = files /\ backup' = backup /\ nested' = nested /\ inDir' = inDir
      /\ loaded' = loaded /\ account' = op.account /\ unlocked' = op.unlocked
      /\ crashes' = crashes /\ imported' = imported /\ sound' = sound
      /\ op.busy /\ op.writes = << >>
  BY Zenon DEF Return, NoOperation, Operation, disk, histories
<1>2. op'.busy = FALSE /\ op'.writes = << >> /\ op'.extract = {}
  BY <1>1, Zenon
<1>3. op \in Operations /\ op' \in Operations
  BY <1>1, WriteLists, Zenon DEF DirInv, DirTypeOK, Operations, Accounts
<1>4. DirTypeOK'
  <2>1. op.account \in Accounts /\ op.unlocked \in BOOLEAN
    BY <1>3, Zenon DEF Operations
  <2> QED
    BY <1>1, <1>3, <2>1, Zenon DEF DirInv, DirTypeOK
<1>5. MemoryMatchesFiles'
  <2>1. ~imported =>
           /\ loaded => files["accounts"] \in WholeContents
           /\ op.account # NoAccount => loaded /\ files["identity"] \in Opening(op.account)
    BY <1>1, EndsEmpty, Zenon DEF DirInv, OpInv
  <2>2. op.unlocked => files["secret"] \in Contents
    BY <1>1, EndsEmpty DEF DirInv, OpInv
  <2>3. files["accounts"] \in WholeContents => Whole(files["accounts"])
    BY WholeLemma, Zenon DEF WholeContents
  <2>4. files["secret"] \in Contents => files["secret"] # Absent
    BY WholeLemma, Zenon
  <2>5. files["identity"] \in Opening(op.account) =>
           \E pass \in Passphrases : files["identity"] = pass /\ Kept[pass] = op.account
    BY DEF Opening
  <2> QED
    BY <1>1, <2>1, <2>2, <2>3, <2>4, <2>5, Zenon DEF MemoryMatchesFiles, Opens
<1>6. OpInv'
  BY <1>2, Zenon DEF OpInv
<1>7. ArchiveInv'
  BY <1>1, <1>2, GoodLists, Zenon DEF DirInv, ArchiveInv
<1>8. RecoverInv'
  BY <1>1, <1>2, Zenon DEF DirInv, RecoverInv
<1> QED
  BY <1>4, <1>5, <1>6, <1>7, <1>8, Zenon DEF DirInv

(* A crash, or a move to an empty device with a whole archive.             *)
LEMMA FaultStep ==
    ASSUME DirInv, DirCrash \/ NewDevice
    PROVE  DirInv'
<1>1. /\ backup' = backup /\ inDir' = inDir
      /\ loaded' = FALSE /\ account' = NoAccount /\ unlocked' = FALSE
      /\ crashes' = crashes + 1 /\ crashes < MaxCrashes
      /\ imported' = imported /\ sound' = sound
      /\ op'.busy = FALSE /\ op'.writes = << >> /\ op'.extract = {} /\ op' \in Operations
  <2>1. CASE DirCrash
    <3>1. op' = [busy |-> FALSE, writes |-> << >>, account |-> NoAccount,
                 unlocked |-> FALSE, extract |-> {}]
      BY <2>1, Zenon DEF DirCrash, NoOperation, Operation
    <3> QED
      BY <2>1, <3>1, WriteLists DEF DirCrash, Operations, Accounts, disk, histories
  <2>2. CASE NewDevice
    <3>1. op' = op /\ ~op.busy /\ op \in Operations
      BY <2>2, Zenon DEF NewDevice, DirInv, DirTypeOK
    <3>2. op.busy = FALSE /\ op.writes = << >> /\ op.extract = {}
      BY <3>1, Zenon DEF DirInv, OpInv, Operations
    <3> QED
      BY <2>2, <3>1, <3>2, Zenon DEF NewDevice, histories
  <2> QED
    BY <2>1, <2>2, Zenon
<1>2. /\ files' \in [DirFiles -> Contents \cup {Absent}] /\ nested' \in BOOLEAN
      /\ crashes \in Nat /\ MaxCrashes \in Nat
      /\ sound /\ crashes = 0 => backup \in Archives \/ files'["identity"] \in WholeContents
  <2>1. crashes \in Nat /\ MaxCrashes \in Nat
    BY DataDirAssumption DEF DirInv, DirTypeOK, DataDirAssumption
  <2>2. CASE DirCrash
    BY <2>1, <2>2, Zenon DEF DirCrash, disk, DirInv, DirTypeOK, RecoverInv
  <2>3. CASE NewDevice
    <3>1. backup \in Archives
      BY <2>3, WholeLemma, Zenon DEF NewDevice, DirInv, DirTypeOK
    <3>2. nested' \in BOOLEAN
      BY <2>3, Zenon DEF NewDevice
    <3> QED
      BY <2>1, <2>3, <3>1, <3>2, Zenon DEF NewDevice
  <2> QED
    BY <2>2, <2>3, Zenon
<1>3. DirTypeOK'
  <2>1. crashes' \in 0..MaxCrashes
    BY <1>1, <1>2
  <2>2. /\ nested' \in BOOLEAN /\ inDir' \in BOOLEAN /\ loaded' \in BOOLEAN
        /\ unlocked' \in BOOLEAN /\ imported' \in BOOLEAN /\ sound' \in BOOLEAN
        /\ account' \in Accounts
    BY <1>1, <1>2, Zenon DEF DirInv, DirTypeOK, Accounts
  <2> QED
    BY <1>1, <1>2, <2>1, <2>2, Zenon DEF DirInv, DirTypeOK
<1>4. MemoryMatchesFiles'
  BY <1>1, Zenon DEF MemoryMatchesFiles
<1>5. OpInv'
  BY <1>1, Zenon DEF OpInv
<1>6. ArchiveInv'
  BY <1>1, GoodLists, Zenon DEF DirInv, ArchiveInv
<1>7. RecoverInv'
  <2>1. crashes' # 0 /\ (crashes' <= 1 => crashes = 0)
    BY <1>1, <1>2
  <2> QED
    BY <1>1, <1>2, <2>1, EndsEmpty DEF RecoverInv
<1> QED
  BY <1>3, <1>4, <1>5, <1>6, <1>7, Zenon DEF DirInv

-----------------------------------------------------------------------------

(* The invariant holds in every reachable state.                           *)
LEMMA Inductive == DirSpec => []DirInv
<1>1. ASSUME DirInv, UNCHANGED dirVars PROVE DirInv'
  <2>1. /\ files' = files /\ backup' = backup /\ nested' = nested /\ inDir' = inDir
        /\ loaded' = loaded /\ account' = account /\ unlocked' = unlocked
        /\ op' = op /\ crashes' = crashes /\ imported' = imported /\ sound' = sound
    BY <1>1, Zenon DEF dirVars, disk, memory, histories
  <2>2. DirTypeOK'
    BY <1>1, <2>1, Zenon DEF DirInv, DirTypeOK
  <2>3. MemoryMatchesFiles'
    BY <1>1, <2>1, Zenon DEF DirInv, MemoryMatchesFiles, Opens
  <2>4. OpInv'
    BY <1>1, <2>1, Zenon DEF DirInv, OpInv
  <2>5. ArchiveInv'
    BY <1>1, <2>1, Zenon DEF DirInv, ArchiveInv
  <2>6. RecoverInv'
    BY <1>1, <2>1, Zenon DEF DirInv, RecoverInv
  <2>7. QED BY <2>2, <2>3, <2>4, <2>5, <2>6, Zenon DEF DirInv
<1>2. ASSUME DirInv, DirNext PROVE DirInv'
  BY <1>2, CreateStep, LoginStep, AccountStep, GhostStep, ExportStep, ImportStep,
     ExtractStep, WriteStep, ReturnStep, FaultStep, Zenon
     DEF DirNext
<1> QED
  BY <1>1, <1>2, DirInitial, PTL DEF DirSpec

(* Whatever operations, crashes and restores came before, between          *)
(* operations the identity file opens with the passphrase of which the     *)
(* account in memory holds what fits, and the registry is whole, unless an *)
(* import came after the registry was loaded; and an unlocked secret       *)
(* partition has its file.                                                 *)
THEOREM MemoryCorrect == DirSpec => []MemoryMatchesFiles
<1>1. DirInv => MemoryMatchesFiles
  BY Zenon DEF DirInv
<1> QED
  BY <1>1, Inductive, PTL

(* A whole archive of an export that found the account open and skipped    *)
(* no file restores a usable account, and one crash never takes both the   *)
(* identity file and such an archive.                                      *)
THEOREM RecoveryCorrect == DirSpec => []IdentityRecoverable
<1>1. DirInv => IdentityRecoverable
  <2> SUFFICES ASSUME DirInv, sound
               PROVE  /\ Whole(backup) => GoodArchive(backup)
                      /\ ~op.busy /\ crashes <= 1 =>
                            Whole(files["identity"]) \/ Whole(backup)
    BY Zenon DEF IdentityRecoverable, GoodArchive
  <2>1. Whole(backup) <=> backup \in Archives
    BY WholeLemma, Zenon DEF DirInv, DirTypeOK
  <2>2. Whole(backup) => GoodArchive(backup)
    BY <2>1, Zenon DEF DirInv, ArchiveInv
  <2>3. ~op.busy /\ crashes <= 1 => Whole(files["identity"]) \/ Whole(backup)
    BY <2>1, Between, WholeLemma, Zenon DEF WholeContents
  <2> QED
    BY <2>2, <2>3, Zenon
<1> QED
  BY <1>1, Inductive, PTL

=============================================================================
