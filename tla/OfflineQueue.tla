---------------------------- MODULE OfflineQueue ----------------------------
(***************************************************************************)
(* The persistent per-peer queue of src/src/koe_queue.c on the SQLite      *)
(* table "queue" of src/src/koe_db.c.  Rows survive a crash; the handle    *)
(* (db pointer and depth limit) and the packet that koe_queue_drain holds  *)
(* do not.                                                                 *)
(*                                                                         *)
(* A packet is identified by the id of its row.  sequence equals the push  *)
(* time in seconds, so rows pushed within one second tie, and              *)
(* "ORDER BY sequence ASC LIMIT 1" may return any of them.                 *)
(*                                                                         *)
(* Any malloc and any statement may fail, and the code looks at few of the *)
(* results: a DELETE that fails leaves a row in the table whose packet is  *)
(* handed out all the same, and a push whose count, SELECT or DELETE fails *)
(* inserts its row next to a full backlog.  The clock is taken not to run  *)
(* backwards.                                                              *)
(***************************************************************************)
EXTENDS Naturals, FiniteSets

CONSTANTS
    Peers,
    Limits,         \* values of max_per_peer the application configures
    TTL,            \* KOE_QUEUE_TTL_SECONDS
    MaxClock,       \* bound on the clock
    MaxQueued,      \* bound on the number of rows ever inserted
    MaxRestarts,    \* bound on closes and crashes
    None

ASSUME QueueAssumption ==
    /\ Limits \subseteq Nat \ {0}
    /\ TTL \in Nat \ {0}
    /\ MaxClock \in Nat /\ MaxQueued \in Nat /\ MaxRestarts \in Nat

QueueRow == [id : Nat, to : Peers, sequence : Nat, expires_at : Nat]

ASSUME NoneAssumption == None \notin QueueRow /\ None \notin Nat

VARIABLES
    queue,          \* the rows of table queue
    nextId,         \* AUTOINCREMENT
    clock,          \* time(NULL)
    limit,          \* q->max_per_peer, None while q->db is NULL
    hand,           \* the packet koe_queue_drain passes to send_fn, or None
    left,           \* history: ids that a pop has handed out
    undeleted,      \* history: ids handed out by a pop whose DELETE failed
    lastSeq,        \* history: sequence of the last packet handed out
    most,           \* history: the largest limit so far
    overfull,       \* history: rows inserted when making room had failed
    restarts        \* closes and crashes so far

handedOut == <<left, undeleted, lastSeq>>
excess == <<most, overfull>>
queueVars == <<queue, nextId, clock, limit, hand, handedOut, excess, restarts>>

QueueInit ==
    /\ queue = {} /\ nextId = 1 /\ clock = 0
    /\ limit = None /\ hand = None
    /\ left = {} /\ undeleted = {} /\ lastSeq = [p \in Peers |-> 0]
    /\ most = 0 /\ overfull = 0 /\ restarts = 0

RowsOf(p) == {r \in queue : r.to = p}

Count(p) == Cardinality(RowsOf(p))

(* What SELECT COUNT may return: 0 also stands for any error.              *)
koe_db_queue_count(p) ==
    {[value |-> Count(p), failed |-> FALSE], [value |-> 0, failed |-> TRUE]}

(* Mutant: the newest row is taken.                                        *)
Newest(p) == {r \in RowsOf(p) : \A s \in RowsOf(p) : s.sequence <= r.sequence}

(* The rows that koe_db_queue_pop may select.                              *)
Oldest(p) == {r \in RowsOf(p) : \A s \in RowsOf(p) : r.sequence <= s.sequence}

(* What koe_db_queue_pop may leave of the table: all of it when the SELECT *)
(* or the DELETE fails.                                                    *)
koe_db_queue_pop(p) ==
    {[table |-> queue \ {r}, failed |-> FALSE] : r \in Oldest(p)}
        \cup {[table |-> queue, failed |-> TRUE]}

-----------------------------------------------------------------------------

(* Nothing keeps an open queue from being opened again.                    *)
Open(n) ==
    /\ limit' = n
    /\ most' = IF n > most THEN n ELSE most
    /\ UNCHANGED <<queue, nextId, clock, hand, handedOut, overfull, restarts>>

Close ==
    /\ limit # None
    /\ restarts < MaxRestarts
    /\ limit' = None
    /\ restarts' = restarts + 1
    /\ UNCHANGED <<queue, nextId, clock, hand, handedOut, excess>>

Crash ==
    /\ limit # None
    /\ restarts < MaxRestarts
    /\ limit' = None /\ hand' = None
    /\ restarts' = restarts + 1
    /\ UNCHANGED <<queue, nextId, clock, handedOut, excess>>

(* Mutant: the check lets one row too many in.                             *)
RoomForOneMore(p) ==
    UNION {IF c.value > limit THEN koe_db_queue_pop(p)
                              ELSE {[table |-> queue, failed |-> c.failed]} :
              c \in koe_db_queue_count(p)}

(* Mutant: room is made at the cost of any peer.                           *)
RoomOfAnyone(p) ==
    UNION {IF c.value >= limit THEN UNION {koe_db_queue_pop(q) : q \in Peers}
                               ELSE {[table |-> queue, failed |-> c.failed]} :
              c \in koe_db_queue_count(p)}

(* What may be left of the table when koe_queue_push goes on to insert.    *)
MakeRoom(p) ==
    UNION {IF c.value >= limit THEN koe_db_queue_pop(p)
                               ELSE {[table |-> queue, failed |-> c.failed]} :
              c \in koe_db_queue_count(p)}

NewRow(p) == [id |-> nextId, to |-> p, sequence |-> clock, expires_at |-> clock + TTL]

(* The oldest row is gone before the packet is serialised and inserted, so *)
(* a push that fails has still dropped it.  send_fn may call it.           *)
Push(p) ==
    /\ limit # None
    /\ nextId <= MaxQueued
    /\ \E room \in MakeRoom(p) :
          \/ /\ queue' = room.table \cup {NewRow(p)} /\ nextId' = nextId + 1
             /\ overfull' = IF room.failed /\ Count(p) >= limit THEN overfull + 1 ELSE overfull
          \/ queue' = room.table /\ UNCHANGED <<nextId, overfull>>
    /\ UNCHANGED <<clock, limit, hand, handedOut, most, restarts>>

(* koe_db_queue_pop with an answer: the row is selected, and deleted       *)
(* unless that fails, which nobody notices.                                *)
TakeRow(r) ==
    /\ left' = left \cup {r.id}
    /\ lastSeq' = [lastSeq EXCEPT ![r.to] = r.sequence]
    /\ \/ queue' = queue \ {r} /\ undeleted' = undeleted
       \/ queue' = queue /\ undeleted' = undeleted \cup {r.id}

(* koe_queue_pop called by the application; also the path on which the     *)
(* copy of the packet cannot be allocated and nobody ever sees it.         *)
Pop(p) ==
    /\ limit # None
    /\ \E r \in Oldest(p) : TakeRow(r)
    /\ UNCHANGED <<nextId, clock, limit, hand, excess, restarts>>

(* Mutant: the row is deleted only when it has been sent.                  *)
PopKeepsRow(p) ==
    /\ limit # None /\ hand = None
    /\ \E r \in Oldest(p) :
          /\ hand' = r
          /\ left' = left \cup {r.id}
          /\ lastSeq' = [lastSeq EXCEPT ![p] = r.sequence]
    /\ UNCHANGED <<queue, nextId, clock, limit, undeleted, excess, restarts>>

(* One turn of the loop of koe_queue_drain: pop, then send_fn runs with    *)
(* the packet in hand.                                                     *)
DrainPop(p) ==
    /\ limit # None /\ hand = None
    /\ \E r \in Oldest(p) : TakeRow(r) /\ hand' = r
    /\ UNCHANGED <<nextId, clock, limit, excess, restarts>>

(* send_fn returns; the packet is freed whether it was sent or not, and    *)
(* after a failure the loop ends.                                          *)
DrainSent ==
    /\ hand # None
    /\ hand' = None
    /\ UNCHANGED <<queue, nextId, clock, limit, handedOut, excess, restarts>>

Expire ==
    /\ limit # None
    /\ queue' = {r \in queue : r.expires_at > clock}
    /\ UNCHANGED <<nextId, clock, limit, hand, handedOut, excess, restarts>>

QueueTick ==
    /\ clock < MaxClock
    /\ clock' = clock + 1
    /\ UNCHANGED <<queue, nextId, limit, hand, handedOut, excess, restarts>>

QueueNext ==
    \/ \E n \in Limits : Open(n)
    \/ Close \/ Crash
    \/ \E p \in Peers : Push(p) \/ Pop(p) \/ DrainPop(p)
    \/ DrainSent \/ Expire \/ QueueTick

QueueSpec == QueueInit /\ [][QueueNext]_queueVars

-----------------------------------------------------------------------------

QueueTypeOK ==
    /\ queue \subseteq QueueRow
    /\ nextId \in Nat /\ clock \in Nat /\ restarts \in Nat
    /\ limit \in Limits \cup {None}
    /\ hand \in QueueRow \cup {None}
    /\ left \subseteq Nat /\ undeleted \subseteq Nat
    /\ lastSeq \in [Peers -> Nat]
    /\ most \in Nat /\ overfull \in Nat

(* A packet is handed out again only if the DELETE of an earlier pop of it *)
(* failed: no crash between the pop and the sending, no restart and no     *)
(* push or pop from inside send_fn brings back an id that was handed out,  *)
(* and ids are never reused.                                               *)
HandedOutOnce ==
    /\ \A r \in queue : r.id < nextId /\ (r.id \in left => r.id \in undeleted)
    /\ \A i \in left : i < nextId
    /\ \A r, s \in queue : r.id = s.id => r = s

(* Packets to a peer leave in the order of their sequence numbers, over    *)
(* all pops, drains, evictions, failures and restarts: nothing still       *)
(* queued for a peer precedes what that peer was already sent.             *)
SequenceOrder ==
    \A r \in queue : lastSeq[r.to] <= r.sequence /\ r.sequence <= clock

(* A row that leaves the table is an oldest one of its peer or an expired  *)
(* one, and no push, pop or drain for one peer touches the rows of         *)
(* another.                                                                *)
OnlyOldestOrExpiredLeave ==
    [][/\ \A r \in queue \ queue' : r \in Oldest(r.to) \/ r.expires_at <= clock
       /\ \A p, q \in Peers :
             p # q /\ (Push(p) \/ Pop(p) \/ DrainPop(p)) => RowsOf(q)' = RowsOf(q)]_queueVars

(* A push grows a peer's backlog beyond the limit in force only when a     *)
(* statement that should have made room failed, even when rows from an     *)
(* earlier run with a larger limit are still there.                        *)
PushRespectsLimit ==
    [][\A p \in Peers : Cardinality(RowsOf(p)') > Count(p)
          => Cardinality(RowsOf(p)') <= limit \/ overfull' > overfull]_queueVars

(* Each failure lets the backlog of a peer grow by one row beyond the      *)
(* largest limit there ever was, and by no more: later pushes keep what    *)
(* they find, over restarts with smaller and larger limits.                *)
BacklogBounded == \A p \in Peers : Count(p) <= most + overfull

=============================================================================
