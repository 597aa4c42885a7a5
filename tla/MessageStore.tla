---------------------------- MODULE MessageStore ----------------------------
(***************************************************************************)
(* The message store of src/src/koe_store.c on the SQLite table "messages" *)
(* of src/src/koe_db.c, and the self-destruct timer of an application      *)
(* message (src/src/koe_message.c).                                        *)
(*                                                                         *)
(* A message is in memory with its own timer; a row of the table is a copy *)
(* taken when it was put.  The two do not share ids: the table numbers its *)
(* rows with AUTOINCREMENT, a message has a microsecond clock value, which *)
(* no row number reaches; here that value is the message itself.  Receipts *)
(* name a row by the number that koe_db_message_insert left in msg->id,    *)
(* and may come late: after the row has been deleted and other rows        *)
(* inserted.  A statement that fails leaves the table as it is.            *)
(* delivered_at and read_at, which say no more than the status does and    *)
(* which nothing here reads, are left out.                                 *)
(***************************************************************************)
EXTENDS Naturals, FiniteSets

CONSTANTS
    Messages,
    TTLs,           \* values of ttl_seconds that koe_message_set_destruct gets
    Statuses,       \* values that koe_db_message_update_status gets
    Horizon,        \* the 9999999 seconds of koe_store_wipe
    MaxTime,        \* bound on the clock
    MaxRows,        \* bound on the number of rows ever inserted
    MaxFailures     \* bound on the numbers that callers hold of failed calls

ASSUME StoreAssumption ==
    /\ TTLs \subseteq Nat /\ Statuses \subseteq 0..4
    /\ Horizon \in Nat /\ MaxTime \in Nat
    /\ MaxRows \in Nat /\ MaxFailures \in Nat
    /\ Messages \cap Nat = {}

Pending == 0        \* KOE_STATUS_PENDING
Delivered == 2      \* KOE_STATUS_DELIVERED
Read == 3           \* KOE_STATUS_READ

Timer == [after : Nat, at : Nat]

Row == [id : Nat, msg : Messages, destruct_at : Nat, status : 0..4]

VARIABLES
    timer,          \* destruct_after_seconds and destruct_at of each message
    rows,           \* the rows of table messages
    lastId,         \* the AUTOINCREMENT sequence
    lastRowid,      \* sqlite3_last_insert_rowid of the connection
    known,          \* what callers have in msg->id, for which message, and
                    \* whether the call that put it there returned 0
    open,           \* store->db is set
    now             \* time(NULL)

vars == <<timer, rows, lastId, lastRowid, known, open, now>>

(* koe_message_alloc: no timer.                                            *)
Init ==
    /\ timer = [m \in Messages |-> [after |-> 0, at |-> 0]]
    /\ rows = {} /\ lastId = 0 /\ lastRowid = 0 /\ known = {}
    /\ open = FALSE /\ now = 1

-----------------------------------------------------------------------------

(* A TTL of zero leaves the timer alone.                                   *)
koe_message_set_destruct(m, ttl) ==
    /\ ttl # 0
    /\ timer' = [timer EXCEPT ![m] = [after |-> ttl, at |-> now + ttl]]
    /\ UNCHANGED <<rows, lastId, lastRowid, known, open, now>>

koe_message_should_destruct(m) == timer[m].after # 0 /\ now >= timer[m].at

(* koe_db_migrate creates the tables only where they are missing.  A       *)
(* connection that is new has inserted nothing.                            *)
koe_store_open ==
    /\ open' = TRUE
    /\ lastRowid' \in {lastRowid, 0}
    /\ UNCHANGED <<timer, rows, lastId, known, now>>

koe_store_close ==
    /\ open' = FALSE
    /\ UNCHANGED <<timer, rows, lastId, lastRowid, known, now>>

(* Mutant: numbers without AUTOINCREMENT, one more than the largest left.  *)
LargestPlusOne == CHOOSE i \in 1..(lastId + 1) :
    /\ \A r \in rows : r.id < i
    /\ i = 1 \/ \E r \in rows : r.id = i - 1

NextRowId == lastId + 1

(* INSERT with every column but id.                                        *)
Insert(m) ==
    /\ lastId < MaxRows
    /\ rows' = rows \cup {[id |-> NextRowId, msg |-> m,
                           destruct_at |-> timer[m].at, status |-> Pending]}
    /\ lastId' = NextRowId
    /\ lastRowid' = NextRowId

(* The caller finds in msg->id the number of the last row that the         *)
(* connection has inserted: of the new one, or, when the INSERT fails and  *)
(* the call returns -1, of an earlier one, also one of another table.      *)
koe_db_message_insert(m) ==
    /\ \/ /\ Insert(m)
          /\ known' = known \cup {[id |-> NextRowId, msg |-> m, ok |-> TRUE]}
       \/ /\ Cardinality({k \in known : ~k.ok}) < MaxFailures
          /\ known' = known \cup {[id |-> lastRowid, msg |-> m, ok |-> FALSE]}
          /\ UNCHANGED <<rows, lastId, lastRowid>>
    /\ UNCHANGED <<timer, open, now>>

(* The contacts and the offline queue are tables of the same database.     *)
OtherTableInsert ==
    /\ lastRowid' \in 1..MaxRows
    /\ UNCHANGED <<timer, rows, lastId, known, open, now>>

(* The row number stays in the local variable row; nobody learns it.       *)
koe_store_put(m) ==
    /\ open
    /\ Insert(m)
    /\ UNCHANGED <<timer, known, open, now>>

(* UPDATE messages SET status=? WHERE id=?                                 *)
koe_db_message_update_status(id, s) ==
    /\ rows' = {IF r.id = id THEN [r EXCEPT !.status = s] ELSE r : r \in rows}
    /\ UNCHANGED <<timer, lastId, lastRowid, known, open, now>>

koe_db_message_mark_delivered(id) == koe_db_message_update_status(id, Delivered)

koe_db_message_mark_read(id) == koe_db_message_update_status(id, Read)

(* DELETE FROM messages WHERE id = ?                                       *)
koe_db_message_delete(id) ==
    /\ rows' = {r \in rows : r.id # id}
    /\ UNCHANGED <<timer, lastId, lastRowid, known, open, now>>

(* The caller has the id of the message, which is not a row number.        *)
koe_store_delete(m) ==
    /\ open
    /\ koe_db_message_delete(m)

(* Mutant: rows without a timer count as due.                              *)
DueUntimed(t) == {r \in rows : r.destruct_at <= t}

(* WHERE destruct_at > 0 AND destruct_at <= ?                              *)
Due(t) == {r \in rows : r.destruct_at > 0 /\ r.destruct_at <= t}

koe_db_destruct_sweep(t) ==
    /\ rows' = rows \ Due(t)
    /\ UNCHANGED <<timer, lastId, lastRowid, known, open, now>>

koe_store_sweep_destruct == open /\ koe_db_destruct_sweep(now)

koe_store_wipe == open /\ koe_db_destruct_sweep(now + Horizon)

Tick ==
    /\ now < MaxTime
    /\ now' = now + 1
    /\ UNCHANGED <<timer, rows, lastId, lastRowid, known, open>>

Receipt(id) ==
    \/ koe_db_message_mark_delivered(id)
    \/ koe_db_message_mark_read(id)
    \/ \E s \in Statuses : koe_db_message_update_status(id, s)
    \/ koe_db_message_delete(id)

Next ==
    \/ \E m \in Messages :
          \/ \E ttl \in TTLs : koe_message_set_destruct(m, ttl)
          \/ koe_db_message_insert(m)
          \/ koe_store_put(m)
          \/ koe_store_delete(m)
    \/ \E k \in known : Receipt(k.id)
    \/ koe_store_open \/ koe_store_close \/ OtherTableInsert
    \/ koe_store_sweep_destruct \/ koe_store_wipe
    \/ Tick

Spec == Init /\ [][Next]_vars

-----------------------------------------------------------------------------

TypeOK ==
    /\ timer \in [Messages -> Timer]
    /\ rows \subseteq Row
    /\ lastId \in Nat /\ lastRowid \in Nat /\ now \in Nat \ {0}
    /\ known \subseteq [id : Nat, msg : Messages, ok : BOOLEAN]
    /\ open \in BOOLEAN

(* A row number that a caller got with the return value 0 means, for ever, *)
(* the message it was returned for or no row at all: a receipt, a status   *)
(* or a delete that comes after the row was deleted or swept never hits    *)
(* the row of another message, however many were inserted since.  This     *)
(* needs the return value: where koe_db_message_insert returns -1, msg->id *)
(* may hold the number of an earlier message.                              *)
NumberMeansOneMessage ==
    /\ \A r, s \in rows : r.id = s.id => r = s
    /\ \A k \in known, r \in rows : k.ok /\ k.id = r.id => k.msg = r.msg

(* The two definitions of "due" agree: a sweep deletes the row of a        *)
(* message exactly when koe_message_should_destruct holds of the message   *)
(* at that moment, unless the message was given another timer after it was *)
(* put, which the row does not learn.                                      *)
SweepMatchesMessage ==
    [][koe_store_sweep_destruct =>
          \A r \in rows : r.destruct_at = timer[r.msg].at =>
             (r \notin rows' <=> koe_message_should_destruct(r.msg))]_vars

=============================================================================
