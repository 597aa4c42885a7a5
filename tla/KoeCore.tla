------------------------------ MODULE KoeCore -------------------------------
(***************************************************************************)
(* The lifecycle of a koe_ctx_t: koe_init, koe_switch_account,             *)
(* koe_shutdown and the calls between them (src/src/koe_core.c), with the  *)
(* account registry (koe_account.c), the contact book (koe_identity.c),    *)
(* the database handle, the offline queue and the session table as far as  *)
(* these calls share them.                                                 *)
(*                                                                         *)
(* A database connection is a handle, an index into handles, so that a     *)
(* closed connection that is still referenced can be told from the open    *)
(* one.  koe_add_contact resolves every short ID to the same zeroed key,   *)
(* so a book holds at most one contact; it is represented by the account   *)
(* that was active when it was added.  A session is its peer and the       *)
(* account whose handshake produced it; SessionTable has the details.      *)
(* koe_init does not look at the context it is given: on a running one it  *)
(* zeroes the only reference to the open connection.                       *)
(* Transport, presence, cache, plugins and Matrix are brought up and torn  *)
(* down without effect on this state.                                      *)
(***************************************************************************)
EXTENDS Naturals, Sequences

CONSTANTS
    Accounts,       \* identities that koe_identity_generate can produce
    Peers,
    None,
    Damaged,        \* an accounts.koe that the loader rejects
    AccountMax,     \* KOE_ACCOUNT_MAX
    MaxHandles      \* bound on the number of koe_db_open calls

ASSUME CoreAssumption ==
    /\ AccountMax \in Nat \ {0} /\ MaxHandles \in Nat
    /\ None \notin Accounts \cup Nat

VARIABLES
    initialised,    \* ctx->initialised
    registry,       \* ctx->account_registry: [acct, active] per entry
    disk,           \* accounts.koe: the accounts of the last save, or Damaged
    created,        \* identities that exist
    keys,           \* ctx->active_account.keys
    db,             \* ctx->db
    handles,        \* every connection opened: [owner, open]
    queueDb,        \* ctx->queue.db
    contacts,       \* ctx->contacts
    saved,          \* table contacts in the database of each account
    sessions,       \* ctx->sessions
    queued,         \* the senders of what was pushed to each account's queue
    announced,      \* a KOE_EV_IDENTITY_SWITCHED event waits in the ring
    leaked,         \* history: connections that were open when koe_init ran
    switched        \* history: koe_switch_account has run since koe_init

acctVars == <<registry, disk, created>>
dbVars == <<db, handles, queueDb, queued>>
histVars == <<leaked, switched>>
vars == <<initialised, acctVars, keys, dbVars, contacts, saved, sessions,
          announced, histVars>>

Init ==
    /\ initialised = FALSE
    /\ registry = << >> /\ disk = << >> /\ created = {}
    /\ keys = None
    /\ db = None /\ handles = << >> /\ queueDb = None
    /\ contacts = {} /\ saved = [a \in Accounts |-> {}]
    /\ sessions = {} /\ queued = [a \in Accounts |-> {}]
    /\ announced = FALSE /\ leaked = {} /\ switched = FALSE

-----------------------------------------------------------------------------
(* Helpers: koe_db_open and koe_db_close, koe_contact_book_save,           *)
(* koe_account_registry_load and koe_account_registry_save.                *)

OpenDb(hs, a) == Append(hs, [owner |-> a, open |-> TRUE])

CloseDb(hs, h) ==
    IF h = None THEN hs
    ELSE [hs EXCEPT ![h] = [owner |-> hs[h].owner, open |-> FALSE]]

Live(h) == h # None /\ handles[h].open

(* Rows are upserted by key, so a saved contact replaces the row.  Without *)
(* a connection, or when the statement fails, nothing is written, and      *)
(* nobody looks at the result.                                             *)
Upsert(book) ==
    \/ saved' = saved
    \/ Live(db) /\ saved' = [saved EXCEPT ![handles[db].owner] = book]

SaveContacts == IF contacts # {} THEN Upsert(contacts) ELSE saved' = saved

(* koe_db_contact_list is a stub that reports no rows, so a book is always *)
(* loaded empty.                                                           *)
LoadContacts == {}

(* A key that the book already has is refused.                             *)
ContactAdd == contacts = {} /\ contacts' = {keys}

LoadRegistry == [i \in DOMAIN disk |-> [acct |-> disk[i], active |-> FALSE]]

AccountsOf(reg) == [i \in DOMAIN reg |-> reg[i].acct]

(* The file is truncated and rewritten: opening it may fail, and so may    *)
(* the writes, whose results are not looked at.                            *)
SaveRegistry(reg) == disk' \in {AccountsOf(reg), disk, Damaged}

(* The shift of the entries behind a deleted one.                          *)
WithoutEntry(reg, i) ==
    [k \in 1 .. (Len(reg) - 1) |-> IF k < i THEN reg[k] ELSE reg[k + 1]]

(* A fresh identity, entered in the registry as active.                    *)
CreateAccount(reg, a) ==
    /\ Len(reg) < AccountMax
    /\ a \notin created
    /\ created' = created \cup {a}
    /\ registry' = Append(reg, [acct |-> a, active |-> TRUE])
    /\ SaveRegistry(registry')

-----------------------------------------------------------------------------
(* koe_init *)

(* memset of the context: a connection that is open stays open.            *)
Forget ==
    /\ leaked' = leaked \cup ({db} \ {None})
    /\ switched' = FALSE
    /\ contacts' = {} /\ sessions' = {}

(* The registry is loaded, and an account is created or the first one is   *)
(* activated.  A registry file that exists but cannot be opened counts as  *)
(* none.                                                                   *)
InitAccount(a) ==
    \/ CreateAccount(<< >>, a)
    \/ /\ disk \notin {<< >>, Damaged} /\ a = disk[1]
       /\ registry' = LoadRegistry
       /\ UNCHANGED <<disk, created>>

koe_init(a) ==
    /\ Len(handles) < MaxHandles
    /\ Forget
    /\ InitAccount(a)
    /\ keys' = a
    /\ handles' = OpenDb(handles, a)
    /\ db' = Len(handles) + 1 /\ queueDb' = Len(handles) + 1
    /\ initialised' = TRUE
    /\ UNCHANGED <<queued, saved, announced>>

(* The return before koe_db_open has succeeded.                            *)
InitFails ==
    /\ Forget
    /\ db' = None /\ queueDb' = None
    /\ initialised' = FALSE
    /\ UNCHANGED <<handles, queued, saved, announced>>

(* libsodium, a damaged registry, or a wrong passphrase: nothing is        *)
(* active.                                                                 *)
InitActivateFails ==
    /\ InitFails
    /\ \/ registry' = << >>
       \/ disk # Damaged /\ registry' = LoadRegistry
    /\ keys' = None
    /\ UNCHANGED <<disk, created>>

(* The identity file of the first account cannot be written: its keys stay *)
(* in ctx.                                                                 *)
InitCreateFails(a) ==
    /\ InitFails
    /\ registry' = << >>
    /\ a \notin created /\ keys' = a
    /\ UNCHANGED <<disk, created>>

(* koe_db_open fails: the account stays decrypted in ctx.                  *)
InitDbFails(a) ==
    /\ InitFails
    /\ InitAccount(a)
    /\ keys' = a

-----------------------------------------------------------------------------
(* koe_shutdown *)

(* Mutant: the database is not closed.                                     *)
ShutdownKeepsDb ==
    /\ initialised
    /\ SaveContacts
    /\ queueDb' = None
    /\ db' = None
    /\ contacts' = {}
    /\ keys' = None
    /\ initialised' = FALSE
    /\ UNCHANGED <<acctVars, handles, queued, sessions, announced, histVars>>

koe_shutdown ==
    /\ initialised
    /\ SaveContacts
    /\ queueDb' = None
    /\ handles' = CloseDb(handles, db) /\ db' = None
    /\ contacts' = {}
    /\ keys' = None
    /\ initialised' = FALSE
    /\ UNCHANGED <<acctVars, queued, sessions, announced, histVars>>

-----------------------------------------------------------------------------
(* koe_switch_account: what happens before the new account is activated.   *)

(* Mutant: the contact book is not freed.                                  *)
LeaveKeepsContacts ==
    /\ initialised
    /\ SaveContacts
    /\ contacts' = contacts
    /\ switched' = TRUE

(* Save the contacts, close the database, free the book.                   *)
LeaveAccount ==
    /\ initialised
    /\ SaveContacts
    /\ contacts' = {}
    /\ switched' = TRUE

(* Mutant: the connection of the old account is kept.                      *)
SwitchKeepsDb(i) ==
    /\ LeaveAccount
    /\ keys' = registry[i].acct
    /\ announced' = TRUE
    /\ UNCHANGED <<initialised, acctVars, dbVars, sessions, leaked>>

koe_switch_account(i) ==
    /\ LeaveAccount
    /\ Len(handles) < MaxHandles
    /\ keys' = registry[i].acct
    /\ handles' = OpenDb(CloseDb(handles, db), registry[i].acct)
    /\ db' = Len(handles) + 1
    /\ announced' = TRUE
    /\ UNCHANGED <<initialised, acctVars, queueDb, queued, sessions, leaked>>

(* Index out of range or wrong passphrase: the old account is gone, no new *)
(* one is there, and ctx stays initialised.                                *)
SwitchActivateFails ==
    /\ LeaveAccount
    /\ keys' = None
    /\ handles' = CloseDb(handles, db) /\ db' = None
    /\ UNCHANGED <<initialised, acctVars, queueDb, queued, sessions, announced,
                   leaked>>

SwitchDbFails(i) ==
    /\ LeaveAccount
    /\ keys' = registry[i].acct
    /\ handles' = CloseDb(handles, db) /\ db' = None
    /\ UNCHANGED <<initialised, acctVars, queueDb, queued, sessions, announced,
                   leaked>>

-----------------------------------------------------------------------------
(* The account API on the registry of a running context.                   *)

koe_account_create(a) ==
    /\ initialised
    /\ CreateAccount(registry, a)
    /\ UNCHANGED <<initialised, keys, dbVars, contacts, saved, sessions,
                   announced, histVars>>

koe_account_delete(i) ==
    /\ initialised
    /\ ~registry[i].active
    /\ registry' = WithoutEntry(registry, i)
    /\ SaveRegistry(registry')
    /\ UNCHANGED <<initialised, created, keys, dbVars, contacts, saved,
                   sessions, announced, histVars>>

-----------------------------------------------------------------------------
(* Calls on a running context.                                             *)

koe_add_contact ==
    /\ initialised
    /\ ContactAdd
    /\ Upsert({keys})
    /\ UNCHANGED <<initialised, acctVars, keys, dbVars, sessions, announced, histVars>>

(* Called by the application on ctx->contacts.  The row of a removed       *)
(* contact stays in the table: saving only upserts.                        *)
koe_contact_remove ==
    /\ initialised
    /\ contacts # {} /\ contacts' = {}
    /\ UNCHANGED <<initialised, acctVars, keys, dbVars, saved, sessions, announced, histVars>>

koe_session_establish(p) ==
    /\ initialised
    /\ sessions' = sessions \cup {[peer |-> p, owner |-> keys]}
    /\ UNCHANGED <<initialised, acctVars, keys, dbVars, contacts, saved,
                   announced, histVars>>

koe_session_close(p) ==
    /\ initialised
    /\ \E s \in sessions : s.peer = p /\ sessions' = sessions \ {s}
    /\ UNCHANGED <<initialised, acctVars, keys, dbVars, contacts, saved,
                   announced, histVars>>

(* koe_queue_push on the connection the queue refers to; the row may fail  *)
(* to be inserted.  After a switch that connection is freed.  To use it is *)
(* undefined: the call fails (or the process ends), or its memory is that  *)
(* of the connection opened since, and the row is inserted there.          *)
QueuePush ==
    \/ queued' = queued
    \/ LET conn == IF Live(queueDb) THEN queueDb ELSE db
       IN  /\ queueDb # None /\ Live(conn)
           /\ queued' = [queued EXCEPT ![handles[conn].owner] = @ \cup {keys}]

(* koe_send_text needs a session with the peer; koe_send_file does not.    *)
koe_send_text(p) ==
    /\ initialised
    /\ \E s \in sessions : s.peer = p
    /\ QueuePush
    /\ UNCHANGED <<initialised, acctVars, keys, db, handles, queueDb, contacts,
                   saved, sessions, announced, histVars>>

koe_send_file ==
    /\ initialised
    /\ QueuePush
    /\ UNCHANGED <<initialised, acctVars, keys, db, handles, queueDb, contacts,
                   saved, sessions, announced, histVars>>

(* koe_poll removes sessions that were idle for 300 seconds.               *)
koe_poll ==
    /\ initialised
    /\ sessions' \in SUBSET sessions
    /\ UNCHANGED <<initialised, acctVars, keys, dbVars, contacts, saved,
                   announced, histVars>>

(* koe_event_poll delivers the event; it needs no context.                 *)
koe_event_poll ==
    /\ announced
    /\ announced' = FALSE
    /\ UNCHANGED <<initialised, acctVars, keys, dbVars, contacts, saved,
                   sessions, histVars>>

-----------------------------------------------------------------------------

Lifecycle ==
    \/ \E a \in Accounts : koe_init(a) \/ InitCreateFails(a) \/ InitDbFails(a)
    \/ InitActivateFails
    \/ koe_shutdown
    \/ \E i \in DOMAIN registry : koe_switch_account(i) \/ SwitchDbFails(i)
    \/ SwitchActivateFails
    \/ \E a \in Accounts : koe_account_create(a)
    \/ \E i \in DOMAIN registry : koe_account_delete(i)

Calls ==
    \/ koe_add_contact \/ koe_contact_remove
    \/ \E p \in Peers :
          koe_session_establish(p) \/ koe_session_close(p) \/ koe_send_text(p)
    \/ koe_send_file \/ koe_poll \/ koe_event_poll

Next == Lifecycle \/ Calls

Spec == Init /\ [][Next]_vars

-----------------------------------------------------------------------------

TypeOK ==
    /\ initialised \in BOOLEAN /\ announced \in BOOLEAN /\ switched \in BOOLEAN
    /\ registry \in Seq([acct : Accounts, active : BOOLEAN])
    /\ Len(registry) <= AccountMax
    /\ disk \in Seq(Accounts) \cup {Damaged} /\ created \subseteq Accounts
    /\ disk # Damaged => Len(disk) <= AccountMax
    /\ keys \in Accounts \cup {None}
    /\ handles \in Seq([owner : Accounts, open : BOOLEAN])
    /\ leaked \subseteq DOMAIN handles
    /\ db \in DOMAIN handles \cup {None} /\ queueDb \in DOMAIN handles \cup {None}
    /\ contacts \subseteq Accounts \cup {None}
    /\ saved \in [Accounts -> SUBSET (Accounts \cup {None})]
    /\ sessions \subseteq [peer : Peers, owner : Accounts \cup {None}]
    /\ queued \in [Accounts -> SUBSET (Accounts \cup {None})]

(* Whatever sequence of starts, switches, failed ones of either kind and   *)
(* shutdowns came before, an open ctx->db is the database of the account   *)
(* whose keys are loaded.  Any other connection that is open was abandoned *)
(* by a koe_init on a running context, and the offline queue refers to     *)
(* another connection than ctx->db only after a switch.                    *)
DbFollowsAccount ==
    /\ db # None => initialised /\ Live(db) /\ handles[db].owner = keys
    /\ \A h \in DOMAIN handles : handles[h].open => h = db \/ h \in leaked
    /\ db \notin leaked /\ queueDb \notin leaked
    /\ queueDb # db => initialised /\ switched

(* Contacts stay with the account they were added under: switching saves,  *)
(* closes and frees in an order that never writes one account's book into  *)
(* another account's database.                                             *)
ContactIsolation == \A a \in Accounts : saved[a] \subseteq {a}

(* Queued packets stay with their sender: what lies in the queue table of  *)
(* an account was signed with that account's keys, also when it got there  *)
(* through the reference that a switch leaves behind.                      *)
QueueIsolation == \A a \in Accounts : queued[a] \subseteq {a}

=============================================================================
