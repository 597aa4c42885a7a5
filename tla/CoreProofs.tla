----------------------------- MODULE CoreProofs ------------------------------
(***************************************************************************)
(* Proofs about the two parts of a context of koe_core.c that hold keys:   *)
(* KoeCore, for every number of accounts, peers and handles, and Version   *)
(* with Handshake, for every set of nodes and every assignment of builds;  *)
(* and about the presence table beside them, for every size and timeout.   *)
(*                                                                         *)
(* For KoeCore the inductive invariant adds to DbFollowsAccount what the   *)
(* order of the steps inside koe_switch_account and koe_shutdown           *)
(* maintains: the book in memory only ever holds contacts of the account   *)
(* whose keys are loaded.                                                  *)
(*                                                                         *)
(* For Handshake it says what a packet in flight witnesses: a HELLO that   *)
(* its sender still holds the matching secret key, a HELLO_ACK that its    *)
(* sender has derived the keys its receiver is going to derive, and that a *)
(* pair has at most one packet in flight per direction of handshake.  All  *)
(* of this is lost for a pair whose handshake was started with a packet    *)
(* under way, and holds again from the next start without.  What the two   *)
(* sides agreed on about versions is never lost.                           *)
(* The same invariant shows that no initiator is left waiting with nothing *)
(* under way.                                                              *)
(*                                                                         *)
(* For Presence the sweep that swaps the last entry into each hole is      *)
(* compared with what it has to leave, and every other step with what      *)
(* koe_presence_get answers before and after it.                           *)
(***************************************************************************)
EXTENDS Handshake, KoeCore, Presence, FiniteSetTheorems, TLAPS

(* The book in memory belongs to the loaded account.                       *)
BookFollowsAccount == contacts \subseteq {keys}

IInv ==
    /\ TypeOK /\ DbFollowsAccount /\ BookFollowsAccount
    /\ ContactIsolation /\ QueueIsolation

Handle == [owner : Accounts, open : BOOLEAN]

Registered == [acct : Accounts, active : BOOLEAN]

(* The invariant holds before koe_init.                                    *)
LEMMA InitIInv == Init => IInv
<1> SUFFICES ASSUME Init PROVE IInv
  BY Zenon
<1>1. TypeOK
  <2>1. /\ registry \in Seq(Registered) /\ Len(registry) <= AccountMax
        /\ handles \in Seq(Handle)
        /\ disk \in Seq(Accounts) /\ Len(disk) <= AccountMax
    BY CoreAssumption DEF CoreAssumption, Init
  <2>2. saved \in [Accounts -> SUBSET (Accounts \cup {None})]
    BY Zenon DEF Init
  <2>3. queued \in [Accounts -> SUBSET (Accounts \cup {None})]
    BY Zenon DEF Init
  <2>4. QED BY <2>1, <2>2, <2>3, Zenon DEF Init, TypeOK, Handle, Registered
<1>2. DbFollowsAccount /\ BookFollowsAccount
  BY DEF Init, DbFollowsAccount, BookFollowsAccount
<1>3. ContactIsolation /\ QueueIsolation
  BY Zenon DEF Init, ContactIsolation, QueueIsolation
<1>4. QED BY <1>1, <1>2, <1>3, Zenon DEF IInv

(* Closing ctx->db leaves no connection open but the leaked ones, and the  *)
(* rest as it was.                                                         *)
LEMMA CloseLemma ==
    ASSUME TypeOK, DbFollowsAccount
    PROVE  /\ CloseDb(handles, db) \in Seq(Handle)
           /\ DOMAIN CloseDb(handles, db) = DOMAIN handles
           /\ Len(CloseDb(handles, db)) = Len(handles)
           /\ \A h \in DOMAIN handles :
                 /\ CloseDb(handles, db)[h].open => h \in leaked
                 /\ CloseDb(handles, db)[h].owner = handles[h].owner
<1>1. handles \in Seq(Handle) /\ None \notin DOMAIN handles
  BY CoreAssumption DEF CoreAssumption, TypeOK, Handle
<1>2. \A h \in DOMAIN handles : handles[h] \in Handle
  BY <1>1
<1>3. CASE db = None
  BY <1>1, <1>3, Zenon DEF DbFollowsAccount, CloseDb
<1>4. CASE db # None
  <2> DEFINE hds == [handles EXCEPT ![db] = [owner |-> handles[db].owner, open |-> FALSE]]
  <2>1. db \in DOMAIN handles
    BY <1>4, Zenon DEF TypeOK
  <2>2. CloseDb(handles, db) = hds
    BY <1>4, Zenon DEF CloseDb
  <2>3. [owner |-> handles[db].owner, open |-> FALSE] \in Handle
    BY <1>2, <2>1, Zenon DEF Handle
  <2>4. hds \in Seq(Handle) /\ DOMAIN hds = DOMAIN handles /\ Len(hds) = Len(handles)
    BY <1>1, <2>1, <2>3
  <2>5. \A h \in DOMAIN handles : (hds[h].open => h \in leaked) /\ hds[h].owner = handles[h].owner
    BY <1>1, <1>2, <2>1, Zenon DEF DbFollowsAccount, Handle
  <2>6. QED BY <2>2, <2>4, <2>5, Zenon
<1>5. QED BY <1>3, <1>4, Zenon

(* The new connection is the last handle; of the others those are open     *)
(* that were open before.                                                  *)
LEMMA OpenLemma ==
    ASSUME NEW hds \in Seq(Handle), NEW a \in Accounts, NEW abandoned,
           \A h \in DOMAIN hds : hds[h].open => h \in abandoned
    PROVE  /\ OpenDb(hds, a) \in Seq(Handle)
           /\ DOMAIN OpenDb(hds, a) = 1 .. (Len(hds) + 1)
           /\ OpenDb(hds, a)[Len(hds) + 1] = [owner |-> a, open |-> TRUE]
           /\ \A h \in DOMAIN OpenDb(hds, a) :
                 OpenDb(hds, a)[h].open => h = Len(hds) + 1 \/ h \in abandoned
BY DEF OpenDb, Handle

(* Saving the book writes contacts of the loaded account to its database.  *)
LEMMA SaveLemma ==
    ASSUME IInv, SaveContacts
    PROVE  /\ saved' \in [Accounts -> SUBSET (Accounts \cup {None})]
           /\ \A a \in Accounts : saved'[a] \subseteq {a}
<1>1. CASE Live(db) /\ contacts # {}
  <2>1. db \in DOMAIN handles /\ handles \in Seq(Handle)
    BY <1>1, Zenon DEF IInv, TypeOK, Live, Handle
  <2>2. handles[db].owner \in Accounts /\ handles[db].owner = keys
    <3>1. handles[db] \in Handle
      BY <2>1
    <3>2. QED BY <1>1, <3>1, Zenon DEF IInv, DbFollowsAccount, Live, Handle
  <2>3. saved' = saved \/ saved' = [saved EXCEPT ![keys] = contacts]
    BY <1>1, <2>2, Zenon DEF SaveContacts, Upsert
  <2>4. QED
    BY <2>2, <2>3, Zenon DEF IInv, TypeOK, BookFollowsAccount, ContactIsolation
<1>2. CASE ~(Live(db) /\ contacts # {})
  BY <1>2, Zenon DEF IInv, TypeOK, ContactIsolation, SaveContacts, Upsert
<1>3. QED BY <1>1, <1>2, Zenon

(* Loading and saving the registry and deleting an entry keep its type.    *)
LEMMA LoadLemma ==
    ASSUME TypeOK, disk # Damaged
    PROVE  /\ LoadRegistry \in Seq(Registered)
           /\ Len(LoadRegistry) <= AccountMax
<1>1. disk \in Seq(Accounts) /\ Len(disk) <= AccountMax
  BY Zenon DEF TypeOK
<1>2. \A i \in 1 .. Len(disk) : [acct |-> disk[i], active |-> FALSE] \in Registered
  BY <1>1 DEF Registered
<1>3. QED BY <1>1, <1>2 DEF LoadRegistry

(* koe_account_registry_save keeps the types.                              *)
LEMMA SaveRegistryLemma ==
    ASSUME TypeOK, NEW reg \in Seq(Registered), Len(reg) <= AccountMax, SaveRegistry(reg)
    PROVE  /\ disk' \in Seq(Accounts) \cup {Damaged}
           /\ disk' # Damaged => Len(disk') <= AccountMax
<1>1. \A i \in 1 .. Len(reg) : reg[i].acct \in Accounts
  <2> SUFFICES ASSUME NEW i \in 1 .. Len(reg) PROVE reg[i].acct \in Accounts
    BY Zenon
  <2>1. reg[i] \in Registered
    OBVIOUS
  <2>2. QED BY <2>1, Zenon DEF Registered
<1>2. AccountsOf(reg) \in Seq(Accounts) /\ Len(AccountsOf(reg)) = Len(reg)
  BY <1>1 DEF AccountsOf
<1>3. QED BY <1>2, Zenon DEF SaveRegistry, TypeOK

(* koe_account_delete keeps the types.                                     *)
LEMMA DeleteLemma ==
    ASSUME TypeOK, NEW i \in DOMAIN registry
    PROVE  /\ WithoutEntry(registry, i) \in Seq(Registered)
           /\ Len(WithoutEntry(registry, i)) <= AccountMax
<1>1. registry \in Seq(Registered) /\ Len(registry) <= AccountMax
  BY Zenon DEF TypeOK, Registered
<1>2. AccountMax \in Nat
  BY CoreAssumption, Zenon DEF CoreAssumption
<1>3. QED BY <1>1, <1>2 DEF WithoutEntry

-----------------------------------------------------------------------------

(* The conjuncts of TypeOK about the accounts.                             *)
AcctOK ==
    /\ registry \in Seq(Registered) /\ Len(registry) <= AccountMax
    /\ disk \in Seq(Accounts) \cup {Damaged} /\ created \subseteq Accounts
    /\ disk # Damaged => Len(disk) <= AccountMax

(* koe_account_create keeps the types.                                     *)
LEMMA CreateLemma ==
    ASSUME TypeOK, NEW reg \in Seq(Registered), NEW a \in Accounts,
           CreateAccount(reg, a)
    PROVE  AcctOK'
<1>1. registry' \in Seq(Registered) /\ Len(registry') <= AccountMax
  <2>1. [acct |-> a, active |-> TRUE] \in Registered
    BY Zenon DEF Registered
  <2>2. QED
    BY <2>1, CoreAssumption DEF CoreAssumption, CreateAccount
<1>2. SaveRegistry(registry') /\ created' \subseteq Accounts
  BY Zenon DEF CreateAccount, TypeOK
<1>3. QED BY <1>1, <1>2, SaveRegistryLemma, Zenon DEF AcctOK

(* The account that koe_init ends up with.                                 *)
LEMMA InitAccountLemma ==
    ASSUME TypeOK, NEW a \in Accounts, InitAccount(a)
    PROVE  AcctOK'
<1>1. CASE CreateAccount(<< >>, a)
  <2>1. << >> \in Seq(Registered)
    OBVIOUS
  <2>2. QED BY <1>1, <2>1, CreateLemma, Zenon
<1>2. CASE disk # Damaged /\ registry' = LoadRegistry /\ UNCHANGED <<disk, created>>
  BY <1>2, LoadLemma, Zenon DEF AcctOK, TypeOK
<1>3. QED BY <1>1, <1>2, Zenon DEF InitAccount

(* memset leaves open what is or becomes leaked.                           *)
LEMMA ForgetLemma ==
    ASSUME IInv, Forget
    PROVE  /\ leaked' \subseteq DOMAIN handles /\ None \notin leaked'
           /\ \A h \in DOMAIN handles : handles[h].open => h \in leaked'
           /\ switched' = FALSE /\ contacts' = {} /\ sessions' = {}
<1>1. None \notin DOMAIN handles
  BY CoreAssumption DEF CoreAssumption, IInv, TypeOK
<1>2. QED BY <1>1, Zenon DEF Forget, IInv, TypeOK, DbFollowsAccount

(* koe_init, with every way it can fail.                                   *)
LEMMA InitStep ==
    ASSUME IInv, NEW a \in Accounts, koe_init(a)
    PROVE  IInv'
<1>1. AcctOK'
  BY InitAccountLemma, Zenon DEF koe_init, IInv
<1>2. handles \in Seq(Handle) /\ \A h \in DOMAIN handles : handles[h].open => h \in leaked'
  BY ForgetLemma, Zenon DEF koe_init, IInv, TypeOK, Handle
<1>3. /\ handles' \in Seq(Handle) /\ DOMAIN handles' = 1 .. (Len(handles) + 1)
      /\ handles'[Len(handles) + 1] = [owner |-> a, open |-> TRUE]
      /\ \A h \in DOMAIN handles' : handles'[h].open => h = Len(handles) + 1 \/ h \in leaked'
  BY <1>2, OpenLemma, Zenon DEF koe_init
<1>4. db' = Len(handles) + 1 /\ db' \in DOMAIN handles' /\ queueDb' = db' /\ db' # None
  BY <1>2, <1>3, CoreAssumption DEF CoreAssumption, koe_init
<1>5. /\ leaked' \subseteq DOMAIN handles /\ switched' = FALSE
      /\ contacts' = {} /\ sessions' = {} /\ initialised' = TRUE /\ keys' = a
      /\ queued' = queued /\ saved' = saved /\ announced' = announced
  BY ForgetLemma, Zenon DEF koe_init
<1>6. leaked' \subseteq DOMAIN handles' /\ db' \notin leaked'
  <2>1. Len(handles) \in Nat /\ DOMAIN handles = 1 .. Len(handles)
    BY <1>2
  <2> QED BY <1>3, <1>4, <1>5, <2>1
<1>7. TypeOK'
  BY <1>1, <1>3, <1>4, <1>5, <1>6, Zenon DEF AcctOK, IInv, TypeOK, Handle, Registered
<1>8. DbFollowsAccount'
  <2>1. handles'[db'].open /\ handles'[db'].owner = a
    BY <1>3, <1>4
  <2> QED BY <1>3, <1>4, <1>5, <1>6, <2>1, Zenon DEF DbFollowsAccount, Live
<1>9. BookFollowsAccount' /\ ContactIsolation' /\ QueueIsolation'
  BY <1>5, Zenon DEF IInv, BookFollowsAccount, ContactIsolation, QueueIsolation
<1> QED BY <1>7, <1>8, <1>9, Zenon DEF IInv

(* A start that fails leaves no connection but leaked ones, and an empty   *)
(* book.                                                                   *)
LEMMA InitFailureStep ==
    ASSUME IInv,
           InitActivateFails \/ \E a \in Accounts : InitCreateFails(a) \/ InitDbFails(a)
    PROVE  IInv'
<1>1. AcctOK'
  <2>1. CASE InitActivateFails
    <3>1. << >> \in Seq(Registered) /\ Len(<< >>) <= AccountMax
      BY CoreAssumption DEF CoreAssumption
    <3>2. registry' \in Seq(Registered) /\ Len(registry') <= AccountMax
      BY <2>1, <3>1, LoadLemma, Zenon DEF InitActivateFails, IInv
    <3>3. QED BY <2>1, <3>2, Zenon DEF InitActivateFails, AcctOK, IInv, TypeOK
  <2>2. ASSUME NEW a \in Accounts, InitCreateFails(a) PROVE AcctOK'
    <3>1. << >> \in Seq(Registered) /\ Len(<< >>) <= AccountMax
      BY CoreAssumption DEF CoreAssumption
    <3>2. QED BY <2>2, <3>1, Zenon DEF InitCreateFails, AcctOK, IInv, TypeOK
  <2>3. ASSUME NEW a \in Accounts, InitDbFails(a) PROVE AcctOK'
    BY <2>3, InitAccountLemma, Zenon DEF InitDbFails, IInv
  <2>4. QED BY <2>1, <2>2, <2>3, Zenon
<1>2. /\ Forget /\ initialised' = FALSE
      /\ keys' \in Accounts \cup {None}
      /\ db' = None /\ queueDb' = None /\ handles' = handles
      /\ queued' = queued /\ saved' = saved
      /\ announced' = announced
  BY Zenon DEF InitActivateFails, InitCreateFails, InitDbFails, InitFails
<1>3. /\ leaked' \subseteq DOMAIN handles' /\ None \notin leaked'
      /\ \A h \in DOMAIN handles' : handles'[h].open => h \in leaked'
      /\ switched' = FALSE /\ contacts' = {} /\ sessions' = {}
  BY <1>2, ForgetLemma, Zenon
<1>4. TypeOK'
  BY <1>1, <1>2, <1>3, Zenon DEF AcctOK, IInv, TypeOK, Registered
<1>5. DbFollowsAccount'
  BY <1>2, <1>3, Zenon DEF DbFollowsAccount
<1>6. BookFollowsAccount' /\ ContactIsolation' /\ QueueIsolation'
  BY <1>2, <1>3, Zenon DEF IInv, BookFollowsAccount, ContactIsolation, QueueIsolation
<1> QED BY <1>4, <1>5, <1>6, Zenon DEF IInv

-----------------------------------------------------------------------------

(* Every entry of the registry names an account.                           *)
LEMMA EntryLemma ==
    ASSUME TypeOK, NEW i \in DOMAIN registry
    PROVE  registry[i].acct \in Accounts
<1>1. registry \in Seq(Registered)
  BY Zenon DEF TypeOK, Registered
<1>2. registry[i] \in Registered
  BY <1>1
<1>3. QED BY <1>2, Zenon DEF Registered

(* koe_shutdown and the failed switches: contacts saved, database closed,  *)
(* book freed.                                                             *)
LEMMA LeaveStep ==
    ASSUME IInv,
           koe_shutdown \/ SwitchActivateFails
             \/ \E i \in DOMAIN registry : SwitchDbFails(i)
    PROVE  IInv'
<1>1. /\ SaveContacts
      /\ handles' = CloseDb(handles, db) /\ db' = None
      /\ queueDb' \in {queueDb, None}
      /\ contacts' = {} /\ sessions' = sessions /\ queued' = queued
      /\ initialised' \in BOOLEAN /\ announced' = announced
      /\ leaked' = leaked /\ switched' \in BOOLEAN
      /\ queueDb' = None \/ (initialised' /\ switched')
      /\ registry' = registry /\ disk' = disk /\ created' = created
  BY Zenon DEF koe_shutdown, SwitchActivateFails, SwitchDbFails, LeaveAccount, acctVars,
         histVars, IInv, TypeOK
<1>2. keys' \in Accounts \cup {None}
  <2>1. \A i \in DOMAIN registry : registry[i].acct \in Accounts
    BY EntryLemma, Zenon DEF IInv
  <2>2. QED
    BY <2>1, Zenon DEF koe_shutdown, SwitchActivateFails, SwitchDbFails
<1>3. /\ handles' \in Seq(Handle) /\ DOMAIN handles' = DOMAIN handles
      /\ \A h \in DOMAIN handles' : handles'[h].open => h \in leaked'
      /\ None \notin leaked
  <2>1. None \notin leaked
    BY CoreAssumption DEF CoreAssumption, IInv, TypeOK
  <2> QED BY <1>1, <2>1, CloseLemma, Zenon DEF IInv
<1>4. saved' \in [Accounts -> SUBSET (Accounts \cup {None})] /\ ContactIsolation'
  BY <1>1, SaveLemma, Zenon DEF ContactIsolation
<1>5. TypeOK'
  BY <1>1, <1>2, <1>3, <1>4, Zenon DEF IInv, TypeOK, Handle
<1>6. DbFollowsAccount'
  BY <1>1, <1>3, Zenon DEF IInv, DbFollowsAccount
<1>7. BookFollowsAccount' /\ QueueIsolation'
  BY <1>1, Zenon DEF IInv, BookFollowsAccount, QueueIsolation
<1>8. QED BY <1>4, <1>5, <1>6, <1>7, Zenon DEF IInv

(* koe_switch_account, with every way it can fail.                         *)
LEMMA SwitchStep ==
    ASSUME IInv, NEW i \in DOMAIN registry, koe_switch_account(i)
    PROVE  IInv'
<1> DEFINE closed == CloseDb(handles, db)
           a == registry[i].acct
<1>1. a \in Accounts
  BY EntryLemma, Zenon DEF IInv
<1>2. /\ closed \in Seq(Handle) /\ DOMAIN closed = DOMAIN handles
      /\ Len(closed) = Len(handles) /\ \A h \in DOMAIN closed : closed[h].open => h \in leaked
  BY CloseLemma, Zenon DEF IInv
<1>3. handles' = OpenDb(closed, a)
  BY Zenon DEF koe_switch_account
<1> HIDE DEF closed
<1>4. /\ handles' \in Seq(Handle) /\ DOMAIN handles' = 1 .. (Len(handles) + 1)
      /\ handles'[Len(handles) + 1] = [owner |-> a, open |-> TRUE]
      /\ \A h \in DOMAIN handles' : handles'[h].open => h = Len(handles) + 1 \/ h \in leaked
  <2>1. /\ OpenDb(closed, a) \in Seq(Handle)
        /\ DOMAIN OpenDb(closed, a) = 1 .. (Len(closed) + 1)
        /\ OpenDb(closed, a)[Len(closed) + 1] = [owner |-> a, open |-> TRUE]
        /\ \A h \in DOMAIN OpenDb(closed, a) :
              OpenDb(closed, a)[h].open => h = Len(closed) + 1 \/ h \in leaked
    <3> HIDE DEF a
    <3> QED BY <1>1, <1>2, OpenLemma, Zenon
  <2>2. Len(closed) = Len(handles)
    BY <1>2, Zenon
  <2>3. QED BY <1>3, <2>1, <2>2, Zenon
<1>5. /\ Len(handles) \in Nat /\ DOMAIN handles \subseteq DOMAIN handles'
      /\ leaked \subseteq DOMAIN handles /\ (Len(handles) + 1) \notin leaked
  BY <1>4 DEF IInv, TypeOK
<1>6. db' = Len(handles) + 1 /\ db' \in DOMAIN handles' /\ db' # None
  BY <1>4, <1>5, CoreAssumption DEF CoreAssumption, koe_switch_account
<1>7. /\ SaveContacts /\ contacts' = {} /\ initialised' = TRUE /\ keys' = a
      /\ leaked' = leaked /\ switched' = TRUE /\ queueDb' = queueDb
  BY Zenon DEF koe_switch_account, LeaveAccount, IInv, TypeOK
<1>8. saved' \in [Accounts -> SUBSET (Accounts \cup {None})] /\ ContactIsolation'
  BY <1>7, SaveLemma, Zenon DEF ContactIsolation
<1>9. TypeOK'
  BY <1>1, <1>4, <1>5, <1>6, <1>7, <1>8, Zenon
     DEF koe_switch_account, acctVars, IInv, TypeOK, Handle
<1>10. DbFollowsAccount'
  <2>1. handles'[db'].open /\ handles'[db'].owner = a
    BY <1>4, <1>6
  <2>2. db' \notin leaked' /\ queueDb' \notin leaked'
    BY <1>5, <1>6, <1>7, Zenon DEF IInv, DbFollowsAccount
  <2> QED BY <1>4, <1>6, <1>7, <2>1, <2>2, Zenon DEF DbFollowsAccount, Live
<1>11. BookFollowsAccount' /\ QueueIsolation'
  BY <1>7, Zenon DEF koe_switch_account, IInv, BookFollowsAccount, QueueIsolation
<1>12. QED BY <1>8, <1>9, <1>10, <1>11, Zenon DEF IInv

(* The calls on the registry.                                              *)
LEMMA AccountStep ==
    ASSUME IInv,
           \/ \E a \in Accounts : koe_account_create(a)
           \/ \E i \in DOMAIN registry : koe_account_delete(i)
    PROVE  IInv'
<1>1. AcctOK'
  <2>1. ASSUME NEW a \in Accounts, koe_account_create(a) PROVE AcctOK'
    <3>1. registry \in Seq(Registered)
      BY Zenon DEF IInv, TypeOK, Registered
    <3>2. QED BY <2>1, <3>1, CreateLemma, Zenon DEF koe_account_create, IInv
  <2>2. ASSUME NEW i \in DOMAIN registry, koe_account_delete(i) PROVE AcctOK'
    <3>1. registry' \in Seq(Registered) /\ Len(registry') <= AccountMax
      BY <2>2, DeleteLemma, Zenon DEF koe_account_delete, IInv
    <3>2. SaveRegistry(registry') /\ created' = created
      BY <2>2, Zenon DEF koe_account_delete
    <3>3. QED BY <3>1, <3>2, SaveRegistryLemma, Zenon DEF AcctOK, IInv, TypeOK
  <2>3. QED BY <2>1, <2>2, Zenon
<1>2. UNCHANGED <<initialised, keys, dbVars, contacts, saved, sessions, announced, histVars>>
  BY Zenon DEF koe_account_create, koe_account_delete
<1>3. TypeOK'
  BY <1>1, <1>2, Zenon DEF AcctOK, dbVars, histVars, IInv, TypeOK, Registered
<1>4. QED
  BY <1>2, <1>3, Zenon DEF dbVars, histVars, IInv, DbFollowsAccount, Live, BookFollowsAccount,
                    ContactIsolation, QueueIsolation

-----------------------------------------------------------------------------

(* What ctx->db and the queue refer to, if it is open, belongs to the      *)
(* loaded account.                                                         *)
LEMMA LiveLemma ==
    ASSUME IInv, NEW h \in {db, queueDb}, Live(h)
    PROVE  handles[h].owner = keys /\ keys \in Accounts
<1>1. h \in DOMAIN handles /\ handles[h].open /\ handles \in Seq(Handle)
  BY Zenon DEF Live, IInv, TypeOK, Handle
<1>2. h = db /\ db # None
  BY <1>1, Zenon DEF IInv, DbFollowsAccount, Live
<1>3. handles[h] \in Handle
  BY <1>1
<1>4. QED BY <1>2, <1>3, Zenon DEF IInv, DbFollowsAccount, Handle

(* koe_add_contact writes for the loaded account.                          *)
LEMMA ContactStep == IInv /\ koe_add_contact => IInv'
<1> SUFFICES ASSUME IInv, koe_add_contact PROVE IInv'
  BY Zenon
<1>1. saved' \in [Accounts -> SUBSET (Accounts \cup {None})] /\ ContactIsolation'
  <2>1. CASE Live(db)
    <3>1. handles[db].owner = keys /\ keys \in Accounts
      BY <2>1, LiveLemma, Zenon DEF IInv, TypeOK
    <3>2. QED BY <2>1, <3>1 DEF koe_add_contact, ContactAdd, Upsert, IInv, TypeOK, ContactIsolation
  <2>2. CASE ~Live(db)
    BY <2>2, Zenon DEF koe_add_contact, ContactAdd, Upsert, IInv, TypeOK, ContactIsolation
  <2>3. QED BY <2>1, <2>2, Zenon
<1>2. TypeOK' /\ BookFollowsAccount'
  BY <1>1, Zenon DEF koe_add_contact, ContactAdd, Upsert, acctVars, dbVars, histVars, IInv, TypeOK, BookFollowsAccount
<1>3. DbFollowsAccount' /\ QueueIsolation'
  BY Zenon DEF koe_add_contact, ContactAdd, Upsert, dbVars, histVars, IInv, DbFollowsAccount, QueueIsolation, Live
<1>4. QED BY <1>1, <1>2, <1>3, Zenon DEF IInv

(* koe_contact_remove changes only the book in memory.                     *)
LEMMA RemoveStep == IInv /\ koe_contact_remove => IInv'
<1> SUFFICES ASSUME IInv, koe_contact_remove PROVE IInv'
  BY Zenon
<1>1. TypeOK'
  BY Zenon DEF koe_contact_remove, acctVars, dbVars, histVars, IInv, TypeOK
<1>2. QED
  BY <1>1, Zenon DEF koe_contact_remove, dbVars, histVars, IInv, DbFollowsAccount, Live, BookFollowsAccount,
              ContactIsolation, QueueIsolation

(* koe_send_text and koe_send_file.                                        *)
LEMMA SendStep ==
    ASSUME IInv, koe_send_file \/ \E p \in Peers : koe_send_text(p)
    PROVE  IInv'
<1>1. /\ QueuePush
      /\ UNCHANGED <<initialised, acctVars, keys, db, handles, queueDb, contacts,
                     saved, sessions, announced, histVars>>
  BY Zenon DEF koe_send_file, koe_send_text
<1>2. queued' \in [Accounts -> SUBSET (Accounts \cup {None})] /\ QueueIsolation'
  <2>1. CASE queued' = queued
    BY <2>1, Zenon DEF IInv, TypeOK, QueueIsolation
  <2>2. CASE queued' # queued
    <3>1. \E conn \in {db, queueDb} :
             Live(conn) /\ queued' = [queued EXCEPT ![handles[conn].owner] = @ \cup {keys}]
      BY <1>1, <2>2, Zenon DEF QueuePush
    <3>2. queued' = [queued EXCEPT ![keys] = @ \cup {keys}] /\ keys \in Accounts
      BY <3>1, LiveLemma, Zenon
    <3>3. QED BY <3>2 DEF IInv, TypeOK, QueueIsolation
  <2>3. QED BY <2>1, <2>2, Zenon
<1>3. TypeOK'
  BY <1>1, <1>2, Zenon DEF acctVars, histVars, IInv, TypeOK
<1>4. DbFollowsAccount' /\ BookFollowsAccount' /\ ContactIsolation'
  BY <1>1, Zenon DEF histVars, IInv, DbFollowsAccount, BookFollowsAccount, ContactIsolation, Live
<1>5. QED BY <1>2, <1>3, <1>4, Zenon DEF IInv

(* Steps that touch only the sessions or the event ring.                   *)
LEMMA SessionStep ==
    ASSUME IInv,
           \/ koe_poll \/ koe_event_poll
           \/ \E p \in Peers : koe_session_establish(p) \/ koe_session_close(p)
    PROVE  IInv'
<1>1. /\ UNCHANGED <<initialised, acctVars, keys, dbVars, contacts, saved, histVars>>
      /\ announced' \in BOOLEAN
      /\ sessions' \subseteq [peer : Peers, owner : Accounts \cup {None}]
  <2>1. keys \in Accounts \cup {None} /\ announced \in BOOLEAN
        /\ sessions \subseteq [peer : Peers, owner : Accounts \cup {None}]
    BY Zenon DEF IInv, TypeOK
  <2>2. CASE koe_poll \/ koe_event_poll
    BY <2>1, <2>2, Zenon DEF koe_poll, koe_event_poll
  <2>3. ASSUME NEW p \in Peers, koe_session_establish(p)
        PROVE  /\ UNCHANGED <<initialised, acctVars, keys, dbVars, contacts, saved,
                              announced, histVars>>
               /\ sessions' \subseteq [peer : Peers, owner : Accounts \cup {None}]
    BY <2>1, <2>3 DEF koe_session_establish
  <2>4. ASSUME NEW p \in Peers, koe_session_close(p)
        PROVE  /\ UNCHANGED <<initialised, acctVars, keys, dbVars, contacts, saved,
                              announced, histVars>>
               /\ sessions' \subseteq sessions
    BY <2>4, Zenon DEF koe_session_close
  <2>5. QED BY <2>1, <2>2, <2>3, <2>4, Zenon
<1>2. TypeOK'
  BY <1>1, Zenon DEF acctVars, dbVars, histVars, IInv, TypeOK
<1>3. QED
  BY <1>1, <1>2, Zenon DEF dbVars, histVars, IInv, DbFollowsAccount, Live, BookFollowsAccount,
                    ContactIsolation, QueueIsolation

(* A step that changes nothing.                                            *)
LEMMA StutterStep == IInv /\ UNCHANGED vars => IInv'
BY DEF vars, acctVars, dbVars, histVars, IInv, TypeOK, DbFollowsAccount, Live,
       BookFollowsAccount, ContactIsolation, QueueIsolation

(* One case per action.                                                    *)
LEMMA NextIInv == IInv /\ [Next]_vars => IInv'
<1> SUFFICES ASSUME IInv, [Next]_vars PROVE IInv'
  BY Zenon
<1>1. CASE Lifecycle
  BY <1>1, InitStep, InitFailureStep, LeaveStep, SwitchStep, AccountStep, Zenon DEF Lifecycle
<1>2. CASE Calls
  BY <1>2, ContactStep, RemoveStep, SendStep, SessionStep, Zenon DEF Calls
<1>3. CASE UNCHANGED vars
  BY <1>3, StutterStep, Zenon
<1>4. QED BY <1>1, <1>2, <1>3, Zenon DEF Next

(* The invariant holds in every reachable state.                           *)
LEMMA Inductive == Spec => []IInv
<1>1. QED BY InitIInv, NextIInv, PTL DEF Spec

-----------------------------------------------------------------------------

(* The state of the context keeps its type through every sequence of       *)
(* starts, switches, shutdowns and calls, the failing ones included.       *)
THEOREM TypeCorrect == Spec => []TypeOK
<1>1. IInv => TypeOK
  BY Zenon DEF IInv
<1>2. QED BY <1>1, Inductive, PTL

(* ctx->db is always the open database of the account whose keys are       *)
(* loaded, whatever koe_init, koe_switch_account and koe_shutdown did      *)
(* before and wherever they failed; other connections are open only after  *)
(* a koe_init on a running context, and the queue has another one only     *)
(* after a switch.                                                         *)
THEOREM DbCorrect == Spec => []DbFollowsAccount
<1>1. IInv => DbFollowsAccount
  BY Zenon DEF IInv
<1>2. QED BY <1>1, Inductive, PTL

(* No sequence of calls writes a contact of one account to the database of *)
(* another (koe_contact_book_save in koe_switch_account, koe_shutdown and  *)
(* koe_add_contact).                                                       *)
THEOREM ContactsIsolated == Spec => []ContactIsolation
<1>1. IInv => ContactIsolation
  BY Zenon DEF IInv
<1>2. QED BY <1>1, Inductive, PTL

(* koe_send_text and koe_send_file push only to the queue of the account   *)
(* that signs, also through the reference that a switch leaves behind.     *)
THEOREM QueueIsolated == Spec => []QueueIsolation
<1>1. IInv => QueueIsolation
  BY Zenon DEF IInv
<1>2. QED BY <1>1, Inductive, PTL

-----------------------------------------------------------------------------

(* Both peers decide alike: the rule is symmetric, both get the same       *)
(* version, and it is neither newer than one of the builds nor refused by  *)
(* one of them.                                                            *)
THEOREM NegotiationTheorem ==
    ASSUME NEW a \in Versions, NEW b \in Versions
    PROVE  LET v == koe_version_negotiate(a, b) IN
           /\ koe_version_compatible(a, b) <=> koe_version_compatible(b, a)
           /\ v \in Versions /\ v = koe_version_negotiate(b, a)
           /\ Lower(v, a) /\ Lower(v, b)
           /\ koe_version_negotiate(a, v) = v
           /\ koe_version_compatible(a, b) =>
                 koe_version_compatible(v, a) /\ koe_version_compatible(v, b)
<1>1. /\ a.major \in Nat /\ a.minor \in Nat /\ b.major \in Nat /\ b.minor \in Nat
      /\ (a.major = b.major /\ a.minor = b.minor => a = b)
  <2>1. a.major \in Nat /\ a.minor \in Nat /\ b.major \in Nat /\ b.minor \in Nat
    BY SMTT(30) DEF Versions
  <2>2. /\ a = [major |-> a.major, minor |-> a.minor]
        /\ b = [major |-> b.major, minor |-> b.minor]
    BY SMTT(30) DEF Versions
  <2>3. a.major = b.major /\ a.minor = b.minor => a = b
    BY <2>2, Zenon
  <2>4. QED BY <2>1, <2>3, Zenon
<1>2. koe_version_compatible(a, b) <=> koe_version_compatible(b, a)
  BY <1>1, Zenon DEF koe_version_compatible
<1>3. Lower(a, b) /\ Lower(b, a) => a = b
  BY <1>1 DEF Lower
<1>4. Lower(a, b) \/ Lower(b, a)
  BY <1>1 DEF Lower
<1>5. Lower(a, a) /\ Lower(b, b) /\ koe_version_compatible(a, a)
      /\ koe_version_compatible(b, b)
  BY <1>1 DEF Lower, koe_version_compatible
<1>6. QED
  BY <1>2, <1>3, <1>4, <1>5, Zenon DEF koe_version_negotiate

-----------------------------------------------------------------------------

(* What m has settled with n once it has answered a HELLO of n.            *)
Agreed(m, n) ==
    /\ koe_version_compatible(Build[m], Build[n])
    /\ rs[m][n].state = "COMPLETE" /\ rs[m][n].initiator = FALSE
    /\ rs[m][n].version = koe_version_negotiate(Build[m], Build[n])

VersionInv ==
    \A p \in net :
       /\ p.type = "HELLO" => p.version = Build[p.from]
       /\ p.type = "HELLO_ACK" =>
             /\ Agreed(p.from, p.to)
             /\ p.version = koe_version_negotiate(Build[p.from], Build[p.to])

(* What a packet in flight says about the two contexts it connects.        *)
HelloInv ==
    \A p \in net : p.type = "HELLO" /\ Pair(p) \notin late =>
       /\ hs[p.from][p.to].state = "SENT_HELLO"
       /\ hs[p.from][p.to].sk = p.eph

AckInv ==
    \A p \in net : p.type = "HELLO_ACK" /\ Pair(p) \notin late =>
       /\ hs[p.to][p.from].state = "SENT_HELLO"
       /\ rs[p.from][p.to].keys =
             [secret |-> {p.eph, hs[p.to][p.from].sk}, order |-> <<p.to, p.from>>]

OnePacket ==
    \A p, q \in net : Pair(p) = Pair(q) /\ Pair(p) \notin late => p = q

DoneInv ==
    \A n, m \in Nodes : hs[n][m].state = "COMPLETE" =>
       /\ hs[n][m].initiator = TRUE
       /\ Agreed(m, n)
       /\ hs[n][m].version = rs[m][n].version
       /\ <<n, m>> \notin late => hs[n][m].keys = rs[m][n].keys

HandshakeInv == HandshakeTypeOK /\ VersionInv /\ HelloInv /\ AckInv /\ OnePacket /\ DoneInv

Pkt == [type : {"HELLO", "HELLO_ACK"}, from : Nodes, to : Nodes,
        version : Versions, eph : Ephs]

(* A zeroed koe_handshake_t is a context.                                  *)
LEMMA IdleLemma == Idle \in Context
BY DEF Idle, Handshaking, Context, NoKeys, NoVersion, Zero, Versions

(* The invariant holds before the first start.                             *)
LEMMA HandshakeInitial == HandshakeInit => HandshakeInv
<1> SUFFICES ASSUME HandshakeInit PROVE HandshakeInv
  BY Zenon
<1>2. HandshakeTypeOK
  BY IdleLemma, HandshakeAssumption, Zenon DEF HandshakeInit, HandshakeTypeOK, HandshakeAssumption
<1>3. VersionInv /\ HelloInv /\ AckInv /\ OnePacket
  BY Zenon DEF HandshakeInit, VersionInv, HelloInv, AckInv, OnePacket
<1>4. DoneInv
  BY Zenon DEF HandshakeInit, DoneInv, Idle, Handshaking
<1>5. QED BY <1>2, <1>3, <1>4, Zenon DEF HandshakeInv

-----------------------------------------------------------------------------

(* A generated key pair, and the count that goes with it.                  *)
LEMMA EphLemma ==
    ASSUME HandshakeTypeOK, NEW n \in Nodes, NEW m \in Nodes,
           ephs' = [ephs EXCEPT ![n][m] = @ + 1]
    PROVE  Eph(n, m) \in Ephs /\ ephs' \in [Nodes -> [Nodes -> Nat]]
<1>1. ephs[n][m] \in Nat /\ ephs[n] \in [Nodes -> Nat]
  BY Zenon DEF HandshakeTypeOK
<1>2. ephs[n][m] + 1 \in Nat \ {0}
  BY <1>1
<1>3. QED BY <1>1, <1>2, Zenon DEF HandshakeTypeOK, Eph, Ephs

(* A packet that leaves the network for good takes no fact with it.        *)
LEMMA LoseStep ==
    ASSUME HandshakeInv, NEW p \in net, Lose(p)
    PROVE  HandshakeInv'
<1>1. net' = net \ {p} /\ hs' = hs /\ rs' = rs /\ ephs' = ephs /\ starts' = starts
      /\ late' = late /\ lost' = lost \cup {Pair(p)}
  BY Zenon DEF Lose
<1>2. Pair(p) \in Nodes \X Nodes
  <2>1. p.from \in Nodes /\ p.to \in Nodes
    BY Zenon DEF HandshakeInv, HandshakeTypeOK
  <2>2. QED BY <2>1, Zenon DEF Pair
<1>3. HandshakeTypeOK'
  BY <1>1, <1>2, Zenon DEF HandshakeInv, HandshakeTypeOK
<1>4. VersionInv' /\ HelloInv' /\ AckInv' /\ OnePacket'
  <2>1. VersionInv'
    BY <1>1, Zenon DEF HandshakeInv, VersionInv, Agreed
  <2>2. HelloInv'
    BY <1>1, Zenon DEF HandshakeInv, HelloInv
  <2>3. AckInv'
    BY <1>1, Zenon DEF HandshakeInv, AckInv
  <2>4. OnePacket'
    BY <1>1, Zenon DEF HandshakeInv, OnePacket
  <2>5. QED BY <2>1, <2>2, <2>3, <2>4, Zenon
<1>5. DoneInv'
  BY <1>1 DEF HandshakeInv, DoneInv, Agreed
<1>6. QED BY <1>3, <1>4, <1>5, Zenon DEF HandshakeInv

(* A start with nothing under way gives the pair its claims back; a start  *)
(* with a packet under way gives them up.                                  *)
LEMMA StartStep ==
    ASSUME HandshakeInv, NEW n \in Nodes, NEW m \in Nodes, Start(n, m)
    PROVE  HandshakeInv'
<1> DEFINE c == Handshaking("SENT_HELLO", Eph(n, m), NoKeys, FALSE, NoVersion)
           h == Packet("HELLO", n, m, Build[n], Eph(n, m))
<1>1. /\ hs' = [hs EXCEPT ![n][m] = c] /\ net' = net \cup {h} /\ rs' = rs
      /\ Eph(n, m) \in Ephs /\ ephs' \in [Nodes -> [Nodes -> Nat]]
      /\ starts' = starts + 1 /\ lost' = lost \ {<<n, m>>}
  BY EphLemma, Zenon DEF Start, koe_handshake_init, HandshakeInv
<1>2. c \in Context /\ c.state = "SENT_HELLO" /\ c.sk = Eph(n, m)
  BY <1>1 DEF Handshaking, Context, NoKeys, NoVersion, Versions
<1>3. h \in Pkt /\ h.type = "HELLO" /\ h.from = n /\ h.to = m /\ h.eph = Eph(n, m)
      /\ h.version = Build[n]
  BY <1>1, HandshakeAssumption, Zenon DEF HandshakeAssumption, Packet, Pkt
<1> HIDE DEF c, h
<1>4. /\ hs \in [Nodes -> [Nodes -> Context]] /\ net \subseteq Pkt
      /\ \A x, y \in Nodes : hs'[x][y] = IF x = n /\ y = m THEN c ELSE hs[x][y]
  BY <1>1, Zenon DEF HandshakeInv, HandshakeTypeOK, Pkt
<1>5. /\ \A q \in net : Pair(q) \notin late' => Pair(q) # <<n, m>> /\ Pair(q) \notin late
      /\ \A x, y \in Nodes : ~(x = n /\ y = m) /\ <<x, y>> \notin late' => <<x, y>> \notin late
      /\ late' \subseteq late \cup {<<n, m>>}
  BY Zenon DEF Start
<1>6. HandshakeTypeOK'
  <2>1. hs' \in [Nodes -> [Nodes -> Context]]
    BY <1>1, <1>2, <1>4, Zenon
  <2>2. late' \subseteq Nodes \X Nodes /\ lost' \subseteq Nodes \X Nodes /\ starts' \in Nat
    BY <1>1, <1>5 DEF HandshakeInv, HandshakeTypeOK
  <2>3. QED BY <1>1, <1>3, <2>1, <2>2, Zenon DEF HandshakeInv, HandshakeTypeOK, Pkt
<1>7. VersionInv'
  BY <1>1, <1>3, Zenon DEF HandshakeInv, VersionInv, Agreed
<1>8. ASSUME NEW q \in net, Pair(q) \notin late'
      PROVE  /\ Pair(q) \notin late
             /\ hs'[Pair(q)[1]][Pair(q)[2]] = hs[Pair(q)[1]][Pair(q)[2]]
  <2>1. q.from \in Nodes /\ q.to \in Nodes
    BY <1>4, Zenon DEF Pkt
  <2>2. Pair(q) # <<n, m>> /\ Pair(q) \notin late
    BY <1>5, <1>8, Zenon
  <2>3. CASE q.type = "HELLO"
    BY <2>1, <2>2, <2>3, <1>4, Zenon DEF Pair
  <2>4. CASE q.type # "HELLO"
    BY <2>1, <2>2, <2>4, <1>4, Zenon DEF Pair
  <2>5. QED BY <2>2, <2>3, <2>4, Zenon
<1>9. HelloInv'
  <2> SUFFICES ASSUME NEW q \in net', q.type = "HELLO", Pair(q) \notin late'
               PROVE  hs'[q.from][q.to].state = "SENT_HELLO" /\ hs'[q.from][q.to].sk = q.eph
    BY Zenon DEF HelloInv, Pair
  <2>1. CASE q = h
    BY <2>1, <1>2, <1>3, <1>4, Zenon
  <2>2. CASE q # h
    <3>1. q \in net
      BY <2>2, <1>1, Zenon
    <3>2. Pair(q) \notin late /\ hs'[q.from][q.to] = hs[q.from][q.to]
      BY <3>1, <1>8, Zenon DEF Pair
    <3>3. QED BY <3>1, <3>2, Zenon DEF HandshakeInv, HelloInv
  <2>3. QED BY <2>1, <2>2, Zenon
<1>10. AckInv'
  <2> SUFFICES ASSUME NEW q \in net', q.type = "HELLO_ACK", Pair(q) \notin late'
               PROVE  /\ hs'[q.to][q.from].state = "SENT_HELLO"
                      /\ rs[q.from][q.to].keys =
                            [secret |-> {q.eph, hs'[q.to][q.from].sk},
                             order |-> <<q.to, q.from>>]
    BY <1>1, Zenon DEF AckInv, Pair
  <2>1. q \in net
    BY <1>1, <1>3, Zenon
  <2>2. Pair(q) \notin late /\ hs'[q.to][q.from] = hs[q.to][q.from]
    BY <2>1, <1>8, Zenon DEF Pair
  <2>3. QED BY <2>1, <2>2, Zenon DEF HandshakeInv, AckInv
<1>11. OnePacket'
  <2>1. Pair(h) = <<n, m>>
    BY <1>3, Zenon DEF Pair
  <2> SUFFICES ASSUME NEW q \in net', NEW r \in net', Pair(q) = Pair(r),
                      Pair(q) \notin late'
               PROVE  q = r
    BY Zenon DEF OnePacket, Pair
  <2>2. CASE q \in net /\ r \in net
    BY <2>2, <1>5, Zenon DEF HandshakeInv, OnePacket
  <2>3. CASE ~(q \in net /\ r \in net)
    BY <2>1, <2>3, <1>1, <1>5, Zenon
  <2>4. QED BY <2>2, <2>3, Zenon
<1>12. DoneInv'
  <2> SUFFICES ASSUME NEW x \in Nodes, NEW y \in Nodes, hs'[x][y].state = "COMPLETE"
               PROVE  /\ hs'[x][y].initiator = TRUE
                      /\ Agreed(y, x)'
                      /\ hs'[x][y].version = rs'[y][x].version
                      /\ <<x, y>> \notin late' => hs'[x][y].keys = rs'[y][x].keys
    BY Zenon DEF DoneInv
  <2>1. ~(x = n /\ y = m) /\ hs'[x][y] = hs[x][y]
    BY <1>2, <1>4, Zenon
  <2>2. <<x, y>> \notin late' => <<x, y>> \notin late
    BY <2>1, <1>5, Zenon
  <2>3. QED BY <2>1, <2>2, <1>1 DEF HandshakeInv, DoneInv, Agreed
<1>13. QED BY <1>6, <1>7, <1>9, <1>10, <1>11, <1>12, Zenon DEF HandshakeInv

(* koe_handshake_respond: the answer says what the context now holds.      *)
LEMMA RespondStep ==
    ASSUME HandshakeInv, NEW p \in net, koe_handshake_respond(p)
    PROVE  HandshakeInv'
<1> DEFINE n == p.to
           m == p.from
           c == Responded(p, Eph(n, m))
           k == Answer(p, Eph(n, m))
<1>1. p \in Pkt /\ p.type = "HELLO" /\ n \in Nodes /\ m \in Nodes
  BY Zenon DEF koe_handshake_respond, HandshakeInv, HandshakeTypeOK, Pkt
<1>2. /\ rs' = [rs EXCEPT ![n][m] = c] /\ net' = (net \ {p}) \cup {k} /\ hs' = hs
      /\ Eph(n, m) \in Ephs /\ ephs' \in [Nodes -> [Nodes -> Nat]]
      /\ starts' = starts /\ late' = late /\ lost' = lost
  BY <1>1, EphLemma, Zenon DEF koe_handshake_respond, HandshakeInv, history
<1>3. /\ p.version = Build[m]
      /\ koe_version_compatible(Build[n], Build[m])
      /\ <<m, n>> \notin late => hs[m][n].state = "SENT_HELLO" /\ hs[m][n].sk = p.eph
  <2>1. p.version = Build[m]
    BY <1>1, Zenon DEF HandshakeInv, VersionInv
  <2>2. koe_version_compatible(Build[n], Build[m])
    BY <2>1, Zenon DEF koe_handshake_respond
  <2>3. QED BY <1>1, <2>1, <2>2, Zenon DEF HandshakeInv, HelloInv, Pair
<1>4. Build[n] \in Versions /\ Build[m] \in Versions
      /\ koe_version_negotiate(Build[n], Build[m]) \in Versions
  BY <1>1, HandshakeAssumption, NegotiationTheorem DEF HandshakeAssumption
<1>5. /\ c.state = "COMPLETE" /\ c.initiator = FALSE
      /\ c.keys = [secret |-> {Eph(n, m), p.eph}, order |-> <<m, n>>]
      /\ c.version = koe_version_negotiate(Build[n], Build[m])
      /\ c.sk = Zero
      /\ c = [state |-> "COMPLETE", sk |-> Zero, initiator |-> FALSE,
              keys |-> c.keys, version |-> c.version]
  BY <1>3, Zenon DEF Responded, Handshaking, koe_session_derive
<1>6. /\ k.type = "HELLO_ACK" /\ k.from = n /\ k.to = m /\ k.eph = Eph(n, m)
      /\ k.version = koe_version_negotiate(Build[n], Build[m])
      /\ k \in Pkt
  BY <1>1, <1>2, <1>3, <1>4, Zenon DEF Answer, Packet, Pkt
<1>7. c \in Context
  <2>1. p.eph \in Ephs
    BY <1>1, Zenon DEF Pkt
  <2>2. c.keys \in [secret : SUBSET (Ephs \cup {Zero}),
                    order : {<< >>} \cup (Nodes \X Nodes)]
    BY <1>1, <1>2, <1>5, <2>1
  <2>3. QED BY <1>4, <1>5, <2>2, Zenon DEF Context
<1> HIDE DEF c, k
<1>8. /\ rs \in [Nodes -> [Nodes -> Context]] /\ net \subseteq Pkt
      /\ \A x, y \in Nodes : rs'[x][y] = IF x = n /\ y = m THEN c ELSE rs[x][y]
  BY <1>1, <1>2, Zenon DEF HandshakeInv, HandshakeTypeOK, Pkt
<1>9. \A q \in net : q # p /\ Pair(q) \notin late => Pair(q) # <<m, n>>
  BY <1>1, Zenon DEF HandshakeInv, OnePacket, Pair
<1>10. HandshakeTypeOK'
  <2>1. rs' \in [Nodes -> [Nodes -> Context]]
    BY <1>1, <1>2, <1>7, <1>8, Zenon
  <2>2. QED BY <1>2, <1>6, <2>1, Zenon DEF HandshakeInv, HandshakeTypeOK, Pkt
<1>11. \A x, y \in Nodes : Agreed(x, y) => Agreed(x, y)'
  BY <1>5, <1>8 DEF Agreed
<1>12. Agreed(n, m)'
  BY <1>1, <1>3, <1>5, <1>8, Zenon DEF Agreed
<1>13. VersionInv'
  <2> SUFFICES ASSUME NEW q \in net'
               PROVE  /\ q.type = "HELLO" => q.version = Build[q.from]
                      /\ q.type = "HELLO_ACK" =>
                           /\ Agreed(q.from, q.to)'
                           /\ q.version = koe_version_negotiate(Build[q.from], Build[q.to])
    BY Zenon DEF VersionInv
  <2>1. CASE q = k
    BY <2>1, <1>6, <1>12, Zenon
  <2>2. CASE q # k
    <3>1. q \in net /\ q.from \in Nodes /\ q.to \in Nodes
      BY <2>2, <1>2, <1>8, Zenon DEF Pkt
    <3>2. QED BY <3>1, <1>11, Zenon DEF HandshakeInv, VersionInv
  <2>3. QED BY <2>1, <2>2, Zenon
<1>14. HelloInv'
  BY <1>2, <1>6, Zenon DEF HandshakeInv, HelloInv, Pair
<1>15. AckInv'
  <2> SUFFICES ASSUME NEW q \in net', q.type = "HELLO_ACK", Pair(q) \notin late
               PROVE  /\ hs[q.to][q.from].state = "SENT_HELLO"
                      /\ rs'[q.from][q.to].keys =
                            [secret |-> {q.eph, hs[q.to][q.from].sk},
                             order |-> <<q.to, q.from>>]
    BY <1>2, Zenon DEF AckInv, Pair
  <2>1. CASE q = k
    <3>1. <<m, n>> \notin late
      BY <2>1, <1>6, Zenon DEF Pair
    <3>2. hs[m][n].state = "SENT_HELLO" /\ hs[m][n].sk = p.eph
      BY <3>1, <1>3, Zenon
    <3>3. rs'[n][m] = c
      BY <1>1, <1>8, Zenon
    <3>4. rs'[n][m].keys = [secret |-> {Eph(n, m), p.eph}, order |-> <<m, n>>]
      BY <3>3, <1>5, Zenon
    <3>5. q.from = n /\ q.to = m /\ q.eph = Eph(n, m)
      BY <2>1, <1>6, Zenon
    <3>6. QED BY <3>2, <3>4, <3>5, Zenon
  <2>2. CASE q # k
    <3>1. q \in net /\ q # p
      BY <2>2, <1>2, <1>1, Zenon
    <3>2. q.from \in Nodes /\ q.to \in Nodes /\ ~(q.from = n /\ q.to = m)
      BY <3>1, <1>8, <1>9, Zenon DEF Pair, Pkt
    <3>3. rs'[q.from][q.to] = rs[q.from][q.to]
      BY <3>2, <1>8, Zenon
    <3>4. QED BY <3>1, <3>3, Zenon DEF HandshakeInv, AckInv
  <2>3. QED BY <2>1, <2>2, Zenon
<1>16. OnePacket'
  <2>1. Pair(k) = <<m, n>>
    BY <1>6, Zenon DEF Pair
  <2>2. QED BY <1>2, <1>9, <2>1 DEF HandshakeInv, OnePacket, Pair
<1>17. DoneInv'
  <2> SUFFICES ASSUME NEW x \in Nodes, NEW y \in Nodes, hs[x][y].state = "COMPLETE"
               PROVE  /\ hs[x][y].initiator = TRUE
                      /\ Agreed(y, x)'
                      /\ hs[x][y].version = rs'[y][x].version
                      /\ <<x, y>> \notin late => hs[x][y].keys = rs'[y][x].keys
    BY <1>2, Zenon DEF DoneInv
  <2>1. /\ hs[x][y].initiator = TRUE /\ Agreed(y, x)
        /\ hs[x][y].version = rs[y][x].version
        /\ <<x, y>> \notin late => hs[x][y].keys = rs[y][x].keys
    BY Zenon DEF HandshakeInv, DoneInv
  <2>2. Agreed(y, x)' /\ rs'[y][x].version = rs[y][x].version
    BY <2>1, <1>11, Zenon DEF Agreed
  <2>3. CASE y = n /\ x = m
    BY <2>1, <2>2, <2>3, <1>3, Zenon
  <2>4. CASE ~(y = n /\ x = m)
    BY <2>1, <2>2, <2>4, <1>8, Zenon
  <2>5. QED BY <2>3, <2>4, Zenon
<1>18. QED BY <1>10, <1>13, <1>14, <1>15, <1>16, <1>17, Zenon DEF HandshakeInv

(* A refused HELLO clears a context that no one relies on: an incompatible *)
(* peer has never been answered.                                           *)
LEMMA RefuseStep ==
    ASSUME HandshakeInv, NEW p \in net, RespondRefuses(p)
    PROVE  HandshakeInv'
<1> DEFINE n == p.to
           m == p.from
<1>1. p \in Pkt /\ p.type = "HELLO" /\ n \in Nodes /\ m \in Nodes /\ net \subseteq Pkt
  BY Zenon DEF RespondRefuses, HandshakeInv, HandshakeTypeOK, Pkt
<1>2. /\ rs' = [rs EXCEPT ![n][m] = Idle] /\ net' = net \ {p} /\ hs' = hs /\ ephs' = ephs
      /\ starts' = starts /\ late' = late /\ lost' = lost
  BY Zenon DEF RespondRefuses, history
<1>3. ~Agreed(n, m)
  BY <1>1, Zenon DEF RespondRefuses, HandshakeInv, VersionInv, Agreed
<1>4. rs' \in [Nodes -> [Nodes -> Context]]
      /\ \A x, y \in Nodes : rs'[x][y] = IF x = n /\ y = m THEN Idle ELSE rs[x][y]
  BY <1>1, <1>2, IdleLemma, Zenon DEF HandshakeInv, HandshakeTypeOK
<1>5. \A x, y \in Nodes : Agreed(x, y) => rs'[x][y] = rs[x][y] /\ Agreed(x, y)'
  <2> SUFFICES ASSUME NEW x \in Nodes, NEW y \in Nodes, Agreed(x, y)
               PROVE  rs'[x][y] = rs[x][y] /\ Agreed(x, y)'
    BY Zenon
  <2>1. ~(x = n /\ y = m)
    BY <1>3, Zenon
  <2>2. rs'[x][y] = rs[x][y]
    BY <2>1, <1>4, Zenon
  <2>3. QED BY <2>2, Zenon DEF Agreed
<1>6. HandshakeTypeOK' /\ HelloInv' /\ OnePacket'
  BY <1>2, <1>4, Zenon DEF HandshakeInv, HandshakeTypeOK, HelloInv, OnePacket, Pair
<1>7. ASSUME NEW q \in net', q.type = "HELLO_ACK"
      PROVE  q \in net /\ Agreed(q.from, q.to) /\ Agreed(q.from, q.to)'
             /\ rs'[q.from][q.to] = rs[q.from][q.to]
  <2>1. q \in net /\ q.from \in Nodes /\ q.to \in Nodes
    BY <1>1, <1>2, Zenon DEF Pkt
  <2>2. Agreed(q.from, q.to)
    BY <2>1, <1>7, Zenon DEF HandshakeInv, VersionInv
  <2>3. QED BY <2>1, <2>2, <1>5, Zenon
<1>8. VersionInv'
  BY <1>2, <1>7, Zenon DEF HandshakeInv, VersionInv
<1>9. AckInv'
  BY <1>2, <1>7, Zenon DEF HandshakeInv, AckInv, Pair
<1>10. DoneInv'
  BY <1>2, <1>5 DEF HandshakeInv, DoneInv
<1>11. QED BY <1>6, <1>8, <1>9, <1>10, Zenon DEF HandshakeInv

(* koe_handshake_finalise: the initiator ends up with the same keys.       *)
LEMMA FinaliseStep ==
    ASSUME HandshakeInv, NEW p \in net, koe_handshake_finalise(p)
    PROVE  HandshakeInv'
<1> DEFINE n == p.to
           m == p.from
           o == hs[n][m]
           c == Finalised(o, p, n)
<1>1. /\ p \in Pkt /\ p.type = "HELLO_ACK" /\ n \in Nodes /\ m \in Nodes
      /\ net \subseteq Pkt /\ hs \in [Nodes -> [Nodes -> Context]] /\ o \in Context
  BY Zenon DEF koe_handshake_finalise, HandshakeInv, HandshakeTypeOK, Pkt
<1>2. /\ hs' = [hs EXCEPT ![n][m] = c] /\ net' = net \ {p} /\ rs' = rs /\ ephs' = ephs
      /\ starts' = starts /\ late' = late /\ lost' = lost
  BY <1>1, Zenon DEF koe_handshake_finalise, history
<1>3. /\ Agreed(m, n)
      /\ p.version = koe_version_negotiate(Build[m], Build[n])
      /\ <<n, m>> \notin late =>
            rs[m][n].keys = [secret |-> {p.eph, o.sk}, order |-> <<n, m>>]
  BY <1>1, Zenon DEF HandshakeInv, VersionInv, AckInv, Pair
<1>4. /\ Build[n] \in Versions /\ Build[m] \in Versions
      /\ koe_version_negotiate(Build[n], p.version) = p.version
      /\ p.version \in Versions
  <2>1. Build[n] \in Versions /\ Build[m] \in Versions
    BY <1>1, HandshakeAssumption, Zenon DEF HandshakeAssumption
  <2>2. p.version = koe_version_negotiate(Build[n], Build[m])
    BY <1>3, <2>1, NegotiationTheorem, Zenon
  <2>3. QED BY <2>1, <2>2, NegotiationTheorem
<1>5. c = [state |-> "COMPLETE", sk |-> Zero, initiator |-> TRUE,
           keys |-> [secret |-> {o.sk, p.eph}, order |-> <<n, m>>],
           version |-> p.version]
  BY <1>4, Zenon DEF Finalised, Handshaking, koe_session_derive
<1>6. c \in Context
  <2>1. p.eph \in Ephs /\ o.sk \in Ephs \cup {Zero}
    BY <1>1, Zenon DEF Pkt, Context
  <2>2. [secret |-> {o.sk, p.eph}, order |-> <<n, m>>]
           \in [secret : SUBSET (Ephs \cup {Zero}),
                order : {<< >>} \cup (Nodes \X Nodes)]
    BY <1>1, <2>1, Zenon
  <2>3. QED BY <1>4, <1>5, <2>2 DEF Context
<1>7. /\ c.state = "COMPLETE" /\ c.initiator = TRUE
      /\ c.version = rs[m][n].version
      /\ <<n, m>> \notin late => c.keys = rs[m][n].keys
  <2> HIDE DEF c
  <2>1. rs[m][n].version = p.version
    BY <1>3, Zenon DEF Agreed
  <2>2. /\ c.state = "COMPLETE" /\ c.initiator = TRUE /\ c.version = p.version
        /\ c.keys = [secret |-> {o.sk, p.eph}, order |-> <<n, m>>]
    BY <1>5, Zenon
  <2>3. {o.sk, p.eph} = {p.eph, o.sk}
    BY Zenon
  <2>4. QED BY <1>3, <2>1, <2>2, <2>3, Zenon
<1> HIDE DEF c
<1>8. \A x, y \in Nodes : hs'[x][y] = IF x = n /\ y = m THEN c ELSE hs[x][y]
  BY <1>1, <1>2, Zenon
<1>9. \A q \in net : q # p /\ Pair(q) \notin late =>
         Pair(q) # <<n, m>> /\ q.from \in Nodes /\ q.to \in Nodes
  BY <1>1, Zenon DEF HandshakeInv, OnePacket, Pair, Pkt
<1>10. HandshakeTypeOK' /\ OnePacket' /\ VersionInv'
  <2>1. hs' \in [Nodes -> [Nodes -> Context]]
    BY <1>1, <1>2, <1>6, Zenon
  <2>2. QED BY <1>2, <2>1, Zenon DEF HandshakeInv, HandshakeTypeOK, OnePacket, Pair, VersionInv, Agreed
<1>11. HelloInv'
  <2> SUFFICES ASSUME NEW q \in net, q # p, q.type = "HELLO", Pair(q) \notin late
               PROVE  hs'[q.from][q.to] = hs[q.from][q.to]
    BY <1>2, Zenon DEF HandshakeInv, HelloInv, Pair
  <2>1. q.from \in Nodes /\ q.to \in Nodes /\ ~(q.from = n /\ q.to = m)
    BY <1>9, Zenon DEF Pair
  <2>2. QED BY <2>1, <1>8, Zenon
<1>12. AckInv'
  <2> SUFFICES ASSUME NEW q \in net, q # p, q.type = "HELLO_ACK", Pair(q) \notin late
               PROVE  hs'[q.to][q.from] = hs[q.to][q.from]
    BY <1>2, Zenon DEF HandshakeInv, AckInv, Pair
  <2>1. q.from \in Nodes /\ q.to \in Nodes /\ ~(q.to = n /\ q.from = m)
    BY <1>9, Zenon DEF Pair
  <2>2. QED BY <2>1, <1>8, Zenon
<1>13. DoneInv'
  <2> SUFFICES ASSUME NEW x \in Nodes, NEW y \in Nodes, hs'[x][y].state = "COMPLETE"
               PROVE  /\ hs'[x][y].initiator = TRUE
                      /\ Agreed(y, x)'
                      /\ hs'[x][y].version = rs'[y][x].version
                      /\ <<x, y>> \notin late' => hs'[x][y].keys = rs'[y][x].keys
    BY Zenon DEF DoneInv
  <2>1. Agreed(y, x) => Agreed(y, x)'
    BY <1>2, Zenon DEF Agreed
  <2>2. CASE x = n /\ y = m
    <3>1. hs'[x][y] = c
      BY <2>2, <1>8, Zenon
    <3>2. Agreed(y, x)
      BY <2>2, <1>3, Zenon
    <3>3. /\ hs'[x][y].initiator = TRUE
          /\ hs'[x][y].version = rs[y][x].version
          /\ <<x, y>> \notin late => hs'[x][y].keys = rs[y][x].keys
      BY <2>2, <3>1, <1>7, Zenon
    <3>4. QED BY <2>1, <3>2, <3>3, <1>2, Zenon
  <2>3. CASE ~(x = n /\ y = m)
    <3>1. hs'[x][y] = hs[x][y]
      BY <2>3, <1>8, Zenon
    <3>2. /\ hs'[x][y].initiator = TRUE /\ Agreed(y, x)
          /\ hs'[x][y].version = rs[y][x].version
          /\ <<x, y>> \notin late => hs'[x][y].keys = rs[y][x].keys
      BY <3>1 DEF HandshakeInv, DoneInv
    <3>3. QED BY <2>1, <3>2, <1>2, Zenon
  <2>4. QED BY <2>2, <2>3, Zenon
<1>14. QED BY <1>10, <1>11, <1>12, <1>13, Zenon DEF HandshakeInv

-----------------------------------------------------------------------------

(* The invariant holds in every reachable state.                           *)
LEMMA HandshakeInductive == HandshakeSpec => []HandshakeInv
<1>1. HandshakeInv /\ [HandshakeNext]_handshakeVars => HandshakeInv'
  <2> SUFFICES ASSUME HandshakeInv, [HandshakeNext]_handshakeVars PROVE HandshakeInv'
    BY Zenon
  <2>1. CASE UNCHANGED handshakeVars
    <3>1. /\ hs' = hs /\ rs' = rs /\ net' = net /\ ephs' = ephs
          /\ starts' = starts /\ late' = late /\ lost' = lost
      BY <2>1, Zenon DEF handshakeVars
    <3>2. HandshakeTypeOK'
      BY <3>1, Zenon DEF HandshakeInv, HandshakeTypeOK
    <3>3. VersionInv'
      BY <3>1, Zenon DEF HandshakeInv, VersionInv, Agreed
    <3>4. DoneInv'
      <4>1. \A m, n \in Nodes : Agreed(m, n) => Agreed(m, n)'
        BY <3>1, Zenon DEF Agreed
      <4>2. QED BY <3>1, <4>1, Zenon DEF HandshakeInv, DoneInv
    <3>5. OnePacket'
      BY <3>1, Zenon DEF HandshakeInv, OnePacket
    <3>6. HelloInv'
      BY <3>1, Zenon DEF HandshakeInv, HelloInv
    <3>7. AckInv'
      BY <3>1, Zenon DEF HandshakeInv, AckInv
    <3>8. QED BY <3>2, <3>3, <3>4, <3>5, <3>6, <3>7, Zenon DEF HandshakeInv
  <2>2. CASE HandshakeNext
    BY <2>2, StartStep, RespondStep, RefuseStep, FinaliseStep, LoseStep, Zenon
       DEF HandshakeNext, Deliver
  <2>3. QED BY <2>1, <2>2, Zenon
<1>2. QED BY <1>1, HandshakeInitial, PTL DEF HandshakeSpec

(* The contexts and packets keep their types.                              *)
THEOREM HandshakeTypeCorrect == HandshakeSpec => []HandshakeTypeOK
<1>1. HandshakeInv => HandshakeTypeOK
  BY Zenon DEF HandshakeInv
<1>2. QED BY <1>1, HandshakeInductive, PTL

(* koe_handshake_respond and koe_handshake_finalise derive the same keys   *)
(* with the directions swapped, for any number of nodes and any            *)
(* interleaving of their handshakes, losses and new starts, when the last  *)
(* koe_handshake_init of the pair found no packet of it under way.         *)
THEOREM KeysAgree == HandshakeSpec => []KeysMatch
<1>1. HandshakeInv => KeysMatch
  <2> SUFFICES ASSUME HandshakeInv, NEW n \in Nodes, NEW m \in Nodes,
                      hs[n][m].state = "COMPLETE", <<n, m>> \notin late
               PROVE  /\ rs[m][n].state = "COMPLETE"
                      /\ TxKey(hs[n][m]) = RxKey(rs[m][n])
                      /\ RxKey(hs[n][m]) = TxKey(rs[m][n])
    BY Zenon DEF KeysMatch
  <2>1. QED BY DEF HandshakeInv, DoneInv, Agreed, TxKey, RxKey
<1>2. QED BY <1>1, HandshakeInductive, PTL

(* Both sides end with the same version, one that neither build is too old *)
(* for, whatever was lost or started anew.                                 *)
THEOREM VersionsAgree == HandshakeSpec => []VersionsMatch
<1>1. HandshakeInv => VersionsMatch
  <2> SUFFICES ASSUME HandshakeInv, NEW n \in Nodes, NEW m \in Nodes,
                      hs[n][m].state = "COMPLETE"
               PROVE  /\ hs[n][m].version = rs[m][n].version
                      /\ Lower(hs[n][m].version, Build[n])
                      /\ Lower(hs[n][m].version, Build[m])
    BY Zenon DEF VersionsMatch
  <2>1. hs[n][m].version = rs[m][n].version
        /\ hs[n][m].version = koe_version_negotiate(Build[m], Build[n])
    <3>1. Agreed(m, n) /\ hs[n][m].version = rs[m][n].version
      BY Zenon DEF HandshakeInv, DoneInv
    <3>2. QED BY <3>1, Zenon DEF Agreed
  <2>2. Build[n] \in Versions /\ Build[m] \in Versions
    BY HandshakeAssumption, Zenon DEF HandshakeAssumption
  <2>3. QED BY <2>1, <2>2, NegotiationTheorem
<1>2. QED BY <1>1, HandshakeInductive, PTL

-----------------------------------------------------------------------------

(* A packet that its receiver takes: koe_handshake_respond does not refuse *)
(* it as a HELLO, nor koe_handshake_finalise as an answer.                 *)
Welcome(p) == koe_version_compatible(Build[p.to], p.version)

Coming(n, m) == \E p \in net : Pair(p) = <<n, m>> /\ Welcome(p)

(* Who waits for an answer of a compatible build has something coming: a   *)
(* packet of the pair is under way that will not be refused, unless one    *)
(* was lost since the last koe_handshake_init.  Neither a start on top of  *)
(* another, nor a late answer, nor a handshake in the other direction can  *)
(* use up the packet and leave the initiator in SENT_HELLO.                *)
NeverStranded ==
    \A n, m \in Nodes :
       /\ koe_version_compatible(Build[n], Build[m])
       /\ hs[n][m].state = "SENT_HELLO" /\ <<n, m>> \notin lost
       => Coming(n, m)

(* Packets between compatible builds are welcome, whichever way they go.   *)
LEMMA WelcomeLemma ==
    ASSUME NEW n \in Nodes, NEW m \in Nodes, koe_version_compatible(Build[n], Build[m])
    PROVE  /\ koe_version_compatible(Build[m], Build[n])
           /\ koe_version_compatible(Build[n], koe_version_negotiate(Build[m], Build[n]))
<1>1. Build[n] \in Versions /\ Build[m] \in Versions
  BY HandshakeAssumption, Zenon DEF HandshakeAssumption
<1>2. koe_version_compatible(Build[m], Build[n])
  BY <1>1, NegotiationTheorem, Zenon
<1>3. /\ koe_version_negotiate(Build[m], Build[n]) \in Versions
      /\ koe_version_compatible(koe_version_negotiate(Build[m], Build[n]), Build[n])
  BY <1>1, <1>2, NegotiationTheorem, Zenon
<1>4. QED BY <1>1, <1>2, <1>3, NegotiationTheorem, Zenon

(* koe_handshake_init sends a HELLO of the pair; others keep theirs.       *)
LEMMA StartNotStranded ==
    ASSUME HandshakeInv, NeverStranded, NEW n \in Nodes, NEW m \in Nodes, Start(n, m)
    PROVE  NeverStranded'
<1> DEFINE h == Packet("HELLO", n, m, Build[n], Eph(n, m))
<1>1. /\ hs' = [hs EXCEPT ![n][m] =
                   Handshaking("SENT_HELLO", Eph(n, m), NoKeys, FALSE, NoVersion)]
      /\ net' = net \cup {h} /\ lost' = lost \ {<<n, m>>}
  BY Zenon DEF Start, koe_handshake_init
<1>2. Pair(h) = <<n, m>> /\ h.to = m /\ h.version = Build[n]
  BY Zenon DEF Packet, Pair
<1> HIDE DEF h
<1> SUFFICES ASSUME NEW x \in Nodes, NEW y \in Nodes,
                    koe_version_compatible(Build[x], Build[y]),
                    hs'[x][y].state = "SENT_HELLO", <<x, y>> \notin lost'
             PROVE  Coming(x, y)'
  BY Zenon DEF NeverStranded
<1>3. CASE x = n /\ y = m
  BY <1>1, <1>2, <1>3, WelcomeLemma, Zenon DEF Coming, Welcome
<1>4. CASE ~(x = n /\ y = m)
  <2>1. hs'[x][y] = hs[x][y] /\ <<x, y>> \notin lost
    BY <1>1, <1>4, Zenon DEF HandshakeInv, HandshakeTypeOK
  <2>2. QED BY <1>1, <2>1, Zenon DEF NeverStranded, Coming
<1>5. QED BY <1>3, <1>4, Zenon

(* A delivered packet is answered, or completes the handshake of its pair. *)
LEMMA DeliverNotStranded ==
    ASSUME HandshakeInv, NeverStranded, NEW p \in net, Deliver(p)
    PROVE  NeverStranded'
<1>1. /\ p.type \in {"HELLO", "HELLO_ACK"} /\ p.from \in Nodes /\ p.to \in Nodes
      /\ hs \in [Nodes -> [Nodes -> Context]]
      /\ p.type = "HELLO" => p.version = Build[p.from] /\ Pair(p) = <<p.from, p.to>>
      /\ p.type = "HELLO_ACK" => Pair(p) = <<p.to, p.from>>
  BY Zenon DEF HandshakeInv, HandshakeTypeOK, VersionInv, Pair
<1> SUFFICES ASSUME NEW x \in Nodes, NEW y \in Nodes,
                    koe_version_compatible(Build[x], Build[y]),
                    hs'[x][y].state = "SENT_HELLO", <<x, y>> \notin lost'
             PROVE  Coming(x, y)'
  BY Zenon DEF NeverStranded
<1>2. lost' = lost
  BY Zenon DEF Deliver, koe_handshake_respond, RespondRefuses, koe_handshake_finalise, history
<1>3. CASE koe_handshake_finalise(p)
  <2>1. /\ hs' = [hs EXCEPT ![p.to][p.from] = Finalised(@, p, p.to)]
        /\ net' = net \ {p} /\ p.type = "HELLO_ACK"
    BY <1>3, Zenon DEF koe_handshake_finalise
  <2>2. Finalised(hs[p.to][p.from], p, p.to).state # "SENT_HELLO"
    BY Zenon DEF Finalised, Handshaking
  <2>3. ~(x = p.to /\ y = p.from)
    BY <1>1, <2>1, <2>2, Zenon
  <2>4. hs'[x][y] = hs[x][y]
    BY <1>1, <2>1, <2>3, Zenon
  <2>5. PICK q \in net : Pair(q) = <<x, y>> /\ Welcome(q)
    BY <1>2, <2>4, Zenon DEF NeverStranded, Coming
  <2>6. q # p
    BY <1>1, <2>1, <2>3, <2>5
  <2>7. QED BY <2>1, <2>5, <2>6, Zenon DEF Coming
<1>4. CASE ~koe_handshake_finalise(p)
  <2>1. hs' = hs /\ p.type = "HELLO" /\ net \ {p} \subseteq net'
    BY <1>4, Zenon DEF Deliver, koe_handshake_respond, RespondRefuses
  <2>2. PICK q \in net : Pair(q) = <<x, y>> /\ Welcome(q)
    BY <1>2, <2>1, Zenon DEF NeverStranded, Coming
  <2>3. CASE q # p
    BY <2>1, <2>2, <2>3, Zenon DEF Coming
  <2>4. CASE q = p
    <3> DEFINE a == Answer(p, Eph(p.to, p.from))
    <3>1. x = p.from /\ y = p.to /\ koe_version_compatible(Build[p.to], p.version)
      BY <1>1, <2>1, <2>2, <2>4 DEF Welcome
    <3>2. a \in net'
      BY <1>4, <3>1, Zenon DEF Deliver, koe_handshake_respond, RespondRefuses
    <3>3. /\ Pair(a) = <<p.from, p.to>> /\ a.to = p.from
          /\ a.version = koe_version_negotiate(Build[p.to], Build[p.from])
      BY <1>1, <2>1, Zenon DEF Answer, Packet, Pair
    <3> HIDE DEF a
    <3>4. Welcome(a)
      BY <3>1, <3>3, WelcomeLemma, Zenon DEF Welcome
    <3>5. QED BY <3>1, <3>2, <3>3, <3>4, Zenon DEF Coming
  <2>5. QED BY <2>3, <2>4, Zenon
<1>5. QED BY <1>3, <1>4, Zenon

(* koe_handshake_respond, koe_handshake_finalise and a new start never     *)
(* leave an initiator waiting with nothing under way that could end its    *)
(* wait.  With fair delivery this is what makes handshakes complete.       *)
THEOREM NeverStrandedCorrect == HandshakeSpec => []NeverStranded
<1>1. HandshakeInit => NeverStranded
  BY DEF HandshakeInit, NeverStranded, Idle, Handshaking
<1>2. HandshakeInv /\ NeverStranded /\ [HandshakeNext]_handshakeVars => NeverStranded'
  <2> SUFFICES ASSUME HandshakeInv, NeverStranded, [HandshakeNext]_handshakeVars
               PROVE  NeverStranded'
    BY Zenon
  <2>1. CASE UNCHANGED handshakeVars
    <3>1. hs' = hs /\ net' = net /\ lost' = lost
      BY <2>1, Zenon DEF handshakeVars
    <3>2. \A n, m \in Nodes : Coming(n, m) => Coming(n, m)'
      BY <3>1, Zenon DEF Coming
    <3>3. QED BY <3>1, <3>2, Zenon DEF NeverStranded
  <2>2. ASSUME NEW p \in net, Lose(p)
        PROVE  NeverStranded'
    <3>1. hs' = hs /\ net' = net \ {p} /\ lost' = lost \cup {Pair(p)}
      BY <2>2, Zenon DEF Lose
    <3>2. \A n, m \in Nodes : Coming(n, m) /\ <<n, m>> \notin lost' => Coming(n, m)'
      BY <3>1, Zenon DEF Coming
    <3>3. QED BY <3>1, <3>2, Zenon DEF NeverStranded
  <2>3. QED
    BY <2>1, <2>2, StartNotStranded, DeliverNotStranded, Zenon DEF HandshakeNext
<1>3. QED BY <1>1, <1>2, HandshakeInductive, PTL DEF HandshakeSpec

-----------------------------------------------------------------------------
(* Presence *)

(* Every set of numbers that is not empty has a least one: of the sets     *)
(* 0..n with n in it, one is minimal.                                      *)
LEMMA LeastNumber ==
    ASSUME NEW X \in SUBSET Nat, X # {}
    PROVE  \E n \in X : \A m \in X : n <= m
<1> DEFINE Initial == {0..n : n \in X}
<1>1. Initial \subseteq FiniteSubsetsOf(Nat) /\ Initial # {}
  <2>1. \A n \in X : 0..n \in SUBSET Nat /\ IsFiniteSet(0..n)
    BY FS_Interval
  <2> QED
    BY <2>1, Zenon DEF FiniteSubsetsOf
<1>2. IsWellFoundedOn(StrictSubsetOrdering(Nat), FiniteSubsetsOf(Nat))
  BY FS_StrictSubsetOrderingWellFounded, Zenon
<1> HIDE DEF Initial
<1>3. PICK S \in Initial : \A T \in Initial : <<T, S>> \notin StrictSubsetOrdering(Nat)
  BY <1>1, <1>2, WFMin, Zenon
<1>4. PICK n \in X : S = 0..n
  BY <1>3, Zenon DEF Initial
<1>5. ASSUME NEW m \in X, m < n PROVE FALSE
  <2>1. 0..m \in Initial
    BY Zenon DEF Initial
  <2>2. 0..m \subseteq 0..n /\ 0..m # 0..n
    BY <1>5
  <2>3. 0..m \in SUBSET Nat /\ 0..n \in SUBSET Nat
    OBVIOUS
  <2>4. <<0..m, 0..n>> \in StrictSubsetOrdering(Nat)
    BY <2>2, <2>3, Zenon DEF StrictSubsetOrdering
  <2> QED
    BY <1>3, <1>4, <2>1, <2>4, Zenon
<1> QED
  BY <1>5

(* Where the loop of koe_presence_expire starts.                           *)
SweepStart == [peers |-> peers, count |-> count, i |-> 1]

(* g is what the first n iterations of that loop compute.                  *)
IsRun(g, n) == g = [k \in 0..n |-> IF k = 0 THEN SweepStart ELSE SweepStep(g[k - 1])]

(* Its values, one by one.                                                 *)
LEMMA RunValues ==
    ASSUME NEW n \in Nat, NEW g, IsRun(g, n)
    PROVE  g[0] = SweepStart /\ \A k \in 1..n : g[k] = SweepStep(g[k - 1])
<1>1. \A k \in 0..n : g[k] = IF k = 0 THEN SweepStart ELSE SweepStep(g[k - 1])
  BY Zenon DEF IsRun
<1>2. 0 \in 0..n /\ \A k \in 1..n : k \in 0..n /\ k # 0
  OBVIOUS
<1> QED
  BY <1>1, <1>2, Zenon

(* Any number of iterations can be made: the least number that cannot      *)
(* would not be zero, and one less can.                                    *)
LEMMA RunExists == \A n \in Nat : \E g : IsRun(g, n)
<1> DEFINE X == {n \in Nat : ~\E g : IsRun(g, n)}
<1> SUFFICES ASSUME X # {} PROVE FALSE
  BY Zenon
<1>1. PICK n \in X : \A m \in X : n <= m
  BY LeastNumber, Zenon
<1>2. n \in Nat /\ ~\E g : IsRun(g, n)
  BY <1>1, Zenon
<1>3. n # 0
  <2> DEFINE h == [k \in 0..0 |-> SweepStart]
  <2>1. h = [k \in 0..0 |-> IF k = 0 THEN SweepStart ELSE SweepStep(h[k - 1])]
    OBVIOUS
  <2> QED
    BY <1>2, <2>1, Zenon DEF IsRun
<1>4. n - 1 \in Nat /\ n - 1 \notin X
  BY <1>1, <1>2, <1>3
<1>5. PICK g : IsRun(g, n - 1)
  BY <1>4, Zenon
<1> DEFINE h == [k \in 0..n |-> IF k = n THEN SweepStep(g[n - 1]) ELSE g[k]]
<1>6. g[0] = SweepStart /\ \A k \in 1..(n - 1) : g[k] = SweepStep(g[k - 1])
  BY <1>4, <1>5, RunValues, Zenon
<1>7. \A k \in 0..n : h[k] = IF k = 0 THEN SweepStart ELSE SweepStep(h[k - 1])
  <2> SUFFICES ASSUME NEW k \in 0..n
               PROVE  h[k] = IF k = 0 THEN SweepStart ELSE SweepStep(h[k - 1])
    BY Zenon
  <2>1. CASE k = 0
    BY <1>2, <1>3, <1>6, <2>1, Zenon
  <2>2. CASE k = n
    <3>1. k - 1 \in 0..n /\ k - 1 # n /\ k # 0
      BY <1>2, <1>3, <2>2
    <3>2. h[k - 1] = g[k - 1]
      BY <3>1, Zenon
    <3> QED
      BY <3>1, <3>2, <2>2, Zenon
  <2>3. CASE k # 0 /\ k # n
    <3>1. k - 1 \in 0..n /\ k - 1 # n /\ k \in 1..(n - 1)
      BY <1>2, <2>3
    <3>2. h[k - 1] = g[k - 1] /\ h[k] = g[k]
      BY <3>1, <2>3, Zenon
    <3> QED
      BY <3>1, <3>2, <2>3, <1>6, Zenon
  <2> QED
    BY <2>1, <2>2, <2>3, Zenon
<1>8. IsRun(h, n)
  <2>1. h = [k \in 0..n |-> h[k]]
    BY Zenon
  <2> HIDE DEF h
  <2> QED
    BY <2>1, <1>7, Zenon DEF IsRun
<1> QED
  BY <1>2, <1>8, Zenon

(* A longer run begins with the shorter one.                               *)
LEMMA RunUnique ==
    ASSUME NEW m \in Nat, NEW n \in Nat, m <= n,
           NEW g, IsRun(g, m), NEW h, IsRun(h, n)
    PROVE  g[m] = h[m]
<1> DEFINE X == {k \in 0..m : g[k] # h[k]}
<1> SUFFICES ASSUME X # {} PROVE FALSE
  OBVIOUS
<1>1. PICK k \in X : \A j \in X : k <= j
  <2>1. X \in SUBSET Nat
    OBVIOUS
  <2> QED
    BY <2>1, LeastNumber, Zenon
<1>2. /\ g[0] = SweepStart /\ \A j \in 1..m : g[j] = SweepStep(g[j - 1])
      /\ h[0] = SweepStart /\ \A j \in 1..n : h[j] = SweepStep(h[j - 1])
  BY RunValues, Zenon
<1>3. k # 0
  BY <1>1, <1>2, Zenon
<1>4. k - 1 \in 0..m /\ k - 1 \notin X /\ k \in 1..m /\ k \in 1..n
  BY <1>1, <1>3
<1>5. g[k - 1] = h[k - 1]
  BY <1>4, Zenon
<1>6. g[k] = SweepStep(g[k - 1]) /\ h[k] = SweepStep(h[k - 1])
  BY <1>2, <1>4, Zenon
<1> QED
  BY <1>1, <1>5, <1>6, Zenon

(* So there is a function that satisfies the definition of Swept.          *)
LEMMA SweptValues ==
    Swept[0] = SweepStart /\ \A k \in Nat : Swept[k + 1] = SweepStep(Swept[k])
<1> DEFINE Run(n) == CHOOSE g : IsRun(g, n)
           h == [n \in Nat |-> Run(n)[n]]
<1>1. \A n \in Nat : IsRun(Run(n), n)
  BY RunExists, Zenon
<1> HIDE DEF Run
<1>2. \A n \in Nat : h[n] = IF n = 0 THEN SweepStart ELSE SweepStep(h[n - 1])
  <2> SUFFICES ASSUME NEW n \in Nat
               PROVE  h[n] = IF n = 0 THEN SweepStart ELSE SweepStep(h[n - 1])
    BY Zenon
  <2>1. Run(n)[0] = SweepStart /\ \A k \in 1..n : Run(n)[k] = SweepStep(Run(n)[k - 1])
    BY <1>1, RunValues, Zenon
  <2>2. ASSUME n # 0 PROVE h[n] = SweepStep(h[n - 1])
    <3>1. n - 1 \in Nat /\ n - 1 <= n /\ n \in 1..n
      BY <2>2
    <3>2. Run(n - 1)[n - 1] = Run(n)[n - 1]
      BY <3>1, <1>1, RunUnique, Zenon
    <3>3. h[n - 1] = Run(n - 1)[n - 1] /\ h[n] = Run(n)[n]
      BY <3>1, Zenon
    <3>4. Run(n)[n] = SweepStep(Run(n)[n - 1])
      BY <2>1, <3>1, Zenon
    <3> QED
      BY <3>2, <3>3, <3>4, Zenon
  <2> QED
    BY <2>1, <2>2, Zenon
<1>3. h = [n \in Nat |-> IF n = 0 THEN SweepStart ELSE SweepStep(h[n - 1])]
  <2>1. h = [n \in Nat |-> h[n]]
    BY Zenon
  <2> HIDE DEF h
  <2> QED
    BY <2>1, <1>2, Zenon
<1> HIDE DEF h
<1>4. Swept = [n \in Nat |-> IF n = 0 THEN SweepStart ELSE SweepStep(Swept[n - 1])]
  BY <1>3, Zenon DEF Swept, SweepStart
<1>5. \A n \in Nat : Swept[n] = IF n = 0 THEN SweepStart ELSE SweepStep(Swept[n - 1])
  BY <1>4, Zenon
<1>6. 0 \in Nat /\ \A k \in Nat : k + 1 \in Nat /\ k + 1 # 0 /\ (k + 1) - 1 = k
  OBVIOUS
<1> HIDE <1>4
<1> QED
  BY <1>5, <1>6, Zenon

(* What a slot holds.                                                      *)
Entry == [pk : PublicKeys \cup {Unset}, state : States \cup {Offline}, age : Nat,
          transport : Transports \cup {Unset}, typing : Nat \cup {Unset}]

(* Every peer has at most one entry in use.                                *)
Distinct(table, n) == \A a, b \in 1..n : table[a].pk = table[b].pk => a = b

(* The inductive invariant of the presence table.                          *)
PresenceInv ==
    /\ peers \in [Slots -> Entry] /\ count \in 0..MaxPeers
    /\ Distinct(peers, count)

(* The entries of the first n slots that are not stale.                    *)
Kept(table, n) == {table[j] : j \in {l \in 1..n : ~Stale(table[l])}}

(* After k iterations: the entries below i are not stale, none that is not *)
(* stale was lost, and as many are to be looked at as there were at first, *)
(* less k.                                                                 *)
SweepOK(st, k) ==
    /\ st \in [peers : [Slots -> Entry], count : 0..MaxPeers, i : Nat \ {0}]
    /\ st.i + count = st.count + 1 + k
    /\ \A j \in 1..(st.i - 1) : ~Stale(st.peers[j])
    /\ Kept(st.peers, st.count) = Kept(peers, count)
    /\ Distinct(st.peers, st.count)

(* The last entry takes the place of a stale one.                          *)
LEMMA RemovalKeeps ==
    ASSUME NEW table \in [Slots -> Entry], NEW n \in 1..MaxPeers, NEW x \in 1..n,
           Stale(table[x]), Distinct(table, n)
    PROVE  LET new == [table EXCEPT ![x] = table[n]]
           IN  /\ new \in [Slots -> Entry]
               /\ \A j \in 1..(x - 1) : new[j] = table[j]
               /\ Kept(new, n - 1) = Kept(table, n)
               /\ Distinct(new, n - 1)
<1> DEFINE new == [table EXCEPT ![x] = table[n]]
<1>1. /\ 1..n \subseteq Slots /\ 1..(n - 1) \subseteq 1..n /\ n \in 1..n
      /\ \A j \in 1..n : j = n \/ j \in 1..(n - 1)
      /\ n \notin 1..(n - 1)
      /\ \A j \in 1..(x - 1) : j \in 1..n /\ j # x
  BY PresenceAssumption DEF Slots
<1>2. /\ new \in [Slots -> Entry] /\ new[x] = table[n]
      /\ \A j \in 1..n : j # x => new[j] = table[j]
  BY <1>1, Zenon
<1> HIDE DEF new
<1>3. Kept(new, n - 1) \subseteq Kept(table, n)
  <2> SUFFICES ASSUME NEW j \in 1..(n - 1), ~Stale(new[j])
               PROVE  \E l \in 1..n : ~Stale(table[l]) /\ new[j] = table[l]
    BY Zenon DEF Kept
  <2>1. CASE j = x
    BY <1>1, <1>2, <2>1, Zenon
  <2>2. CASE j # x
    BY <1>1, <1>2, <2>2, Zenon
  <2> QED
    BY <2>1, <2>2, Zenon
<1>4. Kept(table, n) \subseteq Kept(new, n - 1)
  <2> SUFFICES ASSUME NEW j \in 1..n, ~Stale(table[j])
               PROVE  \E l \in 1..(n - 1) : ~Stale(new[l]) /\ table[j] = new[l]
    BY Zenon DEF Kept
  <2>1. j # x
    BY Zenon
  <2>2. CASE j = n
    <3>1. x \in 1..(n - 1)
      BY <1>1, <2>1, <2>2, Zenon
    <3> QED
      BY <1>2, <2>2, <3>1, Zenon
  <2>3. CASE j # n
    BY <1>1, <1>2, <2>1, <2>3, Zenon
  <2> QED
    BY <2>2, <2>3, Zenon
<1>5. Distinct(new, n - 1)
  <2> SUFFICES ASSUME NEW a \in 1..(n - 1), NEW b \in 1..(n - 1), new[a].pk = new[b].pk
               PROVE  a = b
    BY Zenon DEF Distinct
  <2>1. ASSUME a = x, b # x PROVE FALSE
    BY <1>1, <1>2, <2>1, Zenon DEF Distinct
  <2>2. ASSUME b = x, a # x PROVE FALSE
    BY <1>1, <1>2, <2>2, Zenon DEF Distinct
  <2>3. ASSUME a # x, b # x PROVE a = b
    BY <1>1, <1>2, <2>3, Zenon DEF Distinct
  <2> QED
    BY <2>1, <2>2, <2>3, Zenon
<1> QED
  BY <1>1, <1>2, <1>3, <1>4, <1>5, Zenon DEF new

(* One iteration.                                                          *)
LEMMA SweepStepOK ==
    ASSUME PresenceInv, NEW k \in Nat, k < count, NEW st, SweepOK(st, k)
    PROVE  SweepOK(SweepStep(st), k + 1)
<1>1. /\ st \in [peers : [Slots -> Entry], count : 0..MaxPeers, i : Nat \ {0}]
      /\ st.i + count = st.count + 1 + k
      /\ \A j \in 1..(st.i - 1) : ~Stale(st.peers[j])
      /\ Kept(st.peers, st.count) = Kept(peers, count)
      /\ Distinct(st.peers, st.count)
  BY Zenon DEF SweepOK
<1>2. count \in 0..MaxPeers
  BY Zenon DEF PresenceInv
<1>3. st.i \in 1..st.count /\ st.count \in 1..MaxPeers /\ ~(st.i > st.count)
  BY <1>1, <1>2, PresenceAssumption
<1>4. CASE Stale(st.peers[st.i])
  <2> DEFINE new == [st.peers EXCEPT ![st.i] = st.peers[st.count]]
  <2>1. /\ new \in [Slots -> Entry]
        /\ \A j \in 1..(st.i - 1) : new[j] = st.peers[j]
        /\ Kept(new, st.count - 1) = Kept(st.peers, st.count)
        /\ Distinct(new, st.count - 1)
    BY <1>1, <1>3, <1>4, RemovalKeeps, Zenon
  <2>2. SweepStep(st) = [peers |-> new, count |-> st.count - 1, i |-> st.i]
    BY <1>1, <1>3, <1>4, Zenon DEF SweepStep
  <2> HIDE DEF new
  <2>3. st.count - 1 \in 0..MaxPeers /\ st.i + count = (st.count - 1) + 1 + (k + 1)
    BY <1>1, <1>2, <1>3, PresenceAssumption
  <2> QED
    BY <1>1, <2>1, <2>2, <2>3 DEF SweepOK
<1>5. CASE ~Stale(st.peers[st.i])
  <2>1. SweepStep(st) = [peers |-> st.peers, count |-> st.count, i |-> st.i + 1]
    BY <1>1, <1>3, <1>5, Zenon DEF SweepStep
  <2>2. /\ st.i + 1 \in Nat \ {0} /\ (st.i + 1) + count = st.count + 1 + (k + 1)
        /\ \A j \in 1..((st.i + 1) - 1) : j \in 1..(st.i - 1) \/ j = st.i
    BY <1>1, <1>2, <1>3
  <2> QED
    BY <1>1, <1>5, <2>1, <2>2 DEF SweepOK
<1> QED
  BY <1>4, <1>5, Zenon

(* All iterations.                                                         *)
LEMMA SweptOK ==
    ASSUME PresenceInv
    PROVE  \A k \in 0..count : SweepOK(Swept[k], k)
<1> DEFINE X == {k \in 0..count : ~SweepOK(Swept[k], k)}
<1> SUFFICES ASSUME X # {} PROVE FALSE
  BY Zenon
<1>1. count \in Nat /\ X \in SUBSET Nat
  BY PresenceAssumption DEF PresenceInv
<1>2. PICK k \in X : \A j \in X : k <= j
  BY <1>1, LeastNumber, Zenon
<1>3. k # 0
  <2> SUFFICES SweepOK(SweepStart, 0)
    BY <1>2, SweptValues, Zenon
  <2>1. SweepStart \in [peers : [Slots -> Entry], count : 0..MaxPeers, i : Nat \ {0}]
    BY DEF SweepStart, PresenceInv
  <2>2. 1 + count = count + 1 + 0 /\ 1..(1 - 1) = {}
    BY <1>1
  <2> QED
    BY <2>1, <2>2, Zenon DEF SweepStart, SweepOK, PresenceInv
<1>4. /\ k - 1 \in 0..count /\ k - 1 \notin X /\ k - 1 \in Nat /\ k - 1 < count
      /\ (k - 1) + 1 = k
  BY <1>1, <1>2, <1>3
<1>5. SweepOK(Swept[k - 1], k - 1)
  BY <1>4, Zenon
<1>6. SweepOK(SweepStep(Swept[k - 1]), k)
  BY <1>4, <1>5, SweepStepOK, Zenon
<1>7. Swept[k] = SweepStep(Swept[k - 1])
  BY <1>4, SweptValues, Zenon
<1> QED
  BY <1>2, <1>6, <1>7, Zenon

(* What the sweep leaves: the entries that were not stale.                 *)
LEMMA ExpireKeeps ==
    ASSUME PresenceInv, koe_presence_expire
    PROVE  /\ PresenceInv'
           /\ {peers'[x] : x \in 1..count'} = Kept(peers, count)
           /\ Kept(peers', count') = Kept(peers, count)
<1>1. count \in 0..count /\ count \in Nat
  BY PresenceAssumption DEF PresenceInv
<1>2. SweepOK(Swept[count], count)
  BY <1>1, SweptOK, Zenon
<1>3. PICK st : st = Swept[count]
  BY Zenon
<1>4. peers' = st.peers /\ count' = st.count
  BY <1>3, Zenon DEF koe_presence_expire
<1>5. /\ st \in [peers : [Slots -> Entry], count : 0..MaxPeers, i : Nat \ {0}]
      /\ st.i + count = st.count + 1 + count
      /\ \A j \in 1..(st.i - 1) : ~Stale(st.peers[j])
      /\ Kept(st.peers, st.count) = Kept(peers, count)
      /\ Distinct(st.peers, st.count)
  BY <1>2, <1>3, Zenon DEF SweepOK
<1>6. st.i - 1 = st.count
  BY <1>1, <1>5, PresenceAssumption
<1>7. Kept(st.peers, st.count) = {st.peers[j] : j \in 1..st.count}
  BY <1>5, <1>6, Zenon DEF Kept
<1> QED
  BY <1>4, <1>5, <1>7, Zenon DEF PresenceInv

(* The table starts empty.                                                 *)
LEMMA PresenceInitial == PresenceInit => PresenceInv
<1> SUFFICES ASSUME PresenceInit PROVE PresenceInv
  BY Zenon
<1>1. peers \in [Slots -> Entry] /\ count = 0
  BY PresenceAssumption DEF PresenceInit, Zeroed, Entry
<1>2. 0 \in 0..MaxPeers /\ 1..0 = {}
  BY PresenceAssumption
<1> QED
  BY <1>1, <1>2, Zenon DEF PresenceInv, Distinct

(* One entry in use changes, and not the peer that it is of.               *)
LEMMA EntryChanges ==
    ASSUME PresenceInv, NEW x \in InUse, NEW e \in Entry, e.pk = peers[x].pk,
           peers' = [peers EXCEPT ![x] = e], count' = count
    PROVE  PresenceInv'
<1>1. InUse \subseteq Slots /\ InUse = 1..count
  BY PresenceAssumption DEF PresenceInv, InUse, Slots
<1>2. peers' \in [Slots -> Entry] /\ \A j \in 1..count : peers'[j].pk = peers[j].pk
  BY <1>1, Zenon DEF PresenceInv
<1> QED
  BY <1>2 DEF PresenceInv, Distinct

(* A new entry is of a peer that has none.                                 *)
LEMMA UpdateKeeps ==
    ASSUME PresenceInv, NEW p \in PublicKeys, NEW s \in States, NEW t \in Transports,
           koe_presence_update(p, s, t)
    PROVE  PresenceInv'
<1>1. \A e \in Entry : Contact(e, p, s, t) \in Entry /\ Contact(e, p, s, t).pk = p
  BY Zenon DEF Entry, Contact
<1>2. CASE Known(p)
  <2>1. PICK x \in InUse : /\ IsFirst(x, p)
                           /\ peers' = [peers EXCEPT ![x] = Contact(peers[x], p, s, t)]
    BY <1>2, Zenon DEF koe_presence_update
  <2>2. peers[x].pk = p /\ peers[x] \in Entry /\ count' = count
    BY <1>2, <2>1, PresenceAssumption
    DEF koe_presence_update, IsFirst, PresenceInv, InUse, Slots
  <2> QED
    BY <1>1, <2>1, <2>2, EntryChanges, Zenon
<1>3. CASE ~Known(p)
  <2>1. /\ count < MaxPeers /\ count' = count + 1
        /\ peers' = [peers EXCEPT ![count + 1] = Contact(peers[count + 1], p, s, t)]
    BY <1>3, Zenon DEF koe_presence_update
  <2>2. /\ count \in Nat /\ count + 1 \in Slots /\ count + 1 \in 0..MaxPeers
        /\ \A j \in 1..(count + 1) : j = count + 1 \/ j \in 1..count
        /\ \A j \in 1..count : j \in Slots /\ j # count + 1
    BY <2>1, PresenceAssumption DEF PresenceInv, Slots
  <2>3. /\ peers' \in [Slots -> Entry] /\ peers'[count + 1].pk = p
        /\ \A j \in 1..count : peers'[j] = peers[j] /\ peers[j].pk # p
    BY <1>1, <1>3, <2>1, <2>2, Zenon DEF PresenceInv, Known, InUse
  <2>4. Distinct(peers', count + 1)
    BY <2>2, <2>3, Zenon DEF PresenceInv, Distinct
  <2> QED
    BY <2>1, <2>2, <2>3, <2>4, Zenon DEF PresenceInv
<1> QED
  BY <1>2, <1>3, Zenon

(* A typing packet changes the entry of its peer.                          *)
LEMMA TypingKeeps ==
    ASSUME PresenceInv, NEW p \in PublicKeys, NEW flag, koe_presence_handle_typing(p, flag)
    PROVE  PresenceInv'
<1>1. PICK x \in InUse : peers' = [peers EXCEPT ![x].typing = 0]
  BY Zenon DEF koe_presence_handle_typing
<1>2. peers[x] \in Entry /\ count' = count
  BY PresenceAssumption DEF koe_presence_handle_typing, PresenceInv, InUse, Slots
<1>3. [peers[x] EXCEPT !.typing = 0] \in Entry
  BY <1>2, Zenon DEF Entry
<1>4. [peers[x] EXCEPT !.typing = 0].pk = peers[x].pk
  BY <1>2, Zenon DEF Entry
<1> QED
  BY <1>1, <1>2, <1>3, <1>4, EntryChanges, Zenon

(* Time changes no entry but its two ages.                                 *)
LEMMA TickKeeps ==
    ASSUME PresenceInv, Tick
    PROVE  PresenceInv'
<1>1. \A x \in Slots : peers'[x] \in Entry /\ peers'[x].pk = peers[x].pk
  <2> SUFFICES ASSUME NEW x \in Slots PROVE peers'[x] \in Entry /\ peers'[x].pk = peers[x].pk
    BY Zenon
  <2>1. peers[x] \in Entry
    BY Zenon DEF PresenceInv
  <2> DEFINE age == IF peers[x].age <= TtlRelay THEN peers[x].age + 1 ELSE peers[x].age
             typing == IF peers[x].typing # Unset /\ peers[x].typing <= TtlTyping
                       THEN peers[x].typing + 1 ELSE peers[x].typing
  <2>2. peers'[x] = [peers[x] EXCEPT !.age = age, !.typing = typing]
    BY Zenon DEF Tick
  <2>3. peers[x].age \in Nat /\ peers[x].typing \in Nat \cup {Unset}
    BY <2>1, Zenon DEF Entry
  <2>4. age \in Nat /\ typing \in Nat \cup {Unset}
    BY <2>3
  <2> HIDE DEF age, typing
  <2>5. [peers[x] EXCEPT !.age = age] \in Entry
    BY <2>1, <2>4, Zenon DEF Entry
  <2>6. \A e \in Entry : [e EXCEPT !.typing = typing] \in Entry
    BY <2>4, Zenon DEF Entry
  <2>7. /\ \A e \in Entry : [e EXCEPT !.typing = typing].pk = e.pk
        /\ [peers[x] EXCEPT !.age = age].pk = peers[x].pk
    BY <2>1, Zenon DEF Entry
  <2> QED
    BY <2>2, <2>5, <2>6, <2>7, Zenon
<1>2. peers' \in [Slots -> Entry] /\ count' = count
  BY <1>1, Zenon DEF Tick
<1>3. 1..count \subseteq Slots
  BY PresenceAssumption DEF PresenceInv, Slots
<1> QED
  BY <1>1, <1>2, <1>3, Zenon DEF PresenceInv, Distinct

(* Every operation keeps the table in shape.                               *)
LEMMA PresenceStep == PresenceInv /\ [PresenceNext]_presenceVars => PresenceInv'
<1> SUFFICES ASSUME PresenceInv, [PresenceNext]_presenceVars PROVE PresenceInv'
  BY Zenon
<1>1. CASE UNCHANGED presenceVars
  BY <1>1, Zenon DEF presenceVars, PresenceInv
<1> QED
  BY <1>1, UpdateKeeps, TypingKeeps, ExpireKeeps, TickKeeps, Zenon DEF PresenceNext, Update

(* What koe_presence_get answers, of any table.                            *)
First(table, n, p) ==
    CHOOSE x \in 1..n : /\ x \in 1..n /\ table[x].pk = p
                        /\ \A j \in 1..n : j < x => table[j].pk # p

Shown(e) == IF e.age > Ttl(e) THEN Offline ELSE e.state

Answers(table, n, p) ==
    IF \E x \in 1..n : table[x].pk = p THEN Shown(table[First(table, n, p)]) ELSE Offline

(* It is what the lookup answers now and in the next state.                *)
LEMMA GetAnswers ==
    ASSUME NEW p
    PROVE  /\ koe_presence_get(p) = Answers(peers, count, p)
           /\ koe_presence_get(p)' = Answers(peers', count', p)
BY Zenon DEF koe_presence_get, Answers, Shown, First, Known, IsFirst, InUse

(* It is that of the one entry of the peer.                                *)
LEMMA AnswerOfEntry ==
    ASSUME NEW n, NEW table, Distinct(table, n), NEW p, NEW x \in 1..n, n \in Nat,
           table[x].pk = p
    PROVE  Answers(table, n, p) = Shown(table[x])
<1>1. \A j \in 1..n : j < x => table[j].pk # p
  BY DEF Distinct
<1>2. /\ First(table, n, p) \in 1..n /\ table[First(table, n, p)].pk = p
  BY <1>1, Zenon DEF First
<1>3. First(table, n, p) = x
  BY <1>2, Zenon DEF Distinct
<1> QED
  BY <1>3, Zenon DEF Answers

(* A stale entry says no more than none.                                   *)
LEMMA AnswerFromKept ==
    ASSUME NEW n \in 0..MaxPeers, NEW table \in [Slots -> Entry], Distinct(table, n), NEW p
    PROVE  /\ \A e \in Kept(table, n) : e.pk = p =>
                 Answers(table, n, p) = Shown(e)
           /\ (\A e \in Kept(table, n) : e.pk # p) => Answers(table, n, p) = Offline
<1>1. 1..n \subseteq Slots /\ n \in Nat
  BY PresenceAssumption DEF Slots
<1>2. ASSUME NEW x \in 1..n, table[x].pk = p
      PROVE  Answers(table, n, p) = Shown(table[x])
  BY <1>1, <1>2, AnswerOfEntry, Zenon
<1>3. ASSUME NEW x \in 1..n, Stale(table[x]) PROVE Shown(table[x]) = Offline
  <2>1. table[x].age \in Nat
    BY <1>1, Zenon DEF Entry
  <2> QED
    BY <1>3, <2>1, PresenceAssumption DEF Stale, Shown, Ttl
<1>4. ASSUME NEW e \in Kept(table, n), e.pk = p
      PROVE  Answers(table, n, p) = Shown(e)
  <2>1. PICK j \in 1..n : e = table[j]
    BY Zenon DEF Kept
  <2> QED
    BY <1>2, <1>4, <2>1, Zenon
<1>5. ASSUME \A e \in Kept(table, n) : e.pk # p PROVE Answers(table, n, p) = Offline
  <2>1. CASE \E x \in 1..n : table[x].pk = p
    <3>1. PICK x \in 1..n : table[x].pk = p
      BY <2>1, Zenon
    <3>2. Stale(table[x])
      BY <1>5, <3>1, Zenon DEF Kept
    <3> QED
      BY <1>2, <1>3, <3>1, <3>2, Zenon
  <2>2. CASE ~\E x \in 1..n : table[x].pk = p
    BY <2>2, Zenon DEF Answers
  <2> QED
    BY <2>1, <2>2, Zenon
<1> QED
  BY <1>4, <1>5, Zenon

(* koe_presence_expire, which moves the last entry into the place of a     *)
(* stale one, drops every stale entry and no other, for every table.       *)
THEOREM ExpireExactCorrect == PresenceSpec => ExpireExact
<1>1. PresenceInv /\ [PresenceNext]_presenceVars =>
        [koe_presence_expire =>
            {peers'[x] : x \in 1..count'} =
                {peers[x] : x \in {j \in InUse : ~Stale(peers[j])}}]_presenceVars
  BY ExpireKeeps, Zenon DEF Kept, InUse
<1> QED
  BY <1>1, PresenceInitial, PresenceStep, PTL DEF PresenceSpec, ExpireExact

(* The sweep changes no answer of koe_presence_get.                        *)
LEMMA ExpiryKeepsAnswers ==
    ASSUME PresenceInv, koe_presence_expire, NEW p \in PublicKeys
    PROVE  koe_presence_get(p)' = koe_presence_get(p)
<1>1. /\ PresenceInv' /\ Kept(peers', count') = Kept(peers, count)
  BY ExpireKeeps, Zenon
<1>2. PICK table, n : table = peers' /\ n = count'
  BY Zenon
<1>3. n \in 0..MaxPeers /\ table \in [Slots -> Entry] /\ Distinct(table, n)
  BY <1>1, <1>2, Zenon DEF PresenceInv
<1>4. count \in 0..MaxPeers /\ peers \in [Slots -> Entry] /\ Distinct(peers, count)
  BY Zenon DEF PresenceInv
<1>5. Answers(table, n, p) = Answers(peers, count, p)
  <2>1. CASE \E e \in Kept(peers, count) : e.pk = p
    <3>1. PICK e \in Kept(peers, count) : e.pk = p
      BY <2>1, Zenon
    <3>2. e \in Kept(table, n)
      BY <1>1, <1>2, <3>1, Zenon
    <3> QED
      BY <1>3, <1>4, <3>1, <3>2, AnswerFromKept
  <2>2. CASE \A e \in Kept(peers, count) : e.pk # p
    <3>1. \A e \in Kept(table, n) : e.pk # p
      BY <1>1, <1>2, <2>2, Zenon
    <3> QED
      BY <1>3, <1>4, <2>2, <3>1, AnswerFromKept
  <2> QED
    BY <2>1, <2>2, Zenon
<1> QED
  BY <1>2, <1>5, GetAnswers, Zenon

(* And it changes no answer of koe_presence_get: the longer time to live   *)
(* of the sweep never drops an entry that a lookup would still show.       *)
THEOREM ExpiryUnobservableCorrect == PresenceSpec => ExpiryUnobservable
<1>1. PresenceInv /\ [PresenceNext]_presenceVars =>
        [koe_presence_expire =>
            \A p \in PublicKeys : koe_presence_get(p)' = koe_presence_get(p)]_presenceVars
  BY ExpiryKeepsAnswers, Zenon
<1> QED
  BY <1>1, PresenceInitial, PresenceStep, PTL DEF PresenceSpec, ExpiryUnobservable

(* An entry that only got older says the same, or that the peer is         *)
(* offline.                                                                *)
LEMMA AnswerAges ==
    ASSUME NEW n \in Nat, NEW table, Distinct(table, n),
           NEW m \in Nat, NEW new, Distinct(new, m), NEW p,
           \A x \in 1..m : new[x].pk = p =>
              \E y \in 1..n :
                 table[y].pk = p /\ Shown(new[x]) \in {Shown(table[y]), Offline}
    PROVE  Answers(new, m, p) \in {Answers(table, n, p), Offline}
<1>1. CASE \E x \in 1..m : new[x].pk = p
  <2>1. PICK x \in 1..m : new[x].pk = p
    BY <1>1, Zenon
  <2>2. PICK y \in 1..n : table[y].pk = p /\ Shown(new[x]) \in {Shown(table[y]), Offline}
    BY <2>1, Zenon
  <2>3. Answers(new, m, p) = Shown(new[x])
    BY <2>1, AnswerOfEntry
  <2>4. Answers(table, n, p) = Shown(table[y])
    BY <2>2, AnswerOfEntry
  <2> QED
    BY <2>2, <2>3, <2>4, Zenon
<1>2. CASE ~\E x \in 1..m : new[x].pk = p
  BY <1>2, Zenon DEF Answers
<1> QED
  BY <1>1, <1>2, Zenon

(* What koe_presence_get answers for a peer changes only through an update *)
(* of this peer or to OFFLINE.  No update of another peer, typing packet,  *)
(* expiry or passing of time brings a peer back, or shows it in a state    *)
(* that it did not announce, although entries are moved between slots and  *)
(* slots are used again.                                                   *)
OnlyUpdatesShow ==
    [][\A p \in PublicKeys :
          ~Update(p) => koe_presence_get(p)' \in {koe_presence_get(p), Offline}]_presenceVars

(* An update leaves the entries of other peers alone.                      *)
LEMMA UpdateOfAnother ==
    ASSUME PresenceInv, NEW p \in PublicKeys, NEW q \in PublicKeys, q # p,
           NEW s \in States, NEW t \in Transports, koe_presence_update(q, s, t),
           NEW x \in 1..count', peers'[x].pk = p
    PROVE  x \in 1..count /\ peers'[x] = peers[x]
<1>1. /\ count \in Nat /\ peers \in [Slots -> Entry] /\ 1..count \subseteq Slots
      /\ \A e : Contact(e, q, s, t).pk = q
  BY PresenceAssumption DEF PresenceInv, Slots, Contact
<1>2. CASE Known(q)
  <2>1. PICK y \in InUse : peers' = [peers EXCEPT ![y] = Contact(peers[y], q, s, t)]
    BY <1>2, Zenon DEF koe_presence_update
  <2>2. count' = count
    BY <1>2, Zenon DEF koe_presence_update
  <2> QED
    BY <1>1, <2>1, <2>2, Zenon DEF InUse
<1>3. CASE ~Known(q)
  <2>1. /\ count < MaxPeers /\ count' = count + 1
        /\ peers' = [peers EXCEPT ![count + 1] = Contact(peers[count + 1], q, s, t)]
    BY <1>3, Zenon DEF koe_presence_update
  <2>2. /\ count + 1 \in Slots /\ (x = count + 1 \/ x \in 1..count)
        /\ \A j \in 1..count : j # count + 1
    BY <1>1, <2>1, PresenceAssumption DEF Slots
  <2> QED
    BY <1>1, <2>1, <2>2, Zenon
<1> QED
  BY <1>2, <1>3, Zenon

(* A typing packet changes nothing that is shown by koe_presence_get.      *)
LEMMA TypingShows ==
    ASSUME PresenceInv, NEW q \in PublicKeys, NEW flag, koe_presence_handle_typing(q, flag)
    PROVE  /\ count' = count
           /\ \A x \in 1..count :
                 peers'[x].pk = peers[x].pk /\ Shown(peers'[x]) = Shown(peers[x])
<1>1. PICK y \in InUse : peers' = [peers EXCEPT ![y].typing = 0]
  BY Zenon DEF koe_presence_handle_typing
<1>2. count' = count
  BY Zenon DEF koe_presence_handle_typing
<1>3. /\ 1..count \subseteq Slots /\ peers \in [Slots -> Entry]
      /\ \A x \in 1..count : peers[x] \in Entry
  BY PresenceAssumption DEF PresenceInv, Slots
<1>4. ASSUME NEW e \in Entry
      PROVE  [e EXCEPT !.typing = 0].pk = e.pk /\ Shown([e EXCEPT !.typing = 0]) = Shown(e)
  <2>1. PICK f : f = [e EXCEPT !.typing = 0]
    BY Zenon
  <2>2. f.pk = e.pk /\ f.state = e.state /\ f.transport = e.transport /\ f.age = e.age
    BY <2>1 DEF Entry
  <2>3. Ttl(f) = Ttl(e)
    BY <2>2, Zenon DEF Ttl
  <2>4. Shown(f) = Shown(e)
    BY <2>2, <2>3, Zenon DEF Shown
  <2> QED
    BY <2>1, <2>2, <2>4, Zenon
<1>5. \A x \in 1..count :
         peers'[x] = IF x = y THEN [peers[x] EXCEPT !.typing = 0] ELSE peers[x]
  BY <1>1, <1>3, Zenon
<1> QED
  BY <1>2, <1>3, <1>4, <1>5, Zenon

(* Time makes entries older, and changes nothing else of them.             *)
LEMMA TickShows ==
    ASSUME PresenceInv, Tick
    PROVE  /\ count' = count
           /\ \A x \in 1..count : /\ peers'[x].pk = peers[x].pk
                                   /\ Shown(peers'[x]) \in {Shown(peers[x]), Offline}
<1>1. 1..count \subseteq Slots
  BY PresenceAssumption DEF PresenceInv, Slots
<1>2. count' = count
  BY Zenon DEF Tick
<1> SUFFICES ASSUME NEW x \in Slots
             PROVE  /\ peers'[x].pk = peers[x].pk
                    /\ Shown(peers'[x]) \in {Shown(peers[x]), Offline}
  BY <1>1, <1>2, Zenon
<1> DEFINE age == IF peers[x].age <= TtlRelay THEN peers[x].age + 1 ELSE peers[x].age
           typing == IF peers[x].typing # Unset /\ peers[x].typing <= TtlTyping
                     THEN peers[x].typing + 1 ELSE peers[x].typing
<1>3. peers'[x] = [peers[x] EXCEPT !.age = age, !.typing = typing]
  BY Zenon DEF Tick
<1>4. peers[x] \in Entry /\ peers[x].age \in Nat
  BY Zenon DEF PresenceInv, Entry
<1>5. \A l \in Nat : peers[x].age > l => age > l
  BY <1>4
<1> HIDE DEF age, typing
<1>6. /\ peers'[x].pk = peers[x].pk /\ peers'[x].state = peers[x].state
      /\ peers'[x].transport = peers[x].transport /\ peers'[x].age = age
  BY <1>3, <1>4, Zenon DEF Entry
<1>7. Ttl(peers'[x]) = Ttl(peers[x]) /\ Ttl(peers[x]) \in Nat
  BY <1>6, PresenceAssumption, Zenon DEF Ttl
<1>8. peers[x].age > Ttl(peers[x]) => peers'[x].age > Ttl(peers'[x])
  BY <1>5, <1>6, <1>7, Zenon
<1> QED
  BY <1>6, <1>8, Zenon DEF Shown

(* Whatever the order of updates, typing packets, expiry and time: a peer  *)
(* shown offline stays so until koe_presence_update is called for it, and  *)
(* a state that is shown is the one of its last update.                    *)
THEOREM OnlyUpdatesShowCorrect == PresenceSpec => OnlyUpdatesShow
<1>1. ASSUME PresenceInv, [PresenceNext]_presenceVars, NEW p \in PublicKeys, ~Update(p)
      PROVE  koe_presence_get(p)' \in {koe_presence_get(p), Offline}
  <2>1. PICK table, n : table = peers' /\ n = count'
    BY Zenon
  <2>2. n \in 0..MaxPeers /\ Distinct(table, n)
    BY <1>1, <2>1, PresenceStep, Zenon DEF PresenceInv
  <2>3. count \in 0..MaxPeers /\ Distinct(peers, count) /\ peers \in [Slots -> Entry]
    BY <1>1, Zenon DEF PresenceInv
  <2>4. n \in Nat /\ count \in Nat /\ 1..count \subseteq Slots
    BY <2>2, <2>3, PresenceAssumption DEF Slots
  <2>5. CASE koe_presence_expire
    BY <1>1, <2>5, ExpiryKeepsAnswers, Zenon
  <2>6. ASSUME \A x \in 1..n : table[x].pk = p =>
                  \E y \in 1..count :
                     peers[y].pk = p /\ Shown(table[x]) \in {Shown(peers[y]), Offline}
        PROVE  koe_presence_get(p)' \in {koe_presence_get(p), Offline}
    <3>1. Answers(table, n, p) \in {Answers(peers, count, p), Offline}
      BY <2>2, <2>3, <2>4, <2>6, AnswerAges, Zenon
    <3> QED
      BY <2>1, <3>1, GetAnswers, Zenon
  <2>7. CASE UNCHANGED presenceVars
    <3>1. table = peers /\ n = count
      BY <2>1, <2>7, Zenon DEF presenceVars
    <3> QED
      BY <2>6, <3>1, Zenon
  <2>8. ASSUME NEW q \in PublicKeys, Update(q)
        PROVE  koe_presence_get(p)' \in {koe_presence_get(p), Offline}
    <3>1. PICK s \in States, t \in Transports : koe_presence_update(q, s, t)
      BY <2>8, Zenon DEF Update
    <3>2. q # p
      BY <1>1, <2>8, Zenon
    <3>3. \A x \in 1..n : table[x].pk = p => x \in 1..count /\ table[x] = peers[x]
      BY <1>1, <2>1, <3>1, <3>2, UpdateOfAnother, Zenon
    <3> QED
      BY <2>6, <3>3, Zenon
  <2>9. ASSUME NEW q \in PublicKeys, NEW flag \in {0, 1}, koe_presence_handle_typing(q, flag)
        PROVE  koe_presence_get(p)' \in {koe_presence_get(p), Offline}
    <3>1. /\ n = count
          /\ \A x \in 1..count :
                table[x].pk = peers[x].pk /\ Shown(table[x]) = Shown(peers[x])
      BY <1>1, <2>1, <2>9, TypingShows, Zenon
    <3> QED
      BY <2>6, <3>1, Zenon
  <2>10. CASE Tick
    <3>1. /\ n = count
          /\ \A x \in 1..count : /\ table[x].pk = peers[x].pk
                                  /\ Shown(table[x]) \in {Shown(peers[x]), Offline}
      BY <1>1, <2>1, <2>10, TickShows, Zenon
    <3> QED
      BY <2>6, <3>1, Zenon
  <2> QED
    BY <1>1, <2>5, <2>7, <2>8, <2>9, <2>10, Zenon DEF PresenceNext
<1>2. PresenceInv /\ [PresenceNext]_presenceVars =>
        [\A p \in PublicKeys :
            ~Update(p) => koe_presence_get(p)' \in {koe_presence_get(p), Offline}]_presenceVars
  BY <1>1, Zenon
<1> QED
  BY <1>2, PresenceInitial, PresenceStep, PTL DEF PresenceSpec, OnlyUpdatesShow

=============================================================================
