---------------------------- MODULE SessionTable ----------------------------
(***************************************************************************)
(* The table of end-to-end sessions of src/src/koe_session.c: a fixed      *)
(* array of slots and a counter of the active ones.  The main thread owns  *)
(* the table, so one operation is one step.                                *)
(*                                                                         *)
(* Time is kept relative: idle is "now - last_used" of an active slot,     *)
(* capped one above the largest age a caller passes, since the code only   *)
(* ever asks whether it exceeds such an age.  created_at is written and    *)
(* never read, and is left out.  An operation that returns -1 or NULL      *)
(* changes nothing, so it is a stuttering step.                            *)
(***************************************************************************)
EXTENDS Naturals, FiniteSets

CONSTANTS
    Peers,          \* public keys of the peers
    Keys,           \* session keys that handshakes produce
    None,           \* the all-zero bytes of a slot after memset
    MaxSessions,    \* KOE_MAX_SESSIONS
    PollAge,        \* the age koe_poll passes to the cleanup (300 seconds)
    MaxAge          \* the largest age any caller passes

ASSUME SessionAssumption ==
    /\ MaxSessions \in Nat \ {0}
    /\ MaxAge \in Nat
    /\ PollAge \in 1..MaxAge
    /\ None \notin Peers \cup Keys

VARIABLES
    entries,        \* tbl->entries
    count           \* tbl->count

vars == <<entries, count>>

Slots == 0..(MaxSessions - 1)

Entry == [active : BOOLEAN, peer : Peers \cup {None}, sess : Keys \cup {None},
          idle : 0..(MaxAge + 1)]

Zeroed == [active |-> FALSE, peer |-> None, sess |-> None, idle |-> 0]

Active == {i \in Slots : entries[i].active}

Match(i, p) == entries[i].active /\ entries[i].peer = p

(* The loops of find and remove stop at the first match, that of add at    *)
(* the first slot that is not active.                                      *)
FirstMatch(i, p) == Match(i, p) /\ \A j \in Slots : j < i => ~Match(j, p)

FirstFree(i) == i \notin Active /\ \A j \in Slots : j < i => j \in Active

-----------------------------------------------------------------------------

Init ==
    /\ entries = [i \in Slots |-> Zeroed]
    /\ count = 0

(* A second session with the same peer takes a slot of its own.            *)
koe_session_table_add(p, k) ==
    /\ count < MaxSessions
    /\ \E i \in Slots :
          /\ FirstFree(i)
          /\ entries' = [entries EXCEPT ![i] =
                [active |-> TRUE, peer |-> p, sess |-> k, idle |-> 0]]
    /\ count' = count + 1

(* Mutant: a lookup refreshes every session of the peer.                   *)
FindRefreshesAll(p) ==
    /\ \E i \in Slots : Match(i, p)
    /\ entries' = [i \in Slots |->
          IF Match(i, p) THEN [entries[i] EXCEPT !.idle = 0] ELSE entries[i]]
    /\ UNCHANGED count

(* A lookup refreshes last_used of the slot whose session it returns.      *)
koe_session_table_find(p) ==
    /\ \E i \in Slots :
          /\ FirstMatch(i, p)
          /\ entries' = [entries EXCEPT ![i].idle = 0]
    /\ UNCHANGED count

(* Mutant: the slot is only marked inactive, its bytes are not cleared.    *)
RemoveKeepsBytes(p) ==
    /\ \E i \in Slots :
          /\ FirstMatch(i, p)
          /\ entries' = [entries EXCEPT ![i].active = FALSE]
    /\ count' = count - 1

koe_session_table_remove(p) ==
    /\ \E i \in Slots :
          /\ FirstMatch(i, p)
          /\ entries' = [entries EXCEPT ![i] = Zeroed]
    /\ count' = count - 1

Expired(age) == {i \in Active : entries[i].idle > age}

(* Mutant: one decrement per call instead of one per slot.                 *)
CleanupCountsOnce(age) ==
    /\ age > 0
    /\ Expired(age) # {}
    /\ entries' = [i \in Slots |->
          IF i \in Expired(age) THEN Zeroed ELSE entries[i]]
    /\ count' = count - 1

koe_session_table_cleanup(age) ==
    /\ age > 0
    /\ entries' = [i \in Slots |->
          IF i \in Expired(age) THEN Zeroed ELSE entries[i]]
    /\ count' = count - Cardinality(Expired(age))

(* A second passes; the clock is the environment's.                        *)
Tick ==
    /\ entries' = [i \in Slots |->
          IF i \in Active /\ entries[i].idle <= MaxAge
          THEN [entries[i] EXCEPT !.idle = @ + 1] ELSE entries[i]]
    /\ UNCHANGED count

Next ==
    \/ \E p \in Peers, k \in Keys : koe_session_table_add(p, k)
    \/ \E p \in Peers : koe_session_table_find(p)
    \/ \E p \in Peers : koe_session_table_remove(p)
    \/ \E age \in 0..MaxAge : koe_session_table_cleanup(age)
    \/ Tick

Spec == Init /\ [][Next]_vars

(* Time passes, and the application keeps calling koe_poll, which cleans   *)
(* up with PollAge.  Nothing else is assumed to happen.                    *)
FairSpec == Spec /\ WF_vars(Tick) /\ WF_vars(koe_session_table_cleanup(PollAge))

-----------------------------------------------------------------------------

(* The slots hold well-formed entries and the counter stays in the range   *)
(* that koe_session_table_add compares it with.                            *)
TypeOK ==
    /\ entries \in [Slots -> Entry]
    /\ count \in 0..MaxSessions

(* The counter that add trusts for its capacity check equals the number of *)
(* active slots, whatever adds, removes and expiries came before.  If it   *)
(* drifted up, add would refuse with free slots left; if it drifted down,  *)
(* the check would no longer protect anything.                             *)
CountMatchesActive == count = Cardinality(Active)

(* No key outlives its session: a slot that is not active is all zero, so  *)
(* neither a removed nor an expired session leaves its keys in the table.  *)
InactiveErased == \A i \in Slots : i \notin Active => entries[i] = Zeroed

(* A second session with a peer that find never returns, because an        *)
(* earlier slot matches first.                                             *)
Shadowed(i) == i \in Active /\ \E j \in Slots : j < i /\ Match(j, entries[i].peer)

(* A duplicate session cannot hold its slot for ever: lookups of the peer  *)
(* refresh the earlier slot only, so the cleanup of koe_poll reclaims the  *)
(* shadowed one even while the peer is in constant use.                    *)
ShadowedReclaimed == \A i \in Slots : Shadowed(i) ~> ~Shadowed(i)

=============================================================================
