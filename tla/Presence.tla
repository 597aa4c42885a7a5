------------------------------ MODULE Presence ------------------------------
(***************************************************************************)
(* The presence table of src/src/koe_presence.c: an array of peers of      *)
(* which the first "count" are in use, kept dense by moving the last entry *)
(* into a vacated slot.  The slots past count keep their old bytes, which  *)
(* the next new entry partly overwrites, so they are part of the state.    *)
(*                                                                         *)
(* Time is relative: age is "now - last_seen" and typing is "now -         *)
(* typing_started_at" (Unset: is_typing is 0), both capped one above the   *)
(* largest limit the code compares them with.                              *)
(***************************************************************************)
EXTENDS Naturals

CONSTANTS
    PublicKeys,     \* public keys of the peers
    States,         \* the states a peer announces, other than OFFLINE
    Transports,     \* KOE_TRANSPORT_* of the contacts
    Wifi,           \* KOE_TRANSPORT_WIFI_DIRECT, the value 1
    Offline,        \* KOE_PRESENCE_OFFLINE
    Unset,          \* zero bytes
    MaxPeers,       \* KOE_PRESENCE_MAX_PEERS
    TtlLocal,       \* KOE_PRESENCE_TTL_LOCAL
    TtlRelay,       \* KOE_PRESENCE_TTL_RELAY
    TtlTyping       \* the 5 seconds of koe_presence_typing_expired

ASSUME PresenceAssumption ==
    /\ MaxPeers \in Nat \ {0}
    /\ TtlLocal \in Nat /\ TtlRelay \in Nat /\ TtlTyping \in Nat
    /\ TtlLocal <= TtlRelay
    /\ Offline \notin States
    /\ Wifi \in Transports
    /\ Unset \notin PublicKeys \cup States \cup Transports \cup Nat

VARIABLES
    peers,          \* table->peers
    count           \* table->count

presenceVars == <<peers, count>>

Slots == 1..MaxPeers

Zeroed == [pk |-> Unset, state |-> Offline, age |-> TtlRelay + 1,
           transport |-> Unset, typing |-> Unset]

InUse == 1..count

IsFirst(i, p) ==
    /\ i \in InUse /\ peers[i].pk = p
    /\ \A j \in InUse : j < i => peers[j].pk # p

Known(p) == \E i \in InUse : peers[i].pk = p

-----------------------------------------------------------------------------

PresenceInit ==
    /\ peers = [i \in Slots |-> Zeroed]
    /\ count = 0

(* The fields an update writes; the typing fields keep what the slot had.  *)
Contact(e, p, s, t) ==
    [pk |-> p, state |-> s, age |-> 0, transport |-> t, typing |-> e.typing]

(* A new peer when the table is full is ignored.                           *)
koe_presence_update(p, s, t) ==
    IF Known(p)
    THEN /\ \E i \in InUse :
              /\ IsFirst(i, p)
              /\ peers' = [peers EXCEPT ![i] = Contact(peers[i], p, s, t)]
         /\ UNCHANGED count
    ELSE /\ count < MaxPeers
         /\ peers' = [peers EXCEPT ![count + 1] = Contact(@, p, s, t)]
         /\ count' = count + 1

(* The time to live that a lookup applies: the code compares the transport *)
(* with KOE_PRESENCE_ONLINE, which is 1 and so is Wi-Fi Direct.            *)
Ttl(e) == IF e.transport = Wifi THEN TtlLocal ELSE TtlRelay

(* Mutant: the lookup ignores how old the entry is.                        *)
GetStale(p) ==
    IF Known(p)
    THEN LET i == CHOOSE i \in InUse : IsFirst(i, p) IN peers[i].state
    ELSE Offline

koe_presence_get(p) ==
    IF Known(p)
    THEN LET i == CHOOSE i \in InUse : IsFirst(i, p)
         IN  IF peers[i].age > Ttl(peers[i]) THEN Offline ELSE peers[i].state
    ELSE Offline

Stale(e) == e.age > TtlRelay

(* Mutant: the loop moves on after a removal, past the entry moved in.     *)
SweepStepSkips(st) ==
    IF st.i > st.count THEN st
    ELSE IF Stale(st.peers[st.i])
    THEN [peers |-> [st.peers EXCEPT ![st.i] = st.peers[st.count]],
          count |-> st.count - 1, i |-> st.i + 1]
    ELSE [st EXCEPT !.i = @ + 1]

(* Mutant: the expiry applies the time to live of a local peer.            *)
SweepStepLocal(st) ==
    IF st.i > st.count THEN st
    ELSE IF st.peers[st.i].age > TtlLocal
    THEN [st EXCEPT !.peers[st.i] = st.peers[st.count], !.count = @ - 1]
    ELSE [st EXCEPT !.i = @ + 1]

(* One iteration of the loop of expire: a stale entry is overwritten by    *)
(* the last one, which is examined next, in the same slot.                 *)
SweepStep(st) ==
    IF st.i > st.count THEN st
    ELSE IF Stale(st.peers[st.i])
    THEN [st EXCEPT !.peers[st.i] = st.peers[st.count], !.count = @ - 1]
    ELSE [st EXCEPT !.i = @ + 1]

(* The array, count and i after k iterations of that loop.                 *)
Swept[k \in Nat] ==
    IF k = 0 THEN [peers |-> peers, count |-> count, i |-> 1]
    ELSE SweepStep(Swept[k - 1])

(* Every iteration shrinks the distance from i to count by one, so count   *)
(* iterations reach the end of the loop.                                   *)
koe_presence_expire ==
    /\ peers' = Swept[count].peers
    /\ count' = Swept[count].count

(* The packet's flag (start or stop) is not read.                          *)
koe_presence_handle_typing(p, flag) ==
    /\ \E i \in InUse :
          /\ IsFirst(i, p)
          /\ peers' = [peers EXCEPT ![i].typing = 0]
    /\ UNCHANGED count

(* Mutant: the comparison with the limit is turned round.                  *)
TypingExpiredEarly(e) == e.typing # Unset /\ e.typing < TtlTyping

(* Whether the interface drops the indicator of an entry.                  *)
koe_presence_typing_expired(e) == e.typing # Unset /\ e.typing > TtlTyping

(* A second passes; the clock is the environment's.                        *)
Tick ==
    /\ peers' = [i \in Slots |->
          [peers[i] EXCEPT
              !.age = IF @ <= TtlRelay THEN @ + 1 ELSE @,
              !.typing = IF @ # Unset /\ @ <= TtlTyping THEN @ + 1 ELSE @]]
    /\ UNCHANGED count

Update(p) == \E s \in States, t \in Transports : koe_presence_update(p, s, t)

PresenceNext ==
    \/ \E p \in PublicKeys : Update(p)
    \/ \E p \in PublicKeys, flag \in {0, 1} : koe_presence_handle_typing(p, flag)
    \/ koe_presence_expire
    \/ Tick

PresenceSpec == PresenceInit /\ [][PresenceNext]_presenceVars

(* Time passes.  Nothing is assumed of the peers or of the expiry.         *)
FairPresenceSpec == PresenceSpec /\ WF_presenceVars(Tick)

-----------------------------------------------------------------------------

(* koe_presence_expire drops every stale entry and no other: removal by    *)
(* moving the last entry neither loses the moved one nor skips it when it  *)
(* is stale as well.                                                       *)
ExpireExact ==
    [][koe_presence_expire =>
          {peers'[x] : x \in 1..count'} =
              {peers[x] : x \in {j \in InUse : ~Stale(peers[j])}}]_presenceVars

(* Expiry is housekeeping only: it never changes what koe_presence_get     *)
(* answers for any peer, on whichever transport the peer was last seen.    *)
ExpiryUnobservable ==
    [][koe_presence_expire =>
          \A p \in PublicKeys : koe_presence_get(p)' = koe_presence_get(p)]_presenceVars

(* A peer that is never heard from again ends up shown offline for good,   *)
(* although nothing guarantees that koe_presence_expire is ever called.    *)
SilentGoesOffline ==
    \A p \in PublicKeys :
        <>[][~Update(p)]_presenceVars => <>[](koe_presence_get(p) = Offline)

(* Once no typing packet arrives any more, no entry keeps showing a peer   *)
(* as typing, whichever entries are moved, vacated and used again; for the *)
(* flag itself is never reset (koe_presence_typing_expired).               *)
TypingLapses ==
    <>[][~\E p \in PublicKeys, flag \in {0, 1} : koe_presence_handle_typing(p, flag)]_presenceVars
        => <>[](\A i \in InUse :
                   peers[i].typing # Unset => koe_presence_typing_expired(peers[i]))

=============================================================================
