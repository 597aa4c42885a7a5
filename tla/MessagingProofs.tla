--------------------------- MODULE MessagingProofs --------------------------
(***************************************************************************)
(* Safety of the session table for every capacity, every set of peers and  *)
(* keys and every cleanup age.  The bound on count in TypeOK is not        *)
(* inductive by itself: it follows from count being the cardinality of the *)
(* set of active slots, so the two are proved together.                    *)
(*                                                                         *)
(* The calls of koe_core.c change the table only through the operations of *)
(* koe_session.c, so Messaging implements SessionTable and keeps what is   *)
(* proved of it.  That a queued text is encrypted for its addressee needs  *)
(* more: the key in an active slot is one agreed with the peer of the      *)
(* slot, whatever was in the slot before.                                  *)
(*                                                                         *)
(* Last, a post on a channel: what holds of a subscriber depends on which  *)
(* side of the loop its node is, and the list ahead of the loop never      *)
(* grows, so that a post ends.                                             *)
(***************************************************************************)
EXTENDS Messaging, FiniteSetTheorems, TLAPS

(* The length and the elements of a sequence.                              *)
LEMMA LenProperties ==
    ASSUME NEW S, NEW s \in Seq(S)
    PROVE  Len(s) \in Nat /\ s \in [1..Len(s) -> S] /\ DOMAIN s = 1..Len(s)
OBVIOUS

(* An element of a sequence is in the set of its elements.                 *)
LEMMA ElementOfSeq ==
    ASSUME NEW S, NEW s \in Seq(S), NEW i \in 1..Len(s)
    PROVE  s[i] \in S
OBVIOUS

(* The empty sequence, and that no other has length 0.                     *)
LEMMA EmptySeq ==
    ASSUME NEW S
    PROVE  /\ << >> \in Seq(S) /\ Len(<< >>) = 0
           /\ \A s \in Seq(S) : s # << >> => Len(s) \in Nat \ {0}
OBVIOUS

(* Two sequences joined.                                                   *)
LEMMA ConcatProperties ==
    ASSUME NEW S, NEW s \in Seq(S), NEW t \in Seq(S)
    PROVE  s \o t \in Seq(S) /\ Len(s \o t) = Len(s) + Len(t)
OBVIOUS

(* A part of a sequence.                                                   *)
LEMMA SubSeqProperties ==
    ASSUME NEW S, NEW s, NEW a \in Int, NEW b \in Int, \A i \in a..b : s[i] \in S
    PROVE  /\ SubSeq(s, a, b) \in Seq(S)
           /\ Len(SubSeq(s, a, b)) = IF a <= b THEN b - a + 1 ELSE 0
           /\ \A i \in 1..(b - a + 1) : SubSeq(s, a, b)[i] = s[a + i - 1]
OBVIOUS

(* The values that a sequence takes.                                       *)
LEMMA SeqRange ==
    ASSUME NEW S, NEW s \in Seq(S)
    PROVE  Range(s) = {s[i] : i \in 1..Len(s)}
<1>1. DOMAIN s = 1..Len(s)
  BY LenProperties
<1> QED
  BY <1>1, Zenon DEF Range

-----------------------------------------------------------------------------
(* The session table *)

IInv == TypeOK /\ CountMatchesActive /\ InactiveErased

(* The active slots are a finite set of at most MaxSessions elements.      *)
LEMMA ActiveFinite ==
    /\ IsFiniteSet(Slots)
    /\ Cardinality(Slots) = MaxSessions
    /\ \A S \in SUBSET Slots : /\ IsFiniteSet(S)
                               /\ Cardinality(S) \in 0..MaxSessions
                               /\ Cardinality(S) = MaxSessions => S = Slots
<1>1. IsFiniteSet(Slots) /\ Cardinality(Slots) = MaxSessions
  BY FS_Interval, SessionAssumption DEF Slots
<1>2. ASSUME NEW S \in SUBSET Slots
      PROVE  /\ IsFiniteSet(S)
             /\ Cardinality(S) \in 0..MaxSessions
             /\ Cardinality(S) = MaxSessions => S = Slots
  BY <1>1, FS_Subset, FS_CardinalityType, SessionAssumption
<1> QED
  BY <1>1, <1>2, Zenon

(* memset leaves a table with no active slot and a zero counter.           *)
LEMMA InitIInv == Init => IInv
<1> SUFFICES ASSUME Init PROVE IInv
  BY Zenon
<1>1. Active = {}
  BY Zenon DEF Init, Active, Zeroed
<1>2. CountMatchesActive
  BY <1>1, FS_EmptySet, Zenon DEF Init, CountMatchesActive
<1>3. TypeOK /\ InactiveErased
  BY SessionAssumption DEF Init, TypeOK, Entry, Zeroed, InactiveErased
<1> QED
  BY <1>2, <1>3, Zenon DEF IInv

(* koe_session_table_add: the slot it fills was not active, so the counter *)
(* and the set of active slots grow together.                              *)
LEMMA AddIInv ==
    ASSUME NEW p \in Peers, NEW k \in Keys, IInv, koe_session_table_add(p, k)
    PROVE  IInv'
<1> USE DEF IInv
<1>1. PICK i \in Slots : /\ FirstFree(i)
                         /\ entries' = [entries EXCEPT ![i] =
                               [active |-> TRUE, peer |-> p, sess |-> k, idle |-> 0]]
  BY Zenon DEF koe_session_table_add
<1>2. Active' = Active \cup {i}
  BY <1>1, Zenon DEF Active, TypeOK
<1>3. i \notin Active /\ Active \in SUBSET Slots
  BY <1>1, Zenon DEF FirstFree, Active
<1>4. CountMatchesActive'
  BY <1>2, <1>3, ActiveFinite, FS_AddElement, Zenon DEF koe_session_table_add, CountMatchesActive
<1>5. TypeOK'
  <2>1. [active |-> TRUE, peer |-> p, sess |-> k, idle |-> 0] \in Entry
    BY SessionAssumption DEF Entry
  <2>2. count' \in 0..MaxSessions
    BY SessionAssumption DEF koe_session_table_add, TypeOK
  <2> QED
    BY <1>1, <2>1, <2>2, Zenon DEF TypeOK
<1>6. InactiveErased'
  BY <1>1, <1>2, Zenon DEF InactiveErased, TypeOK, Active
<1> QED
  BY <1>4, <1>5, <1>6, Zenon

(* koe_session_table_find touches last_used only.                          *)
LEMMA FindIInv ==
    ASSUME NEW p \in Peers, IInv, koe_session_table_find(p)
    PROVE  IInv'
<1> USE DEF IInv
<1>1. PICK i \in Slots : /\ FirstMatch(i, p)
                         /\ entries' = [entries EXCEPT ![i].idle = 0]
  BY Zenon DEF koe_session_table_find
<1>2. entries' \in [Slots -> Entry]
  BY <1>1, SessionAssumption DEF TypeOK, Entry
<1>3. /\ Active' = Active
      /\ \A j \in Slots : j \notin Active => entries'[j] = entries[j]
  BY <1>1, Zenon DEF Active, TypeOK, FirstMatch, Match, Entry
<1> QED
  BY <1>2, <1>3, Zenon DEF koe_session_table_find, TypeOK, CountMatchesActive, InactiveErased

(* koe_session_table_remove: the slot it clears was active.                *)
LEMMA RemoveIInv ==
    ASSUME NEW p \in Peers, IInv, koe_session_table_remove(p)
    PROVE  IInv'
<1> USE DEF IInv
<1>1. PICK i \in Slots : FirstMatch(i, p) /\ entries' = [entries EXCEPT ![i] = Zeroed]
  BY Zenon DEF koe_session_table_remove
<1>2. Active' = Active \ {i} /\ i \in Active /\ Active \in SUBSET Slots
  BY <1>1, Zenon DEF Active, TypeOK, Zeroed, FirstMatch, Match
<1>3. Active' \in SUBSET Slots /\ Cardinality(Active') = Cardinality(Active) - 1
  BY <1>2, ActiveFinite, FS_RemoveElement, Zenon
<1>4. CountMatchesActive' /\ count' \in 0..MaxSessions
  BY <1>3, ActiveFinite, Zenon DEF koe_session_table_remove, CountMatchesActive
<1>5. Zeroed \in Entry
  BY SessionAssumption DEF Zeroed, Entry
<1>6. InactiveErased' /\ TypeOK'
  BY <1>1, <1>2, <1>4, <1>5, Zenon DEF InactiveErased, TypeOK, Active
<1> QED
  BY <1>4, <1>6, Zenon

(* koe_session_table_cleanup: the counter drops by the number of slots     *)
(* cleared, because each of them was active.                               *)
LEMMA CleanupIInv ==
    ASSUME NEW age \in 0..MaxAge, IInv, koe_session_table_cleanup(age)
    PROVE  IInv'
<1> USE DEF IInv
<1> DEFINE E == Expired(age)
<1>1. /\ E \in SUBSET Active
      /\ Active \in SUBSET Slots
      /\ E \in SUBSET Slots
      /\ Active \ E \in SUBSET Slots
  BY Zenon DEF Expired, Active
<1>2. Active' = Active \ E
  BY <1>1, Zenon DEF koe_session_table_cleanup, Active, Zeroed, TypeOK
<1>3. Cardinality(Active) = Cardinality(Active \ E) + Cardinality(E)
  <2>1. Active = (Active \ E) \cup E /\ (Active \ E) \cap E = {}
    BY <1>1, Zenon
  <2>2. IsFiniteSet(Active \ E) /\ IsFiniteSet(E)
    BY <1>1, ActiveFinite, Zenon
  <2>3. Cardinality((Active \ E) \cup E) =
          Cardinality(Active \ E) + Cardinality(E) - Cardinality((Active \ E) \cap E)
    BY <2>2, FS_Union, Zenon
  <2>4. /\ Cardinality((Active \ E) \cap E) = 0
        /\ Cardinality(Active \ E) \in Nat
        /\ Cardinality(E) \in Nat
    BY <2>1, <2>2, FS_EmptySet, FS_CardinalityType, Zenon
  <2>5. Cardinality(Active) = Cardinality((Active \ E) \cup E)
    BY <2>1, Zenon
  <2> HIDE DEF E
  <2> QED
    BY <2>3, <2>4, <2>5
<1>4. CountMatchesActive' /\ count' \in 0..MaxSessions
  BY <1>1, <1>2, <1>3, ActiveFinite DEF koe_session_table_cleanup, CountMatchesActive
<1>5. Zeroed \in Entry
  BY SessionAssumption DEF Zeroed, Entry
<1>6. TypeOK'
  BY <1>4, <1>5, Zenon DEF koe_session_table_cleanup, TypeOK
<1>7. InactiveErased'
  BY <1>1, <1>2, Zenon DEF koe_session_table_cleanup, InactiveErased, TypeOK
<1> QED
  BY <1>4, <1>6, <1>7, Zenon

(* The clock only ages the active slots.                                   *)
LEMMA TickIInv ==
    ASSUME IInv, Tick
    PROVE  IInv'
<1> USE DEF IInv
<1>1. entries' \in [Slots -> Entry]
  BY SessionAssumption DEF Tick, TypeOK, Entry
<1>2. /\ Active' = Active
      /\ \A j \in Slots : j \notin Active => entries'[j] = entries[j]
  BY Zenon DEF Tick, Active, TypeOK, Entry
<1> QED
  BY <1>1, <1>2, Zenon DEF Tick, TypeOK, CountMatchesActive, InactiveErased

(* Every operation of koe_session.c preserves the inductive invariant.     *)
LEMMA NextIInv == IInv /\ [Next]_vars => IInv'
<1> SUFFICES ASSUME IInv, [Next]_vars PROVE IInv'
  BY Zenon
<1>1. CASE \E p \in Peers, k \in Keys : koe_session_table_add(p, k)
  BY <1>1, AddIInv, Zenon
<1>2. CASE \E p \in Peers : koe_session_table_find(p)
  BY <1>2, FindIInv, Zenon
<1>3. CASE \E p \in Peers : koe_session_table_remove(p)
  BY <1>3, RemoveIInv, Zenon
<1>4. CASE \E age \in 0..MaxAge : koe_session_table_cleanup(age)
  BY <1>4, CleanupIInv, Zenon
<1>5. CASE Tick
  BY <1>5, TickIInv, Zenon
<1>6. CASE UNCHANGED vars
  BY <1>6, Zenon DEF vars, IInv, TypeOK, CountMatchesActive, InactiveErased, Active
<1> QED
  BY <1>1, <1>2, <1>3, <1>4, <1>5, <1>6, Zenon DEF Next

(* Type correctness of the table, the bound on its counter included.       *)
THEOREM TypeCorrect == Spec => []TypeOK
<1>1. IInv => TypeOK
  BY Zenon DEF IInv
<1> QED
  BY InitIInv, NextIInv, <1>1, PTL DEF Spec

(* The counter never drifts from the number of active slots.               *)
THEOREM CountCorrect == Spec => []CountMatchesActive
<1>1. IInv => CountMatchesActive
  BY Zenon DEF IInv
<1> QED
  BY InitIInv, NextIInv, <1>1, PTL DEF Spec

(* A slot that is not active holds no bytes of an earlier session.         *)
THEOREM ErasureCorrect == Spec => []InactiveErased
<1>1. IInv => InactiveErased
  BY Zenon DEF IInv
<1> QED
  BY InitIInv, NextIInv, <1>1, PTL DEF Spec

(* koe_session_table_add refuses a session only when every slot is active: *)
(* the capacity check and the search for a free slot agree.                *)
THEOREM RefusedOnlyWhenFull ==
    Spec => [](count >= MaxSessions <=> Active = Slots)
<1>1. IInv => (count >= MaxSessions <=> Active = Slots)
  <2>1. Active \in SUBSET Slots
    BY Zenon DEF Active
  <2> QED
    BY <2>1, ActiveFinite, SessionAssumption
       DEF IInv, TypeOK, CountMatchesActive
<1> QED
  BY InitIInv, NextIInv, <1>1, PTL DEF Spec

(* No call refreshes a shadowed session: whatever happens to it, its slot  *)
(* is erased or its idle time does not go down.  A lookup refreshes the    *)
(* first match, a new session takes a free slot, and a removal leaves the  *)
(* second session as old as it was.                                        *)
ShadowedAges ==
    [][\A i \in Slots : Shadowed(i) =>
          \/ entries'[i] = Zeroed
          \/ /\ entries'[i].sess = entries[i].sess
             /\ entries'[i].idle >= entries[i].idle]_vars

(* The first slot that matches a peer is not a shadowed one.               *)
LEMMA ShadowedNotFirst ==
    ASSUME NEW i \in Slots, Shadowed(i), NEW p
    PROVE  ~FirstMatch(i, p) /\ ~FirstFree(i)
BY Zenon DEF Shadowed, FirstMatch, FirstFree, Match, Active

(* What the operations do to a shadowed slot.                              *)
LEMMA ShadowedStep ==
    ASSUME IInv, Next, NEW i \in Slots, Shadowed(i)
    PROVE  \/ entries'[i] = Zeroed
           \/ /\ entries'[i].sess = entries[i].sess
              /\ entries'[i].idle >= entries[i].idle
<1>1. /\ entries \in [Slots -> Entry] /\ entries[i] \in Entry /\ i \in Active
      /\ entries[i].idle \in Nat
  BY SessionAssumption DEF IInv, TypeOK, Entry, Shadowed
<1>2. entries[i].idle >= entries[i].idle
  BY <1>1
<1>3. ASSUME NEW p \in Peers, NEW k \in Keys, koe_session_table_add(p, k)
      PROVE  entries'[i] = entries[i]
  BY <1>1, <1>3, ShadowedNotFirst, Zenon DEF koe_session_table_add
<1>4. ASSUME NEW p \in Peers, koe_session_table_find(p) \/ koe_session_table_remove(p)
      PROVE  entries'[i] = entries[i]
  <2>1. PICK j \in Slots : FirstMatch(j, p) /\ \E e : entries' = [entries EXCEPT ![j] = e]
    BY <1>4, Zenon DEF koe_session_table_find, koe_session_table_remove
  <2>2. j # i
    BY <2>1, ShadowedNotFirst, Zenon
  <2> QED
    BY <1>1, <2>1, <2>2, Zenon
<1>5. ASSUME NEW age \in 0..MaxAge, koe_session_table_cleanup(age)
      PROVE  entries'[i] = Zeroed \/ entries'[i] = entries[i]
  BY <1>5, Zenon DEF koe_session_table_cleanup
<1>6. ASSUME Tick
      PROVE  entries'[i].sess = entries[i].sess /\ entries'[i].idle >= entries[i].idle
  <2>1. entries'[i] = IF entries[i].idle <= MaxAge
                      THEN [entries[i] EXCEPT !.idle = entries[i].idle + 1] ELSE entries[i]
    BY <1>1, <1>6, Zenon DEF Tick
  <2> QED
    BY <1>1, <2>1 DEF Entry
<1> QED
  BY <1>2, <1>3, <1>4, <1>5, <1>6, Zenon DEF Next

(* A duplicate session only gets older, for any number of slots and peers, *)
(* until the cleanup of koe_poll or a removal erases it or the session     *)
(* before it is gone: this is why it cannot hold its slot for ever.        *)
THEOREM ShadowedAgesCorrect == Spec => ShadowedAges
<1>1. IInv /\ [Next]_vars =>
        [\A i \in Slots : Shadowed(i) =>
            \/ entries'[i] = Zeroed
            \/ /\ entries'[i].sess = entries[i].sess
               /\ entries'[i].idle >= entries[i].idle]_vars
  BY ShadowedStep, Zenon
<1> QED
  BY <1>1, InitIInv, NextIInv, PTL DEF Spec, ShadowedAges

-----------------------------------------------------------------------------
(* Implementation *)

(* Every step of the application is an operation of koe_session.c or       *)
(* leaves the table alone.                                                 *)
LEMMA StepRefines == MessagingNext => [Next]_vars
<1> SUFFICES ASSUME MessagingNext PROVE [Next]_vars
  BY Zenon
<1>1. CASE \E p \in Peers, k \in Keys :
              koe_session_establish(p, k) \/ koe_handshake_process(p, k)
  BY <1>1, Zenon DEF koe_session_establish, koe_handshake_process, Next
<1>2. CASE \E p \in Peers : \/ koe_session_active(p) \/ koe_send_text(p)
                            \/ koe_message_send_encrypted(p) \/ koe_send_to_peer(p)
  BY <1>2, Zenon DEF koe_session_active, koe_send_text, koe_message_send_encrypted,
              koe_send_to_peer, Next
<1>3. CASE \E p \in Peers : koe_session_close(p)
  BY <1>3, Zenon DEF koe_session_close, Next
<1>4. CASE \E p \in Subscribers : koe_message_recv_and_decrypt(p)
  BY <1>4, MessagingAssumption, Zenon DEF MessagingAssumption, koe_message_recv_and_decrypt, Next
<1>5. CASE \E age \in 0..MaxAge : koe_sessions_cleanup(age)
  BY <1>5, Zenon DEF koe_sessions_cleanup, Next
<1>6. CASE TimePasses
  BY <1>6, Zenon DEF TimePasses, Next
<1>7. CASE \/ \E p \in Subscribers : Resubscribe(p)
           \/ \E m \in outbox : PacketLeaves(m)
           \/ \E p \in Peers : koe_send_file(p)
           \/ (PostBegins \/ koe_subscriber_list_free) /\ UNCHANGED <<vars, outbox>>
           \/ Posting
  BY <1>7, Zenon DEF Resubscribe, PacketLeaves, koe_send_file, Posting
<1> QED
  BY <1>1, <1>2, <1>3, <1>4, <1>5, <1>6, <1>7, Zenon DEF MessagingNext

(* The session calls of koe_core.c, used in any order and together with a  *)
(* channel whose send_fn relinks its list, implement the session table.    *)
THEOREM ImplementsSessionTable == MessagingSpec => Spec
<1>1. MessagingInit => Init
  BY Zenon DEF MessagingInit
<1>2. [MessagingNext]_messagingVars => [Next]_vars
  BY StepRefines, Zenon DEF messagingVars, vars
<1> QED
  BY <1>1, <1>2, PTL DEF MessagingSpec, Spec

(* So the counter that koe_session_table_add trusts is right under every   *)
(* use that koe_core.c makes of the table.                                 *)
THEOREM CountCorrectInUse == MessagingSpec => []CountMatchesActive
BY ImplementsSessionTable, CountCorrect, PTL

(* And no key stays behind in a slot that koe_session_close or koe_poll    *)
(* has cleared.                                                            *)
THEOREM ErasureCorrectInUse == MessagingSpec => []InactiveErased
BY ImplementsSessionTable, ErasureCorrect, PTL

-----------------------------------------------------------------------------
(* Keys *)

(* An active slot holds a key agreed with its peer.                        *)
SlotKeyOfPeer ==
    \A i \in Active : entries[i].sess \in Keys /\ KeyPeer[entries[i].sess] = entries[i].peer

KeyInv == IInv /\ SlotKeyOfPeer /\ QueuedForPeer

(* A step that activates no slot, changes no peer or key of an active one  *)
(* and pushes no text keeps every key where it was.                        *)
LEMMA KeysStay ==
    ASSUME KeyInv, IInv',
           Active' \subseteq Active,
           \A m \in outbox' : m.type = "text" => m \in outbox,
           \A i \in Active' : /\ entries'[i].sess = entries[i].sess
                              /\ entries'[i].peer = entries[i].peer
    PROVE  KeyInv'
BY Zenon DEF KeyInv, SlotKeyOfPeer, QueuedForPeer

(* koe_session_establish: the new key is agreed with the peer of the slot. *)
LEMMA EstablishKeys ==
    ASSUME KeyInv, IInv', NEW p \in Peers, NEW k \in Keys,
           Fresh(p, k), koe_session_table_add(p, k), outbox' = outbox
    PROVE  KeyInv'
<1>1. PICK s \in Slots : /\ FirstFree(s)
                         /\ entries' = [entries EXCEPT ![s] =
                               [active |-> TRUE, peer |-> p, sess |-> k, idle |-> 0]]
  BY Zenon DEF koe_session_table_add
<1>2. /\ Active' = Active \cup {s} /\ s \notin Active /\ Active \subseteq Slots
      /\ entries'[s].sess = k /\ entries'[s].peer = p
      /\ \A i \in Active : entries'[i] = entries[i]
  BY <1>1, Zenon DEF Active, FirstFree, KeyInv, IInv, TypeOK
<1>3. SlotKeyOfPeer'
  BY <1>2, Zenon DEF KeyInv, SlotKeyOfPeer, Fresh
<1>4. QueuedForPeer'
  BY Zenon DEF KeyInv, QueuedForPeer
<1> QED
  BY <1>3, <1>4, Zenon DEF KeyInv

(* A lookup moves no key.                                                  *)
LEMMA FindKeys ==
    ASSUME KeyInv, NEW p \in Peers, koe_session_table_find(p)
    PROVE  /\ Active' = Active
           /\ \A i \in Active : /\ entries'[i].sess = entries[i].sess
                                /\ entries'[i].peer = entries[i].peer
<1>1. PICK s \in Slots : entries' = [entries EXCEPT ![s].idle = 0]
  BY Zenon DEF koe_session_table_find
<1>2. \A i \in Slots : /\ entries'[i].active = entries[i].active
                       /\ entries'[i].sess = entries[i].sess
                       /\ entries'[i].peer = entries[i].peer
  BY <1>1, Zenon DEF KeyInv, IInv, TypeOK, Entry
<1> QED
  BY <1>2, Zenon DEF Active

(* koe_send_text: the slot found is with the addressee, and so is its key. *)
LEMMA SendKeys ==
    ASSUME KeyInv, IInv', NEW p \in Peers, koe_session_table_find(p),
           NEW s \in Slots, FirstMatch(s, p),
           outbox' = outbox \cup {Text(p, entries[s].sess)}
    PROVE  KeyInv'
<1>1. s \in Active /\ entries[s].peer = p
  BY Zenon DEF FirstMatch, Match, Active
<1>2. SlotKeyOfPeer'
  BY FindKeys, Zenon DEF KeyInv, SlotKeyOfPeer
<1>3. entries[s].sess # None /\ KeyPeer[entries[s].sess] = p
  BY <1>1, SessionAssumption, Zenon DEF SessionAssumption, KeyInv, SlotKeyOfPeer
<1>4. Text(p, entries[s].sess).to = p /\ Text(p, entries[s].sess).key = entries[s].sess
  BY Zenon DEF Text
<1>5. QueuedForPeer'
  BY <1>3, <1>4, Zenon DEF KeyInv, QueuedForPeer
<1> QED
  BY <1>2, <1>5, Zenon DEF KeyInv

(* Every step of the application keeps the invariant.                      *)
LEMMA KeyStep == KeyInv /\ [MessagingNext]_messagingVars => KeyInv'
<1> SUFFICES ASSUME KeyInv, [MessagingNext]_messagingVars PROVE KeyInv'
  BY Zenon
<1>0. IInv'
  <2>1. [Next]_vars
    BY StepRefines, Zenon DEF messagingVars, vars
  <2> QED
    BY <2>1, NextIInv, Zenon DEF KeyInv
<1>1. CASE \E p \in Peers, k \in Keys :
              koe_session_establish(p, k) \/ koe_handshake_process(p, k)
  BY <1>0, <1>1, EstablishKeys, Zenon DEF koe_session_establish, koe_handshake_process
<1>2. ASSUME NEW p \in Peers, koe_session_table_find(p), outbox' \subseteq outbox
      PROVE  KeyInv'
  BY <1>0, <1>2, FindKeys, KeysStay, Zenon
<1>3. CASE \E p \in Peers : \/ koe_session_active(p)
                            \/ koe_message_send_encrypted(p) \/ koe_send_to_peer(p)
  BY <1>2, <1>3, Zenon DEF koe_session_active, koe_message_send_encrypted, koe_send_to_peer
<1>4. CASE \E p \in Peers : koe_send_text(p)
  BY <1>0, <1>2, <1>4, SendKeys, Zenon DEF koe_send_text
<1>5. CASE \E p \in Subscribers : koe_message_recv_and_decrypt(p)
  BY <1>2, <1>5, MessagingAssumption, Zenon DEF MessagingAssumption, koe_message_recv_and_decrypt
<1>6. CASE \E p \in Peers : koe_session_close(p)
  <2>1. PICK s \in Slots : entries' = [entries EXCEPT ![s] = Zeroed]
    BY <1>6, Zenon DEF koe_session_close, koe_session_table_remove
  <2>2. outbox' = outbox
    BY <1>6, Zenon DEF koe_session_close
  <2>3. Active' \subseteq Active /\ \A i \in Active' : entries'[i] = entries[i]
    BY <2>1, Zenon DEF Active, Zeroed, KeyInv, IInv, TypeOK
  <2> QED
    BY <1>0, <2>2, <2>3, KeysStay, Zenon
<1>7. CASE \E age \in 0..MaxAge : koe_sessions_cleanup(age)
  <2>1. PICK age \in 0..MaxAge :
           /\ entries' = [i \in Slots |->
                 IF i \in Expired(age) THEN Zeroed ELSE entries[i]]
           /\ outbox' = outbox
    BY <1>7, Zenon DEF koe_sessions_cleanup, koe_session_table_cleanup
  <2>2. Active' \subseteq Active /\ \A i \in Active' : entries'[i] = entries[i]
    BY <2>1, Zenon DEF Active, Zeroed
  <2> QED
    BY <1>0, <2>1, <2>2, KeysStay, Zenon
<1>8. CASE TimePasses
  <2>1. /\ outbox' = outbox
        /\ \A i \in Slots : /\ entries'[i].active = entries[i].active
                            /\ entries'[i].sess = entries[i].sess
                            /\ entries'[i].peer = entries[i].peer
    BY <1>8, Zenon DEF TimePasses, Tick, KeyInv, IInv, TypeOK, Entry
  <2>2. Active' = Active /\ Active \subseteq Slots
    BY <2>1, Zenon DEF Active
  <2> QED
    BY <1>0, <2>1, <2>2, KeysStay, Zenon
<1>9. CASE vars' = vars /\ \A m \in outbox' : m.type = "text" => m \in outbox
  BY <1>0, <1>9, KeysStay, Zenon DEF vars, Active
<1>10. CASE \/ \E p \in Subscribers : Resubscribe(p)
            \/ \E m \in outbox : PacketLeaves(m)
            \/ (PostBegins \/ koe_subscriber_list_free) /\ UNCHANGED <<vars, outbox>>
            \/ Posting
            \/ UNCHANGED messagingVars
  BY <1>9, <1>10, Zenon DEF Resubscribe, PacketLeaves, Posting, messagingVars
<1>11. CASE \E p \in Peers : koe_send_file(p)
  <2>1. PICK p \in Peers : vars' = vars /\ outbox' = outbox \cup {Offer(p, None)}
    BY <1>11, Zenon DEF koe_send_file
  <2>2. Offer(p, None).type # "text"
    BY DEF Offer
  <2> QED
    BY <1>9, <2>1, <2>2, Zenon
<1> QED
  BY <1>1, <1>3, <1>4, <1>5, <1>6, <1>7, <1>8, <1>10, <1>11, Zenon DEF MessagingNext

(* A text in the queue carries a key agreed with its addressee, however    *)
(* sessions were replaced, shadowed, closed or expired before and after    *)
(* koe_send_text encrypted it.                                             *)
THEOREM QueuedForPeerCorrect == MessagingSpec => []QueuedForPeer
<1>1. MessagingInit => KeyInv
  BY InitIInv DEF MessagingInit, Init, KeyInv, SlotKeyOfPeer, QueuedForPeer, Active, Zeroed
<1>2. KeyInv => QueuedForPeer
  BY Zenon DEF KeyInv
<1> QED
  BY <1>1, <1>2, KeyStep, PTL DEF MessagingSpec

-----------------------------------------------------------------------------
(* Posts on a channel *)

(* The loop of koe_channel_post is at node n: it is through with the nodes *)
(* before, where peers that were subscribed all along have their copy, and *)
(* has not touched those behind.                                           *)
LoopAt(n) ==
    /\ n \in 1..Len(subs) /\ subs[n] = post
    /\ \A j \in 1..Len(subs) :
          /\ j < n /\ subs[j] \in stayed \ skipped => sent[subs[j]] = 1
          /\ j = n => sent[subs[j]] = IF called THEN 1 ELSE 0
          /\ j > n => sent[subs[j]] = 0

ListOK ==
    /\ subs \in Seq(Subscribers)
    /\ \A j, k \in 1..Len(subs) : subs[j] = subs[k] => j = k
    /\ stayed \subseteq Range(subs)

PostInv ==
    /\ ListOK
    /\ sent \in [Subscribers -> 0..1]
    /\ post \in Subscribers \cup {NoPost, ListEnd}
    /\ called => post \in Subscribers
    /\ post = NoPost => /\ \A p \in Subscribers : sent[p] = 0
                        /\ stayed = {}
    /\ post = ListEnd => \A p \in stayed \ skipped : sent[p] = 1
    /\ post \in Subscribers => \E n \in 1..Len(subs) : LoopAt(n)

(* The peers of the list.                                                  *)
LEMMA ListRange ==
    ASSUME ListOK
    PROVE  /\ Len(subs) \in Nat
           /\ Range(subs) = {subs[k] : k \in 1..Len(subs)}
           /\ \A k \in 1..Len(subs) : subs[k] \in Subscribers
  BY LenProperties, SeqRange, ElementOfSeq, Zenon DEF ListOK

(* What a list is without its node number k.                               *)
LEMMA RemoveAtFacts ==
    ASSUME NEW S, NEW s \in Seq(S), NEW k \in 1..Len(s)
    PROVE  /\ RemoveAt(s, k) \in Seq(S)
           /\ Len(s) \in Nat /\ Len(RemoveAt(s, k)) = Len(s) - 1
           /\ \A j \in 1..(Len(s) - 1) :
                 RemoveAt(s, k)[j] = IF j < k THEN s[j] ELSE s[j + 1]
<1> DEFINE n == Len(s)
           a == SubSeq(s, 1, k - 1)
           b == SubSeq(s, k + 1, n)
<1>1. n \in Nat /\ k \in 1..n /\ \A j \in 1..n : s[j] \in S
  BY LenProperties, ElementOfSeq, Zenon
<1>2. 1 \in Int /\ k - 1 \in Int /\ k + 1 \in Int /\ n \in Int
  BY <1>1
<1> HIDE DEF n
<1>3. /\ a \in Seq(S)
      /\ Len(a) = IF 1 <= k - 1 THEN k - 1 - 1 + 1 ELSE 0
      /\ \A j \in 1..(k - 1 - 1 + 1) : a[j] = s[1 + j - 1]
  <2>1. \A j \in 1..(k - 1) : s[j] \in S
    BY <1>1
  <2> QED
    BY <1>2, <2>1, SubSeqProperties
<1>4. /\ b \in Seq(S)
      /\ Len(b) = IF k + 1 <= n THEN n - (k + 1) + 1 ELSE 0
      /\ \A j \in 1..(n - (k + 1) + 1) : b[j] = s[k + 1 + j - 1]
  <2>1. \A j \in (k + 1)..n : s[j] \in S
    BY <1>1
  <2> QED
    BY <1>2, <2>1, SubSeqProperties
<1>5. RemoveAt(s, k) = a \o b
  BY Zenon DEF RemoveAt, n
<1> HIDE DEF a, b
<1>6. Len(a) = k - 1 /\ \A j \in 1..(k - 1) : a[j] = s[j]
  BY <1>1, <1>3
<1>7. Len(b) = n - k /\ \A j \in 1..(n - k) : b[j] = s[k + j]
  BY <1>1, <1>4
<1> DEFINE c == a \o b
<1>8. /\ c \in Seq(S) /\ Len(c) = Len(a) + Len(b)
      /\ \A j \in 1..(Len(a) + Len(b)) :
            c[j] = IF j <= Len(a) THEN a[j] ELSE b[j - Len(a)]
  BY <1>3, <1>4, ConcatProperties, Zenon
<1> HIDE DEF c
<1>9. Len(c) = n - 1
  BY <1>1, <1>6, <1>7, <1>8
<1>10. ASSUME NEW j \in 1..(n - 1)
       PROVE  c[j] = IF j < k THEN s[j] ELSE s[j + 1]
  <2>1. c[j] = IF j <= k - 1 THEN a[j] ELSE b[j - (k - 1)]
    BY <1>1, <1>6, <1>7, <1>8
  <2>2. CASE j < k
    BY <1>1, <1>6, <2>1, <2>2
  <2>3. CASE ~(j < k)
    <3>1. j - (k - 1) \in 1..(n - k) /\ k + (j - (k - 1)) = j + 1
      BY <1>1, <2>3
    <3>2. c[j] = b[j - (k - 1)]
      BY <1>1, <2>1, <2>3
    <3> QED
      BY <1>7, <2>3, <3>1, <3>2, Zenon
  <2> QED
    BY <2>2, <2>3, Zenon
<1> QED
  BY <1>1, <1>5, <1>8, <1>9, <1>10, Zenon DEF n, c

(* The next pointer of the node at place n.                                *)
LEMMA AfterFacts ==
    ASSUME ListOK, NEW n \in 1..Len(subs)
    PROVE  After(subs[n]) = IF n < Len(subs) THEN subs[n + 1] ELSE ListEnd
<1>1. /\ Len(subs) \in Nat
      /\ \A j, k \in 1..Len(subs) : subs[j] = subs[k] => j = k
  BY ListRange, Zenon DEF ListOK
<1> DEFINE rest == {j \in 2..Len(subs) : subs[j - 1] = subs[n]}
<1>2. \A j \in 2..Len(subs) : j - 1 \in 1..Len(subs)
  BY <1>1
<1>3. \A j \in rest : j = n + 1
  BY <1>1, <1>2
<1>4. CASE n < Len(subs)
  <2>1. n + 1 \in 2..Len(subs) /\ n + 1 - 1 = n
    BY <1>1, <1>4
  <2>2. rest = {n + 1}
    BY <1>3, <2>1
  <2> HIDE DEF rest
  <2>3. (CHOOSE j \in rest : TRUE) = n + 1
    BY <2>2, Zenon
  <2> QED
    BY <1>4, <2>2, <2>3, Zenon DEF After, rest
<1>5. CASE ~(n < Len(subs))
  <2>1. rest = {}
    BY <1>1, <1>3, <1>5
  <2> QED
    BY <1>5, <2>1, Zenon DEF After
<1> QED
  BY <1>4, <1>5, Zenon

(* An empty list, no post.                                                 *)
LEMMA PostInit == ChannelInit => PostInv
<1> SUFFICES ASSUME ChannelInit PROVE PostInv
  BY Zenon
<1>1. subs = << >> /\ Len(subs) = 0 /\ subs \in Seq(Subscribers)
  BY EmptySeq, Zenon DEF ChannelInit
<1>2. post = NoPost /\ called = FALSE /\ stayed = {} /\ sent = [p \in Subscribers |-> 0]
  BY Zenon DEF ChannelInit
<1>3. NoPost \notin Subscribers
  BY ChannelAssumption, Zenon
<1>4. NoPost # ListEnd \/ \A p \in stayed \ skipped : sent[p] = 1
  BY <1>2, Zenon
<1> QED
  BY <1>1, <1>2, <1>3, <1>4 DEF PostInv, ListOK

(* koe_channel_add_subscriber: the new node is the head, so behind the     *)
(* loop, and its peer has not been subscribed all along.                   *)
LEMMA SubscribePost ==
    ASSUME PostInv, NEW p \in Subscribers, koe_channel_add_subscriber(p)
    PROVE  PostInv'
<1>1. ListOK
  BY Zenon DEF PostInv
<1>2. p \notin Range(subs) /\ subs' = <<p>> \o subs /\ UNCHANGED postVars
  BY Zenon DEF koe_channel_add_subscriber
<1> DEFINE n == Len(subs)
<1>3. /\ n \in Nat /\ subs \in Seq(Subscribers)
      /\ Range(subs) = {subs[k] : k \in 1..n}
  BY <1>1, ListRange, Zenon DEF ListOK
<1>4. <<p>> \in Seq(Subscribers) /\ Len(<<p>>) = 1 /\ <<p>>[1] = p
  OBVIOUS
<1>5. /\ subs' \in Seq(Subscribers) /\ Len(subs') = n + 1
      /\ \A k \in 1..(1 + n) : subs'[k] = IF k <= 1 THEN <<p>>[k] ELSE subs[k - 1]
  BY <1>2, <1>3, <1>4, ConcatProperties
<1> HIDE DEF n
<1>6. /\ 1..Len(subs') = 1..(n + 1)
      /\ subs'[1] = p
      /\ \A k \in 2..(n + 1) : k - 1 \in 1..n /\ subs'[k] = subs[k - 1]
      /\ \A k \in 1..n : k + 1 \in 2..(n + 1) /\ subs'[k + 1] = subs[k]
      /\ \A k \in 1..(n + 1) : k = 1 \/ k \in 2..(n + 1)
  BY <1>3, <1>4, <1>5
<1>7. \A j, k \in 1..n : subs[j] = subs[k] => j = k
  BY <1>1, Zenon DEF ListOK, n
<1>8. \A j, k \in 1..Len(subs') : subs'[j] = subs'[k] => j = k
  <2> SUFFICES ASSUME NEW j \in 1..(n + 1), NEW k \in 1..(n + 1), subs'[j] = subs'[k]
               PROVE  j = k
    BY <1>6, Zenon
  <2>1. CASE j = 1 /\ k # 1
    BY <1>2, <1>3, <1>6, <2>1
  <2>2. CASE j # 1 /\ k = 1
    BY <1>2, <1>3, <1>6, <2>2
  <2>3. CASE j # 1 /\ k # 1
    <3>1. j - 1 \in 1..n /\ k - 1 \in 1..n /\ subs[j - 1] = subs[k - 1]
      BY <1>6, <2>3, Zenon
    <3>2. j - 1 = k - 1
      BY <1>7, <3>1, Zenon
    <3> QED
      BY <1>3, <3>2
  <2> QED
    BY <2>1, <2>2, <2>3, Zenon
<1>9. Range(subs') = {subs'[k] : k \in 1..(n + 1)}
  BY <1>5, <1>6, SeqRange
<1>10. Range(subs) \subseteq Range(subs')
  <2> SUFFICES ASSUME NEW k \in 1..n PROVE subs[k] \in Range(subs')
    BY <1>3, Zenon
  <2>1. k + 1 \in 1..(n + 1) /\ subs'[k + 1] = subs[k]
    BY <1>3, <1>6
  <2> QED
    BY <1>9, <2>1, Zenon
<1>11. ListOK'
  BY <1>1, <1>2, <1>5, <1>8, <1>10, Zenon DEF ListOK, postVars
<1>12. /\ post' = post /\ called' = called /\ sent' = sent
       /\ skipped' = skipped /\ stayed' = stayed
  BY <1>2, Zenon DEF postVars
<1>13. ASSUME NEW m \in 1..Len(subs), LoopAt(m) PROVE LoopAt(m + 1)'
  <2>1. m \in 1..n /\ subs[m] = post
    BY <1>13, Zenon DEF LoopAt, n
  <2>2. m + 1 \in 1..Len(subs') /\ subs'[m + 1] = post'
    <3>1. m + 1 \in 1..(n + 1)
      BY <1>3, <2>1
    <3> QED
      BY <1>6, <1>12, <2>1, <3>1, Zenon
  <2>3. ASSUME NEW j \in 1..Len(subs')
        PROVE  /\ j < m + 1 /\ subs'[j] \in stayed \ skipped => sent[subs'[j]] = 1
               /\ j = m + 1 => sent[subs'[j]] = IF called THEN 1 ELSE 0
               /\ j > m + 1 => sent[subs'[j]] = 0
    <3>1. CASE j = 1
      <4>1. subs'[j] \notin stayed
        BY <1>1, <1>2, <1>6, <3>1, Zenon DEF ListOK
      <4> QED
        BY <1>3, <2>1, <3>1, <4>1
    <3>2. CASE j \in 2..(n + 1)
      <4>1. j - 1 \in 1..Len(subs) /\ subs'[j] = subs[j - 1]
        BY <1>6, <3>2, Zenon DEF n
      <4>2. /\ j - 1 < m /\ subs[j - 1] \in stayed \ skipped => sent[subs[j - 1]] = 1
            /\ j - 1 = m => sent[subs[j - 1]] = IF called THEN 1 ELSE 0
            /\ j - 1 > m => sent[subs[j - 1]] = 0
        BY <1>13, <4>1, Zenon DEF LoopAt
      <4>3. /\ j < m + 1 <=> j - 1 < m
            /\ j = m + 1 <=> j - 1 = m
            /\ j > m + 1 <=> j - 1 > m
        BY <1>3, <2>1, <3>2
      <4> QED
        BY <4>1, <4>2, <4>3, Zenon
    <3> QED
      BY <1>6, <3>1, <3>2, Zenon
  <2> QED
    BY <1>12, <2>2, <2>3, Zenon DEF LoopAt
<1>14. post' \in Subscribers => \E m \in 1..Len(subs') : LoopAt(m)'
  BY <1>12, <1>13, Zenon DEF PostInv, LoopAt
<1> QED
  BY <1>11, <1>12, <1>14, Zenon DEF PostInv

(* koe_channel_remove_subscriber: the other nodes keep their order, and    *)
(* so the side of the loop that they are on.                               *)
LEMMA UnsubscribePost ==
    ASSUME PostInv, NEW p \in Subscribers, koe_channel_remove_subscriber(p)
    PROVE  PostInv'
<1>1. ListOK
  BY Zenon DEF PostInv
<1>2. PICK k \in 1..Len(subs) : subs[k] = p /\ subs' = RemoveAt(subs, k)
  BY Zenon DEF koe_channel_remove_subscriber
<1>3. /\ p # post /\ stayed' = stayed \ {p}
      /\ post' = post /\ called' = called /\ sent' = sent /\ skipped' = skipped
  BY Zenon DEF koe_channel_remove_subscriber
<1> DEFINE n == Len(subs)
           From(j) == IF j < k THEN j ELSE j + 1
           To(j) == IF j < k THEN j ELSE j - 1
<1>4. /\ n \in Nat /\ subs \in Seq(Subscribers) /\ k \in 1..n
      /\ Range(subs) = {subs[j] : j \in 1..n}
      /\ \A i, j \in 1..n : subs[i] = subs[j] => i = j
  BY <1>1, ListRange, Zenon DEF ListOK
<1>5. /\ subs' \in Seq(Subscribers) /\ Len(subs') = n - 1
      /\ \A j \in 1..(n - 1) : subs'[j] = IF j < k THEN subs[j] ELSE subs[j + 1]
  BY <1>2, <1>4, RemoveAtFacts, Zenon
<1> HIDE DEF n
<1>6. \A j \in 1..(n - 1) :
         /\ From(j) \in 1..n /\ From(j) # k /\ subs'[j] = subs[From(j)]
         /\ \A i \in 1..(n - 1) : i < j <=> From(i) < From(j)
  <2>1. ASSUME NEW j \in 1..(n - 1)
        PROVE  From(j) \in 1..n /\ From(j) # k /\ subs'[j] = subs[From(j)]
    <3>1. subs'[j] = IF j < k THEN subs[j] ELSE subs[j + 1]
      BY <1>5, Zenon
    <3> QED
      BY <1>4, <3>1
  <2>2. ASSUME NEW j \in 1..(n - 1), NEW i \in 1..(n - 1)
        PROVE  i < j <=> From(i) < From(j)
    BY <1>4
  <2> QED
    BY <2>1, <2>2, Zenon
<1>7. \A j \in 1..n : j # k => To(j) \in 1..(n - 1) /\ From(To(j)) = j
  BY <1>4
<1> HIDE DEF From, To
<1>8. \A j \in 1..(n - 1) : From(j) \in Nat /\ j \in Nat
  BY <1>4, <1>6
<1>9. \A i, j \in 1..(n - 1) : From(i) = From(j) => i = j
  <2> SUFFICES ASSUME NEW i \in 1..(n - 1), NEW j \in 1..(n - 1), From(i) = From(j)
               PROVE  i = j
    BY Zenon
  <2>1. ~(i < j) /\ ~(j < i)
    BY <1>6, <1>8
  <2> QED
    BY <1>8, <2>1
<1>10. \A i, j \in 1..Len(subs') : subs'[i] = subs'[j] => i = j
  <2> SUFFICES ASSUME NEW i \in 1..(n - 1), NEW j \in 1..(n - 1), subs'[i] = subs'[j]
               PROVE  i = j
    BY <1>5, Zenon
  <2>1. From(i) \in 1..n /\ From(j) \in 1..n /\ subs[From(i)] = subs[From(j)]
    BY <1>6, Zenon
  <2>2. From(i) = From(j)
    BY <1>4, <2>1, Zenon
  <2> QED
    BY <1>9, <2>2, Zenon
<1>11. stayed' \subseteq Range(subs')
  <2> SUFFICES ASSUME NEW q \in stayed, q # p PROVE q \in Range(subs')
    BY <1>3, Zenon
  <2>1. PICK j \in 1..n : subs[j] = q
    BY <1>1, <1>4, Zenon DEF ListOK
  <2>2. To(j) \in 1..(n - 1) /\ subs'[To(j)] = q
    BY <1>2, <1>6, <1>7, <2>1, Zenon
  <2>3. Range(subs') = {subs'[i] : i \in 1..(n - 1)}
    BY <1>5, SeqRange, Zenon
  <2> QED
    BY <2>2, <2>3, Zenon
<1>12. ListOK'
  BY <1>5, <1>10, <1>11, Zenon DEF ListOK
<1>13. ASSUME NEW m \in 1..n, LoopAt(m) PROVE LoopAt(To(m))'
  <2>1. subs[m] = post /\ m # k
    BY <1>2, <1>3, <1>13, Zenon DEF LoopAt
  <2>2. To(m) \in 1..(n - 1) /\ From(To(m)) = m
    BY <1>7, <2>1, Zenon
  <2>3. To(m) \in 1..Len(subs') /\ subs'[To(m)] = post'
    BY <1>3, <1>5, <1>6, <2>1, <2>2, Zenon
  <2>4. ASSUME NEW j \in 1..Len(subs')
        PROVE  /\ j < To(m) /\ subs'[j] \in stayed' \ skipped => sent[subs'[j]] = 1
               /\ j = To(m) => sent[subs'[j]] = IF called THEN 1 ELSE 0
               /\ j > To(m) => sent[subs'[j]] = 0
    <3>1. /\ j \in 1..(n - 1) /\ From(j) \in 1..Len(subs)
          /\ subs'[j] = subs[From(j)]
      BY <1>5, <1>6, Zenon DEF n
    <3>2. /\ From(j) < m /\ subs[From(j)] \in stayed \ skipped => sent[subs[From(j)]] = 1
          /\ From(j) = m => sent[subs[From(j)]] = IF called THEN 1 ELSE 0
          /\ From(j) > m => sent[subs[From(j)]] = 0
      BY <1>13, <3>1, Zenon DEF LoopAt
    <3>3. /\ j < To(m) => From(j) < m
          /\ j = To(m) => From(j) = m
          /\ To(m) < j => m < From(j)
      BY <1>6, <2>2, <3>1
    <3>4. j > To(m) => From(j) > m
      BY <1>8, <2>2, <3>1, <3>3, Zenon
    <3> QED
      BY <1>3, <3>1, <3>2, <3>3, <3>4, Zenon
  <2> QED
    BY <1>3, <2>3, <2>4, Zenon DEF LoopAt
<1>14. post' \in Subscribers => \E m \in 1..Len(subs') : LoopAt(m)'
  BY <1>3, <1>13, Zenon DEF PostInv, LoopAt, n
<1> QED
  BY <1>3, <1>12, <1>14, Zenon DEF PostInv

(* The loop goes on to the next node, or to the end of the list.           *)
LEMMA AdvancePost ==
    ASSUME ListOK, ListOK', NEW n \in 1..Len(subs), subs[n] = post,
           \A j \in 1..Len(subs) :
              /\ j <= n /\ subs[j] \in stayed \ skipped' => sent[subs[j]] = 1
              /\ j > n => sent[subs[j]] = 0,
           sent \in [Subscribers -> 0..1],
           post' = After(post), called' = FALSE, UNCHANGED <<subs, sent, stayed>>
    PROVE  PostInv'
<1>1. /\ Len(subs) \in Nat
      /\ Range(subs) = {subs[k] : k \in 1..Len(subs)}
      /\ \A k \in 1..Len(subs) : subs[k] \in Subscribers
  BY ListRange, Zenon
<1>2. post' = IF n < Len(subs) THEN subs[n + 1] ELSE ListEnd
  BY AfterFacts, Zenon
<1>3. CASE n < Len(subs)
  <2>1. n + 1 \in 1..Len(subs') /\ subs'[n + 1] = post' /\ post' \in Subscribers
    BY <1>1, <1>2, <1>3
  <2>2. \A j \in 1..Len(subs) :
           /\ j < n + 1 /\ subs[j] \in stayed \ skipped' => sent[subs[j]] = 1
           /\ j = n + 1 => sent[subs[j]] = IF called' THEN 1 ELSE 0
           /\ j > n + 1 => sent[subs[j]] = 0
    <3>1. \A j \in 1..Len(subs) : (j < n + 1 => j <= n) /\ (j >= n + 1 => j > n)
      BY <1>1
    <3> QED
      BY <1>1, <3>1
  <2>3. LoopAt(n + 1)'
    BY <2>1, <2>2, Zenon DEF LoopAt
  <2>4. post' # NoPost /\ post' # ListEnd
    BY <2>1, ChannelAssumption, Zenon
  <2> QED
    BY <2>1, <2>3, <2>4, Zenon DEF PostInv
<1>4. CASE ~(n < Len(subs))
  <2>1. post' = ListEnd /\ post' # NoPost /\ post' \notin Subscribers
    BY <1>2, <1>4, ChannelAssumption, Zenon
  <2>2. \A j \in 1..Len(subs) : j <= n
    BY <1>1, <1>4
  <2>3. \A p \in stayed \ skipped' : sent[p] = 1
    BY <1>1, <2>2 DEF ListOK
  <2> QED
    BY <2>1, <2>3, Zenon DEF PostInv
<1> QED
  BY <1>3, <1>4, Zenon

(* The loop of koe_channel_post, and the freeing of the list between       *)
(* posts.                                                                  *)
LEMMA LoopPost ==
    ASSUME PostInv, PostBegins \/ PostStep \/ koe_subscriber_list_free
    PROVE  PostInv'
<1>1. /\ ListOK /\ Len(subs) \in Nat
      /\ Range(subs) = {subs[k] : k \in 1..Len(subs)}
      /\ \A k \in 1..Len(subs) : subs[k] \in Subscribers
  BY ListRange, Zenon DEF PostInv
<1>2. CASE PostBegins
  <2>1. /\ post = NoPost /\ post' = Head(subs) /\ stayed' = Range(subs)
        /\ subs # << >> /\ UNCHANGED <<subs, called, sent, skipped>>
    BY <1>2, Zenon DEF PostBegins
  <2>2. 1 \in 1..Len(subs) /\ Head(subs) = subs[1]
    BY <1>1, <2>1, EmptySeq DEF ListOK
  <2>3. ~called
    BY <2>1, ChannelAssumption, Zenon DEF PostInv
  <2>4. \A k \in 1..Len(subs) : sent[subs[k]] = 0 /\ ~(k < 1)
    BY <1>1, <2>1 DEF PostInv
  <2>5. LoopAt(1)'
    BY <2>1, <2>2, <2>3, <2>4, Zenon DEF LoopAt
  <2>6. post' \in Subscribers /\ post' # NoPost /\ post' # ListEnd
    BY <1>1, <2>1, <2>2, ChannelAssumption, Zenon
  <2>7. ListOK'
    BY <1>1, <2>1, Zenon DEF ListOK
  <2> QED
    BY <2>1, <2>2, <2>3, <2>5, <2>6, <2>7, Zenon DEF PostInv
<1>3. CASE koe_subscriber_list_free
  <2>1. post = NoPost /\ subs' = << >> /\ UNCHANGED postVars
    BY <1>3, Zenon DEF koe_subscriber_list_free
  <2>2. subs' \in Seq(Subscribers) /\ Len(subs') = 0
    BY <2>1, EmptySeq, Zenon
  <2>3. ListOK'
    BY <2>1, <2>2 DEF ListOK, PostInv, postVars
  <2> QED
    BY <2>1, <2>3, ChannelAssumption, Zenon DEF PostInv, postVars
<1>4. CASE PostSends
  <2>1. /\ post \in Subscribers /\ ~called /\ called' = TRUE
        /\ sent' = [sent EXCEPT ![post] = IF @ < 2 THEN @ + 1 ELSE 2]
        /\ UNCHANGED <<subs, post, skipped, stayed>>
    BY <1>4, Zenon DEF PostSends
  <2>2. PICK n \in 1..Len(subs) : LoopAt(n)
    BY <2>1, Zenon DEF PostInv
  <2>3. subs[n] = post /\ sent[post] = 0
    BY <2>1, <2>2, Zenon DEF LoopAt
  <2>4. /\ sent' \in [Subscribers -> 0..1] /\ sent'[post] = 1
        /\ \A p \in Subscribers : p # post => sent'[p] = sent[p]
    BY <2>1, <2>3 DEF PostInv
  <2>5. \A j \in 1..Len(subs) : j # n => subs[j] # post
    BY <1>1, <2>3, Zenon DEF ListOK
  <2>6. LoopAt(n)'
    BY <1>1, <2>1, <2>2, <2>3, <2>4, <2>5 DEF LoopAt
  <2>7. post # NoPost /\ post # ListEnd
    BY <2>1, ChannelAssumption, Zenon
  <2> QED
    BY <1>1, <2>1, <2>4, <2>6, <2>7, Zenon DEF PostInv, ListOK
<1>5. CASE PostSkips \/ PostAdvances
  <2>1. /\ post \in Subscribers /\ post' = After(post) /\ called' = FALSE
        /\ UNCHANGED <<subs, sent, stayed>>
        /\ skipped' = IF called THEN skipped ELSE skipped \cup {post}
    <3>1. CASE PostSkips
      <4>1. /\ post \in Subscribers /\ ~called /\ called' = called
            /\ post' = After(post) /\ skipped' = skipped \cup {post}
            /\ UNCHANGED <<subs, sent, stayed>>
        BY <3>1, Zenon DEF PostSkips
      <4>2. called = FALSE
        BY <4>1 DEF PostInv
      <4> QED
        BY <4>1, <4>2, Zenon
    <3>2. CASE PostAdvances
      BY <3>2, Zenon DEF PostAdvances
    <3> QED
      BY <1>5, <3>1, <3>2, Zenon
  <2>2. PICK n \in 1..Len(subs) : LoopAt(n)
    BY <2>1, Zenon DEF PostInv
  <2>3. subs[n] = post
    BY <2>2, Zenon DEF LoopAt
  <2>4. ASSUME NEW j \in 1..Len(subs)
        PROVE  /\ j <= n /\ subs[j] \in stayed \ skipped' => sent[subs[j]] = 1
               /\ j > n => sent[subs[j]] = 0
    <3>1. CASE j = n
      BY <1>1, <2>1, <2>2, <2>3, <3>1, Zenon DEF LoopAt
    <3>2. CASE j # n
      <4>1. /\ j < n /\ subs[j] \in stayed \ skipped => sent[subs[j]] = 1
            /\ j > n => sent[subs[j]] = 0
        BY <2>2, Zenon DEF LoopAt
      <4>2. skipped \subseteq skipped' /\ (j <= n => j < n)
        BY <1>1, <2>1, <3>2
      <4> QED
        BY <4>1, <4>2, Zenon
    <3> QED
      BY <3>1, <3>2, Zenon
  <2>5. ListOK'
    BY <1>1, <2>1, Zenon DEF ListOK
  <2>6. sent \in [Subscribers -> 0..1]
    BY Zenon DEF PostInv
  <2> QED
    BY <1>1, <2>1, <2>3, <2>4, <2>5, <2>6, AdvancePost, Zenon
<1>6. CASE PostEnds
  <2>1. /\ post = ListEnd /\ post' = NoPost /\ stayed' = {}
        /\ sent' = [p \in Subscribers |-> 0] /\ UNCHANGED <<subs, called>>
    BY <1>6, Zenon DEF PostEnds
  <2>2. ~called /\ NoPost \notin Subscribers /\ NoPost # ListEnd
    BY <2>1, ChannelAssumption, Zenon DEF PostInv
  <2>3. ListOK'
    BY <1>1, <2>1, Zenon DEF ListOK
  <2> QED
    BY <2>1, <2>2, <2>3 DEF PostInv
<1> QED
  BY <1>2, <1>3, <1>4, <1>5, <1>6, Zenon DEF PostStep

(* Every call of the application and every step of a post.                 *)
LEMMA PostInvStep == PostInv /\ [MessagingNext]_messagingVars => PostInv'
<1> SUFFICES ASSUME PostInv, [MessagingNext]_messagingVars PROVE PostInv'
  BY Zenon
<1>1. CASE UNCHANGED channelVars
  BY <1>1, Zenon DEF channelVars, postVars, PostInv, ListOK, LoopAt
<1>2. CASE \E p \in Subscribers :
              koe_channel_add_subscriber(p) \/ koe_channel_remove_subscriber(p)
  BY <1>2, SubscribePost, UnsubscribePost, Zenon
<1>3. CASE PostBegins \/ PostStep \/ koe_subscriber_list_free
  BY <1>3, LoopPost, Zenon
<1>4. CASE \/ \E p \in Peers, k \in Keys :
                 koe_session_establish(p, k) \/ koe_handshake_process(p, k)
           \/ \E p \in Peers : \/ koe_session_active(p) \/ koe_session_close(p)
                               \/ koe_send_text(p) \/ koe_send_file(p)
                               \/ koe_message_send_encrypted(p) \/ koe_send_to_peer(p)
           \/ \E m \in outbox : PacketLeaves(m)
           \/ \E age \in 0..MaxAge : koe_sessions_cleanup(age)
           \/ TimePasses
           \/ UNCHANGED messagingVars
  BY <1>1, <1>4, Zenon DEF koe_session_establish, koe_handshake_process, koe_session_active,
     koe_session_close, koe_send_text, koe_send_file, koe_message_send_encrypted,
     koe_send_to_peer, PacketLeaves, koe_sessions_cleanup, TimePasses, messagingVars
<1>5. CASE \E p \in Subscribers : koe_message_recv_and_decrypt(p) \/ Resubscribe(p)
  BY <1>1, <1>2, <1>5, Zenon DEF koe_message_recv_and_decrypt, Resubscribe
<1>6. CASE \/ (PostBegins \/ koe_subscriber_list_free) /\ UNCHANGED <<vars, outbox>>
           \/ Posting
  BY <1>3, <1>6, Zenon DEF Posting
<1> QED
  BY <1>4, <1>5, <1>6, Zenon DEF MessagingNext

(* A post reaches each steady subscriber exactly once and nobody twice,    *)
(* for every list, although send_fn relinks it under the loop.             *)
THEOREM PostReachesEachCorrect == MessagingSpec => []PostReachesEach
<1>1. MessagingInit => PostInv
  BY PostInit, Zenon DEF MessagingInit
<1>2. PostInv => PostReachesEach
  BY DEF PostInv, PostReachesEach
<1> QED
  BY <1>1, <1>2, PostInvStep, PTL DEF MessagingSpec

(* The peers of the nodes from x on.                                       *)
Onward(list, x) ==
    {list[k] : k \in {l \in 1..Len(list) : \E j \in 1..l : list[j] = x}}

(* What koe_channel_post has before it only shrinks: no subscription that  *)
(* send_fn makes or ends puts a node after the one the loop is at, and a   *)
(* node that the loop leaves does not come back.                           *)
PostShrinks ==
    [][post # NoPost =>
          /\ Onward(subs', post') \subseteq Onward(subs, post)
          /\ post \in Subscribers /\ post' # post => post \notin Onward(subs', post')
      ]_messagingVars

(* How one list goes on no further than another.                           *)
LEMMA OnwardSubset ==
    ASSUME NEW s, NEW t, NEW x,
           \A k \in 1..Len(s) : \A j \in 1..k : s[j] = x =>
              \E l \in 1..Len(t) : s[k] = t[l] /\ \E h \in 1..l : t[h] = x
    PROVE  Onward(s, x) \subseteq Onward(t, x)
BY Zenon DEF Onward

(* A new head.                                                             *)
LEMMA SubscribeShrinks ==
    ASSUME ListOK, NEW p \in Subscribers, koe_channel_add_subscriber(p), post # p
    PROVE  Onward(subs', post) \subseteq Onward(subs, post)
<1> DEFINE n == Len(subs)
<1>1. n \in Nat /\ subs \in Seq(Subscribers)
  BY ListRange, Zenon DEF ListOK
<1>2. <<p>> \in Seq(Subscribers) /\ Len(<<p>>) = 1 /\ <<p>>[1] = p
  OBVIOUS
<1>3. /\ Len(subs') = 1 + n
      /\ \A k \in 1..(1 + n) : subs'[k] = IF k <= 1 THEN <<p>>[k] ELSE subs[k - 1]
  BY <1>1, <1>2, ConcatProperties DEF koe_channel_add_subscriber
<1> HIDE DEF n
<1>4. /\ subs'[1] = p
      /\ \A k \in 1..(1 + n) : k # 1 => k - 1 \in 1..n /\ subs'[k] = subs[k - 1]
  BY <1>1, <1>2, <1>3
<1>5. ASSUME NEW k \in 1..Len(subs'), NEW j \in 1..k, subs'[j] = post
      PROVE  \E l \in 1..Len(subs) : subs'[k] = subs[l] /\ \E h \in 1..l : subs[h] = post
  <2>1. j \in 1..(1 + n) /\ (k = 1 => j = 1) /\ (j # 1 => j - 1 \in 1..(k - 1))
    BY <1>1, <1>3
  <2>2. j # 1 /\ k # 1 /\ j - 1 \in 1..(k - 1)
    BY <1>4, <1>5, <2>1, Zenon
  <2>3. /\ k - 1 \in 1..Len(subs) /\ subs'[k] = subs[k - 1]
        /\ subs[j - 1] = post
    BY <1>3, <1>4, <1>5, <2>1, <2>2, Zenon DEF n
  <2> QED
    BY <2>2, <2>3, Zenon
<1> QED
  BY <1>5, OnwardSubset, Zenon

(* A node less.                                                            *)
LEMMA UnsubscribeShrinks ==
    ASSUME ListOK, NEW p \in Subscribers, koe_channel_remove_subscriber(p)
    PROVE  Onward(subs', post) \subseteq Onward(subs, post)
<1> DEFINE n == Len(subs)
<1>1. n \in Nat /\ subs \in Seq(Subscribers)
  BY ListRange, Zenon DEF ListOK
<1>2. PICK r \in 1..n : subs' = RemoveAt(subs, r)
  BY Zenon DEF koe_channel_remove_subscriber
<1> DEFINE From(x) == IF x < r THEN x ELSE x + 1
<1>3. /\ Len(subs') = n - 1
      /\ \A x \in 1..(n - 1) : subs'[x] = IF x < r THEN subs[x] ELSE subs[x + 1]
  BY <1>1, <1>2, RemoveAtFacts, Zenon
<1> HIDE DEF n
<1>4. \A x \in 1..(n - 1) : From(x) \in 1..n /\ subs'[x] = subs[From(x)]
  BY <1>1, <1>3
<1>5. ASSUME NEW k \in 1..Len(subs'), NEW j \in 1..k, subs'[j] = post
      PROVE  \E l \in 1..Len(subs) : subs'[k] = subs[l] /\ \E h \in 1..l : subs[h] = post
  <2>1. k \in 1..(n - 1) /\ j \in 1..(n - 1) /\ From(j) \in 1..From(k)
    BY <1>1, <1>3
  <2> HIDE DEF From
  <2>2. From(k) \in 1..Len(subs) /\ subs'[k] = subs[From(k)] /\ subs[From(j)] = post
    BY <1>4, <1>5, <2>1, Zenon DEF n
  <2> QED
    BY <2>1, <2>2, Zenon
<1> QED
  BY <1>5, OnwardSubset, Zenon

(* The loop goes on.                                                       *)
LEMMA AdvanceShrinks ==
    ASSUME ListOK, NEW n \in 1..Len(subs), NEW x, x = After(subs[n])
    PROVE  /\ Onward(subs, x) \subseteq Onward(subs, subs[n])
           /\ subs[n] \notin Onward(subs, x)
<1>1. /\ Len(subs) \in Nat
      /\ \A j, k \in 1..Len(subs) : subs[j] = subs[k] => j = k
      /\ \A k \in 1..Len(subs) : subs[k] \in Subscribers
  BY ListRange, Zenon DEF ListOK
<1>2. x = IF n < Len(subs) THEN subs[n + 1] ELSE ListEnd
  BY AfterFacts, Zenon
<1>3. ASSUME NEW k \in 1..Len(subs), NEW j \in 1..k, subs[j] = x
      PROVE  n \in 1..k /\ k # n
  <2>1. j \in 1..Len(subs)
    BY <1>1
  <2>2. n < Len(subs) /\ x = subs[n + 1]
    BY <1>1, <1>2, <1>3, <2>1, ChannelAssumption, Zenon
  <2>3. n + 1 \in 1..Len(subs)
    BY <1>1, <2>2
  <2>4. j = n + 1
    BY <1>1, <1>3, <2>1, <2>2, <2>3, Zenon
  <2> QED
    BY <1>1, <2>4
<1>4. Onward(subs, x) \subseteq Onward(subs, subs[n])
  BY <1>3, Zenon DEF Onward
<1>5. subs[n] \notin Onward(subs, x)
  BY <1>1, <1>3, Zenon DEF Onward
<1> QED
  BY <1>4, <1>5, Zenon

(* Every step during a post.                                               *)
LEMMA PostShrinksStep ==
    ASSUME PostInv, MessagingNext, post # NoPost
    PROVE  /\ Onward(subs', post') \subseteq Onward(subs, post)
           /\ post \in Subscribers /\ post' # post => post \notin Onward(subs', post')
<1>1. ListOK
  BY Zenon DEF PostInv
<1>2. CASE UNCHANGED <<subs, post>>
  BY <1>2, Zenon
<1>3. ASSUME NEW p \in Subscribers, koe_channel_add_subscriber(p)
      PROVE  post' = post /\ Onward(subs', post) \subseteq Onward(subs, post)
  <2>1. post' = post /\ p \notin Range(subs)
    BY <1>3, Zenon DEF koe_channel_add_subscriber, postVars
  <2>2. post # p
    <3>1. CASE post \in Subscribers
      BY <1>1, <2>1, <3>1, ListRange, Zenon DEF PostInv, LoopAt
    <3>2. CASE post \notin Subscribers
      BY <3>2, Zenon
    <3> QED
      BY <3>1, <3>2, Zenon
  <2> QED
    BY <1>1, <1>3, <2>1, <2>2, SubscribeShrinks, Zenon
<1>4. ASSUME NEW p \in Subscribers, koe_channel_remove_subscriber(p)
      PROVE  post' = post /\ Onward(subs', post) \subseteq Onward(subs, post)
  <2>1. post' = post
    BY <1>4, Zenon DEF koe_channel_remove_subscriber
  <2> QED
    BY <1>1, <1>4, <2>1, UnsubscribeShrinks, Zenon
<1>5. CASE PostSkips \/ PostAdvances
  <2>1. post \in Subscribers /\ post' = After(post) /\ subs' = subs
    BY <1>5, Zenon DEF PostSkips, PostAdvances
  <2>2. PICK n \in 1..Len(subs) : subs[n] = post
    BY <2>1, Zenon DEF PostInv, LoopAt
  <2> QED
    BY <1>1, <2>1, <2>2, AdvanceShrinks, Zenon
<1>6. CASE PostEnds
  <2>1. post \notin Subscribers /\ post' = NoPost /\ subs' = subs
    BY <1>6, ChannelAssumption, Zenon DEF PostEnds
  <2>2. ASSUME NEW k \in 1..Len(subs), NEW j \in 1..k PROVE subs[j] # NoPost
    <3>1. j \in 1..Len(subs)
      BY <1>1, ListRange
    <3> QED
      BY <1>1, <3>1, ListRange, ChannelAssumption, Zenon
  <2>3. Onward(subs, NoPost) \subseteq {}
    BY <2>2, Zenon DEF Onward
  <2> QED
    BY <2>1, <2>3, Zenon
<1>7. CASE PostSends
  BY <1>2, <1>7, Zenon DEF PostSends
<1>8. CASE MainIdle \/ PostBegins \/ koe_subscriber_list_free
  BY <1>8, Zenon DEF MainIdle, PostBegins, koe_subscriber_list_free
<1>9. CASE \E p \in Subscribers : Resubscribe(p)
  BY <1>3, <1>4, <1>9, Zenon DEF Resubscribe
<1>10. CASE Posting
  BY <1>5, <1>6, <1>7, <1>10, Zenon DEF Posting, PostStep
<1> QED
  BY <1>8, <1>9, <1>10, Zenon
     DEF MessagingNext, koe_session_establish, koe_handshake_process, koe_session_active,
         koe_session_close, koe_send_text, koe_send_file, koe_message_send_encrypted,
         koe_send_to_peer, koe_message_recv_and_decrypt, PacketLeaves, koe_sessions_cleanup, TimePasses

(* For every list: the loop of koe_channel_post has ever fewer nodes to    *)
(* go, whatever send_fn subscribes and unsubscribes meanwhile, so a post   *)
(* that goes on comes to an end.                                           *)
THEOREM PostShrinksCorrect == MessagingSpec => PostShrinks
<1>1. MessagingInit => PostInv
  BY PostInit, Zenon DEF MessagingInit
<1>2. PostInv /\ [MessagingNext]_messagingVars =>
        [post # NoPost =>
            /\ Onward(subs', post') \subseteq Onward(subs, post)
            /\ post \in Subscribers /\ post' # post => post \notin Onward(subs', post')
        ]_messagingVars
  BY PostShrinksStep, Zenon
<1> QED
  BY <1>1, <1>2, PostInvStep, PTL DEF MessagingSpec, PostShrinks

=============================================================================
