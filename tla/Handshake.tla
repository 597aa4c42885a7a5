----------------------------- MODULE Handshake ------------------------------
(***************************************************************************)
(* The two-round X25519 key exchange (src/src/koe_handshake.c with         *)
(* koe_session_derive of koe_crypto.c) between nodes of different builds.  *)
(*                                                                         *)
(* A node keeps one koe_handshake_t per peer for the handshakes it starts  *)
(* (hs) and one for those it answers (rs).  Cryptography is ideal: an      *)
(* ephemeral key pair is a name, the shared secret of two pairs is the set *)
(* of their names, the hash is injective, and a signature made by          *)
(* koe_sign verifies.  An erased secret key is Zero, a key like any other: *)
(* crypto_scalarmult accepts a zeroed scalar.                              *)
(*                                                                         *)
(* Packets may be lost, and a node that has waited long enough may start   *)
(* again: koe_handshake_init clears the context whatever it holds.         *)
(***************************************************************************)
EXTENDS Naturals, Version

CONSTANTS
    Nodes,
    Build,          \* koe_version_local of each node
    MaxStarts       \* bound on the handshakes that are started

ASSUME HandshakeAssumption ==
    /\ Build \in [Nodes -> Versions]
    /\ MaxStarts \in Nat

VARIABLES
    hs,             \* hs[n][m]: started by n with m
    rs,             \* rs[n][m]: answered by n for m
    net,            \* packets in flight
    ephs,           \* ephs[n][m]: key pairs generated by n for m
    starts,         \* handshakes started so far
    late,           \* history: started anew with a packet still under way
    lost            \* history: a packet was lost since the last start

handshakeVars == <<hs, rs, net, ephs, starts, late, lost>>
history == <<starts, late, lost>>

Zero == << >>
Eph(n, m) == <<n, m, ephs[n][m] + 1>>
NoKeys == [secret |-> {}, order |-> << >>]
NoVersion == [major |-> 0, minor |-> 0]

(* koe_handshake_t                                                         *)
Handshaking(state, sk, keys, initiator, version) ==
    [state |-> state, sk |-> sk, keys |-> keys, initiator |-> initiator,
     version |-> version]

Idle == Handshaking("IDLE", Zero, NoKeys, FALSE, NoVersion)

Packet(type, from, to, version, eph) ==
    [type |-> type, from |-> from, to |-> to, version |-> version, eph |-> eph]

(* The pair of nodes a packet belongs to, the initiator first.             *)
Pair(p) == IF p.type = "HELLO" THEN <<p.from, p.to>> ELSE <<p.to, p.from>>

HandshakeInit ==
    /\ hs = [n \in Nodes |-> [m \in Nodes |-> Idle]]
    /\ rs = [n \in Nodes |-> [m \in Nodes |-> Idle]]
    /\ net = {}
    /\ ephs = [n \in Nodes |-> [m \in Nodes |-> 0]]
    /\ starts = 0 /\ late = {} /\ lost = {}

-----------------------------------------------------------------------------
(* koe_session_derive: the 64 bytes that both directions are cut from.  The *)
(* initiator sends with the first half and receives with the second, the   *)
(* responder the other way round.                                          *)

(* Mutant: the identities are hashed in local order.                       *)
DeriveLocalOrder(sk, remoteEph, local, remote, initiator) ==
    [secret |-> {sk, remoteEph}, order |-> <<local, remote>>]

koe_session_derive(sk, remoteEph, local, remote, initiator) ==
    [secret |-> {sk, remoteEph},
     order  |-> IF initiator THEN <<local, remote>> ELSE <<remote, local>>]

TxKey(c) == <<c.keys, IF c.initiator THEN 1 ELSE 2>>
RxKey(c) == <<c.keys, IF c.initiator THEN 2 ELSE 1>>

-----------------------------------------------------------------------------

(* The context is cleared whatever it held; a fresh key pair goes out.     *)
koe_handshake_init(n, m) ==
    /\ ephs' = [ephs EXCEPT ![n][m] = @ + 1]
    /\ hs' = [hs EXCEPT ![n][m] =
                 Handshaking("SENT_HELLO", Eph(n, m), NoKeys, FALSE, NoVersion)]
    /\ net' = net \cup {Packet("HELLO", n, m, Build[n], Eph(n, m))}
    /\ UNCHANGED rs

(* The context and the answer of koe_handshake_respond.  The answer carries *)
(* the negotiated version; koe_session_derive erases the secret key.       *)
Responded(p, eph) ==
    Handshaking("COMPLETE", Zero,
                koe_session_derive(eph, p.eph, p.to, p.from, FALSE), FALSE,
                koe_version_negotiate(Build[p.to], p.version))

Answer(p, eph) ==
    Packet("HELLO_ACK", p.to, p.from, koe_version_negotiate(Build[p.to], p.version), eph)

koe_handshake_respond(p) ==
    LET n == p.to
        m == p.from
    IN /\ p.type = "HELLO"
       /\ koe_version_compatible(Build[n], p.version)
       /\ ephs' = [ephs EXCEPT ![n][m] = @ + 1]
       /\ rs' = [rs EXCEPT ![n][m] = Responded(p, Eph(n, m))]
       /\ net' = (net \ {p}) \cup {Answer(p, Eph(n, m))}
       /\ UNCHANGED <<hs, history>>

(* An incompatible HELLO clears the context and is not answered.           *)
RespondRefuses(p) ==
    /\ p.type = "HELLO"
    /\ ~koe_version_compatible(Build[p.to], p.version)
    /\ rs' = [rs EXCEPT ![p.to][p.from] = Idle]
    /\ net' = net \ {p}
    /\ UNCHANGED <<hs, ephs, history>>

(* The context after koe_handshake_finalise.  Neither its state nor the    *)
(* key pair that the answer belongs to is looked at.                       *)
Finalised(c, p, local) ==
    Handshaking("COMPLETE", Zero,
                koe_session_derive(c.sk, p.eph, local, p.from, TRUE), TRUE,
                koe_version_negotiate(Build[local], p.version))

koe_handshake_finalise(p) ==
    /\ p.type = "HELLO_ACK"
    /\ koe_version_compatible(Build[p.to], p.version)
    /\ hs' = [hs EXCEPT ![p.to][p.from] = Finalised(@, p, p.to)]
    /\ net' = net \ {p}
    /\ UNCHANGED <<rs, ephs, history>>

-----------------------------------------------------------------------------

Start(n, m) ==
    /\ n # m
    /\ starts < MaxStarts /\ starts' = starts + 1
    /\ koe_handshake_init(n, m)
    /\ late' = IF \E p \in net : Pair(p) = <<n, m>>
               THEN late \cup {<<n, m>>} ELSE late \ {<<n, m>>}
    /\ lost' = lost \ {<<n, m>>}

Deliver(p) ==
    koe_handshake_respond(p) \/ RespondRefuses(p) \/ koe_handshake_finalise(p)

Lose(p) ==
    /\ net' = net \ {p}
    /\ lost' = lost \cup {Pair(p)}
    /\ UNCHANGED <<hs, rs, ephs, starts, late>>

(* A packet arrives at most once, in any order with others.                *)
HandshakeNext ==
    \/ \E n, m \in Nodes : Start(n, m)
    \/ \E p \in net : Deliver(p) \/ Lose(p)

HandshakeSpec == HandshakeInit /\ [][HandshakeNext]_handshakeVars

(* The receiver of a packet that is not lost hands it to the handshake.    *)
FairHandshakeSpec == HandshakeSpec /\ WF_handshakeVars(\E p \in net : Deliver(p))

-----------------------------------------------------------------------------

Ephs == Nodes \X Nodes \X (Nat \ {0})

Context ==
    [state : {"IDLE", "SENT_HELLO", "COMPLETE"}, sk : Ephs \cup {Zero},
     keys : [secret : SUBSET (Ephs \cup {Zero}), order : {<< >>} \cup (Nodes \X Nodes)],
     initiator : BOOLEAN, version : Versions]

HandshakeTypeOK ==
    /\ hs \in [Nodes -> [Nodes -> Context]]
    /\ rs \in [Nodes -> [Nodes -> Context]]
    /\ net \subseteq [type : {"HELLO", "HELLO_ACK"}, from : Nodes, to : Nodes,
                      version : Versions, eph : Ephs]
    /\ ephs \in [Nodes -> [Nodes -> Nat]]
    /\ starts \in Nat
    /\ late \subseteq Nodes \X Nodes /\ lost \subseteq Nodes \X Nodes

(* "Matches the remote side with tx <-> rx swapped": when the initiator    *)
(* has finalised, the responder has completed with the same keys, the      *)
(* directions swapped.  Handshakes of other pairs, one in the opposite     *)
(* direction at the same time, lost packets and a start after a loss do    *)
(* not disturb this.  Only a start with a packet of the pair under way is  *)
(* excused: the late answer to the first HELLO is combined with the key    *)
(* pair of the second.                                                     *)
KeysMatch ==
    \A n, m \in Nodes :
       hs[n][m].state = "COMPLETE" /\ <<n, m>> \notin late =>
          /\ rs[m][n].state = "COMPLETE"
          /\ TxKey(hs[n][m]) = RxKey(rs[m][n])
          /\ RxKey(hs[n][m]) = TxKey(rs[m][n])

(* Both sides of a completed handshake use the same version, one that      *)
(* neither build is too old for, although the initiator negotiates a       *)
(* second time with the version in the answer, and however often it        *)
(* started.                                                                *)
VersionsMatch ==
    \A n, m \in Nodes :
       hs[n][m].state = "COMPLETE" =>
          LET v == hs[n][m].version IN
          v = rs[m][n].version /\ Lower(v, Build[n]) /\ Lower(v, Build[m])

(* A handshake between compatible builds completes once it is started,     *)
(* unless one of its packets is lost: no answer is refused by the side     *)
(* that asked, also when it asked again meanwhile.                         *)
Completes ==
    \A n, m \in Nodes :
       koe_version_compatible(Build[n], Build[m]) =>
          (hs[n][m].state = "SENT_HELLO" ~>
              hs[n][m].state = "COMPLETE" \/ <<n, m>> \in lost)

=============================================================================
