---------------------------- MODULE MCMessaging -----------------------------
(* Two handshakes with one peer, so that sessions shadow and replace each  *)
(* other, and one with another.                                            *)
EXTENDS Messaging

CONSTANTS p1, p2, k1, k2, k3

MCKeyPeer == [k \in Keys |-> IF k = k3 THEN p2 ELSE p1]

=============================================================================
