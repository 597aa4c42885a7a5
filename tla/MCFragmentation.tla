-------------------------- MODULE MCFragmentation ---------------------------
(* Packets of two pieces and of as many as a byte can hold, two whose      *)
(* counts wrap to zero and to one, and an empty one.                       *)
EXTENDS Fragmentation

CONSTANTS two, long, zero, one, empty

MCPieces ==
    [m \in Packets |-> CASE m = two -> 2 [] m = long -> Byte - 1
                         [] m = zero -> Byte [] m = one -> Byte + 1
                         [] m = empty -> 0]

=============================================================================
