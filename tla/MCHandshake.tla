---------------------------- MODULE MCHandshake -----------------------------
(* Three builds: old and next are compatible, and so are next and newest;  *)
(* old and newest are not.                                                 *)
EXTENDS Handshake

CONSTANTS old, next, newest

MCBuild ==
    [n \in Nodes |-> CASE n = old  -> [major |-> 0, minor |-> 9]
                       [] n = next -> [major |-> 1, minor |-> 0]
                       [] n = newest -> [major |-> 1, minor |-> 1]]

=============================================================================
