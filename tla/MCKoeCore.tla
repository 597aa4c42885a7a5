----------------------------- MODULE MCKoeCore ------------------------------
(* KoeCore for TLC: accounts are interchangeable.                          *)
EXTENDS KoeCore, TLC

Symmetry == Permutations(Accounts)

=============================================================================
