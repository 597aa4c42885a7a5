-------------------------- MODULE MCMediaTransfer ---------------------------
(***************************************************************************)
(* MediaTransfer with an empty file, which has no chunk, and one of two    *)
(* chunks, of which the last is not full.                                  *)
(***************************************************************************)
EXTENDS MediaTransfer

CONSTANTS x, y

MCFiles == {<< >>, <<x, y, x>>}

=============================================================================
