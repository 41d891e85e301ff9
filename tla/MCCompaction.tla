----------------------------- MODULE MCCompaction -----------------------------
(***************************************************************************)
(* Model-checking instance of Compaction.                                  *)
(***************************************************************************)
EXTENDS Compaction

One == 1
Blocks == {}
=============================================================================
