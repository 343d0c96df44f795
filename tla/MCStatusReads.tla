---------------------------- MODULE MCStatusReads ----------------------------
(***************************************************************************)
(* A small instance of StatusReads for TLC.                                *)
(***************************************************************************)
EXTENDS StatusReads, TLC

Interchangeable == Permutations(Readers) \cup Permutations(Reviewers)
=============================================================================
