---------------------------- MODULE MCEpochSync ----------------------------
(* EpochSync for TLC.  Only safety is checked, so threads and ids may be permuted. *)
EXTENDS EpochSync, TLC

Symmetry == Permutations(Threads) \cup Permutations(Ids)
=============================================================================
