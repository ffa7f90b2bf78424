---------------------------- MODULE MCEpochMutex ----------------------------
(* EpochMutex for TLC: one thread locks twice, so that it can meet the lock word
   it has seen before. *)
EXTENDS EpochMutex

CONSTANT again

MCRounds == [t \in Threads |-> IF t = again THEN 2 ELSE 1]
=============================================================================
