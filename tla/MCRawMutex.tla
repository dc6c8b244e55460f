---------------------------- MODULE MCRawMutex ----------------------------
(***************************************************************************)
(* RawMutex on a few threads, for TLC. Three threads are the fewest for an *)
(* unlocker to work on the queue while a second thread owns the lock again *)
(* and a third one sleeps or pushes itself.                                *)
(***************************************************************************)
EXTENDS RawMutex, TLC

Symmetry == Permutations(Threads)
=============================================================================
