---------------------------- MODULE MCDeadlines ----------------------------
(***************************************************************************)
(* The two parts of the library that compute with time, side by side.      *)
(* They share nothing: each takes its steps while the other stands still.  *)
(***************************************************************************)
EXTENDS FairTimeout, Timespec

MCInit == FairInit /\ TimeInit

MCNext ==
  \/ FairNext /\ UNCHANGED timeVars
  \/ TimeNext /\ UNCHANGED fairVars

MCSpec == MCInit /\ [][MCNext]_<<fairVars, timeVars>> /\ FairFairness

\* Type correctness: the seed is a word, the next fair release is not MaxDelay away,
\* and every timespec is canonical and not negative.
MCTypes == FairTypes /\ TimeTypes
=============================================================================
