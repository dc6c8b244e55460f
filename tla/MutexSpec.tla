----------------------------- MODULE MutexSpec -----------------------------
(***************************************************************************)
(* What the mutex of mekong9-sync promises, without its lock word and its  *)
(* list: a lock with at most one owner, and a waiting line of threads that *)
(* went to sleep because the lock was taken and that are called back one   *)
(* at a time, the one that has waited longest first.                       *)
(*                                                                         *)
(* The line is a set of sleepers and, for each of them, the set of those   *)
(* still asleep that lay down before it.                                   *)
(***************************************************************************)
CONSTANTS Threads,   \* the threads that share the mutex
          Null       \* no thread

VARIABLES owner,     \* the thread that holds the lock, or Null
          sleepers,  \* the threads asleep in the line
          ahead      \* ahead[t]: the sleepers that lay down before t

vars == <<owner, sleepers, ahead>>

Init ==
  /\ owner = Null
  /\ sleepers = {}
  /\ ahead = [t \in Threads |-> {}]

TypeOK ==
  /\ owner \in Threads \union {Null}
  /\ sleepers \in SUBSET Threads
  /\ ahead \in [Threads -> SUBSET Threads]

-----------------------------------------------------------------------------

\* Any thread that is awake may take a free lock, even over a waiting line.
Acquire(t) ==
  /\ owner = Null
  /\ t \notin sleepers
  /\ owner' = t
  /\ UNCHANGED <<sleepers, ahead>>

\* A thread lies down only while somebody else holds the lock.
Sleep(t) ==
  /\ owner \notin {Null, t}
  /\ t \notin sleepers
  /\ sleepers' = sleepers \union {t}
  /\ ahead' = [ahead EXCEPT ![t] = sleepers]
  /\ UNCHANGED owner

Release(t) ==
  /\ owner = t
  /\ owner' = Null
  /\ UNCHANGED <<sleepers, ahead>>

\* t leaves the line, and nobody waits behind it any more.
LeaveLine(t) ==
  /\ t \in sleepers
  /\ ahead[t] = {}
  /\ sleepers' = sleepers \ {t}
  /\ ahead' = [u \in Threads |-> ahead[u] \ {t}]

\* The sleeper that has waited longest is called back; it has to compete.
WakeOldest(t) ==
  /\ LeaveLine(t)
  /\ UNCHANGED owner

\* A fair release: the lock goes to the sleeper that has waited longest.
HandOff(t, u) ==
  /\ owner = t
  /\ LeaveLine(u)
  /\ owner' = u

Next ==
  \/ \E t \in Threads :
       Acquire(t) \/ Sleep(t) \/ Release(t) \/ WakeOldest(t)
  \/ \E t, u \in Threads : HandOff(t, u)

Spec == Init /\ [][Next]_vars
=============================================================================
