--------------------------- MODULE PthreadParker ---------------------------
(***************************************************************************)
(* The ThreadParker of the Unix targets without a futex (src/pthread.rs):  *)
(* a flag under a pthread mutex and a condition variable, both the         *)
(* system's. Nothing sets the flag: the function that did is commented     *)
(* out, and no other one took over.                                        *)
(***************************************************************************)
CONSTANTS Unparkers,  \* the threads that call unpark
          Owner,      \* the thread that parks
          None        \* no thread

VARIABLES
  should_park,  \* the flag
  mutex,        \* the thread in the critical section, or None
  pc,           \* what the owner does next
  call,         \* the owner's call: park, park_until, or none
  token         \* history: unpark was called and no park has answered it yet

vars == <<should_park, mutex, pc, call, token>>

Init ==
  /\ should_park = FALSE
  /\ mutex = None
  /\ pc = "running"
  /\ call = "none"
  /\ token = FALSE

\* pthread_mutex_lock and pthread_mutex_unlock.
MutexLock(t)   == mutex = None /\ mutex' = t
MutexUnlock(t) == mutex = t /\ mutex' = None

Park(c) ==
  /\ pc = "running"
  /\ MutexLock(Owner)
  /\ pc' = "check"
  /\ call' = c
  /\ UNCHANGED <<should_park, token>>

\* The end of either call.
Return ==
  /\ MutexUnlock(Owner)
  /\ pc' = "running"
  /\ call' = "none"
  /\ token' = FALSE

\* The loop condition holds: wait on the condition variable, without the mutex.
CondWait ==
  /\ pc = "check"
  /\ should_park
  /\ MutexUnlock(Owner)
  /\ pc' = "waiting"
  /\ UNCHANGED <<should_park, call, token>>

\* The condition variable lets the owner go: signalled, timed out, or spuriously.
CondReturn ==
  /\ pc = "waiting"
  /\ MutexLock(Owner)
  /\ pc' = "check"
  /\ UNCHANGED <<should_park, call, token>>

\* The loop ends.
ParkReturn ==
  /\ pc = "check"
  /\ ~should_park
  /\ Return
  /\ UNCHANGED should_park

\* park_until answers FALSE when its time has passed, which may be at any round.
TimedOut ==
  /\ pc = "check"
  /\ should_park
  /\ call = "park_until"
  /\ Return
  /\ UNCHANGED should_park

UnparkLock(u) ==
  /\ MutexLock(u)
  /\ should_park' = FALSE
  /\ token' = TRUE
  /\ UNCHANGED <<pc, call>>

\* The signal is given under the mutex, so that the owner can only leave later.
UnparkUnlock(u) ==
  /\ MutexUnlock(u)
  /\ UNCHANGED <<should_park, pc, call, token>>

Next ==
  \/ \E c \in {"park", "park_until"} : Park(c)
  \/ CondWait \/ CondReturn \/ ParkReturn \/ TimedOut
  \/ \E u \in Unparkers : UnparkLock(u) \/ UnparkUnlock(u)

Spec == Init /\ [][Next]_vars

\* "Putting a thread to sleep until some other thread wakes it up": park returns
\* only if unpark was called since the last call returned.
SleepsUntilWoken ==
  [][call = "park" /\ call' = "none" => token]_vars
=============================================================================
