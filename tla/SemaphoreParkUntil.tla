------------------------- MODULE SemaphoreParkUntil -------------------------
(***************************************************************************)
(* SemaphoreParker with park_until, whose loop gives up at its top without *)
(* taking the state back, and ends only when a notification and a timeout  *)
(* come together.                                                          *)
(***************************************************************************)
EXTENDS SemaphoreParker

VARIABLES
  deadline,  \* the time given to park_until is ahead or has passed
  timeout    \* is_timeout: the last wait of park_until timed out

untilVars == <<deadline, timeout>>
vars == <<parkVars, untilVars>>

UntilInit ==
  /\ Init
  /\ deadline = [o \in Owners |-> "ahead"]
  /\ timeout = [o \in Owners |-> FALSE]

ParkUntil(o) ==
  /\ CountDown(o, "park_until", "check")
  /\ deadline' = [deadline EXCEPT ![o] = "ahead"]
  /\ timeout' = [timeout EXCEPT ![o] = FALSE]

\* The top of the loop: give up, with the state as it is, or wait.
CheckDeadline(o) ==
  /\ IF deadline[o] = "passed"
     THEN Return(o, "check", "timed_out")
     ELSE Goto(o, "check", "timed_wait") /\ UNCHANGED <<call, answer>>
  /\ UNCHANGED <<state, count, signals, untilVars>>

\* dispatch_semaphore_wait with a timeout.
TimedWait(o) ==
  /\ Goto(o, "timed_wait", "timed_swap")
  /\ \/ SemaphoreWait(o) /\ timeout' = [timeout EXCEPT ![o] = FALSE]
     \/ /\ deadline[o] = "passed"
        /\ timeout' = [timeout EXCEPT ![o] = TRUE]
        /\ UNCHANGED count
  /\ UNCHANGED <<state, call, answer, signals, deadline>>

\* Only a notification that came with a timeout ends the loop.
TimedSwap(o) ==
  LET notified == state[o] = NOTIFIED
  IN  /\ Goto(o, "timed_swap", IF notified /\ timeout[o] THEN "drain" ELSE "check")
      /\ state' = [state EXCEPT ![o] = EMPTY]
      /\ UNCHANGED <<count, call, answer, signals, deadline, timeout>>

\* Wait for the signal of the unparker that must be about to give it.
Drain(o) ==
  /\ SemaphoreWait(o)
  /\ Return(o, "drain", "unparked")
  /\ UNCHANGED <<state, signals, untilVars>>

\* Time passes.
DeadlinePasses(o) ==
  /\ call[o] = "park_until"
  /\ deadline[o] = "ahead"
  /\ deadline' = [deadline EXCEPT ![o] = "passed"]
  /\ UNCHANGED <<parkVars, timeout>>

UntilNext ==
  \/ Next /\ UNCHANGED untilVars
  \/ \E o \in Owners :
       \/ ParkUntil(o) \/ CheckDeadline(o) \/ TimedWait(o) \/ TimedSwap(o)
       \/ Drain(o) \/ DeadlinePasses(o)

UntilSpec == UntilInit /\ [][UntilNext]_vars
=============================================================================
