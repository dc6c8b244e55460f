-------------------------- MODULE SemaphoreParker --------------------------
(***************************************************************************)
(* park and unpark of the ThreadParker of Apple targets (src/semaphore.rs):*)
(* an atomic state and a dispatch semaphore, which an unparker signals     *)
(* only if the state said that the owner had parked. The semaphore itself  *)
(* is the system's. There are several owners, each with its parker; an     *)
(* unparker serves one at a time. See SemaphoreParkUntil for park_until.   *)
(***************************************************************************)
EXTENDS Integers

CONSTANTS Owners,     \* the threads that park, each on its own parker
          Unparkers,  \* the threads that call unpark
          None        \* no owner

ASSUME NoneAssumption == None \notin Owners

VARIABLES
  state,     \* the AtomicI8 of each parker
  count,     \* the counter of its semaphore
  pc,        \* what each owner does next
  call,      \* the call it is in: park, park_until, or none
  answer,    \* how its last call ended
  signals    \* the owner that each unparker is about to signal, if any

parkVars == <<state, count, pc, call, answer, signals>>

EMPTY    == 0
NOTIFIED == 1
PARKED   == -1

\* fetch_sub(1) on an i8.
wrapping_dec(s) == IF s = -128 THEN 127 ELSE s - 1

Init ==
  /\ state = [o \in Owners |-> EMPTY]
  /\ count = [o \in Owners |-> 0]
  /\ pc = [o \in Owners |-> "running"]
  /\ call = [o \in Owners |-> "none"]
  /\ answer = [o \in Owners |-> "none"]
  /\ signals = [u \in Unparkers |-> None]

Goto(o, from, to) ==
  /\ pc[o] = from
  /\ pc' = [pc EXCEPT ![o] = to]

\* The call of o returns a.
Return(o, from, a) ==
  /\ Goto(o, from, "running")
  /\ call' = [call EXCEPT ![o] = "none"]
  /\ answer' = [answer EXCEPT ![o] = a]

-----------------------------------------------------------------------------

\* Either call begins by counting the state down, and goes on at pc to unless it
\* found a notification.
CountDown(o, c, to) ==
  /\ state' = [state EXCEPT ![o] = wrapping_dec(@)]
  /\ IF state[o] = NOTIFIED
     THEN Return(o, "running", "unparked")
     ELSE /\ Goto(o, "running", to)
          /\ call' = [call EXCEPT ![o] = c]
          /\ UNCHANGED answer
  /\ UNCHANGED <<count, signals>>

Park(o) == CountDown(o, "park", "wait")

\* dispatch_semaphore_wait takes one off the counter once there is one.
SemaphoreWait(o) ==
  /\ count[o] > 0
  /\ count' = [count EXCEPT ![o] = @ - 1]

\* (Mutant: a notification that has arrived by now saves the wait.)
ParkWaitUnlessNotified(o) ==
  /\ Goto(o, "wait", "swap")
  /\ state[o] = NOTIFIED \/ count[o] > 0
  /\ UNCHANGED <<state, count, call, answer, signals>>
ParkWait(o) ==
  /\ Goto(o, "wait", "swap")
  /\ SemaphoreWait(o)
  /\ UNCHANGED <<state, call, answer, signals>>

\* park returns without looking at what the swap found.
\* (Mutant: it returns straight after the wait.)
ParkSwapLeftOut(o) ==
  /\ Return(o, "swap", "unparked")
  /\ UNCHANGED <<state, count, signals>>
ParkSwap(o) ==
  /\ state' = [state EXCEPT ![o] = EMPTY]
  /\ Return(o, "swap", "unparked")
  /\ UNCHANGED <<count, signals>>

\* (Mutant: it signals whatever it finds.)
UnparkSwapAlways(u, o) ==
  /\ signals[u] = None
  /\ state' = [state EXCEPT ![o] = NOTIFIED]
  /\ signals' = [signals EXCEPT ![u] = o]
  /\ UNCHANGED <<count, pc, call, answer>>
UnparkSwap(u, o) ==
  /\ signals[u] = None
  /\ state' = [state EXCEPT ![o] = NOTIFIED]
  /\ signals' = [signals EXCEPT ![u] = IF state[o] = PARKED THEN o ELSE None]
  /\ UNCHANGED <<count, pc, call, answer>>

\* dispatch_semaphore_signal. (Mutant: it is left out.)
SignalNobody(u) ==
  /\ signals[u] # None
  /\ signals' = [signals EXCEPT ![u] = None]
  /\ UNCHANGED <<state, count, pc, call, answer>>
Signal(u) ==
  /\ signals[u] # None
  /\ count' = [count EXCEPT ![signals[u]] = @ + 1]
  /\ signals' = [signals EXCEPT ![u] = None]
  /\ UNCHANGED <<state, pc, call, answer>>

Next ==
  \/ \E o \in Owners : Park(o) \/ ParkWait(o) \/ ParkSwap(o)
  \/ \E u \in Unparkers, o \in Owners : UnparkSwap(u, o)
  \/ \E u \in Unparkers : Signal(u)

Spec == Init /\ [][Next]_parkVars

\* An owner that is not blocked runs, and an unparker that has swapped goes on to
\* signal; nobody has to call.
Fairness ==
  /\ \A o \in Owners : WF_parkVars(ParkWait(o)) /\ WF_parkVars(ParkSwap(o))
  /\ \A u \in Unparkers : WF_parkVars(Signal(u))

FairSpec == Spec /\ Fairness

-----------------------------------------------------------------------------
(* Properties. *)

\* Type correctness.
TypeOK ==
  /\ state \in [Owners -> {PARKED, EMPTY, NOTIFIED}]
  /\ count \in [Owners -> 0..1]
  /\ pc \in [Owners -> {"running", "wait", "swap"}]
  /\ call \in [Owners -> {"none", "park"}]
  /\ answer \in [Owners -> {"none", "unparked"}]
  /\ signals \in [Unparkers -> Owners \union {None}]

\* "The semaphore counter must be zero at this point" (park), and "We always
\* ensure that the semaphore count is reset" (drop): between its calls an owner
\* leaves no count behind, and nobody is about to add one, so that the parker may
\* be dropped.
CounterReset ==
  \A o \in Owners :
    pc[o] = "running" => count[o] = 0 /\ \A u \in Unparkers : signals[u] # o

\* A parker as its callers see it; see Parker.
P(o) == INSTANCE Parker WITH
          token <- state[o] = NOTIFIED, phase <- call[o], answer <- answer[o]

\* park implements the token: an unpark that overtakes the wait, or comes between
\* the wait and the swap, is neither lost nor answered twice.
RefinesParker ==
  /\ \A o \in Owners : P(o)!Init
  /\ [][\A o \in Owners : P(o)!Next \/ UNCHANGED P(o)!vars]_parkVars

\* An owner that is notified leaves its call.
NotifiedReturns ==
  \A o \in Owners :
    pc[o] # "running" /\ state[o] = NOTIFIED ~> pc[o] = "running"
=============================================================================
