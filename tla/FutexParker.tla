---------------------------- MODULE FutexParker ----------------------------
(***************************************************************************)
(* The futex ThreadParker (src/futex.rs): an atomic word that its owner    *)
(* counts down in park and park_until and that unparkers swap, and the     *)
(* kernel's futex, which puts the owner to sleep if the word still holds   *)
(* the expected value. An unparker swaps the word first and wakes the      *)
(* owner later, when the owner may long have gone on and parked again.     *)
(***************************************************************************)
EXTENDS Integers

CONSTANTS Unparkers,  \* the threads that call unpark
          WordMax     \* the largest value of the word, u32::MAX

ASSUME WordAssumption == WordMax \in Nat /\ WordMax >= 2

VARIABLES
  word,     \* the futex word
  pc,       \* what the owner does next
  call,     \* the owner's call: park, park_until, or none
  deadline, \* the time given to park_until is ahead or has passed
  answer,   \* how the owner's last call ended
  wakers    \* the unparkers between the swap and wake_one

vars == <<word, pc, call, deadline, answer, wakers>>

PARKED   == WordMax
EMPTY    == 0
NOTIFIED == 1

\* fetch_sub(1) on an unsigned word. (Mutant: it saturates.)
saturating_dec(w) == IF w = 0 THEN 0 ELSE w - 1
wrapping_dec(w) == IF w = 0 THEN WordMax ELSE w - 1

PcValues == {"running", "check", "waiting", "sleeping", "woken", "panicked"}

Init ==
  /\ word = EMPTY
  /\ pc = "running"
  /\ call = "none"
  /\ deadline = "ahead"
  /\ answer = "none"
  /\ wakers = {}

\* The owner's call returns a.
Return(a) ==
  /\ pc' = "running"
  /\ call' = "none"
  /\ deadline' = "ahead"
  /\ answer' = a

\* The top of the loop of either call. (Mutant: park_until never looks at the clock.)
LoopTopUntimed(c) == "waiting"
LoopTop(c) == IF c = "park_until" THEN "check" ELSE "waiting"

-----------------------------------------------------------------------------
(* The owner. *)

\* Either call begins by counting the word down.
Park(c) ==
  /\ pc = "running"
  /\ word' = wrapping_dec(word)
  /\ IF word = NOTIFIED
     THEN Return("unparked")
     ELSE /\ pc' = LoopTop(c)
          /\ call' = c
          /\ UNCHANGED <<deadline, answer>>
  /\ UNCHANGED wakers

\* park_until looks at the clock; when its time has passed it takes the word back
\* and reports what it finds there.
CheckDeadline ==
  /\ pc = "check"
  /\ IF deadline = "passed"
     THEN /\ word' = EMPTY
          /\ IF word \in {NOTIFIED, PARKED}
             THEN Return(IF word = NOTIFIED THEN "unparked" ELSE "timed_out")
             ELSE pc' = "panicked" /\ UNCHANGED <<call, deadline, answer>>
     ELSE /\ pc' = "waiting"
          /\ UNCHANGED <<word, call, deadline, answer>>
  /\ UNCHANGED wakers

\* wait and wait_until: the kernel compares the word and puts the owner to sleep
\* in one step, or returns EAGAIN. (Mutant: it does not compare.)
FutexWaitBlind ==
  /\ pc = "waiting"
  /\ pc' = "sleeping"
  /\ UNCHANGED <<word, call, deadline, answer, wakers>>
FutexWait ==
  /\ pc = "waiting"
  /\ pc' = IF word = PARKED THEN "sleeping" ELSE "woken"
  /\ UNCHANGED <<word, call, deadline, answer, wakers>>

\* EINTR, or a timeout that the kernel's clock reaches before the caller's.
SpuriousWakeup ==
  /\ pc = "sleeping"
  /\ pc' = "woken"
  /\ UNCHANGED <<word, call, deadline, answer, wakers>>

\* The kernel wakes a timed sleeper whose time has passed.
KernelTimeout ==
  /\ deadline = "passed"
  /\ SpuriousWakeup

\* NOTIFIED => EMPTY and return, or loop. (Mutant: any wake-up will do.)
RecheckNothing ==
  /\ pc = "woken"
  /\ word' = EMPTY
  /\ Return("unparked")
  /\ UNCHANGED wakers
Recheck ==
  /\ pc = "woken"
  /\ IF word = NOTIFIED
     THEN word' = EMPTY /\ Return("unparked")
     ELSE pc' = LoopTop(call) /\ UNCHANGED <<word, call, deadline, answer>>
  /\ UNCHANGED wakers

\* Time passes.
DeadlinePasses ==
  /\ call = "park_until"
  /\ deadline = "ahead"
  /\ deadline' = "passed"
  /\ UNCHANGED <<word, pc, call, answer, wakers>>

-----------------------------------------------------------------------------
(* The unparkers. *)

\* (Mutant: the waker looks for the wrong old value.)
UnparkSwapWrongOld(u) ==
  /\ u \notin wakers
  /\ word' = NOTIFIED
  /\ wakers' = IF word = NOTIFIED THEN wakers \union {u} ELSE wakers
  /\ UNCHANGED <<pc, call, deadline, answer>>
UnparkSwap(u) ==
  /\ u \notin wakers
  /\ word' = NOTIFIED
  /\ wakers' = IF word = PARKED THEN wakers \union {u} ELSE wakers
  /\ UNCHANGED <<pc, call, deadline, answer>>

\* wake_one: it wakes the owner if the owner sleeps, for whatever reason.
WakeOne(u) ==
  /\ u \in wakers
  /\ wakers' = wakers \ {u}
  /\ pc' = IF pc = "sleeping" THEN "woken" ELSE pc
  /\ UNCHANGED <<word, call, deadline, answer>>

Next ==
  \/ \E c \in {"park", "park_until"} : Park(c)
  \/ CheckDeadline
  \/ FutexWait
  \/ SpuriousWakeup
  \/ KernelTimeout
  \/ Recheck
  \/ DeadlinePasses
  \/ \E u \in Unparkers : UnparkSwap(u) \/ WakeOne(u)

Spec == Init /\ [][Next]_vars

\* The owner runs, time passes, and an unparker that has swapped goes on to wake;
\* nobody has to call park or unpark, and nothing has to interrupt a sleeper.
Fairness ==
  /\ WF_vars(CheckDeadline) /\ WF_vars(FutexWait) /\ WF_vars(Recheck)
  /\ WF_vars(KernelTimeout)
  /\ WF_vars(DeadlinePasses)
  /\ \A u \in Unparkers : WF_vars(WakeOne(u))

FairSpec == Spec /\ Fairness

-----------------------------------------------------------------------------
(* Properties. *)

\* Type correctness.
TypeOK ==
  /\ word \in 0..WordMax
  /\ pc \in PcValues
  /\ call \in {"none", "park", "park_until"}
  /\ deadline \in {"ahead", "passed"}
  /\ answer \in {"none", "unparked", "timed_out"}
  /\ wakers \in SUBSET Unparkers

\* unreachable!("Inconsistent thread parker state") is unreachable: park never
\* counts a parked word down again, and only one of the three values is ever seen.
WordConsistent ==
  /\ pc # "panicked"
  /\ pc = "running" => word \in {EMPTY, NOTIFIED}
  /\ pc # "running" => word \in {PARKED, NOTIFIED}

\* No lost wake-up: while the owner sleeps in the kernel although it was notified,
\* some unparker is still on its way to wake it.
NoLostWakeup ==
  pc = "sleeping" /\ word = NOTIFIED => wakers # {}

\* The parker as its callers see it.
P == INSTANCE Parker WITH
       token <- word = NOTIFIED,
       phase <- call

\* park and park_until implement the token: late, repeated and spurious wake-ups
\* never make a call return without a token, lose a token or take one twice, and
\* park_until answers FALSE only when nothing was left for it.
RefinesParker == P!Spec

\* An owner that is notified leaves its call, however the wake-up is delayed.
NotifiedReturns == pc # "running" /\ word = NOTIFIED ~> pc = "running"

\* park_until returns, notified or not.
ParkUntilReturns == call = "park_until" ~> pc = "running"
=============================================================================
