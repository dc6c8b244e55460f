--------------------------- MODULE MutexOverFutex ---------------------------
(***************************************************************************)
(* RawMutex whose sleepers park on futexes: every ThreadData has a         *)
(* ThreadParker (src/futex.rs) instead of a token. An unlocker swaps the   *)
(* sleeper's word and makes the system call afterwards. Between the two    *)
(* the sleeper may return from park, drop its ThreadData, and even push    *)
(* itself again: the late wake_one then meets an address that holds        *)
(* nothing, or the next ThreadData of the same thread.                     *)
(*                                                                         *)
(* The steps of the mutex are those of RawMutex; only park and unpark are  *)
(* taken apart. node[t].notified is history here: the word decides.        *)
(***************************************************************************)
EXTENDS RawMutex

CONSTANT WordMax  \* the largest value of a futex word, u32::MAX

ASSUME FutexAssumption == WordMax \in Nat /\ WordMax >= 2

VARIABLES
  word,   \* the futex word of each ThreadData
  place,  \* where each thread is inside ThreadParker::park
  waking  \* the thread that each thread has notified and is about to wake

parkers == <<word, place, waking>>
allVars == <<vars, parkers>>

PARKED   == WordMax
EMPTY    == 0
NOTIFIED == 1

\* fetch_sub(1) on an unsigned word.
wrapping_dec(w) == IF w = 0 THEN WordMax ELSE w - 1

Places == {"running", "waiting", "sleeping", "woken"}

FutexInit ==
  /\ Init
  /\ word = [t \in Threads |-> EMPTY]
  /\ place = [t \in Threads |-> "running"]
  /\ waking = [t \in Threads |-> Null]

Move(t, from, to) ==
  /\ place[t] = from
  /\ place' = [place EXCEPT ![t] = to]

-----------------------------------------------------------------------------
(* park: what RawMutex calls ParkReturn. *)

\* fetch_sub: NOTIFIED => EMPTY and return, or EMPTY => PARKED.
Park(t) ==
  /\ pc[t] = "parked"
  /\ IF word[t] = NOTIFIED
     THEN place[t] = "running" /\ Resume(t) /\ UNCHANGED place
     ELSE Move(t, "running", "waiting") /\ UNCHANGED vars
  /\ word' = [word EXCEPT ![t] = wrapping_dec(@)]
  /\ UNCHANGED waking

\* The kernel compares the word and puts the thread to sleep in one step.
\* (Mutant: it does not compare.)
FutexWaitBlind(t) ==
  /\ Move(t, "waiting", "sleeping")
  /\ UNCHANGED <<vars, word, waking>>
FutexWait(t) ==
  /\ Move(t, "waiting", IF word[t] = PARKED THEN "sleeping" ELSE "woken")
  /\ UNCHANGED <<vars, word, waking>>

SpuriousWakeup(t) ==
  /\ Move(t, "sleeping", "woken")
  /\ UNCHANGED <<vars, word, waking>>

\* NOTIFIED => EMPTY and return, or wait again.
\* (Mutant: a wake-up is taken for a notification.)
RecheckNothing(t) ==
  /\ Move(t, "woken", "running")
  /\ Resume(t)
  /\ word' = [word EXCEPT ![t] = EMPTY]
  /\ UNCHANGED waking
Recheck(t) ==
  /\ IF word[t] = NOTIFIED
     THEN Move(t, "woken", "running") /\ Resume(t)
     ELSE Move(t, "woken", "waiting") /\ UNCHANGED vars
  /\ word' = [word EXCEPT ![t] = IF @ = NOTIFIED THEN EMPTY ELSE @]
  /\ UNCHANGED waking

-----------------------------------------------------------------------------
(* unpark: the wake steps of RawMutex, and the system call. *)

\* Swap the word. The sleeper may be gone from here on.
\* (Mutant: the waker forgets a sleeper that was parked.)
UnparkSwapOnly(t) ==
  /\ UnlockSlowWake(t) \/ UnlockFairWake(t)
  /\ word' = [word EXCEPT ![frame[t].tail] = NOTIFIED]
  /\ UNCHANGED <<place, waking>>
UnparkSwap(t) ==
  LET u == frame[t].tail
  IN  /\ UnlockSlowWake(t) \/ UnlockFairWake(t)
      /\ word' = [word EXCEPT ![u] = NOTIFIED]
      /\ waking' = [waking EXCEPT ![t] = IF word[u] = PARKED THEN u ELSE Null]
      /\ UNCHANGED place

\* FUTEX_WAKE on the address: it wakes the thread that sleeps there, if one does.
WakeOne(t) ==
  LET u == waking[t]
  IN  /\ u # Null
      /\ place' = [place EXCEPT ![u] = IF @ = "sleeping" THEN "woken" ELSE @]
      /\ waking' = [waking EXCEPT ![t] = Null]
      /\ UNCHANGED <<vars, word>>

-----------------------------------------------------------------------------
(* Everything else is as in RawMutex. A push brings a fresh ThreadData. *)

Elsewhere(t) == pc[t] \notin {"parked"} \union WakePcs

FreshWord(t) ==
  word' = [word EXCEPT ![t] = IF pc'[t] = "parked" THEN EMPTY ELSE @]

Call(t) ==
  /\ Arrive(t)
  /\ UNCHANGED parkers

Proceed(t) ==
  /\ Elsewhere(t)
  /\ Continue(t)
  /\ FreshWord(t)
  /\ UNCHANGED <<place, waking>>

\* What the scheduler runs: a thread is blocked only while it sleeps in the kernel.
Run(t) ==
  \/ WakeOne(t)
  \/ /\ waking[t] = Null
     /\ \/ Proceed(t)
        \/ UnparkSwap(t)
        \/ Park(t) \/ FutexWait(t) \/ Recheck(t)

FutexNext ==
  \E t \in Threads :
    \/ waking[t] = Null /\ Call(t)
    \/ Run(t)
    \/ SpuriousWakeup(t)

FutexSpec == FutexInit /\ [][FutexNext]_allVars

\* Nothing has to interrupt a sleeper, and nobody has to make a call.
FutexFairness == \A t \in Threads : WF_allVars(Run(t))
FairFutexSpec == FutexSpec /\ FutexFairness

-----------------------------------------------------------------------------
(* Properties. *)

\* Type correctness of the parkers.
ParkerTypes ==
  /\ word \in [Threads -> {EMPTY, NOTIFIED, PARKED}]
  /\ place \in [Threads -> Places]
  /\ waking \in [Threads -> Pointers]

\* The parker of u as FutexParker describes it. Its owner only ever calls park.
Parker(u) == INSTANCE FutexParker WITH
  Unparkers <- Threads,
  word      <- word[u],
  pc        <- place[u],
  call      <- IF place[u] = "running" THEN "none" ELSE "park",
  deadline  <- "ahead",
  answer    <- "unparked",
  wakers    <- {t \in Threads : waking[t] = u}

\* The mutex and FutexParker make the same assumptions about each other: whatever
\* the unlockers do to a parker, before, during and after the life of its
\* ThreadData, is something FutexParker allows its unparkers to do.
ParkersAreFutexParkers ==
  [][\A u \in Threads : Parker(u)!Next \/ UNCHANGED Parker(u)!vars]_allVars

\* No sleeper that was notified is left to sleep: some unlocker is still about to
\* wake it, although it has long left the list.
NotifiedSleeperIsWoken ==
  \A u \in Threads :
    place[u] = "sleeping" /\ word[u] = NOTIFIED => \E t \in Threads : waking[t] = u

\* Nobody sleeps alone: while a thread sleeps in the kernel, another is awake that
\* holds the lock, is inside lock or unlock, or still has a futex to wake, so that
\* the sleepers never depend on a call that nobody may ever make.
AwakeInMutex(t) ==
  /\ place[t] # "sleeping"
  /\ pc[t] \notin {"idle", "said_locked"} \/ waking[t] # Null
NobodySleepsAlone ==
  (\E u \in Threads : place[u] = "sleeping") => \E t \in Threads : AwakeInMutex(t)

\* On futexes the mutex does what it does on tokens: a late or spurious wake-up
\* never lets a sleeper return that nobody has taken off the list, and a fresh
\* ThreadData never inherits a notification.
ImplementsRawMutex == Spec
=============================================================================
