------------------------- MODULE FutexParkerProofs -------------------------
(***************************************************************************)
(* Theorems about FutexParker, for every width of the word and any set of  *)
(* unparkers.                                                              *)
(***************************************************************************)
EXTENDS FutexParker, TLAPS

\* Which values the word has where, and who still owes the owner a wake-up.
\* A timed-out call has been a timed one.
IInv ==
  /\ TypeOK
  /\ WordConsistent
  /\ NoLostWakeup
  /\ pc = "running" <=> call = "none"
  /\ pc = "check" => call = "park_until"
  /\ deadline = "passed" => call = "park_until"

\* A fresh parker satisfies the invariant.
LEMMA IInvInit == Init => IInv
  BY WordAssumption
  DEF Init, IInv, TypeOK, WordConsistent, NoLostWakeup, PcValues, EMPTY, NOTIFIED, PARKED

\* No call, no wake-up and no passing of time breaks the invariant.
LEMMA IInvStep == IInv /\ [Next]_vars => IInv'
<1> SUFFICES ASSUME IInv, [Next]_vars PROVE IInv'
  OBVIOUS
<1> USE WordAssumption
    DEF IInv, TypeOK, WordConsistent, NoLostWakeup, PcValues, EMPTY, NOTIFIED, PARKED,
        Return, LoopTop, wrapping_dec
<1>1. ASSUME NEW c \in {"park", "park_until"}, Park(c) PROVE IInv'
  BY <1>1 DEF Park
<1>2. CASE CheckDeadline
  BY <1>2 DEF CheckDeadline
<1>3. CASE FutexWait
  BY <1>3 DEF FutexWait
<1>4. CASE SpuriousWakeup \/ KernelTimeout
  BY <1>4 DEF SpuriousWakeup, KernelTimeout
<1>5. CASE Recheck
  BY <1>5 DEF Recheck
<1>6. CASE DeadlinePasses
  BY <1>6 DEF DeadlinePasses
<1>7. ASSUME NEW u \in Unparkers, UnparkSwap(u) PROVE IInv'
  BY <1>7 DEF UnparkSwap
<1>8. ASSUME NEW u \in Unparkers, WakeOne(u) PROVE IInv'
  BY <1>8 DEF WakeOne
<1>9. CASE UNCHANGED vars
  BY <1>9 DEF vars
<1> QED
  BY <1>1, <1>2, <1>3, <1>4, <1>5, <1>6, <1>7, <1>8, <1>9 DEF Next

\* The invariant holds for ever.
LEMMA IInvariant == Spec => []IInv
  BY IInvInit, IInvStep, PTL DEF Spec

\* Every variable keeps its type; the word never leaves its range.
THEOREM FutexTypeCorrect == Spec => []TypeOK
<1>1. IInv => TypeOK
  BY DEF IInv
<1> QED
  BY <1>1, IInvariant, PTL

\* The parker never meets a word it does not expect, so its unreachable! is.
THEOREM NeverInconsistent == Spec => []WordConsistent
<1>1. IInv => WordConsistent
  BY DEF IInv
<1> QED
  BY <1>1, IInvariant, PTL

\* An owner that sleeps although it was notified is about to be woken.
THEOREM WakeupIsNeverLost == Spec => []NoLostWakeup
<1>1. IInv => NoLostWakeup
  BY DEF IInv
<1> QED
  BY <1>1, IInvariant, PTL

-----------------------------------------------------------------------------

\* Every step of the parker is a step of the abstract parker, or changes nothing
\* that its callers see.
LEMMA RefinementStep == IInv /\ [Next]_vars => [P!Next]_(P!vars)
<1> SUFFICES ASSUME IInv, [Next]_vars PROVE P!Next \/ UNCHANGED P!vars
  OBVIOUS
<1> USE WordAssumption
    DEF IInv, TypeOK, WordConsistent, PcValues, EMPTY, NOTIFIED, PARKED,
        Return, LoopTop, wrapping_dec, P!Next, P!vars, P!Phases
<1>1. ASSUME NEW c \in {"park", "park_until"}, Park(c) PROVE P!Next
  <2>1. CASE word = NOTIFIED
    BY <1>1, <2>1 DEF Park, P!ParkWithToken
  <2>2. CASE word # NOTIFIED
    BY <1>1, <2>2 DEF Park, P!ParkAndBlock
  <2> QED
    BY <2>1, <2>2
<1>2. CASE CheckDeadline
  BY <1>2 DEF CheckDeadline, P!TakeToken, P!TimeOut
<1>3. CASE FutexWait
  BY <1>3 DEF FutexWait
<1>4. CASE SpuriousWakeup \/ KernelTimeout
  BY <1>4 DEF SpuriousWakeup, KernelTimeout
<1>5. CASE Recheck
  BY <1>5 DEF Recheck, P!TakeToken
<1>6. CASE DeadlinePasses
  BY <1>6 DEF DeadlinePasses
<1>7. ASSUME NEW u \in Unparkers, UnparkSwap(u) PROVE P!Next
  BY <1>7 DEF UnparkSwap, P!Unpark
<1>8. ASSUME NEW u \in Unparkers, WakeOne(u) PROVE UNCHANGED P!vars
  BY <1>8 DEF WakeOne
<1>9. CASE UNCHANGED vars
  BY <1>9 DEF vars
<1> QED
  BY <1>1, <1>2, <1>3, <1>4, <1>5, <1>6, <1>7, <1>8, <1>9 DEF Next

\* The futex parker implements the abstract parker: no call returns without a
\* token, and none is lost, for any number of unparkers.
THEOREM ImplementsParker == Spec => RefinesParker
<1>1. Init => P!Init
  BY DEF Init, P!Init, EMPTY, NOTIFIED
<1>2. IInv /\ [Next]_vars => [P!Next]_(P!vars)
  BY RefinementStep
<1> QED
  BY <1>1, <1>2, IInvariant, PTL DEF Spec, RefinesParker, P!Spec
=============================================================================
