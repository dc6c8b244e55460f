--------------------------- MODULE RawMutexProofs ---------------------------
(***************************************************************************)
(* Theorems about RawMutex, for every set of threads, every spin limit and *)
(* both settings of the options.                                           *)
(***************************************************************************)
EXTENDS RawMutex, TLAPS

\* A thread that is about to remove or wake a sleeper knows which one.
TailKnown ==
  \A t \in Threads : pc[t] \in PopPcs \union WakePcs => frame[t].tail # Null

TypeInv == TypeOK /\ TailKnown

\* The parts of TypeInv that say where the threads are.
Where ==
  /\ pc \in [Threads -> PcValues]
  /\ frame \in [Threads -> Locals]
  /\ TailKnown

-----------------------------------------------------------------------------
(* Types of the operators and of the steps that several actions share. *)

\* The constants of the model have their types.
LEMMA InitialTypes ==
  IDLE \in Words /\ NoLocals \in Locals /\ NewThreadData \in ThreadDatas
  BY SpinAssumption
  DEF Words, IDLE, Pointers, NoLocals, Locals, NewThreadData, ThreadDatas

\* Adding a known bit to a word gives a word.
LEMMA WithBitType ==
  ASSUME NEW w \in Words, NEW b \in {LOCKED_BIT, QUEUE_LOCKED_BIT, TIMEOUT_BIT}
  PROVE  with_bit(w, b) \in Words
  BY DEF Words, with_bit, Bits

\* Taking bits out of a word gives a word.
LEMMA WithoutBitsType ==
  ASSUME NEW w \in Words, NEW bs
  PROVE  without_bits(w, bs) \in Words
  BY DEF Words, without_bits

\* Replacing the head of a word by a pointer gives a word.
LEMMA SetHeadType ==
  ASSUME NEW w \in Words, NEW p \in Pointers
  PROVE  set_queue_head(w, p) \in Words
  BY DEF Words, set_queue_head

\* Reading the word leaves the rest of the locals alone.
LEMMA LoadTypes ==
  ASSUME TypeInv, NEW t \in Threads, Load(t)
  PROVE  /\ frame' \in [Threads -> Locals]
         /\ \A u \in Threads : frame'[u].tail = frame[u].tail
  BY DEF TypeInv, TypeOK, Load, Locals

\* A thread may move anywhere that needs no tail without touching its locals.
LEMMA GotoTypes ==
  ASSUME TypeInv, NEW t \in Threads, NEW to \in PcValues \ (PopPcs \union WakePcs),
         pc' = [pc EXCEPT ![t] = to],
         \/ UNCHANGED frame
         \/ Load(t)
  PROVE  Where'
<1>1. pc' \in [Threads -> PcValues]
  BY DEF TypeInv, TypeOK
<1>2. /\ frame' \in [Threads -> Locals]
      /\ \A u \in Threads : frame'[u].tail = frame[u].tail
  BY LoadTypes DEF TypeInv, TypeOK
<1>3. TailKnown'
  BY <1>2 DEF TypeInv, TypeOK, TailKnown
<1> QED
  BY <1>1, <1>2, <1>3 DEF Where

\* A failed exchange that is tried again reads the word and stays.
LEMMA RetryTypes ==
  ASSUME TypeInv, NEW t \in Threads, Load(t), UNCHANGED pc
  PROVE  Where'
  BY LoadTypes DEF TypeInv, TypeOK, TailKnown, Where

\* A call that returns drops its locals.
LEMMA ReturnTypes ==
  ASSUME TypeInv, NEW t \in Threads, NEW to \in PcValues \ (PopPcs \union WakePcs),
         Return(t, to)
  PROVE  Where'
<1>1. pc' \in [Threads -> PcValues] /\ frame' \in [Threads -> Locals]
  BY InitialTypes DEF TypeInv, TypeOK, Return
<1>2. TailKnown'
  BY DEF TypeInv, TypeOK, TailKnown, Return
<1> QED
  BY <1>1, <1>2 DEF Where

\* Starting the scan again reads the word and puts the cursor on its head.
LEMMA RelinkTypes ==
  ASSUME TypeInv, NEW t \in Threads, NEW to \in {"us_link", "usf_link"}, Relink(t, to)
  PROVE  Where'
<1>1. pc' \in [Threads -> PcValues]
  BY DEF TypeInv, TypeOK, Relink, PcValues
<1>2. state.head \in Pointers
  BY DEF TypeInv, TypeOK, Words
<1>3. frame' \in [Threads -> Locals]
  BY <1>2 DEF TypeInv, TypeOK, Relink, Locals
<1>4. TailKnown'
  BY DEF TypeInv, TypeOK, TailKnown, Relink, PopPcs, WakePcs, Locals
<1> QED
  BY <1>1, <1>3, <1>4 DEF Where

\* The end of the scan finds a tail, which is a thread.
LEMMA LinkDoneTypes ==
  ASSUME TypeInv, NEW t \in Threads, LinkDone(t)
  PROVE  Where' /\ node' \in [Threads -> ThreadDatas]
<1> DEFINE tail == node[frame[t].cur].queue_tail
<1>1. tail \in Pointers /\ tail # Null
  BY DEF LinkDone, ThreadDatas, Pointers, TypeInv, TypeOK, Locals
<1>2. frame' \in [Threads -> Locals]
  <2> HIDE DEF tail
  <2>1. frame' = [frame EXCEPT ![t].tail = tail, ![t].cur = Null]
    BY DEF LinkDone, tail
  <2> QED
    <3>1. frame \in [Threads -> Locals] /\ frame[t] \in Locals
      BY DEF TypeInv, TypeOK
    <3>2. tail \in Pointers /\ Null \in Pointers
      BY <1>1 DEF Pointers
    <3>3. [frame[t] EXCEPT !.tail = tail, !.cur = Null] \in Locals
      BY <3>1, <3>2 DEF Locals
    <3>4. frame' = [frame EXCEPT ![t] = [frame[t] EXCEPT !.tail = tail, !.cur = Null]]
      BY <2>1, <3>1
    <3> QED
      BY <3>1, <3>3, <3>4
<1>3. pc' \in [Threads -> PcValues]
  BY DEF LinkDone, PcValues, TypeInv, TypeOK
<1>4. TailKnown'
  BY <1>1 DEF LinkDone, PopPcs, WakePcs, Locals, TypeInv, TypeOK, TailKnown
<1>5. node' \in [Threads -> ThreadDatas]
  BY <1>1 DEF LinkDone, ThreadDatas, TypeInv, TypeOK
<1> QED
  BY <1>2, <1>3, <1>4, <1>5 DEF Where

\* Emptying the list keeps the types, whichever bits survive.
LEMMA PopLastTypes ==
  ASSUME TypeInv, NEW t \in Threads, NEW from \in PopPcs,
         NEW link \in {"us_link", "usf_link"}, NEW wake \in WakePcs, NEW kept,
         PopLast(t, from, link, wake, kept)
  PROVE  TypeInv'
<1>1. ASSUME CasOk(t, [flags |-> frame[t].snap.flags \intersect kept, head |-> Null]),
             pc' = [pc EXCEPT ![t] = wake], Dequeue(t), UNCHANGED <<frame, node>>
      PROVE  TypeInv'
  <2>1. frame[t].snap \in Words /\ pc[t] \in PopPcs
    BY DEF TypeInv, TypeOK, Locals, PopLast
  <2>2. state' \in Words
    BY <1>1, <2>1 DEF CasOk, Words, Pointers
  <2>3. pc' \in [Threads -> PcValues]
    BY <1>1 DEF TypeInv, TypeOK, WakePcs, PcValues
  <2>4. TailKnown'
    BY <1>1, <2>1 DEF TypeInv, TypeOK, TailKnown
  <2> QED
    BY <1>1, <2>2, <2>3, <2>4 DEF TypeInv, TypeOK, Dequeue
<1>2. ASSUME IF state.head = Null THEN Load(t) /\ UNCHANGED pc ELSE Relink(t, link),
             UNCHANGED state, NoListChange
      PROVE  TypeInv'
  <2>1. Where'
    BY <1>2, RetryTypes, RelinkTypes
  <2> QED
    BY <1>2, <2>1 DEF TypeInv, TypeOK, Where, NoListChange
<1> QED
  BY <1>1, <1>2 DEF PopLast

\* Shortening the list keeps the types.
LEMMA PopMoreTypes ==
  ASSUME TypeInv, NEW t \in Threads, NEW from \in PopPcs, NEW wake \in WakePcs,
         NEW cleared, PopMore(t, from, wake, cleared)
  PROVE  TypeInv'
<1>1. state' \in Words
  BY WithoutBitsType DEF TypeInv, TypeOK, PopMore
<1>2. pc[t] \in PopPcs /\ pc' \in [Threads -> PcValues]
  BY DEF TypeInv, TypeOK, PopMore, Goto, WakePcs, PcValues
<1>3. frame[t].tail \in Threads
  BY <1>2 DEF TypeInv, TypeOK, TailKnown, Locals, Pointers
<1>4. node' \in [Threads -> ThreadDatas]
  BY <1>3 DEF TypeInv, TypeOK, PopMore, ThreadDatas
<1>5. TailKnown'
  BY <1>2 DEF TypeInv, TypeOK, TailKnown, PopMore, Goto
<1> QED
  BY <1>1, <1>2, <1>4, <1>5 DEF TypeInv, TypeOK, PopMore, Dequeue

-----------------------------------------------------------------------------
(* Type correctness. *)

\* An unlocked mutex without sleepers has the right types.
LEMMA TypeInit == Init => TypeInv
  BY ThreadsAssumption, SpinAssumption
  DEF Init, TypeInv, TypeOK, TailKnown, IDLE, Words, NoLocals, Locals,
      NewThreadData, ThreadDatas, Pointers, PcValues, PopPcs, WakePcs, Bits

\* No step gives a variable a value that it cannot have, or forgets the tail.
LEMMA TypeStep == TypeInv /\ [Next]_vars => TypeInv'
<1> SUFFICES ASSUME TypeInv, [Next]_vars PROVE TypeInv'
  OBVIOUS
<1>1. state \in Words /\ \A t \in Threads : frame[t].snap \in Words
  BY DEF TypeInv, TypeOK, Locals
<1>2. ASSUME Where', state' \in Words, NoListChange PROVE TypeInv'
  BY <1>2 DEF TypeInv, TypeOK, Where, NoListChange
<1>3. CASE UNCHANGED vars
  BY <1>3 DEF vars, TypeInv, TypeOK, TailKnown
<1>4. ASSUME NEW t \in Threads, Arrive(t) PROVE TypeInv'
  <2>1. Where'
    BY <1>4, GotoTypes
    DEF Arrive, TryLock, LockContended, IsLocked, Goto, PcValues, PopPcs, WakePcs
  <2>2. state' \in Words
    BY <1>1, <1>4, InitialTypes, WithBitType DEF Arrive, TryLock, LockContended, IsLocked
  <2> QED
    BY <1>2, <1>4, <2>1, <2>2 DEF Arrive, TryLock, LockContended, IsLocked
<1>5. ASSUME NEW t \in Threads,
             \/ IsLockedReturn(t) \/ LockSlowLoad(t) \/ UnlockSlowLoad(t)
             \/ UnlockFairLoad(t) \/ Unlock(t) \/ UnlockFair(t)
      PROVE  TypeInv'
  <2>1. Where'
    BY <1>5, GotoTypes
    DEF IsLockedReturn, LockSlowLoad, UnlockSlowLoad, UnlockFairLoad, Unlock,
        UnlockFair, Goto, PcValues, PopPcs, WakePcs
  <2>2. state' \in Words
    BY <1>1, <1>5, WithBitType, WithoutBitsType
    DEF IsLockedReturn, LockSlowLoad, UnlockSlowLoad, UnlockFairLoad, Unlock, UnlockFair
  <2> QED
    BY <1>2, <1>5, <2>1, <2>2
    DEF IsLockedReturn, LockSlowLoad, UnlockSlowLoad, UnlockFairLoad, Unlock, UnlockFair
<1>6. ASSUME NEW t \in Threads,
             LockSlowGrab(t) \/ UnlockFairClear(t) \/ UnlockSlowReturn(t)
      PROVE  TypeInv'
  <2>1. Where'
    BY <1>6, RetryTypes, ReturnTypes
    DEF LockSlowGrab, UnlockFairClear, UnlockSlowReturn, CasErr, PcValues, PopPcs, WakePcs
  <2>2. state' \in Words
    BY <1>1, <1>6, WithBitType, WithoutBitsType
    DEF LockSlowGrab, UnlockFairClear, UnlockSlowReturn, CasOk
  <2> QED
    BY <1>2, <1>6, <2>1, <2>2 DEF LockSlowGrab, UnlockFairClear, UnlockSlowReturn
<1>7. ASSUME NEW t \in Threads, LockSlowSpin(t) PROVE TypeInv'
  <2>1. frame' \in [Threads -> Locals]
    BY <1>7, SpinAssumption DEF LockSlowSpin, TypeInv, TypeOK, Locals
  <2>2. TailKnown'
    BY <1>7 DEF LockSlowSpin, TypeInv, TypeOK, TailKnown, Locals
  <2> QED
    BY <1>7, <2>1, <2>2 DEF LockSlowSpin, NoListChange, TypeInv, TypeOK
<1>8. ASSUME NEW t \in Threads, LockSlowPark(t) PROVE TypeInv'
  <2>1. Where'
    BY <1>8, RetryTypes, ReturnTypes DEF LockSlowPark, CasErr, PcValues, PopPcs, WakePcs
  <2>2. state' \in Words
    BY <1>1, <1>8, SetHeadType DEF LockSlowPark, CasOk, Pointers
  <2>3. node' \in [Threads -> ThreadDatas]
    <3>1. frame[t].snap.head \in Pointers
      BY <1>1 DEF Words
    <3>2. PushedNode(t, frame[t].snap.head) \in ThreadDatas
      BY <3>1 DEF PushedNode, ThreadDatas, NewThreadData, Pointers
    <3> QED
      BY <1>8, <3>2 DEF LockSlowPark, NoListChange, TypeInv, TypeOK
  <2> QED
    BY <1>8, <2>1, <2>2, <2>3 DEF LockSlowPark, NoListChange, TypeInv, TypeOK, Where
<1>9. ASSUME NEW t \in Threads, ParkReturn(t) PROVE TypeInv'
  <2>1. Where'
    BY <1>9, ReturnTypes DEF ParkReturn, Resume, PcValues, PopPcs, WakePcs
  <2> QED
    BY <1>9, <2>1, InitialTypes DEF ParkReturn, Resume, TypeInv, TypeOK, Where
<1>10. ASSUME NEW t \in Threads, UnlockSlowTry(t) \/ UnlockFairTry(t) PROVE TypeInv'
  <2>1. Where'
    <3>1. CASE UNCHANGED pc
      BY <1>10, <3>1, RetryTypes
      DEF UnlockSlowTry, UnlockFairTry, CasErr, TypeInv, TypeOK
    <3>2. CASE /\ frame' = [frame EXCEPT ![t].cur = frame[t].snap.head]
               /\ \E to \in {"us_link", "usf_link", "usf_empty"} :
                    pc' = [pc EXCEPT ![t] = to]
      <4>1. frame[t].snap.head \in Pointers
        BY <1>1 DEF Words
      <4>2. frame' \in [Threads -> Locals]
        BY <3>2, <4>1 DEF TypeInv, TypeOK, Locals
      <4>3. TailKnown'
        BY <3>2 DEF TypeInv, TypeOK, TailKnown, PopPcs, WakePcs, Locals
      <4> QED
        BY <3>2, <4>2, <4>3 DEF Where, TypeInv, TypeOK, PcValues
    <3> QED
      BY <1>10, <3>1, <3>2, RetryTypes DEF UnlockSlowTry, UnlockFairTry, CasErr
  <2>2. state' \in Words
    BY <1>1, <1>10, WithBitType DEF UnlockSlowTry, UnlockFairTry, CasOk
  <2> QED
    BY <1>2, <1>10, <2>1, <2>2 DEF UnlockSlowTry, UnlockFairTry
<1>11. ASSUME NEW t \in Threads, LinkPrev(t) PROVE TypeInv'
  <2>1. frame[t].cur \in Threads /\ node[frame[t].cur].next \in Threads
    BY <1>11 DEF LinkPrev, TypeInv, TypeOK, Locals, ThreadDatas, Pointers
  <2>2. frame' \in [Threads -> Locals] /\ TailKnown'
    BY <1>11, <2>1 DEF LinkPrev, TypeInv, TypeOK, TailKnown, Locals, Pointers
  <2>3. node' \in [Threads -> ThreadDatas]
    <3>1. node' = [node EXCEPT ![node[frame[t].cur].next].prev = frame[t].cur]
      BY <1>11 DEF LinkPrev
    <3> QED
      BY <2>1, <3>1 DEF TypeInv, TypeOK, ThreadDatas, Pointers
  <2> QED
    BY <1>11, <2>2, <2>3 DEF LinkPrev, TypeInv, TypeOK
<1>12. ASSUME NEW t \in Threads, LinkDone(t) PROVE TypeInv'
  BY <1>12, LinkDoneTypes DEF LinkDone, TypeInv, TypeOK, Where
<1>13. ASSUME NEW t \in Threads, UnlockSlowRelease(t) PROVE TypeInv'
  <2>1. Where'
    BY <1>13, ReturnTypes, RelinkTypes DEF UnlockSlowRelease, PcValues, PopPcs, WakePcs
  <2>2. state' \in Words
    BY <1>1, <1>13, WithoutBitsType DEF UnlockSlowRelease, CasOk
  <2> QED
    BY <1>2, <1>13, <2>1, <2>2 DEF UnlockSlowRelease
<1>14. ASSUME NEW t \in Threads, UnlockSlowPopLast(t) \/ UnlockFairPopLast(t)
       PROVE  TypeInv'
  BY <1>14, PopLastTypes DEF UnlockSlowPopLast, UnlockFairPopLast, PopPcs, WakePcs
<1>15. ASSUME NEW t \in Threads, UnlockSlowPopMore(t) \/ UnlockFairPopMore(t)
       PROVE  TypeInv'
  BY <1>15, PopMoreTypes DEF UnlockSlowPopMore, UnlockFairPopMore, PopPcs, WakePcs
<1>16. ASSUME NEW t \in Threads, UnlockSlowWake(t) \/ UnlockFairWake(t) PROVE TypeInv'
  <2>1. Where'
    BY <1>16, ReturnTypes DEF UnlockSlowWake, UnlockFairWake, PcValues, PopPcs, WakePcs
  <2>2. CASE UnlockSlowWake(t)
    BY <2>1, <2>2 DEF UnlockSlowWake, TypeInv, TypeOK, ThreadDatas, Where
  <2>3. CASE UnlockFairWake(t)
    <3>1. node \in [Threads -> ThreadDatas] /\ frame[t].tail \in Threads
      <4>1. pc[t] = "usf_wake"
        BY <2>3 DEF UnlockFairWake
      <4>2. frame[t].tail # Null
        BY <4>1 DEF TypeInv, TailKnown, WakePcs
      <4>3. frame[t].tail \in Pointers /\ node \in [Threads -> ThreadDatas]
        BY DEF TypeInv, TypeOK, Locals
      <4> QED
        BY <4>2, <4>3 DEF Pointers
    <3> DEFINE woken == [node[frame[t].tail] EXCEPT !.unpark_token = TOKEN_HANDOFF,
                                                    !.notified = TRUE]
    <3>2. woken \in ThreadDatas
      <4>1. node[frame[t].tail] \in ThreadDatas
        BY <3>1
      <4>2. \A d \in ThreadDatas :
              [d EXCEPT !.unpark_token = TOKEN_HANDOFF, !.notified = TRUE] \in ThreadDatas
        BY DEF ThreadDatas
      <4> QED
        BY <4>1, <4>2
    <3>3. node' = [node EXCEPT ![frame[t].tail] = woken]
      BY <2>3, <3>1 DEF UnlockFairWake
    <3>4. node' \in [Threads -> ThreadDatas]
      BY <3>1, <3>2, <3>3
    <3> QED
      BY <2>1, <2>3, <3>4 DEF UnlockFairWake, TypeInv, TypeOK, Where
  <2> QED
    BY <1>16, <2>2, <2>3
<1> QED
  BY <1>3, <1>4, <1>5, <1>6, <1>7, <1>8, <1>9, <1>10, <1>11, <1>12, <1>13, <1>14,
     <1>15, <1>16
  DEF Next, Continue

\* The types hold for ever.
LEMMA TypeInvariant == Spec => []TypeInv
  BY TypeInit, TypeStep, PTL DEF Spec

\* Every variable of the mutex keeps its type, whatever the threads do.
THEOREM TypeCorrect == Spec => []TypeOK
<1>1. TypeInv => TypeOK
  BY DEF TypeInv
<1> QED
  BY <1>1, TypeInvariant, PTL

-----------------------------------------------------------------------------
(* The bits of the word. *)

\* Adding a bit adds that bit and no other.
LEMMA WithBitEffect ==
  ASSUME NEW w \in Words, NEW b
  PROVE  \A c : c \in with_bit(w, b).flags <=> c \in w.flags \/ c = b
  BY DEF Words, with_bit

\* Taking bits out takes out those bits and no other.
LEMMA WithoutBitsEffect ==
  ASSUME NEW w \in Words, NEW bs
  PROVE  \A c : c \in without_bits(w, bs).flags <=> c \in w.flags /\ c \notin bs
  BY DEF Words, without_bits

\* A new head changes no bit.
LEMMA SetHeadEffect ==
  ASSUME NEW w \in Words, NEW p
  PROVE  set_queue_head(w, p).flags = w.flags
  BY DEF Words, set_queue_head

\* The bits are different bits.
LEMMA BitsDiffer ==
  /\ LOCKED_BIT # QUEUE_LOCKED_BIT
  /\ LOCKED_BIT # TIMEOUT_BIT
  /\ QUEUE_LOCKED_BIT # TIMEOUT_BIT
  BY DEF LOCKED_BIT, QUEUE_LOCKED_BIT, TIMEOUT_BIT

-----------------------------------------------------------------------------
(* Mutual exclusion. *)

Locked == LOCKED_BIT \in state.flags

\* What a step may do to the lock.
KeepsLock ==
  /\ Locked' <=> Locked
  /\ \A u \in Threads : Owns(u)' => Owns(u)
TakesLock(t) ==
  /\ ~Locked /\ Locked'
  /\ \A u \in Threads : Owns(u)' => Owns(u) \/ u = t
GivesUpLock(t) ==
  /\ Owns(t)
  /\ \A u \in Threads : Owns(u)' => Owns(u) /\ u # t
HandsOver(t, v) ==
  /\ Owns(t)
  /\ Locked' <=> Locked
  /\ \A u \in Threads : Owns(u)' => u = v \/ (Owns(u) /\ u # t)

\* Each of them keeps mutual exclusion.
LEMMA LockEffects ==
  ASSUME MutualExclusion,
         \/ KeepsLock
         \/ \E t \in Threads : TakesLock(t) \/ GivesUpLock(t)
         \/ \E t, v \in Threads : HandsOver(t, v)
  PROVE  MutualExclusion'
<1>1. CASE KeepsLock
  BY <1>1 DEF MutualExclusion, KeepsLock, Locked
<1>2. ASSUME NEW t \in Threads, TakesLock(t) PROVE MutualExclusion'
  BY <1>2 DEF MutualExclusion, TakesLock, Locked
<1>3. ASSUME NEW t \in Threads, GivesUpLock(t) PROVE MutualExclusion'
  BY <1>3 DEF MutualExclusion, GivesUpLock, Locked
<1>4. ASSUME NEW t \in Threads, NEW v \in Threads, HandsOver(t, v)
      PROVE  MutualExclusion'
  BY <1>4 DEF MutualExclusion, HandsOver, Locked
<1> QED
  BY <1>1, <1>2, <1>3, <1>4

\* No step makes a second owner, and none but the owner clears the lock bit.
LEMMA MutualExclusionStep ==
  TypeInv /\ MutualExclusion /\ [Next]_vars => MutualExclusion'
<1> SUFFICES ASSUME TypeInv, MutualExclusion, [Next]_vars PROVE MutualExclusion'
  OBVIOUS
<1> USE DEF OwnerPcs, FairPcs, Owns
<1>1. /\ state \in Words
      /\ pc \in [Threads -> PcValues]
      /\ node \in [Threads -> ThreadDatas]
      /\ \A t \in Threads : frame[t].snap \in Words
  BY DEF TypeInv, TypeOK, Locals
<1>2. CASE UNCHANGED vars
  BY <1>2 DEF vars, MutualExclusion
<1>3. ASSUME NEW t \in Threads, Arrive(t) PROVE MutualExclusion'
  <2>1. CASE TryLock(t)
    <3>1. TakesLock(t)
      BY <1>1, <2>1, InitialTypes, WithBitEffect
      DEF TakesLock, TryLock, Goto, NoListChange, Locked, IDLE
    <3> QED
      BY <3>1, LockEffects
  <2>2. CASE LockContended(t) \/ IsLocked(t)
    <3>1. KeepsLock
      BY <1>1, <2>2 DEF KeepsLock, LockContended, IsLocked, Goto, NoListChange, Locked
    <3> QED
      BY <3>1, LockEffects
  <2> QED
    BY <1>3, <2>1, <2>2 DEF Arrive
<1>4. ASSUME NEW t \in Threads,
             \/ IsLockedReturn(t) \/ LockSlowLoad(t) \/ LockSlowSpin(t)
             \/ UnlockSlowLoad(t) \/ UnlockSlowReturn(t) \/ UnlockFairLoad(t)
      PROVE  MutualExclusion'
  <2>1. KeepsLock
    BY <1>1, <1>4
    DEF KeepsLock, IsLockedReturn, LockSlowLoad, LockSlowSpin, UnlockSlowLoad,
        UnlockSlowReturn, UnlockFairLoad, Goto, Return, NoListChange, Locked
  <2> QED
    BY <2>1, LockEffects
<1>5. ASSUME NEW t \in Threads, LockSlowGrab(t) PROVE MutualExclusion'
  <2>1. CASE CasOk(t, with_bit(frame[t].snap, LOCKED_BIT)) /\ Return(t, "held")
    <3>1. ~Locked /\ Locked'
      BY <1>1, <1>5, <2>1, WithBitEffect DEF LockSlowGrab, CasOk, Locked
    <3>2. TakesLock(t)
      BY <1>1, <1>5, <2>1, <3>1 DEF TakesLock, LockSlowGrab, Return, NoListChange
    <3> QED
      BY <3>2, LockEffects
  <2>2. CASE UNCHANGED <<state, pc>>
    <3>1. KeepsLock
      BY <1>1, <1>5, <2>2 DEF KeepsLock, LockSlowGrab, NoListChange, Locked
    <3> QED
      BY <3>1, LockEffects
  <2> QED
    BY <1>5, <2>1, <2>2 DEF LockSlowGrab
<1>6. ASSUME NEW t \in Threads, LockSlowPark(t) PROVE MutualExclusion'
  <2>1. Locked' <=> Locked
    BY <1>1, <1>6, SetHeadEffect DEF LockSlowPark, CasOk, Locked
  <2>2. ASSUME Return(t, "parked"),
               node' = [node EXCEPT ![t] = PushedNode(t, frame[t].snap.head)]
        PROVE  \A u \in Threads : Owns(u)' => Owns(u)
    BY <1>1, <2>2 DEF Return, PushedNode, NewThreadData, TOKEN_NORMAL, TOKEN_HANDOFF
  <2>3. ASSUME UNCHANGED <<pc, node>>
        PROVE  \A u \in Threads : Owns(u)' => Owns(u)
    BY <2>3
  <2>4. KeepsLock
    BY <1>6, <2>1, <2>2, <2>3 DEF KeepsLock, LockSlowPark, NoListChange
  <2> QED
    BY <2>4, LockEffects
<1>7. ASSUME NEW t \in Threads, ParkReturn(t) PROVE MutualExclusion'
  <2>1. KeepsLock
    BY <1>1, <1>7 DEF KeepsLock, ParkReturn, Resume, Return, Locked
  <2> QED
    BY <2>1, LockEffects
<1>8. ASSUME NEW t \in Threads, Unlock(t) \/ UnlockFairClear(t) PROVE MutualExclusion'
  <2>1. GivesUpLock(t)
    BY <1>1, <1>8 DEF GivesUpLock, Unlock, UnlockFairClear, Goto, Return, NoListChange
  <2> QED
    BY <2>1, LockEffects
<1>9. ASSUME NEW t \in Threads, UnlockFair(t) PROVE MutualExclusion'
  <2>1. KeepsLock
    BY <1>1, <1>9, WithBitEffect, BitsDiffer
    DEF KeepsLock, UnlockFair, Goto, NoListChange, Locked
  <2> QED
    BY <2>1, LockEffects
<1>10. ASSUME NEW t \in Threads, UnlockSlowTry(t) \/ UnlockFairTry(t)
       PROVE  MutualExclusion'
  <2>1. Locked' <=> Locked
    BY <1>1, <1>10, WithBitEffect, BitsDiffer
    DEF UnlockSlowTry, UnlockFairTry, CasOk, Locked
  <2>2. \A u \in Threads : Owns(u)' => Owns(u)
    BY <1>1, <1>10 DEF UnlockSlowTry, UnlockFairTry, NoListChange
  <2>3. KeepsLock
    BY <2>1, <2>2 DEF KeepsLock
  <2> QED
    BY <2>3, LockEffects
<1>11. ASSUME NEW t \in Threads, LinkPrev(t) PROVE MutualExclusion'
  <2>1. KeepsLock
    BY <1>1, <1>11 DEF KeepsLock, LinkPrev, Locked, ThreadDatas
  <2> QED
    BY <2>1, LockEffects
<1>12. ASSUME NEW t \in Threads, LinkDone(t) PROVE MutualExclusion'
  <2>1. KeepsLock
    BY <1>1, <1>12 DEF KeepsLock, LinkDone, Locked, ThreadDatas
  <2> QED
    BY <2>1, LockEffects
<1>13. ASSUME NEW t \in Threads, UnlockSlowRelease(t) PROVE MutualExclusion'
  <2>1. Locked' <=> Locked
    BY <1>1, <1>13, WithoutBitsEffect, BitsDiffer DEF UnlockSlowRelease, CasOk, Locked
  <2>2. \A u \in Threads : Owns(u)' => Owns(u)
    BY <1>1, <1>13 DEF UnlockSlowRelease, Return, Relink, NoListChange
  <2>3. KeepsLock
    BY <2>1, <2>2 DEF KeepsLock
  <2> QED
    BY <2>3, LockEffects
<1>14. ASSUME NEW t \in Threads, UnlockSlowPopLast(t) PROVE MutualExclusion'
  <2>1. KeepsLock
    BY <1>1, <1>14
    DEF KeepsLock, UnlockSlowPopLast, PopLast, CasOk, Load, Relink, NoListChange, Locked
  <2> QED
    BY <2>1, LockEffects
<1>15. ASSUME NEW t \in Threads, UnlockFairPopLast(t) PROVE MutualExclusion'
  <2>1. KeepsLock
    BY <1>1, <1>15
    DEF KeepsLock, UnlockFairPopLast, PopLast, CasOk, Load, Relink, NoListChange, Locked
  <2> QED
    BY <2>1, LockEffects
<1>16. ASSUME NEW t \in Threads, UnlockSlowPopMore(t) \/ UnlockFairPopMore(t)
       PROVE  MutualExclusion'
  <2>1. Locked' <=> Locked
    BY <1>1, <1>16, WithoutBitsEffect, BitsDiffer
    DEF UnlockSlowPopMore, UnlockFairPopMore, PopMore, Locked
  <2>2. \A u \in Threads : node'[u].unpark_token = node[u].unpark_token
    <3>1. node \in [Threads -> ThreadDatas]
      BY DEF TypeInv, TypeOK
    <3>2. \E h : node' = [node EXCEPT ![h].queue_tail = node[frame[t].tail].prev]
      BY <1>16 DEF UnlockSlowPopMore, UnlockFairPopMore, PopMore
    <3> QED
      BY <3>1, <3>2 DEF ThreadDatas
  <2>3. \A u \in Threads : Owns(u)' => Owns(u)
    BY <1>1, <1>16, <2>2 DEF UnlockSlowPopMore, UnlockFairPopMore, PopMore, Goto
  <2>4. KeepsLock
    BY <2>1, <2>3 DEF KeepsLock
  <2> QED
    BY <2>4, LockEffects
<1>17. ASSUME NEW t \in Threads, UnlockSlowWake(t) PROVE MutualExclusion'
  <2>1. KeepsLock
    BY <1>1, <1>17 DEF KeepsLock, UnlockSlowWake, Return, Locked, ThreadDatas
  <2> QED
    BY <2>1, LockEffects
<1>18. ASSUME NEW t \in Threads, UnlockFairWake(t) PROVE MutualExclusion'
  <2>1. frame[t].tail \in Threads
    BY <1>18 DEF UnlockFairWake, TypeInv, TypeOK, TailKnown, WakePcs, Locals, Pointers
  <2>2. HandsOver(t, frame[t].tail)
    BY <1>1, <1>18, <2>1 DEF HandsOver, UnlockFairWake, Return, Locked, ThreadDatas
  <2> HIDE DEF Owns
  <2>3. \E v \in Threads : HandsOver(t, v)
    BY <2>1, <2>2
  <2> QED
    BY <2>3, LockEffects
<1> QED
  BY <1>2, <1>3, <1>4, <1>5, <1>6, <1>7, <1>8, <1>9, <1>10, <1>11, <1>12, <1>13,
     <1>14, <1>15, <1>16, <1>17, <1>18
  DEF Next, Continue

\* At most one thread owns the mutex, whatever the number of threads and however
\* lock, unlock and hand-offs interleave, and the lock bit is set while one does.
THEOREM MutexIsExclusive == Spec => []MutualExclusion
<1>1. Init => MutualExclusion
  BY DEF Init, MutualExclusion, Owns, OwnerPcs, FairPcs, NewThreadData,
         TOKEN_NORMAL, TOKEN_HANDOFF
<1> QED
  BY <1>1, TypeInvariant, MutualExclusionStep, PTL DEF Spec

-----------------------------------------------------------------------------
(* The queue lock. *)

QueueLocked == is_queue_locked(state)
Works(t) == pc[t] \in QueueLockPcs

\* What a step may do to the queue lock.
KeepsQueueLock ==
  /\ QueueLocked' <=> QueueLocked
  /\ \A u \in Threads : Works(u)' <=> Works(u)
TakesQueueLock(t) ==
  /\ ~QueueLocked /\ QueueLocked'
  /\ \A u \in Threads : Works(u)' <=> Works(u) \/ u = t
GivesUpQueueLock(t) ==
  /\ Works(t) /\ ~QueueLocked'
  /\ \A u \in Threads : Works(u)' <=> Works(u) /\ u # t

\* Each of them keeps the queue lock exclusive.
LEMMA QueueLockEffects ==
  ASSUME QueueLockExclusive,
         \/ KeepsQueueLock
         \/ \E t \in Threads : TakesQueueLock(t) \/ GivesUpQueueLock(t)
  PROVE  QueueLockExclusive'
<1>1. CASE KeepsQueueLock
  BY <1>1 DEF QueueLockExclusive, KeepsQueueLock, QueueLocked, Works
<1>2. ASSUME NEW t \in Threads, TakesQueueLock(t) PROVE QueueLockExclusive'
  BY <1>2 DEF QueueLockExclusive, TakesQueueLock, QueueLocked, Works
<1>3. ASSUME NEW t \in Threads, GivesUpQueueLock(t) PROVE QueueLockExclusive'
  BY <1>3 DEF QueueLockExclusive, GivesUpQueueLock, QueueLocked, Works
<1> QED
  BY <1>1, <1>2, <1>3

\* The queue lock bit is set by a thread that starts to work on the list and cleared
\* by the one that stops.
LEMMA QueueLockStep ==
  TypeInv /\ QueueLockExclusive /\ [Next]_vars => QueueLockExclusive'
<1> SUFFICES ASSUME TypeInv, QueueLockExclusive, [Next]_vars
             PROVE  QueueLockExclusive'
  OBVIOUS
<1> USE DEF QueueLocked, is_queue_locked, Works, QueueLockPcs
<1>1. /\ state \in Words
      /\ pc \in [Threads -> PcValues]
      /\ \A t \in Threads : frame[t].snap \in Words
  BY DEF TypeInv, TypeOK, Locals
<1>2. CASE UNCHANGED vars
  BY <1>2 DEF vars, QueueLockExclusive
<1>3. ASSUME NEW t \in Threads,
             \/ Arrive(t) \/ IsLockedReturn(t) \/ LockSlowLoad(t) \/ LockSlowSpin(t)
             \/ ParkReturn(t) \/ Unlock(t) \/ UnlockFair(t)
      PROVE  QueueLockExclusive'
  <2>1. QUEUE_LOCKED_BIT \in state'.flags <=> QUEUE_LOCKED_BIT \in state.flags
    BY <1>1, <1>3, InitialTypes, WithBitEffect, WithoutBitsEffect, BitsDiffer
    DEF Arrive, TryLock, LockContended, IsLocked, IsLockedReturn, LockSlowLoad,
        LockSlowSpin, ParkReturn, Resume, Unlock, UnlockFair, IDLE
  <2>2. KeepsQueueLock
    BY <1>1, <1>3, <2>1
    DEF KeepsQueueLock, Arrive, TryLock, LockContended, IsLocked, IsLockedReturn,
        LockSlowLoad, LockSlowSpin, ParkReturn, Resume, Unlock, UnlockFair, Goto, Return
  <2> QED
    BY <2>2, QueueLockEffects
<1>4. ASSUME NEW t \in Threads, LockSlowGrab(t) \/ LockSlowPark(t)
      PROVE  QueueLockExclusive'
  <2>1. QUEUE_LOCKED_BIT \in state'.flags <=> QUEUE_LOCKED_BIT \in state.flags
    BY <1>1, <1>4, WithBitEffect, SetHeadEffect, BitsDiffer
    DEF LockSlowGrab, LockSlowPark, CasOk
  <2>2. \A u \in Threads : Works(u)' <=> Works(u)
    BY <1>1, <1>4 DEF LockSlowGrab, LockSlowPark, Return
  <2>3. KeepsQueueLock
    BY <2>1, <2>2 DEF KeepsQueueLock
  <2> QED
    BY <2>3, QueueLockEffects
<1>5. ASSUME NEW t \in Threads, UnlockFairClear(t) PROVE QueueLockExclusive'
  <2>1. CASE pc[t] = "usf_empty"
    <3>1. GivesUpQueueLock(t)
      BY <1>1, <1>5, <2>1, WithoutBitsEffect
      DEF GivesUpQueueLock, UnlockFairClear, Return, Bits
    <3> QED
      BY <3>1, QueueLockEffects
  <2>2. CASE pc[t] = "fair_clear"
    <3>1. KeepsQueueLock
      BY <1>1, <1>5, <2>2, WithoutBitsEffect, BitsDiffer
      DEF KeepsQueueLock, UnlockFairClear, Return
    <3> QED
      BY <3>1, QueueLockEffects
  <2> QED
    BY <1>5, <2>1, <2>2 DEF UnlockFairClear
<1>6. ASSUME NEW t \in Threads,
             UnlockSlowLoad(t) \/ UnlockSlowReturn(t) \/ UnlockFairLoad(t)
      PROVE  QueueLockExclusive'
  <2>1. KeepsQueueLock
    BY <1>1, <1>6
    DEF KeepsQueueLock, UnlockSlowLoad, UnlockSlowReturn, UnlockFairLoad, Goto, Return
  <2> QED
    BY <2>1, QueueLockEffects
<1>7. ASSUME NEW t \in Threads, UnlockSlowTry(t) \/ UnlockFairTry(t)
      PROVE  QueueLockExclusive'
  <2>1. CASE UNCHANGED <<state, pc>>
    <3>1. KeepsQueueLock
      BY <2>1 DEF KeepsQueueLock
    <3> QED
      BY <3>1, QueueLockEffects
  <2>2. ASSUME CasOk(t, with_bit(frame[t].snap, QUEUE_LOCKED_BIT)),
               ~is_queue_locked(frame[t].snap),
               \E to \in {"us_link", "usf_link", "usf_empty"} :
                 pc' = [pc EXCEPT ![t] = to]
        PROVE  QueueLockExclusive'
    <3>1. ~QueueLocked /\ QueueLocked'
      BY <1>1, <2>2, WithBitEffect DEF CasOk
    <3>2. TakesQueueLock(t)
      BY <1>1, <2>2, <3>1 DEF TakesQueueLock
    <3> QED
      BY <3>2, QueueLockEffects
  <2> QED
    BY <1>7, <2>1, <2>2 DEF UnlockSlowTry, UnlockFairTry, NothingToWake
<1>8. ASSUME NEW t \in Threads,
             LinkPrev(t) \/ LinkDone(t) \/ UnlockSlowWake(t) \/ UnlockFairWake(t)
      PROVE  QueueLockExclusive'
  <2>1. KeepsQueueLock
    BY <1>1, <1>8
    DEF KeepsQueueLock, LinkPrev, LinkDone, UnlockSlowWake, UnlockFairWake, Return
  <2> QED
    BY <2>1, QueueLockEffects
<1>9. ASSUME NEW t \in Threads, UnlockSlowRelease(t) PROVE QueueLockExclusive'
  <2>1. CASE CasOk(t, without_bits(frame[t].snap, {QUEUE_LOCKED_BIT})) /\ Return(t, "idle")
    <3>1. ~QueueLocked'
      BY <1>1, <2>1, WithoutBitsEffect DEF CasOk
    <3>2. GivesUpQueueLock(t)
      BY <1>1, <1>9, <2>1, <3>1 DEF GivesUpQueueLock, UnlockSlowRelease, Return
    <3> QED
      BY <3>2, QueueLockEffects
  <2>2. CASE Relink(t, "us_link") /\ UNCHANGED state
    <3>1. KeepsQueueLock
      BY <1>1, <1>9, <2>2 DEF KeepsQueueLock, UnlockSlowRelease, Relink
    <3> QED
      BY <3>1, QueueLockEffects
  <2> QED
    BY <1>9, <2>1, <2>2 DEF UnlockSlowRelease
<1>10. ASSUME NEW t \in Threads, NEW from \in PopPcs, NEW wake \in WakePcs,
              NEW link \in {"us_link", "usf_link"},
              NEW kept, QUEUE_LOCKED_BIT \notin kept,
              PopLast(t, from, link, wake, kept)
       PROVE  QueueLockExclusive'
  <2>1. CASE CasOk(t, [flags |-> frame[t].snap.flags \intersect kept, head |-> Null])
             /\ pc' = [pc EXCEPT ![t] = wake]
    <3>1. ~QueueLocked'
      BY <1>10, <2>1 DEF CasOk
    <3>2. GivesUpQueueLock(t)
      BY <1>1, <1>10, <2>1, <3>1 DEF GivesUpQueueLock, PopLast, PopPcs, WakePcs
    <3> QED
      BY <3>2, QueueLockEffects
  <2>2. CASE UNCHANGED state /\ (UNCHANGED pc \/ Relink(t, link))
    <3>1. KeepsQueueLock
      BY <1>1, <1>10, <2>2 DEF KeepsQueueLock, PopLast, PopPcs, Relink
    <3> QED
      BY <3>1, QueueLockEffects
  <2> QED
    BY <1>10, <2>1, <2>2 DEF PopLast
<1>11. ASSUME NEW t \in Threads, NEW from \in PopPcs, NEW wake \in WakePcs,
              NEW cleared, QUEUE_LOCKED_BIT \in cleared,
              PopMore(t, from, wake, cleared)
       PROVE  QueueLockExclusive'
  <2>1. ~QueueLocked'
    BY <1>1, <1>11, WithoutBitsEffect DEF PopMore
  <2>2. GivesUpQueueLock(t)
    BY <1>1, <1>11, <2>1 DEF GivesUpQueueLock, PopMore, Goto, PopPcs, WakePcs
  <2> QED
    BY <2>2, QueueLockEffects
<1>12. ASSUME NEW t \in Threads,
              \/ UnlockSlowPopLast(t) \/ UnlockFairPopLast(t)
              \/ UnlockSlowPopMore(t) \/ UnlockFairPopMore(t)
       PROVE  QueueLockExclusive'
  BY <1>10, <1>11, <1>12, BitsDiffer
  DEF UnlockSlowPopLast, UnlockFairPopLast, UnlockSlowPopMore, UnlockFairPopMore,
      PopPcs, WakePcs
<1> QED
  BY <1>2, <1>3, <1>4, <1>5, <1>6, <1>7, <1>8, <1>9, <1>12 DEF Next, Continue

\* The fields of the queued nodes, which are plain Cells, are touched by at most
\* one thread at a time: the queue lock bit is set exactly while one works there.
THEOREM QueueLockIsExclusive == Spec => []QueueLockExclusive
<1>1. Init => QueueLockExclusive
  BY DEF Init, QueueLockExclusive, QueueLockPcs, is_queue_locked, IDLE
<1> QED
  BY <1>1, TypeInvariant, QueueLockStep, PTL DEF Spec

-----------------------------------------------------------------------------
(* A fair release finds a sleeper. *)

\* While somebody works on the queue the queue is not empty, and the last node is
\* taken off by a plain unlock only over a copy of the word that is not locked.
WorkersHaveWork ==
  \A t \in Threads :
    /\ pc[t] \in QueueLockPcs => state.head # Null
    /\ pc[t] = "us_pop_last" => LOCKED_BIT \notin frame[t].snap.flags

FairInv ==
  TypeInv /\ MutualExclusion /\ QueueLockExclusive /\ WorkersHaveWork
          /\ FairReleaseFindsSleeper

\* Adding a bit leaves the head alone.
LEMMA WithBitHead ==
  ASSUME NEW w \in Words, NEW b
  PROVE  with_bit(w, b).head = w.head
  BY DEF Words, with_bit

\* Taking bits out leaves the head alone.
LEMMA WithoutBitsHead ==
  ASSUME NEW w \in Words, NEW bs
  PROVE  without_bits(w, bs).head = w.head
  BY DEF Words, without_bits

\* A push leaves a queue that is not empty.
LEMMA SetHeadHead ==
  ASSUME NEW w \in Words, NEW t \in Threads
  PROVE  set_queue_head(w, t).head # Null
  BY ThreadsAssumption DEF Words, set_queue_head

\* Nobody but the owner is in the middle of a fair release, and nobody is while
\* the lock is free.
LEMMA FairOwner ==
  ASSUME MutualExclusion, NEW t \in Threads, pc[t] \in FairPcs
  PROVE  /\ LOCKED_BIT \in state.flags
         /\ \A u \in Threads : pc[u] \in FairPcs => u = t
  BY DEF MutualExclusion, Owns, OwnerPcs

\* A step of t that does not empty the queue, and that enters the queue lock or a
\* fair release only over a queue that is not empty, keeps the invariant.
LEMMA HeadStays ==
  ASSUME TypeInv, WorkersHaveWork, FairReleaseFindsSleeper, NEW t \in Threads,
         \A u \in Threads \ {t} : pc'[u] = pc[u] /\ frame'[u] = frame[u],
         pc'[t] # "usf_empty",
         state.head # Null => state'.head # Null,
         pc'[t] \in QueueLockPcs \union (FairPcs \ {"fair_clear"}) => state'.head # Null,
         pc'[t] = "us_pop_last" => LOCKED_BIT \notin frame'[t].snap.flags
  PROVE  WorkersHaveWork' /\ FairReleaseFindsSleeper'
  BY DEF WorkersHaveWork, FairReleaseFindsSleeper

\* No step empties the list under a fair release, because the lock bit is set
\* until it ends and a plain unlock that sees the bit leaves the list alone.
LEMMA FairStep ==
  FairInv /\ [Next]_vars => WorkersHaveWork' /\ FairReleaseFindsSleeper'
<1> SUFFICES ASSUME FairInv, [Next]_vars
             PROVE  WorkersHaveWork' /\ FairReleaseFindsSleeper'
  OBVIOUS
<1> USE DEF FairPcs, QueueLockPcs
<1>1. /\ state \in Words
      /\ pc \in [Threads -> PcValues]
      /\ frame \in [Threads -> Locals]
      /\ \A t \in Threads : frame[t].snap \in Words
      /\ WorkersHaveWork /\ FairReleaseFindsSleeper /\ TypeInv
  BY DEF FairInv, TypeInv, TypeOK, Locals
<1>2. CASE UNCHANGED vars
  BY <1>1, <1>2 DEF vars, WorkersHaveWork, FairReleaseFindsSleeper
<1>3. ASSUME NEW t \in Threads, TryLock(t)
      PROVE  WorkersHaveWork' /\ FairReleaseFindsSleeper'
  BY <1>1, <1>3, HeadStays DEF TryLock, Goto, IDLE
<1>4. ASSUME NEW t \in Threads,
             \/ LockContended(t) \/ IsLocked(t) \/ IsLockedReturn(t)
             \/ LockSlowLoad(t) \/ LockSlowSpin(t) \/ ParkReturn(t)
             \/ Unlock(t) \/ UnlockSlowLoad(t) \/ UnlockSlowReturn(t)
             \/ UnlockSlowWake(t) \/ UnlockFairWake(t)
      PROVE  WorkersHaveWork' /\ FairReleaseFindsSleeper'
  <2>1. state'.head = state.head
    BY <1>1, <1>4, WithoutBitsHead
    DEF LockContended, IsLocked, IsLockedReturn, LockSlowLoad, LockSlowSpin,
        ParkReturn, Resume, Unlock, UnlockSlowLoad, UnlockSlowReturn, UnlockSlowWake,
        UnlockFairWake
  <2>2. /\ \A u \in Threads \ {t} : pc'[u] = pc[u] /\ frame'[u] = frame[u]
        /\ pc'[t] \notin QueueLockPcs \union (FairPcs \ {"fair_clear"})
    BY <1>1, <1>4
    DEF LockContended, IsLocked, IsLockedReturn, LockSlowLoad, LockSlowSpin,
        ParkReturn, Resume, Unlock, UnlockSlowLoad, UnlockSlowReturn, UnlockSlowWake,
        UnlockFairWake, Goto, Return, Load
  <2> QED
    BY <1>1, <2>1, <2>2, HeadStays
<1>5. ASSUME NEW t \in Threads,
             LockSlowGrab(t) \/ LockSlowPark(t) \/ UnlockFairClear(t)
      PROVE  WorkersHaveWork' /\ FairReleaseFindsSleeper'
  <2>1. state.head # Null => state'.head # Null
    BY <1>1, <1>5, WithBitHead, WithoutBitsHead, SetHeadHead
    DEF LockSlowGrab, LockSlowPark, UnlockFairClear, CasOk
  <2>2. /\ \A u \in Threads \ {t} : pc'[u] = pc[u] /\ frame'[u] = frame[u]
        /\ pc'[t] \notin QueueLockPcs \union (FairPcs \ {"fair_clear"})
    BY <1>1, <1>5
    DEF LockSlowGrab, LockSlowPark, UnlockFairClear, CasErr, Return, Load
  <2> QED
    BY <1>1, <2>1, <2>2, HeadStays
<1>6. ASSUME NEW t \in Threads, UnlockFair(t) \/ UnlockFairLoad(t)
      PROVE  WorkersHaveWork' /\ FairReleaseFindsSleeper'
  <2>1. state'.head = state.head
    BY <1>1, <1>6, WithBitHead DEF UnlockFair, UnlockFairLoad
  <2>2. /\ \A u \in Threads \ {t} : pc'[u] = pc[u] /\ frame'[u] = frame[u]
        /\ pc'[t] \notin {"us_pop_last", "usf_empty"}
        /\ pc'[t] \in QueueLockPcs \union (FairPcs \ {"fair_clear"}) => state.head # Null
    BY <1>1, <1>6 DEF UnlockFair, UnlockFairLoad, Goto, Load, FairReleaseFindsSleeper
  <2> QED
    BY <1>1, <2>1, <2>2, HeadStays
<1>7. ASSUME NEW t \in Threads, UnlockSlowTry(t) \/ UnlockFairTry(t)
      PROVE  WorkersHaveWork' /\ FairReleaseFindsSleeper'
  <2>1. state'.head = state.head
    BY <1>1, <1>7, WithBitHead DEF UnlockSlowTry, UnlockFairTry, CasOk
  <2>2. /\ \A u \in Threads \ {t} : pc'[u] = pc[u] /\ frame'[u] = frame[u]
        /\ pc'[t] # "us_pop_last"
    BY <1>1, <1>7 DEF UnlockSlowTry, UnlockFairTry, CasErr, Load
  <2>3. /\ pc'[t] # "usf_empty"
        /\ pc'[t] \in QueueLockPcs \union (FairPcs \ {"fair_clear"}) => state.head # Null
    BY <1>1, <1>7
    DEF UnlockSlowTry, UnlockFairTry, CasOk, NothingToWake, FairReleaseFindsSleeper
  <2> QED
    BY <1>1, <2>1, <2>2, <2>3, HeadStays
<1>8. ASSUME NEW t \in Threads, LinkPrev(t) \/ LinkDone(t)
      PROVE  WorkersHaveWork' /\ FairReleaseFindsSleeper'
  <2>1. state'.head = state.head /\ state.head # Null
    BY <1>1, <1>8 DEF LinkPrev, LinkDone, WorkersHaveWork
  <2>2. /\ \A u \in Threads \ {t} : pc'[u] = pc[u] /\ frame'[u] = frame[u]
        /\ pc'[t] # "usf_empty"
        /\ pc'[t] = "us_pop_last" => LOCKED_BIT \notin frame[t].snap.flags
        /\ frame'[t].snap = frame[t].snap
    BY <1>1, <1>8 DEF LinkPrev, LinkDone, Locals
  <2> QED
    BY <1>1, <2>1, <2>2, HeadStays
<1>9. ASSUME NEW t \in Threads, UnlockSlowRelease(t)
      PROVE  WorkersHaveWork' /\ FairReleaseFindsSleeper'
  <2>1. state'.head = state.head /\ state.head # Null
    BY <1>1, <1>9, WithoutBitsHead DEF UnlockSlowRelease, CasOk, WorkersHaveWork
  <2>2. /\ \A u \in Threads \ {t} : pc'[u] = pc[u] /\ frame'[u] = frame[u]
        /\ pc'[t] \in {"idle", "us_link"}
    BY <1>1, <1>9 DEF UnlockSlowRelease, Return, Relink
  <2> QED
    BY <1>1, <2>1, <2>2, HeadStays
<1>10. ASSUME NEW t \in Threads, UnlockSlowPopMore(t) \/ UnlockFairPopMore(t)
       PROVE  WorkersHaveWork' /\ FairReleaseFindsSleeper'
  <2>1. state'.head = state.head /\ state.head # Null
    BY <1>1, <1>10, WithoutBitsHead
    DEF UnlockSlowPopMore, UnlockFairPopMore, PopMore, Goto, WorkersHaveWork
  <2>2. /\ \A u \in Threads \ {t} : pc'[u] = pc[u] /\ frame'[u] = frame[u]
        /\ pc'[t] \in WakePcs
    BY <1>1, <1>10 DEF UnlockSlowPopMore, UnlockFairPopMore, PopMore, Goto, WakePcs
  <2> QED
    BY <1>1, <2>1, <2>2, HeadStays DEF WakePcs
<1>11. ASSUME NEW t \in Threads, UnlockSlowPopLast(t) \/ UnlockFairPopLast(t)
       PROVE  WorkersHaveWork' /\ FairReleaseFindsSleeper'
  <2>1. /\ state.head # Null
        /\ pc[t] \in {"us_pop_last", "usf_pop_last"}
    BY <1>1, <1>11
    DEF UnlockSlowPopLast, UnlockFairPopLast, PopLast, WorkersHaveWork
  <2>2. CASE UNCHANGED state
    <3>1. pc'[t] \in {"us_link", "usf_link"}
          /\ \A u \in Threads \ {t} : pc'[u] = pc[u] /\ frame'[u] = frame[u]
      BY <1>1, <1>11, <2>1, <2>2
      DEF UnlockSlowPopLast, UnlockFairPopLast, PopLast, Relink, CasOk
    <3> QED
      BY <1>1, <2>1, <2>2, <3>1, HeadStays
  <2>3. CASE state = frame[t].snap /\ \E wake \in WakePcs : pc' = [pc EXCEPT ![t] = wake]
    <3>1. \A u \in Threads \ {t} : pc[u] \notin QueueLockPcs
      BY <2>1 DEF FairInv, QueueLockExclusive
    <3>2. \A u \in Threads \ {t} : pc[u] \notin FairPcs
      BY <1>1, <2>1, <2>3, FairOwner DEF FairInv, WorkersHaveWork
    <3>3. \A u \in Threads : pc'[u] \notin QueueLockPcs \union FairPcs
      BY <1>1, <2>3, <3>1, <3>2 DEF WakePcs
    <3> QED
      BY <3>3 DEF WorkersHaveWork, FairReleaseFindsSleeper
  <2> QED
    BY <1>11, <2>2, <2>3
    DEF UnlockSlowPopLast, UnlockFairPopLast, PopLast, CasOk, WakePcs
<1> QED
  BY <1>2, <1>3, <1>4, <1>5, <1>6, <1>7, <1>8, <1>9, <1>10, <1>11
  DEF Next, Arrive, Continue

\* A fair release that saw a sleeper hands the lock over: the queue it saw cannot
\* drain before it has the queue lock, and the branch of unlock_slow_fair that
\* would release the mutex without looking for sleepers is dead code.
THEOREM FairReleaseAlwaysHandsOver == Spec => []FairReleaseFindsSleeper
<1>1. Init => FairInv
  <2>1. Init => MutualExclusion /\ QueueLockExclusive
    BY DEF Init, MutualExclusion, Owns, OwnerPcs, FairPcs, NewThreadData,
           TOKEN_NORMAL, TOKEN_HANDOFF, QueueLockExclusive, QueueLockPcs,
           is_queue_locked, IDLE
  <2> QED
    BY <2>1, TypeInit
    DEF Init, FairInv, WorkersHaveWork, FairReleaseFindsSleeper, QueueLockPcs, FairPcs
<1>2. FairInv /\ [Next]_vars => FairInv'
  BY TypeStep, MutualExclusionStep, QueueLockStep, FairStep DEF FairInv
<1>3. FairInv => FairReleaseFindsSleeper
  BY DEF FairInv
<1> QED
  BY <1>1, <1>2, <1>3, PTL DEF Spec

-----------------------------------------------------------------------------
(* The timeout bit. *)

Expired == TIMEOUT_BIT \in state.flags
Releasing(t) == pc[t] \in FairPcs

\* The timeout bit is cleared when the last fair release leaves its part of the
\* code, and no exchange brings it back.
LEMMA TimeoutStep ==
  TypeInv /\ TimeoutOnlyInFairRelease /\ [Next]_vars => TimeoutOnlyInFairRelease'
<1> SUFFICES ASSUME TypeInv, TimeoutOnlyInFairRelease, [Next]_vars
             PROVE  TimeoutOnlyInFairRelease'
  OBVIOUS
<1> USE DEF FairPcs
<1>1. /\ state \in Words
      /\ pc \in [Threads -> PcValues]
      /\ \A t \in Threads : frame[t].snap \in Words
  BY DEF TypeInv, TypeOK, Locals
<1>2. ASSUME Expired' => Expired, \A u \in Threads : Releasing(u) => Releasing(u)'
      PROVE  TimeoutOnlyInFairRelease'
  BY <1>2 DEF TimeoutOnlyInFairRelease, Expired, Releasing
<1>3. ASSUME ~Expired' \/ \E u \in Threads : Releasing(u)'
      PROVE  TimeoutOnlyInFairRelease'
  BY <1>3 DEF TimeoutOnlyInFairRelease, Expired, Releasing
<1> USE DEF Expired, Releasing
<1>4. CASE UNCHANGED vars
  BY <1>2, <1>4 DEF vars
<1>5. ASSUME NEW t \in Threads,
             \/ Arrive(t) \/ IsLockedReturn(t) \/ LockSlowLoad(t) \/ LockSlowSpin(t)
             \/ ParkReturn(t) \/ Unlock(t) \/ UnlockSlowLoad(t) \/ UnlockSlowReturn(t)
             \/ LinkPrev(t) \/ LinkDone(t) \/ UnlockSlowWake(t) \/ UnlockFairWake(t)
             \/ UnlockFairLoad(t)
      PROVE  TimeoutOnlyInFairRelease'
  <2>1. \/ UNCHANGED state
        \/ state' = with_bit(IDLE, LOCKED_BIT)
        \/ state' = without_bits(state, {LOCKED_BIT})
    BY <1>5
    DEF Arrive, TryLock, LockContended, IsLocked, IsLockedReturn, LockSlowLoad,
        LockSlowSpin, ParkReturn, Resume, Unlock, UnlockSlowLoad, UnlockSlowReturn, LinkPrev,
        LinkDone, UnlockSlowWake, UnlockFairWake, UnlockFairLoad
  <2>2. Expired' => Expired
    BY <1>1, <2>1, InitialTypes, WithBitEffect, WithoutBitsEffect, BitsDiffer
    DEF IDLE
  <2>3. \A u \in Threads : Releasing(u) => Releasing(u)'
    BY <1>1, <1>5
    DEF Arrive, TryLock, LockContended, IsLocked, IsLockedReturn, LockSlowLoad,
        LockSlowSpin, ParkReturn, Resume, Unlock, UnlockSlowLoad, UnlockSlowReturn, LinkPrev,
        LinkDone, UnlockSlowWake, UnlockFairWake, UnlockFairLoad, Goto, Return
  <2> QED
    BY <1>2, <2>2, <2>3
<1>6. ASSUME NEW t \in Threads,
             \/ LockSlowGrab(t) \/ LockSlowPark(t) \/ UnlockSlowTry(t)
             \/ UnlockFairTry(t) \/ UnlockSlowRelease(t)
      PROVE  TimeoutOnlyInFairRelease'
  <2>1. Expired' => Expired
    BY <1>1, <1>6, WithBitEffect, WithoutBitsEffect, SetHeadEffect, BitsDiffer
    DEF LockSlowGrab, LockSlowPark, UnlockSlowTry, UnlockFairTry, UnlockSlowRelease, CasOk
  <2>2. \A u \in Threads : Releasing(u) => Releasing(u)'
    BY <1>1, <1>6
    DEF LockSlowGrab, LockSlowPark, UnlockSlowTry, UnlockFairTry, UnlockSlowRelease,
        Return, Relink
  <2> QED
    BY <1>2, <2>1, <2>2
<1>7. ASSUME NEW t \in Threads, UnlockFair(t) PROVE TimeoutOnlyInFairRelease'
  BY <1>1, <1>3, <1>7 DEF UnlockFair, Goto
<1>8. ASSUME NEW t \in Threads, UnlockFairClear(t) PROVE TimeoutOnlyInFairRelease'
  <2>1. ~Expired'
    BY <1>1, <1>8, WithoutBitsEffect DEF UnlockFairClear, Bits
  <2> QED
    BY <1>3, <2>1
<1>9. ASSUME NEW t \in Threads, UnlockSlowPopLast(t) PROVE TimeoutOnlyInFairRelease'
  BY <1>1, <1>2, <1>9 DEF UnlockSlowPopLast, PopLast, CasOk, Relink
<1>10. ASSUME NEW t \in Threads, UnlockFairPopLast(t) PROVE TimeoutOnlyInFairRelease'
  <2>1. CASE UNCHANGED state
    BY <1>1, <1>2, <1>3, <1>10, <2>1, BitsDiffer
    DEF UnlockFairPopLast, PopLast, CasOk, Relink
  <2>2. CASE CasOk(t, [flags |-> frame[t].snap.flags \intersect {LOCKED_BIT},
                       head |-> Null])
    BY <1>3, <2>2, BitsDiffer DEF CasOk
  <2> QED
    BY <1>10, <2>1, <2>2 DEF UnlockFairPopLast, PopLast
<1>11. ASSUME NEW t \in Threads, UnlockSlowPopMore(t) PROVE TimeoutOnlyInFairRelease'
  <2>1. Expired' => Expired
    BY <1>1, <1>11, WithoutBitsEffect DEF UnlockSlowPopMore, PopMore
  <2> QED
    BY <1>1, <1>2, <1>11, <2>1 DEF UnlockSlowPopMore, PopMore, Goto
<1>12. ASSUME NEW t \in Threads, UnlockFairPopMore(t) PROVE TimeoutOnlyInFairRelease'
  <2>1. ~Expired'
    BY <1>1, <1>12, WithoutBitsEffect DEF UnlockFairPopMore, PopMore
  <2> QED
    BY <1>3, <2>1
<1> QED
  BY <1>4, <1>5, <1>6, <1>7, <1>8, <1>9, <1>10, <1>11, <1>12 DEF Next, Continue

\* The timeout bit is set only while the fair release that set it is under way:
\* plain unlocks that carry the bit along never leave it behind.
THEOREM TimeoutBitIsTransient == Spec => []TimeoutOnlyInFairRelease
<1>1. Init => TimeoutOnlyInFairRelease
  BY DEF Init, TimeoutOnlyInFairRelease, IDLE
<1> QED
  BY <1>1, TypeInvariant, TimeoutStep, PTL DEF Spec
=============================================================================
