-------------------------- MODULE WaitGroupProofs --------------------------
(***************************************************************************)
(* Theorems about WaitGroup, for any number of threads, workers and adds,  *)
(* and about WaitGroupWeak: what a release and acquire machine guarantees  *)
(* to the callers of wait. The last part is about the one use of the group *)
(* that leaves nobody behind: one waiter, one generation.                  *)
(***************************************************************************)
EXTENDS WaitGroupWeak, FiniteSetTheorems, TLAPS

\* Every variable has its type to begin with.
LEMMA TypeInit == Init => TypeOK
  BY GroupAssumption
  DEF Init, TypeOK, Words, Pointers, IDLE, NoLocals, Locals, NewThreadData, ThreadDatas,
      PcValues

\* A thread that goes to a place of the code is at a place of the code.
LEMMA GotoType ==
  ASSUME TypeOK, NEW t \in Threads, NEW to \in PcValues, pc' = [pc EXCEPT ![t] = to]
  PROVE  pc' \in [Threads -> PcValues]
  BY DEF TypeOK

\* The assignments that the code makes to the locals keep their types.
LEMMA FrameType ==
  ASSUME TypeOK, NEW t \in Threads, NEW w \in Words, NEW c \in Pointers,
         NEW p \in Pointers,
         \/ frame' = [frame EXCEPT ![t] = NoLocals]
         \/ frame' = [frame EXCEPT ![t].snap = w]
         \/ frame' = [frame EXCEPT ![t].cur = c]
         \/ frame' = [frame EXCEPT ![t].prev = p, ![t].cur = c]
         \/ frame' = [frame EXCEPT ![t].cur = c, ![t].prev = p]
         \/ frame' = [frame EXCEPT ![t].snap = w, ![t].cur = c]
  PROVE  frame' \in [Threads -> Locals]
<1>1. NoLocals \in Locals
  BY DEF NoLocals, Locals, Words, Pointers, IDLE
<1> QED
  BY <1>1 DEF TypeOK, Locals

\* Words that are built from words.
LEMMA WordTypes ==
  ASSUME NEW w \in Words, NEW h \in Pointers
  PROVE  /\ w.head \in Pointers
         /\ CLEAR \in Words
         /\ [w EXCEPT !.head = h] \in Words
         /\ without_lock(w) \in Words
         /\ [w EXCEPT !.flags = {QUEUE_LOCKED_BIT}] \in Words
         /\ [w EXCEPT !.flags = @ \ {QUEUE_CLEAR_BIT}] \in Words
  BY DEF Words, CLEAR, without_lock, Pointers

\* A thread's locals and the next pointers it may find are what they should be.
LEMMA PartTypes ==
  ASSUME TypeOK, NEW t \in Threads
  PROVE  /\ frame[t].snap \in Words
         /\ frame[t].cur \in Pointers /\ frame[t].prev \in Pointers
         /\ frame[t].snap.head \in Pointers /\ state.head \in Pointers
         /\ node[t].next \in Pointers
         /\ \A u \in Threads : NextOf(u) \subseteq Pointers
  BY DEF TypeOK, Locals, ThreadDatas, Words, NextOf, Pointers

\* No step gives a variable a value that it cannot have. What is left of a node
\* that is gone is a pointer.
LEMMA TypeStep == TypeOK /\ [Next]_vars => TypeOK'
<1> SUFFICES ASSUME TypeOK, [Next]_vars PROVE TypeOK'
  OBVIOUS
<1> USE GroupAssumption DEF Goto, Return, Load
<1>1. ASSUME NEW t \in Threads, Add(t) PROVE TypeOK'
  BY <1>1 DEF Add, TypeOK
<1>2. ASSUME NEW t \in Threads, Done(t) PROVE TypeOK'
  <2> pc' \in [Threads -> PcValues]
    BY <1>2, GotoType DEF Done, PcValues, DonePcs
  <2> QED
    BY <1>2 DEF Done, TypeOK
<1>3. ASSUME NEW t \in Threads,
             Wait(t) \/ Retry(t) \/ RetryPushed(t) \/ ParkReturn(t)
      PROVE TypeOK'
  <2> pc' \in [Threads -> PcValues]
    BY <1>3, GotoType DEF Wait, Retry, RetryReading, RetryPushed, RetryPushedReading, ParkReturn,
           PcValues, WaitPcs
  <2> QED
    BY <1>3 DEF Wait, Retry, RetryReading, RetryPushed, RetryPushedReading, ParkReturn, TypeOK
<1>4. ASSUME NEW t \in Threads, ParkLoad(t) \/ AbortLoad(t) \/ UnparkAllLoad(t)
      PROVE TypeOK'
  <2> pc' \in [Threads -> PcValues]
    BY <1>4, GotoType
    DEF ParkLoad, AbortLoad, UnparkAllLoad, PcValues, WaitPcs, DonePcs
  <2> frame' \in [Threads -> Locals]
    BY <1>4, FrameType DEF ParkLoad, AbortLoad, UnparkAllLoad, TypeOK, Pointers
  <2> QED
    BY <1>4 DEF ParkLoad, AbortLoad, UnparkAllLoad, TypeOK
<1>5. ASSUME NEW t \in Threads, Push(t) PROVE TypeOK'
  <2>1. pc' \in [Threads -> PcValues]
    BY <1>5, GotoType DEF Push, PcValues, WaitPcs
  <2>2. frame' \in [Threads -> Locals]
    BY <1>5, FrameType, PartTypes DEF Push
  <2>3. state' \in Words
    <3> t \in Pointers /\ state \in Words
      BY DEF Pointers, TypeOK
    <3> [frame[t].snap EXCEPT !.head = t] \in Words
      BY WordTypes, PartTypes
    <3> QED
      BY <1>5 DEF Push, CasOk
  <2>4. node' \in [Threads -> ThreadDatas]
    <3>1. [NewThreadData EXCEPT !.next = frame[t].snap.head] \in ThreadDatas
      BY PartTypes DEF NewThreadData, ThreadDatas, Pointers
    <3>2. node \in [Threads -> ThreadDatas]
      BY DEF TypeOK
    <3>3. CASE node' = node
      BY <3>2, <3>3
    <3>4. CASE node' = [node EXCEPT ![t] = [NewThreadData EXCEPT !.next = frame[t].snap.head]]
      BY <3>1, <3>2, <3>4
    <3> QED
      BY <1>5, <3>3, <3>4 DEF Push
  <2> QED
    BY <1>5, <2>1, <2>2, <2>3, <2>4 DEF Push, TypeOK
<1>6. ASSUME NEW t \in Threads, AbortTry(t) PROVE TypeOK'
  <2>1. pc' \in [Threads -> PcValues]
    BY <1>6, GotoType DEF AbortTry, PcValues, WaitPcs, TypeOK
  <2>2. frame' \in [Threads -> Locals]
    BY <1>6, FrameType, PartTypes DEF AbortTry, TypeOK
  <2>3. state' \in Words
    <3> state \in Words
      BY DEF TypeOK
    <3> [frame[t].snap EXCEPT !.flags = {QUEUE_LOCKED_BIT}] \in Words
      BY WordTypes, PartTypes
    <3> QED
      BY <1>6 DEF AbortTry, CasOk
  <2> QED
    BY <1>6, <2>1, <2>2, <2>3 DEF AbortTry, TypeOK
<1>7. ASSUME NEW t \in Threads, AbortNext(t) PROVE TypeOK'
  <2> PICK n \in NextOf(frame[t].cur) :
        frame' = [frame EXCEPT ![t].prev = frame[t].cur, ![t].cur = n]
    BY <1>7 DEF AbortNext
  <2> frame[t].cur \in Threads
    BY <1>7, PartTypes DEF AbortNext, Pointers
  <2> frame' \in [Threads -> Locals]
    BY FrameType, PartTypes
  <2> QED
    BY <1>7 DEF AbortNext, TypeOK
<1>8. ASSUME NEW t \in Threads, AbortNotFound(t) PROVE TypeOK'
  <2> Null \in Pointers
    BY DEF Pointers
  <2> frame' \in [Threads -> Locals]
    BY <1>8, FrameType, PartTypes DEF AbortNotFound
  <2> state' \in Words
    BY <1>8, WordTypes, PartTypes DEF AbortNotFound, TypeOK
  <2> QED
    BY <1>8 DEF AbortNotFound, TypeOK
<1>9. ASSUME NEW t \in Threads, AbortHead(t) PROVE TypeOK'
  <2>1. pc' \in [Threads -> PcValues]
    BY <1>9, GotoType DEF AbortHead, PcValues, WaitPcs, TypeOK
  <2>2. frame' \in [Threads -> Locals]
    BY <1>9, FrameType, PartTypes DEF AbortHead, TypeOK
  <2>3. state' \in Words
    <3> state \in Words
      BY DEF TypeOK
    <3> [frame[t].snap EXCEPT !.head = node[t].next] \in Words
      BY WordTypes, PartTypes
    <3> without_lock([frame[t].snap EXCEPT !.head = node[t].next]) \in Words
      BY WordTypes, PartTypes
    <3> QED
      BY <1>9 DEF AbortHead, CasOk
  <2> QED
    BY <1>9, <2>1, <2>2, <2>3 DEF AbortHead, TypeOK
<1>10. ASSUME NEW t \in Threads, AbortMiddle(t) PROVE TypeOK'
  <2>1. pc' \in [Threads -> PcValues]
    BY <1>10, GotoType DEF AbortMiddle, PcValues, WaitPcs
  <2>2. frame' \in [Threads -> Locals]
    BY <1>10, FrameType, PartTypes DEF AbortMiddle
  <2>3. state' \in Words
    BY <1>10, WordTypes, PartTypes DEF AbortMiddle, TypeOK
  <2>4. node' \in [Threads -> ThreadDatas]
    BY <1>10, PartTypes DEF AbortMiddle, ThreadDatas, TypeOK
  <2> QED
    BY <1>10, <2>1, <2>2, <2>3, <2>4 DEF AbortMiddle, TypeOK
<1>11. ASSUME NEW t \in Threads, UnparkAllTry(t) PROVE TypeOK'
  <2>1. pc' \in [Threads -> PcValues]
    BY <1>11, GotoType DEF UnparkAllTry, StartWalk, PcValues, DonePcs, ClearPcs, TypeOK
  <2>2. frame' \in [Threads -> Locals]
    <3>1. \/ frame' = [frame EXCEPT ![t] = NoLocals]
          \/ frame' = [frame EXCEPT ![t].snap = state]
          \/ frame' = [frame EXCEPT ![t].snap = frame[t].snap, ![t].cur = frame[t].snap.head]
      BY <1>11 DEF UnparkAllTry, StartWalk
    <3>2. /\ frame[t].snap \in Words /\ state \in Words
          /\ frame[t].snap.head \in Pointers
      BY PartTypes DEF TypeOK
    <3>3. CASE frame' = [frame EXCEPT ![t] = NoLocals]
      BY <3>2, <3>3, FrameType
    <3>4. CASE frame' = [frame EXCEPT ![t].snap = state]
      BY <3>2, <3>4, FrameType
    <3>5. CASE frame' = [frame EXCEPT ![t].snap = frame[t].snap, ![t].cur = frame[t].snap.head]
      BY <3>2, <3>5, FrameType
    <3> QED
      BY <3>1, <3>3, <3>4, <3>5
  <2>3. state' \in Words
    BY <1>11, WordTypes, PartTypes DEF UnparkAllTry, CasOk, TypeOK
  <2> QED
    BY <1>11, <2>1, <2>2, <2>3 DEF UnparkAllTry, TypeOK
<1>12. ASSUME NEW t \in Threads, UnparkAllWalk(t) PROVE TypeOK'
  <2> DEFINE cur == frame[t].cur
  <2> PICK n \in NextOf(cur) :
        /\ frame' = [frame EXCEPT ![t].cur = n]
        /\ pc' = [pc EXCEPT ![t] = IF n = Null THEN "cut" ELSE "walk"]
    BY <1>12 DEF UnparkAllWalk
  <2>1. pc' \in [Threads -> PcValues]
    BY GotoType DEF PcValues, DonePcs, ClearPcs
  <2>2. n \in Pointers
    BY <1>12, PartTypes DEF UnparkAllWalk, Pointers
  <2>3. frame' \in [Threads -> Locals]
    BY <2>2, FrameType, PartTypes
  <2>4. node' \in [Threads -> ThreadDatas]
    <3>1. node \in [Threads -> ThreadDatas] /\ TRUE \in BOOLEAN
      BY DEF TypeOK
    <3>2. \A u \in Threads : [node[u] EXCEPT !.notified = TRUE] \in ThreadDatas
      BY <3>1 DEF ThreadDatas
    <3>3. CASE node' = node
      BY <3>1, <3>3
    <3>4. CASE node' = [node EXCEPT ![cur].notified = TRUE]
      BY <3>1, <3>2, <3>4
    <3> QED
      BY <1>12, <3>3, <3>4 DEF UnparkAllWalk
  <2> QED
    BY <1>12, <2>1, <2>3, <2>4 DEF UnparkAllWalk, TypeOK
<1>13. ASSUME NEW t \in Threads, UnparkAllCut(t) PROVE TypeOK'
  <2>1. pc' \in [Threads -> PcValues]
    BY <1>13, GotoType DEF UnparkAllCut, StartWalk, PcValues, DonePcs, ClearPcs
  <2>2. frame' \in [Threads -> Locals]
    BY <1>13, FrameType, PartTypes DEF UnparkAllCut, StartWalk, TypeOK
  <2>3. state' \in Words
    BY <1>13, WordTypes, PartTypes DEF UnparkAllCut
  <2> QED
    BY <1>13, <2>1, <2>2, <2>3 DEF UnparkAllCut, TypeOK
<1>14. ASSUME NEW t \in Threads, UnparkAllClear(t) PROVE TypeOK'
  <2>1. pc' \in [Threads -> PcValues]
    BY <1>14, GotoType DEF UnparkAllClear, PcValues
  <2>2. frame' \in [Threads -> Locals]
    BY <1>14, FrameType, PartTypes DEF UnparkAllClear
  <2>3. state' \in Words
    BY <1>14, WordTypes, PartTypes DEF UnparkAllClear, TypeOK
  <2> QED
    BY <1>14, <2>1, <2>2, <2>3 DEF UnparkAllClear, TypeOK
<1>15. CASE UNCHANGED vars
  BY <1>15 DEF vars, TypeOK
<1> QED
  BY <1>1, <1>2, <1>3, <1>4, <1>5, <1>6, <1>7, <1>8, <1>9, <1>10, <1>11, <1>12, <1>13,
     <1>14, <1>15
  DEF Next, Arrive, Continue

\* Every variable keeps its type: in particular the list pointers stay pointers.
THEOREM GroupTypeCorrect == Spec => []TypeOK
  BY TypeInit, TypeStep, PTL DEF Spec

-----------------------------------------------------------------------------
(* Done called too often. *)

\* Every panic accounts for one done too many, and there are finitely many of them.
ShortInv == IsFiniteSet(Panicked) /\ ShortfallIsReported

\* No step but a done ends in a panic or takes anything from the counter, and none
\* begins after a panic.
LEMMA PanicSteps ==
  ASSUME TypeOK, NEW t \in Threads, Arrive(t) \/ Continue(t), ~Done(t)
  PROVE  Panicked' = Panicked /\ workers' >= workers
<1>. USE DEF Goto, Return, Load, Panicked
<1>0. pc \in [Threads -> PcValues] /\ workers \in Int
  BY DEF TypeOK
<1>1. CASE Add(t) \/ Wait(t) \/ Retry(t) \/ RetryPushed(t) \/ ParkReturn(t)
  BY <1>0, <1>1
  DEF Add, Wait, Retry, RetryReading, RetryPushed, RetryPushedReading, ParkReturn
<1>2. CASE ParkLoad(t) \/ Push(t) \/ AbortLoad(t) \/ AbortTry(t)
  BY <1>0, <1>2 DEF ParkLoad, Push, AbortLoad, AbortTry
<1>3. CASE AbortNext(t) \/ AbortNotFound(t) \/ AbortHead(t) \/ AbortMiddle(t)
  BY <1>0, <1>3 DEF AbortNext, AbortNotFound, AbortHead, AbortMiddle
<1>4. CASE UnparkAllLoad(t) \/ UnparkAllTry(t)
  BY <1>0, <1>4 DEF UnparkAllLoad, UnparkAllTry, StartWalk
<1>5. CASE UnparkAllWalk(t)
  BY <1>0, <1>5 DEF UnparkAllWalk
<1>6. CASE UnparkAllCut(t) \/ UnparkAllClear(t)
  BY <1>0, <1>6 DEF UnparkAllCut, UnparkAllClear, StartWalk
<1>. QED BY <1>1, <1>2, <1>3, <1>4, <1>5, <1>6 DEF Arrive, Continue

\* A done that finds less than one takes one from the counter and adds one panic.
LEMMA ShortInvStep == TypeOK /\ ShortInv /\ [Next]_vars => ShortInv'
<1>. SUFFICES ASSUME TypeOK, ShortInv, [Next]_vars PROVE ShortInv'
  OBVIOUS
<1>0. /\ pc \in [Threads -> PcValues] /\ workers \in Int
      /\ IsFiniteSet(Panicked) /\ Cardinality(Panicked) \in Nat
      /\ workers + Cardinality(Panicked) >= 0
  BY FS_CardinalityType DEF TypeOK, ShortInv, ShortfallIsReported
<1>1. CASE UNCHANGED vars
  BY <1>1 DEF vars, ShortInv, ShortfallIsReported, Panicked
<1>2. ASSUME NEW t \in Threads, Done(t) PROVE ShortInv'
  <2>1. workers' = workers - 1
    BY <1>2 DEF Done
  <2>2. CASE workers < 1 /\ Goto(t, "idle", "panicked")
    <3>1. t \notin Panicked /\ Panicked' = Panicked \union {t}
      BY <1>0, <2>2 DEF Goto, Panicked
    <3>2. /\ IsFiniteSet(Panicked \union {t})
          /\ Cardinality(Panicked \union {t}) = Cardinality(Panicked) + 1
      BY <1>0, <3>1, FS_AddElement
    <3>3. workers' + Cardinality(Panicked') >= 0
      BY <1>0, <2>1, <3>1, <3>2
    <3>. QED BY <3>1, <3>2, <3>3 DEF ShortInv, ShortfallIsReported
  <2>3. CASE workers >= 1 /\ \E to \in {"idle", "unpark_load"} : Goto(t, "idle", to)
    <3>1. Panicked' = Panicked
      BY <1>0, <2>3 DEF Goto, Panicked
    <3>2. workers' + Cardinality(Panicked) >= 0
      BY <1>0, <2>1, <2>3
    <3>. QED BY <1>0, <3>1, <3>2 DEF ShortInv, ShortfallIsReported
  <2>. QED BY <1>0, <1>2, <2>2, <2>3 DEF Done
<1>3. ASSUME NEW t \in Threads, Arrive(t) \/ Continue(t), ~Done(t) PROVE ShortInv'
  <2>1. Panicked' = Panicked /\ workers' >= workers
    BY <1>3, PanicSteps
  <2>2. workers' \in Int
    BY TypeStep DEF TypeOK
  <2>3. workers' + Cardinality(Panicked) >= 0
    BY <1>0, <2>1, <2>2
  <2>. QED BY <1>0, <2>1, <2>3 DEF ShortInv, ShortfallIsReported
<1>. QED BY <1>1, <1>2, <1>3 DEF Next

\* The counter may go below zero, since the assertion of done comes after its
\* fetch_sub; but for any threads, sizes and adds it is short by no more than the
\* calls that panicked, so nobody counts down too often and does not hear of it.
THEOREM NoSilentShortfall == Spec => []ShortfallIsReported
<1>1. Init => ShortInv
  <2>. SUFFICES ASSUME Init PROVE ShortInv
    OBVIOUS
  <2>1. Panicked = {} /\ workers \in Nat
    BY GroupAssumption DEF Init, Panicked
  <2>. QED BY <2>1, FS_EmptySet DEF ShortInv, ShortfallIsReported
<1>2. ShortInv => ShortfallIsReported
  BY DEF ShortInv
<1>. QED BY <1>1, <1>2, GroupTypeCorrect, ShortInvStep, PTL DEF Spec

-----------------------------------------------------------------------------

\* A step that leaves the clear bit alone and moves one thread, neither from nor to
\* the clearing part of unpark_all, keeps OneWaker.
LEMMA OutsideClear ==
  ASSUME TypeOK, OneWaker, NEW t \in Threads, NEW to,
         pc[t] \notin ClearPcs, to \notin ClearPcs,
         pc' = [pc EXCEPT ![t] = to],
         QUEUE_CLEAR_BIT \in state'.flags <=> QUEUE_CLEAR_BIT \in state.flags
  PROVE  OneWaker'
  BY DEF TypeOK, OneWaker

\* The clear bit is set by the exchange that begins the clearing part, from a word
\* without it, and the thread that set it takes it away.
LEMMA OneWakerStep == TypeOK /\ OneWaker /\ [Next]_vars => OneWaker'
<1> SUFFICES ASSUME TypeOK, OneWaker, [Next]_vars PROVE OneWaker'
  OBVIOUS
<1> USE DEF ClearPcs, Goto, Return, Load, QUEUE_LOCKED_BIT, QUEUE_CLEAR_BIT
<1>1. ASSUME NEW t \in Threads, Add(t) PROVE OneWaker'
  BY <1>1 DEF Add, OneWaker
<1>2. ASSUME NEW t \in Threads,
             \/ Wait(t) \/ Done(t) \/ Retry(t) \/ ParkLoad(t) \/ RetryPushed(t)
             \/ ParkReturn(t) \/ AbortLoad(t) \/ UnparkAllLoad(t)
      PROVE OneWaker'
  <2> PICK to : to \notin ClearPcs /\ pc' = [pc EXCEPT ![t] = to]
    BY <1>2
    DEF Wait, Done, Retry, RetryReading, ParkLoad, RetryPushed, RetryPushedReading,
        ParkReturn, AbortLoad, UnparkAllLoad
  <2> pc[t] \notin ClearPcs /\ state' = state
    BY <1>2
    DEF Wait, Done, Retry, RetryReading, ParkLoad, RetryPushed, RetryPushedReading,
        ParkReturn, AbortLoad, UnparkAllLoad
  <2> QED
    BY OutsideClear
<1>3. ASSUME NEW t \in Threads, Push(t) PROVE OneWaker'
  <2> PICK to : to \notin ClearPcs /\ pc' = [pc EXCEPT ![t] = to]
    BY <1>3 DEF Push
  <2> pc[t] \notin ClearPcs /\ state'.flags = state.flags
    BY <1>3 DEF Push, CasOk, TypeOK, Words
  <2> QED
    BY OutsideClear
<1>4. ASSUME NEW t \in Threads, AbortTry(t) PROVE OneWaker'
  <2>1. CASE UNCHANGED <<state, pc>>
    BY <2>1 DEF OneWaker
  <2>2. CASE UNCHANGED state /\ Return(t, "retry")
    BY <1>4, <2>2, OutsideClear DEF AbortTry
  <2>3. CASE /\ frame[t].snap.flags = {}
             /\ CasOk(t, [frame[t].snap EXCEPT !.flags = {QUEUE_LOCKED_BIT}])
             /\ pc' = [pc EXCEPT ![t] = "abort_scan"]
    <3> state.flags = {} /\ state'.flags = {QUEUE_LOCKED_BIT}
      BY <2>3 DEF CasOk, TypeOK, Words
    <3> QED
      BY <1>4, <2>3, OutsideClear DEF AbortTry
  <2> QED
    BY <1>4, <2>1, <2>2, <2>3 DEF AbortTry
<1>5. ASSUME NEW t \in Threads, AbortNext(t) PROVE OneWaker'
  BY <1>5 DEF AbortNext, OneWaker
<1>6. ASSUME NEW t \in Threads, AbortNotFound(t) PROVE OneWaker'
  BY <1>6 DEF AbortNotFound, OneWaker, without_lock, TypeOK, Words
<1>7. ASSUME NEW t \in Threads, AbortHead(t) PROVE OneWaker'
  <2>1. CASE UNCHANGED <<state, pc>>
    BY <2>1 DEF OneWaker
  <2>2. CASE /\ CasOk(t, without_lock([frame[t].snap EXCEPT !.head = node[t].next]))
             /\ Return(t, "retry")
    <3> state'.flags = state.flags \ {QUEUE_LOCKED_BIT}
      BY <2>2 DEF CasOk, without_lock, TypeOK, Words
    <3> QED
      BY <1>7, <2>2, OutsideClear DEF AbortHead
  <2> QED
    BY <1>7, <2>1, <2>2 DEF AbortHead
<1>8. ASSUME NEW t \in Threads, AbortMiddle(t) PROVE OneWaker'
  <2> state'.flags = state.flags \ {QUEUE_LOCKED_BIT}
    BY <1>8 DEF AbortMiddle, without_lock, TypeOK, Words
  <2> QED
    BY <1>8, OutsideClear DEF AbortMiddle
<1>9. ASSUME NEW t \in Threads, UnparkAllTry(t) PROVE OneWaker'
  <2>1. CASE UNCHANGED <<state, pc>>
    BY <2>1 DEF OneWaker
  <2>2. CASE UNCHANGED state /\ Return(t, "idle")
    BY <1>9, <2>2, OutsideClear DEF UnparkAllTry
  <2>3. CASE frame[t].snap.flags = {} /\ CasOk(t, CLEAR) /\ StartWalk(t, frame[t].snap)
    BY <2>3 DEF CasOk, CLEAR, StartWalk, OneWaker, TypeOK
  <2> QED
    BY <1>9, <2>1, <2>2, <2>3 DEF UnparkAllTry
<1>10. ASSUME NEW t \in Threads, UnparkAllWalk(t) PROVE OneWaker'
  <2> PICK to \in {"cut", "walk"} : pc' = [pc EXCEPT ![t] = to]
    BY <1>10 DEF UnparkAllWalk
  <2> pc[t] = "walk" /\ state' = state
    BY <1>10 DEF UnparkAllWalk
  <2> QED
    BY DEF OneWaker, TypeOK
<1>11. ASSUME NEW t \in Threads, UnparkAllCut(t) PROVE OneWaker'
  BY <1>11 DEF UnparkAllCut, StartWalk, CLEAR, OneWaker, TypeOK
<1>12. ASSUME NEW t \in Threads, UnparkAllClear(t) PROVE OneWaker'
  BY <1>12 DEF UnparkAllClear, OneWaker, TypeOK, Words
<1>13. CASE UNCHANGED vars
  BY <1>13 DEF vars, OneWaker
<1> QED
  BY <1>1, <1>2, <1>3, <1>4, <1>5, <1>6, <1>7, <1>8, <1>9, <1>10, <1>11, <1>12, <1>13
  DEF Next, Arrive, Continue

\* At most one done wakes the list at a time, and the clear bit says when: a done
\* that returns because of the bit leaves its waiters to a thread that is there.
THEOREM AtMostOneWaker == Spec => []OneWaker
<1>1. Init => OneWaker
  BY DEF Init, OneWaker, IDLE, ClearPcs
<1> QED
  BY <1>1, GroupTypeCorrect, OneWakerStep, PTL DEF Spec

-----------------------------------------------------------------------------
(* The views of WaitGroupWeak. *)

\* The dones that have been called: they found the values above the counter.
Called == {d \in Calls : d > workers}

\* What the counter can have been, in one generation.
Readable == {i \in Int : i <= Size}

\* A view holds done calls that were made, and nothing else.
Honest(v) == v \in Views /\ v.work \subseteq Called

\* The counter carries all of them, which is why its zero says so much.
IInv ==
  /\ workers \in Int /\ workers <= Size
  /\ pc \in [Threads -> PcValues]
  /\ seen \in [Threads -> Readable] /\ work \in [Threads -> SUBSET Calls]
  /\ \A t \in Threads : work[t] \subseteq Called
  /\ atToken \in [Threads -> Views]
  /\ \A t \in Threads : atToken[t].work \subseteq Called
  /\ Honest(atWord)
  /\ atDone = Called
  /\ stale \in [Threads -> BOOLEAN]
  /\ came \subseteq Threads

LEMMA IInvInit == WeakInit => IInv
<1>. SUFFICES ASSUME WeakInit PROVE IInv
  OBVIOUS
<1>1. workers = Size /\ Called = {} /\ Size \in Nat
  BY GroupAssumption DEF WeakInit, Init, Called, Calls
<1>2. pc \in [Threads -> PcValues]
  BY DEF WeakInit, Init, PcValues
<1>3. NoView \in Views /\ NoView.work = {}
  BY <1>1 DEF NoView, Views
<1>. QED BY <1>1, <1>2, <1>3 DEF WeakInit, IInv, Honest, Readable

\* Two honest views make an honest one.
LEMMA JoinHonest ==
  ASSUME Size \in Nat, NEW v, NEW w, Honest(v), Honest(w)
  PROVE  Honest(Join(v, w))
<1>1. (IF v.seen < w.seen THEN v.seen ELSE w.seen) \in Readable
  BY DEF Honest, Views, Readable
<1>2. v.work \union w.work \in SUBSET Calls /\ v.work \union w.work \subseteq Called
  BY DEF Honest, Views
<1>. QED BY <1>1, <1>2 DEF Honest, Views, Join, Readable

\* What a thread, the word or a token carries is an honest view.
LEMMA ViewHonest ==
  ASSUME IInv, NEW t \in Threads
  PROVE  Honest(View(t)) /\ Honest(atToken[t])
  BY DEF IInv, Honest, View, Views, Readable

\* A thread that takes an honest view over has an honest view.
LEMMA SetViewHonest ==
  ASSUME IInv, NEW t \in Threads, NEW v, Honest(v), SetView(t, v)
  PROVE  /\ seen' \in [Threads -> Readable] /\ work' \in [Threads -> SUBSET Calls]
         /\ \A u \in Threads : work'[u] \subseteq Called
  BY DEF IInv, SetView, Honest, Views, Readable

\* The steps of the wait group on the counter and on the places of the code: a done
\* counts down, nothing else touches the counter, and only a look at it that
\* gives zero leads from the loop of park out of wait.
LEMMA Control ==
  ASSUME IInv, NEW t \in Threads, WeakArrive(t) \/ WeakContinue(t)
  PROVE  /\ pc' \in [Threads -> PcValues]
         /\ \/ workers' = workers
            \/ workers' = workers - 1 /\ CountDown(t)
         /\ \A u \in Threads : pc[u] = "retry" /\ pc'[u] = "idle" =>
              u = t /\ RetryReading(t, 0) /\ LoadCounter(t, 0)
<1>. USE DEF Goto, Return, Load, PcValues, WaitPcs, DonePcs, ClearPcs
<1>. pc \in [Threads -> PcValues]
  BY DEF IInv
<1>1. CASE Wait(t) \/ ParkLoad(t) \/ Push(t) \/ AbortLoad(t) \/ ParkReturn(t)
  BY <1>1 DEF Wait, ParkLoad, Push, AbortLoad, ParkReturn
<1>2. CASE AbortTry(t) \/ AbortNext(t) \/ AbortNotFound(t)
  BY <1>2 DEF AbortTry, AbortNext, AbortNotFound
<1>3. CASE AbortHead(t) \/ AbortMiddle(t)
  BY <1>3 DEF AbortHead, AbortMiddle
<1>4. CASE UnparkAllLoad(t) \/ UnparkAllTry(t)
  BY <1>4 DEF UnparkAllLoad, UnparkAllTry, StartWalk
<1>5. CASE UnparkAllWalk(t)
  BY <1>5 DEF UnparkAllWalk
<1>6. CASE UnparkAllCut(t) \/ UnparkAllClear(t)
  BY <1>6 DEF UnparkAllCut, UnparkAllClear, StartWalk
<1>7. CASE Done(t) /\ CountDown(t)
  BY <1>7 DEF Done
<1>8. CASE Look(t)
  <2>1. PICK w \in workers..seen[t] : /\ RetryReading(t, w) \/ RetryPushedReading(t, w)
                                     /\ LoadCounter(t, w)
    BY <1>8 DEF Look
  <2>2. CASE RetryReading(t, w)
    <3>1. CASE w = 0
      BY <2>1, <2>2, <3>1 DEF RetryReading
    <3>2. CASE w # 0
      BY <2>2, <3>2 DEF RetryReading
    <3>. QED BY <3>1, <3>2
  <2>3. CASE RetryPushedReading(t, w)
    BY <2>3 DEF RetryPushedReading
  <2>. QED BY <2>1, <2>2, <2>3
<1>. QED
  BY <1>1, <1>2, <1>3, <1>4, <1>5, <1>6, <1>7, <1>8
  DEF WeakArrive, WeakContinue, Relaxed, PushPublishes, AcquireQueue, ReleaseQueue, Wake,
      WokenUp

\* Every view stays honest, and the counter carries every done that was called.
LEMMA IInvStep == IInv /\ [WeakNext]_weakVars => IInv'
<1>. SUFFICES ASSUME IInv, [WeakNext]_weakVars PROVE IInv'
  OBVIOUS
<1>1. CASE UNCHANGED weakVars
  BY <1>1 DEF weakVars, vars, views, IInv, Honest, Called
<1>2. ASSUME NEW t \in Threads, WeakArrive(t) \/ WeakContinue(t) PROVE IInv'
  <2>1. /\ pc' \in [Threads -> PcValues]
        /\ \/ workers' = workers
           \/ workers' = workers - 1 /\ CountDown(t)
    BY <1>2, Control
  <2>2. Size \in Nat /\ workers \in Int /\ workers <= Size
    BY GroupAssumption DEF IInv
  <2>3. CASE workers' = workers - 1 /\ CountDown(t)
    <3>. DEFINE known == work[t] \union {workers} \union atDone
    <3>1. /\ workers' \in Int /\ workers' <= Size /\ workers \in Calls
          /\ Called' = Called \union {workers}
      BY <2>2, <2>3 DEF Called, Calls
    <3>2. known = Called'
      BY <3>1 DEF IInv
    <3>3. /\ SetView(t, [seen |-> workers', work |-> known])
          /\ atDone' = known /\ UNCHANGED <<atWord, atToken, stale, came>>
      BY <2>3 DEF CountDown
    <3>4. known \in SUBSET Calls
      BY <3>2, <3>1 DEF Called
    <3>5. seen' \in [Threads -> Readable] /\ work' \in [Threads -> SUBSET Calls]
      BY <3>1, <3>3, <3>4 DEF SetView, IInv, Readable
    <3>6. \A u \in Threads : work'[u] \subseteq Called'
      BY <3>1, <3>2, <3>3 DEF SetView, IInv
    <3>7. Honest(atWord)' /\ \A u \in Threads : atToken'[u].work \subseteq Called'
      BY <3>1, <3>3 DEF IInv, Honest
    <3>. QED
      BY <2>1, <3>1, <3>2, <3>3, <3>5, <3>6, <3>7 DEF IInv
  <2>4. ASSUME workers' = workers,
               seen' \in [Threads -> Readable], work' \in [Threads -> SUBSET Calls],
               \A u \in Threads : work'[u] \subseteq Called,
               atToken' \in [Threads -> Views],
               \A u \in Threads : atToken'[u].work \subseteq Called,
               Honest(atWord'), atDone' = atDone,
               stale' \in [Threads -> BOOLEAN], came' \subseteq Threads
        PROVE  IInv'
    <3>1. Called' = Called
      BY <2>4 DEF Called
    <3>. QED
      BY <2>1, <2>2, <2>4, <3>1 DEF IInv, Honest
  <2>5. CASE workers' = workers
    <3>1. CASE Relaxed(t)
      BY <2>4, <2>5, <3>1 DEF Relaxed, views, IInv
    <3>2. CASE Wait(t) /\ came' = came \union {t}
                       /\ UNCHANGED <<seen, work, atWord, atToken, atDone, stale>>
      BY <2>4, <2>5, <3>2 DEF IInv
    <3>3. CASE Done(t) /\ CountDown(t)
      BY <2>2, <2>5, <3>3 DEF Done
    <3>4. CASE Look(t)
      <4>0. PICK w \in workers..seen[t] : LoadCounter(t, w)
        BY <3>4 DEF Look
      <4>1. LoadCounter(t, w) /\ w \in Readable
        BY <2>2, <4>0 DEF IInv, Readable
      <4>2. /\ work[t] \union {d \in atDone : d > w} \in SUBSET Calls
            /\ work[t] \union {d \in atDone : d > w} \subseteq Called
        BY DEF IInv, Called
      <4>3. /\ seen' \in [Threads -> Readable] /\ work' \in [Threads -> SUBSET Calls]
            /\ \A u \in Threads : work'[u] \subseteq Called
        BY <4>1, <4>2 DEF LoadCounter, SetView, IInv
      <4>. QED
        BY <2>4, <2>5, <4>1, <4>3 DEF LoadCounter, IInv
    <3>5. ASSUME NEW acquire \in BOOLEAN, NEW release \in BOOLEAN,
                 OnWord(t, acquire, release)
          PROVE  /\ seen' \in [Threads -> Readable] /\ work' \in [Threads -> SUBSET Calls]
                 /\ \A u \in Threads : work'[u] \subseteq Called
                 /\ Honest(atWord') /\ UNCHANGED <<atDone, stale, came>>
      <4>. DEFINE v == IF acquire THEN Join(View(t), atWord) ELSE View(t)
      <4>1. Honest(atWord)
        BY DEF IInv
      <4>2. Honest(v)
        BY <2>2, <4>1, ViewHonest, JoinHonest
      <4>3. SetView(t, v) /\ atWord' = IF release THEN Join(atWord, v) ELSE atWord
        BY <3>5 DEF OnWord
      <4>4. Honest(atWord')
        <5>. HIDE DEF v
        <5>1. Honest(Join(atWord, v))
          BY <2>2, <4>1, <4>2, JoinHonest
        <5>. QED BY <4>1, <4>3, <5>1
      <4>. HIDE DEF v
      <4>. QED
        BY <3>5, <4>2, <4>3, <4>4, SetViewHonest DEF OnWord
    <3>6. CASE PushPublishes(t)
      <4>1. OnWord(t, TRUE, TRUE) /\ atToken' = [atToken EXCEPT ![t] = NoView]
        BY <3>6 DEF PushPublishes
      <4>2. NoView \in Views /\ NoView.work = {}
        BY <2>2 DEF NoView, Views
      <4>3. /\ atToken' \in [Threads -> Views]
            /\ \A u \in Threads : atToken'[u].work \subseteq Called
        BY <4>1, <4>2 DEF IInv
      <4>. QED
        BY <2>4, <2>5, <3>5, <4>1, <4>3 DEF IInv
    <3>7. CASE AcquireQueue(t) \/ ReleaseQueue(t)
      <4>1. /\ OnWord(t, TRUE, FALSE) \/ OnWord(t, FALSE, TRUE)
            /\ UNCHANGED atToken
        BY <3>7 DEF AcquireQueue, ReleaseQueue
      <4>. QED
        BY <2>4, <2>5, <3>5, <4>1 DEF IInv
    <3>8. CASE Wake(t)
      <4>. DEFINE cur == frame[t].cur
      <4>1. /\ UNCHANGED <<seen, work, atWord, atDone, stale, came>>
            /\ atToken' = [atToken EXCEPT ![cur] = IF Alive(cur) THEN View(t) ELSE @]
        BY <3>8 DEF Wake
      <4>2. View(t) \in Views /\ View(t).work \subseteq Called
        BY ViewHonest DEF Honest
      <4>3. /\ atToken' \in [Threads -> Views]
            /\ \A u \in Threads : atToken'[u].work \subseteq Called
        BY <4>1, <4>2 DEF IInv
      <4>. QED
        BY <2>4, <2>5, <4>1, <4>3 DEF IInv
    <3>9. CASE WokenUp(t)
      <4>1. Honest(Join(View(t), atToken[t]))
        BY <2>2, ViewHonest, JoinHonest
      <4>2. /\ SetView(t, Join(View(t), atToken[t]))
            /\ UNCHANGED <<atWord, atToken, atDone, stale, came>>
        BY <3>9 DEF WokenUp
      <4>. QED
        BY <2>4, <2>5, <4>1, <4>2, SetViewHonest DEF IInv
    <3>. QED
      BY <1>2, <3>1, <3>2, <3>3, <3>4, <3>6, <3>7, <3>8, <3>9
      DEF WeakArrive, WeakContinue
  <2>. QED BY <2>1, <2>3, <2>5
<1>. QED BY <1>1, <1>2 DEF WeakNext

LEMMA IInvAlways == WeakSpec => []IInv
  BY IInvInit, IInvStep, PTL DEF WeakSpec

\* Every view is one that the machine can have: of values that the counter took and
\* of done calls.
THEOREM ViewTypesCorrect == WeakSpec => []ViewTypes
<1>1. IInv => ViewTypes
  <2>. SUFFICES ASSUME IInv PROVE ViewTypes
    OBVIOUS
  <2>1. \A t \in Threads : View(t) \in Views /\ atToken[t] \in Views
    BY ViewHonest DEF Honest
  <2>. QED BY <2>1 DEF IInv, ViewTypes, Honest, Called
<1>. QED BY <1>1, IInvAlways, PTL

\* "A call to done synchronizes before the return of any Wait call that it
\* unblocks": a counter of zero carries the work before every done.
THEOREM DonesAreVisible == WeakSpec => DoneSynchronizes
<1>1. IInv /\ [WeakNext]_weakVars =>
        [\A t \in Threads :
           pc[t] = "retry" /\ pc'[t] = "idle" => Dones \subseteq work'[t]]_weakVars
  <2>. SUFFICES ASSUME IInv, WeakNext, NEW u \in Threads, pc[u] = "retry", pc'[u] = "idle"
                PROVE  Dones \subseteq work'[u]
    OBVIOUS
  <2>1. LoadCounter(u, 0)
    BY Control DEF WeakNext
  <2>2. workers \in Int /\ 0 \in workers..seen[u] /\ seen[u] \in Int
    BY <2>1 DEF LoadCounter, IInv, Readable
  <2>3. workers <= 0 /\ Size \in Nat
    BY <2>2, GroupAssumption
  <2>4. Dones \subseteq {d \in atDone : d > 0}
    BY <2>2, <2>3 DEF IInv, Called, Calls, Dones
  <2>5. work'[u] = work[u] \union {d \in atDone : d > 0}
    BY <2>1 DEF LoadCounter, SetView, IInv
  <2>. QED BY <2>4, <2>5
<1>. QED BY <1>1, IInvAlways, PTL DEF WeakSpec, DoneSynchronizes

-----------------------------------------------------------------------------
(* The only waiter, on a sequentially consistent machine and on the machine *)
(* of WaitGroupWeak. *)

\* The places of the code that only a waiter that has read zero comes to.
AbortPcs == {"abort_load", "abort_try", "abort_scan"}

\* A look at the counter that gives v, before or after the push.
LooksAt(t, v) == RetryReading(t, v) \/ RetryPushedReading(t, v)

\* The steps that neither begin a call nor touch the counter.
WaiterStep(t) ==
  \/ ParkLoad(t) \/ Push(t) \/ ParkReturn(t)
  \/ AbortLoad(t) \/ AbortTry(t) \/ AbortNext(t) \/ AbortNotFound(t)
  \/ AbortHead(t) \/ AbortMiddle(t)
DoneStep(t) ==
  \/ UnparkAllLoad(t) \/ UnparkAllTry(t) \/ UnparkAllWalk(t) \/ UnparkAllCut(t)
  \/ UnparkAllClear(t)

\* The steps of both machines: they differ in what a look may give.
GroupStep(t) == Wait(t) \/ Done(t) \/ (\E v : LooksAt(t, v)) \/ WaiterStep(t) \/ DoneStep(t)

\* The steps of WaitGroup.
LEMMA PlainSteps ==
  ASSUME NEW t \in Threads, Arrive(t) \/ Continue(t)
  PROVE  \/ Add(t) \/ Wait(t) \/ Done(t) \/ LooksAt(t, workers)
         \/ WaiterStep(t) \/ DoneStep(t)
  BY DEF Arrive, Continue, Retry, RetryPushed, LooksAt, WaiterStep, DoneStep

\* The steps of WaitGroupWeak, and what they do to the histories.
LEMMA WeakSteps ==
  ASSUME NEW t \in Threads, WeakArrive(t) \/ WeakContinue(t)
  PROVE  \/ Wait(t) /\ came' = came \union {t} /\ UNCHANGED stale
         \/ Done(t) /\ UNCHANGED <<came, stale>>
         \/ \E v \in workers..seen[t] : LooksAt(t, v) /\ LoadCounter(t, v)
         \/ (WaiterStep(t) \/ DoneStep(t)) /\ UNCHANGED <<came, stale>>
<1>. USE DEF WaiterStep, DoneStep
<1>1. CASE WeakArrive(t)
  BY <1>1 DEF WeakArrive, CountDown
<1>2. CASE Relaxed(t)
  BY <1>2 DEF Relaxed, views
<1>3. CASE Look(t)
  BY <1>3 DEF Look, LooksAt
<1>4. CASE PushPublishes(t) \/ AcquireQueue(t)
  BY <1>4 DEF PushPublishes, AcquireQueue, OnWord
<1>5. CASE ReleaseQueue(t)
  BY <1>5 DEF ReleaseQueue, OnWord
<1>6. CASE Wake(t) \/ WokenUp(t)
  BY <1>6 DEF Wake, WokenUp
<1>. QED BY <1>1, <1>2, <1>3, <1>4, <1>5, <1>6 DEF WeakContinue

\* A step of either machine keeps the types: a look moves the thread whatever it reads,
\* and the other steps are steps of WaitGroup.
LEMMA GroupTypeStep == ASSUME TypeOK, NEW t \in Threads, GroupStep(t) PROVE TypeOK'
<1>1. ASSUME NEW v, LooksAt(t, v) PROVE TypeOK'
  <2>1. pc' \in [Threads -> PcValues]
    BY <1>1, GotoType
    DEF LooksAt, RetryReading, RetryPushedReading, Goto, PcValues, WaitPcs
  <2>. QED BY <1>1, <2>1 DEF LooksAt, RetryReading, RetryPushedReading, TypeOK
<1>2. CASE Wait(t) \/ Done(t) \/ WaiterStep(t) \/ DoneStep(t)
  <2>1. Next
    BY <1>2 DEF Next, Arrive, Continue, WaiterStep, DoneStep
  <2>. QED BY <2>1, TypeStep
<1>. QED BY <1>1, <1>2 DEF GroupStep

LEMMA WeakIsGroupStep ==
  ASSUME NEW t \in Threads, WeakArrive(t) \/ WeakContinue(t) PROVE GroupStep(t)
  BY WeakSteps DEF GroupStep

\* The types of WaitGroup on the weak machine.
LEMMA WeakTypeStep == TypeOK /\ [WeakNext]_weakVars => TypeOK'
<1>1. TypeOK /\ UNCHANGED weakVars => TypeOK'
  BY TypeStep DEF weakVars
<1>. QED BY <1>1, WeakIsGroupStep, GroupTypeStep DEF WeakNext

\* Where a step may lead a thread.
LEMMA Moves ==
  ASSUME TypeOK, NEW t \in Threads, GroupStep(t)
  PROVE  /\ \A u \in Threads : u # t => pc'[u] = pc[u]
         /\ workers' = workers \/ (Done(t) /\ workers' = workers - 1)
         /\ pc'[t] \in DonePcs => pc[t] \in DonePcs \/ (workers = 1 /\ workers' = 0)
         /\ pc'[t] \in WaitPcs => pc[t] \in WaitPcs \/ Wait(t)
<1>. USE DEF Goto, Return, Load, PcValues, WaitPcs, DonePcs, ClearPcs
<1>0. pc \in [Threads -> PcValues] /\ workers \in Int
  BY DEF TypeOK
<1>1. CASE Wait(t)
  BY <1>0, <1>1 DEF Wait
<1>2. CASE Done(t)
  BY <1>0, <1>2 DEF Done
<1>3. ASSUME NEW v, LooksAt(t, v)
      PROVE  /\ \A u \in Threads : u # t => pc'[u] = pc[u]
             /\ workers' = workers /\ pc'[t] \notin DonePcs /\ pc[t] \in WaitPcs
  BY <1>0, <1>3 DEF LooksAt, RetryReading, RetryPushedReading
<1>4. CASE ParkLoad(t) \/ Push(t) \/ AbortLoad(t) \/ ParkReturn(t)
  BY <1>0, <1>4 DEF ParkLoad, Push, AbortLoad, ParkReturn
<1>5. CASE AbortTry(t) \/ AbortNext(t) \/ AbortNotFound(t)
  BY <1>0, <1>5 DEF AbortTry, AbortNext, AbortNotFound
<1>6. CASE AbortHead(t) \/ AbortMiddle(t)
  BY <1>0, <1>6 DEF AbortHead, AbortMiddle
<1>7. CASE UnparkAllLoad(t) \/ UnparkAllTry(t)
  BY <1>0, <1>7 DEF UnparkAllLoad, UnparkAllTry, StartWalk
<1>8. CASE UnparkAllWalk(t)
  BY <1>0, <1>8 DEF UnparkAllWalk
<1>9. CASE UnparkAllCut(t) \/ UnparkAllClear(t)
  BY <1>0, <1>9 DEF UnparkAllCut, UnparkAllClear, StartWalk
<1>. HIDE DEF Goto, Return, Load, PcValues, WaitPcs, DonePcs, ClearPcs
<1>. QED
  BY <1>1, <1>2, <1>3, <1>4, <1>5, <1>6, <1>7, <1>8, <1>9
  DEF GroupStep, WaiterStep, DoneStep

\* A thread that calls wait does nothing else.
LEMMA StartsWait ==
  ASSUME TypeOK, NEW t \in Threads, Wait(t)
  PROVE  ~Done(t) /\ (\A v : ~LooksAt(t, v)) /\ ~WaiterStep(t) /\ ~DoneStep(t)
<1>1. pc \in [Threads -> PcValues] /\ pc[t] = "idle" /\ pc'[t] = "retry"
  BY DEF TypeOK, Wait, Goto
<1>2. ~Done(t) /\ \A v : ~LooksAt(t, v)
  BY <1>1 DEF Done, LooksAt, RetryReading, RetryPushedReading, Goto
<1>3. ~WaiterStep(t)
  BY <1>1
  DEF WaiterStep, ParkLoad, Push, ParkReturn, AbortLoad, AbortTry, AbortNext, AbortNotFound,
      AbortHead, AbortMiddle, Goto
<1>4. ~DoneStep(t)
  BY <1>1
  DEF DoneStep, UnparkAllLoad, UnparkAllTry, UnparkAllWalk, UnparkAllCut, UnparkAllClear,
      Goto
<1>. QED BY <1>2, <1>3, <1>4

\* Only the done that counts down to zero goes to unpark_all, and there is one of it.
OneInDone ==
  /\ \A t, u \in Threads : pc[t] \in DonePcs /\ pc[u] \in DonePcs => t = u
  /\ workers > 0 => \A t \in Threads : pc[t] \notin DonePcs

\* Nobody but w is in wait.
Alone(w) == \A t \in Threads : pc[t] \in WaitPcs => t = w

\* The word that holds the node of w, or no node, and nobody at work on it.
Holds(w) == [flags |-> {}, head |-> w]

\* As long as the counter is not zero the queue is at rest: nobody has read zero.
Working(w) ==
  /\ \A t \in Threads : pc[t] \notin AbortPcs
  /\ ~node[w].notified
  /\ state = Holds(IF pc[w] \in {"pushed", "parked"} THEN w ELSE Null)

\* d is on its way to the node of w: it will read the word, or exchange it for the
\* clear bit, or has the node in its hands.
WakerOf(d, w) ==
  \/ pc[d] = "unpark_load" /\ state = Holds(w)
  \/ pc[d] = "unpark_try" /\ state = Holds(w) /\ frame[d].snap = state
  \/ pc[d] = "walk" /\ frame[d].cur = w

Asleep(w)   == pc[w] = "parked" /\ ~node[w].notified
HasWaker(w) == \E d \in Threads : WakerOf(d, w)

\* The counter only goes down, so it becomes zero once.
LEMMA OneInDoneStep ==
  ASSUME TypeOK, OneInDone, NEW t \in Threads, GroupStep(t) PROVE OneInDone'
<1>1. workers \in Int
  BY DEF TypeOK
<1>. QED BY <1>1, Moves DEF OneInDone

\* As long as the counter is not zero, the waiter only comes and pushes its node.
LEMMA WorkingStep ==
  ASSUME TypeOK, OneInDone, NEW w \in Threads, Alone(w)', Alone(w),
         workers > 0, workers' > 0, Working(w), NEW t \in Threads,
         Wait(t) \/ Done(t) \/ (\E v : v # 0 /\ LooksAt(t, v)) \/ WaiterStep(t) \/ DoneStep(t)
  PROVE  Working(w)'
<1>. USE DEF Goto, Return
<1>0. /\ pc \in [Threads -> PcValues] /\ frame \in [Threads -> Locals]
      /\ node \in [Threads -> ThreadDatas] /\ state \in Words
      /\ pc[t] \notin AbortPcs /\ pc[t] \notin DonePcs /\ workers \in Int
      /\ pc[t] \in WaitPcs => t = w
  BY DEF TypeOK, OneInDone, Alone, Working
<1>1. CASE Wait(t)
  <2>1. t = w
    BY <1>0, <1>1 DEF Wait, Alone, WaitPcs
  <2>. QED BY <1>0, <1>1, <2>1 DEF Wait, Working, AbortPcs
<1>2. CASE Done(t)
  <2>1. workers # 1 /\ pc[t] = "idle" /\ UNCHANGED <<node, state>>
    BY <1>0, <1>2 DEF Done
  <2>2. pc' = pc
    BY <1>0, <1>2, <2>1 DEF Done
  <2>. QED BY <2>1, <2>2 DEF Working
<1>3. ASSUME NEW v, v # 0, LooksAt(t, v) PROVE Working(w)'
  <2>1. \/ pc[t] = "retry" /\ pc' = [pc EXCEPT ![t] = "park_load"]
        \/ pc[t] = "pushed" /\ pc' = [pc EXCEPT ![t] = "parked"]
    BY <1>3 DEF LooksAt, RetryReading, RetryPushedReading
  <2>2. t = w /\ UNCHANGED <<node, state>>
    BY <1>0, <1>3, <2>1 DEF LooksAt, RetryReading, RetryPushedReading, WaitPcs
  <2>. QED BY <1>0, <2>1, <2>2 DEF Working, AbortPcs
<1>4. CASE ParkLoad(t)
  BY <1>0, <1>4 DEF ParkLoad, Working, AbortPcs, WaitPcs
<1>5. CASE Push(t)
  <2>1. pc[t] = "push" /\ t = w
    BY <1>0, <1>5 DEF Push, WaitPcs
  <2>2. state = Holds(Null)
    BY <2>1 DEF Working
  <2>3. CASE CasFails(t) /\ Return(t, "retry") /\ UNCHANGED <<state, node>>
    BY <1>0, <2>1, <2>3 DEF Working, AbortPcs
  <2>4. CASE /\ CasOk(t, [frame[t].snap EXCEPT !.head = t])
             /\ node' = [node EXCEPT ![t] = [NewThreadData EXCEPT !.next = frame[t].snap.head]]
             /\ Return(t, "pushed")
    <3>1. state' = Holds(w)
      BY <2>1, <2>2, <2>4 DEF CasOk, Holds
    <3>2. node'[w].notified = FALSE
      BY <1>0, <2>1, <2>4 DEF NewThreadData
    <3>. QED BY <1>0, <2>1, <2>4, <3>1, <3>2 DEF Working, AbortPcs
  <2>. QED BY <1>5, <2>3, <2>4 DEF Push
<1>6. CASE ParkReturn(t)
  BY <1>0, <1>6 DEF ParkReturn, Working, WaitPcs
<1>7. CASE \/ AbortLoad(t) \/ AbortTry(t) \/ AbortNext(t) \/ AbortNotFound(t)
           \/ AbortHead(t) \/ AbortMiddle(t)
  BY <1>0, <1>7
  DEF AbortLoad, AbortTry, AbortNext, AbortNotFound, AbortHead, AbortMiddle, AbortPcs
<1>8. CASE \/ UnparkAllLoad(t) \/ UnparkAllTry(t) \/ UnparkAllWalk(t) \/ UnparkAllCut(t)
           \/ UnparkAllClear(t)
  BY <1>0, <1>8
  DEF UnparkAllLoad, UnparkAllTry, UnparkAllWalk, UnparkAllCut, UnparkAllClear, DonePcs,
      ClearPcs
<1>. QED BY <1>1, <1>2, <1>3, <1>4, <1>5, <1>6, <1>7, <1>8 DEF WaiterStep, DoneStep

\* The done that makes the counter zero has the list before it.
LEMMA ZeroStep ==
  ASSUME TypeOK, NEW w \in Threads, workers > 0, workers' = 0, Working(w),
         NEW t \in Threads, GroupStep(t), pc'[w] = "parked"
  PROVE  HasWaker(w)'
<1>0. pc \in [Threads -> PcValues] /\ workers \in Int
  BY DEF TypeOK
<1>1. Done(t)
  BY <1>0, Moves
<1>2. workers = 1
  <2>1. workers' = workers - 1
    BY <1>1 DEF Done
  <2>. QED BY <1>0, <2>1
<1>3. pc[t] = "idle" /\ pc' = [pc EXCEPT ![t] = "unpark_load"] /\ UNCHANGED state
  BY <1>1, <1>2 DEF Done, Goto
<1>4. pc[w] = "parked" /\ state = Holds(w)
  BY <1>0, <1>3 DEF Working
<1>5. WakerOf(t, w)'
  BY <1>0, <1>3, <1>4 DEF WakerOf, Holds
<1>. QED BY <1>5 DEF HasWaker

\* A waiter falls asleep only if its look at the counter did not give zero.
LEMMA NoSleepOverZero ==
  ASSUME TypeOK, NEW w \in Threads,
         Wait(w) \/ Done(w) \/ LooksAt(w, 0) \/ WaiterStep(w) \/ DoneStep(w)
  PROVE  pc'[w] # "parked"
<1>. USE DEF Goto, Return
<1>0. pc \in [Threads -> PcValues]
  BY DEF TypeOK
<1>1. CASE Wait(w) \/ Done(w) \/ ParkLoad(w) \/ Push(w) \/ ParkReturn(w) \/ AbortLoad(w)
  BY <1>0, <1>1 DEF Wait, Done, ParkLoad, Push, ParkReturn, AbortLoad
<1>2. CASE \/ AbortTry(w) \/ AbortNext(w) \/ AbortNotFound(w) \/ AbortHead(w)
           \/ AbortMiddle(w)
  BY <1>0, <1>2 DEF AbortTry, AbortNext, AbortNotFound, AbortHead, AbortMiddle
<1>3. CASE DoneStep(w)
  BY <1>0, <1>3
  DEF DoneStep, UnparkAllLoad, UnparkAllTry, UnparkAllWalk, UnparkAllCut, UnparkAllClear,
      StartWalk
<1>4. CASE LooksAt(w, 0)
  BY <1>0, <1>4 DEF LooksAt, RetryReading, RetryPushedReading
<1>. QED BY <1>1, <1>2, <1>3, <1>4 DEF WaiterStep

\* Nobody stands between the waker and the waiter.
LEMMA WakerStep ==
  ASSUME TypeOK, OneInDone, NEW w \in Threads, Alone(w), Alone(w)', workers = 0, workers' = 0,
         Asleep(w) => HasWaker(w), NEW t \in Threads, t # w, GroupStep(t), Asleep(w)'
  PROVE  HasWaker(w)'
<1>. USE DEF Goto, Return
<1>0. /\ pc \in [Threads -> PcValues] /\ frame \in [Threads -> Locals]
      /\ node \in [Threads -> ThreadDatas] /\ state \in Words
      /\ Null \notin Threads /\ pc'[w] = "parked" /\ ~node'[w].notified
  BY GroupAssumption DEF TypeOK, Asleep
<1>1. pc[t] \notin WaitPcs /\ pc'[t] \notin WaitPcs /\ pc[w] = "parked"
  BY <1>0, Moves DEF Alone
<1>2. DoneStep(t)
  <2>1. ~Wait(t)
    BY <1>0, <1>1 DEF Wait, WaitPcs
  <2>2. ~Done(t)
    BY DEF Done
  <2>3. ASSUME NEW v PROVE ~LooksAt(t, v)
    BY <1>1 DEF LooksAt, RetryReading, RetryPushedReading, WaitPcs
  <2>4. ~WaiterStep(t)
    BY <1>1
    DEF WaiterStep, ParkLoad, Push, ParkReturn, AbortLoad, AbortTry, AbortNext,
        AbortNotFound, AbortHead, AbortMiddle, WaitPcs
  <2>. QED BY <2>1, <2>2, <2>3, <2>4 DEF GroupStep
<1>3. pc[t] \in DonePcs
  BY <1>2
  DEF DoneStep, UnparkAllLoad, UnparkAllTry, UnparkAllWalk, UnparkAllCut, UnparkAllClear,
      DonePcs, ClearPcs
<1>4. ~node[w].notified
  <2>1. CASE UnparkAllWalk(t)
    <3>1. CASE node' = node
      BY <1>0, <3>1
    <3>2. CASE node' = [node EXCEPT ![frame[t].cur].notified = TRUE]
      BY <1>0, <3>2 DEF ThreadDatas
    <3>. QED BY <2>1, <3>1, <3>2 DEF UnparkAllWalk
  <2>2. CASE UnparkAllLoad(t) \/ UnparkAllTry(t) \/ UnparkAllCut(t) \/ UnparkAllClear(t)
    BY <1>0, <2>2 DEF UnparkAllLoad, UnparkAllTry, UnparkAllCut, UnparkAllClear
  <2>. QED BY <1>2, <2>1, <2>2 DEF DoneStep
<1>5. WakerOf(t, w)
  <2>1. PICK d \in Threads : WakerOf(d, w)
    BY <1>1, <1>4 DEF Asleep, HasWaker
  <2>2. pc[d] \in DonePcs
    BY <2>1 DEF WakerOf, DonePcs, ClearPcs
  <2>. QED BY <1>3, <2>1, <2>2 DEF OneInDone
<1>. SUFFICES WakerOf(t, w)'
  BY DEF HasWaker
<1>6. CASE UnparkAllLoad(t)
  <2>1. /\ state' = state /\ pc' = [pc EXCEPT ![t] = "unpark_try"]
        /\ frame' = [frame EXCEPT ![t].snap = state] /\ state = Holds(w)
    BY <1>5, <1>6 DEF UnparkAllLoad, Load, WakerOf
  <2>2. pc'[t] = "unpark_try" /\ frame'[t].snap = state
    BY <1>0, <2>1 DEF Locals
  <2>. QED BY <2>1, <2>2 DEF WakerOf, Holds
<1>7. CASE UnparkAllTry(t)
  <2>1. pc[t] = "unpark_try" /\ state = Holds(w) /\ frame[t].snap = Holds(w)
    BY <1>5, <1>7 DEF UnparkAllTry, WakerOf
  <2>2. CASE Load(t) /\ UNCHANGED <<state, pc>>
    <3>1. frame'[t].snap = state
      BY <1>0, <2>2 DEF Load, Locals
    <3>. QED BY <2>1, <2>2, <3>1 DEF WakerOf, Holds
  <2>3. CASE StartWalk(t, frame[t].snap)
    <3>1. frame[t].snap.head = w
      BY <2>1 DEF Holds
    <3>2. pc'[t] = "walk" /\ frame'[t].cur = w
      BY <1>0, <2>3, <3>1 DEF StartWalk, Locals
    <3>. QED BY <3>2 DEF WakerOf
  <2>4. QUEUE_CLEAR_BIT \notin frame[t].snap.flags
    BY <2>1 DEF Holds
  <2>. QED BY <1>7, <2>2, <2>3, <2>4 DEF UnparkAllTry
<1>8. CASE UnparkAllWalk(t)
  <2>1. frame[t].cur = w /\ Alive(w)
    BY <1>1, <1>5, <1>8 DEF UnparkAllWalk, WakerOf, Alive
  <2>2. node' = [node EXCEPT ![w].notified = TRUE]
    BY <1>8, <2>1 DEF UnparkAllWalk
  <2>3. node'[w].notified
    BY <1>0, <2>2 DEF ThreadDatas
  <2>. QED BY <1>0, <2>3
<1>9. CASE UnparkAllCut(t) \/ UnparkAllClear(t)
  BY <1>5, <1>9 DEF UnparkAllCut, UnparkAllClear, WakerOf
<1>. QED BY <1>2, <1>6, <1>7, <1>8, <1>9 DEF DoneStep

-----------------------------------------------------------------------------

\* The only waiter of one generation on a sequentially consistent machine.
SoleWaiter(w) ==
  /\ OneInDone
  /\ Alone(w)
  /\ workers > 0 => Working(w)
  /\ workers = 0 /\ Asleep(w) => HasWaker(w)

LEMMA SoleWaiterInit ==
  ASSUME Init, NEW w \in Threads PROVE SoleWaiter(w)
<1>1. \A t \in Threads : pc[t] = "idle" /\ ~node[t].notified
  BY DEF Init, NewThreadData
<1>. QED
  BY <1>1
  DEF SoleWaiter, OneInDone, Alone, Working, Asleep, Holds, AbortPcs, DonePcs, ClearPcs,
      WaitPcs, Init, IDLE

\* The thread that counted down to zero finds the waiter on the list, or the waiter
\* finds the zero.
LEMMA SoleWaiterStep ==
  ASSUME NEW w \in Threads, Waiters = {w}, MaxAdds = 0,
         TypeOK, SoleWaiter(w), [Next]_vars
  PROVE  SoleWaiter(w)'
<1>1. CASE UNCHANGED vars
  BY <1>1 DEF vars, SoleWaiter, OneInDone, Alone, Working, Asleep, HasWaker, WakerOf, Holds
<1>2. ASSUME NEW t \in Threads, Arrive(t) \/ Continue(t) PROVE SoleWaiter(w)'
  <2>0. workers \in Int /\ OneInDone /\ Alone(w)
    BY DEF TypeOK, SoleWaiter
  <2>1. \/ Wait(t) \/ Done(t) \/ LooksAt(t, workers) \/ WaiterStep(t) \/ DoneStep(t)
    <3>1. ~Add(t)
      BY DEF Add, TypeOK
    <3>. QED BY <1>2, <3>1, PlainSteps
  <2>2. GroupStep(t)
    BY <2>1 DEF GroupStep
  <2>3. OneInDone'
    BY <2>0, <2>2, OneInDoneStep
  <2>4. Alone(w)'
    <3>1. Wait(t) => t = w
      BY DEF Wait
    <3>. QED BY <2>0, <2>2, <3>1, Moves DEF Alone
  <2>5. workers' \in Int /\ (workers' >= 0 => workers' = workers \/ workers' = workers - 1)
    BY <2>0, <2>2, Moves DEF Done
  <2>6. CASE workers > 0 /\ workers' > 0
    BY <2>0, <2>1, <2>3, <2>4, <2>6, WorkingStep DEF SoleWaiter
  <2>7. CASE workers > 0 /\ workers' = 0
    BY <2>0, <2>2, <2>3, <2>4, <2>7, ZeroStep DEF SoleWaiter, Asleep
  <2>8. CASE workers = 0 /\ workers' = 0
    <3>1. ASSUME Asleep(w)' PROVE HasWaker(w)'
      <4>1. t # w
        BY <2>1, <2>8, <3>1, NoSleepOverZero DEF Asleep
      <4>2. Asleep(w) => HasWaker(w)
        BY <2>8 DEF SoleWaiter
      <4>. QED BY <2>0, <2>2, <2>4, <2>8, <3>1, <4>1, <4>2, WakerStep
    <3>. QED BY <2>3, <2>4, <2>5, <2>8, <3>1 DEF SoleWaiter
  <2>9. CASE workers' < 0
    BY <2>3, <2>4, <2>5, <2>9 DEF SoleWaiter
  <2>. QED BY <2>0, <2>5, <2>6, <2>7, <2>8, <2>9
<1>. QED BY <1>1, <1>2 DEF Next

\* "If the counter becomes zero, all threads blocked on wait are released", where one
\* thread waits for one generation: for any number of workers it sleeps on over zero
\* only while a done is in unpark_all. With a second waiter or an add it may be left.
THEOREM SoleWaiterIsWoken ==
  ASSUME NEW w \in Threads, Waiters = {w}, MaxAdds = 0
  PROVE  Spec => []ParkedIsWoken
<1>1. SoleWaiter(w) => ParkedIsWoken
  <2>. SUFFICES ASSUME SoleWaiter(w), NEW u \in Threads, pc[u] = "parked",
                       ~node[u].notified, workers = 0
                PROVE  \E t \in Threads : pc[t] \in DonePcs
    BY DEF ParkedIsWoken
  <2>1. u = w
    BY DEF SoleWaiter, Alone, WaitPcs
  <2>2. HasWaker(w)
    BY <2>1 DEF SoleWaiter, Asleep
  <2>. QED BY <2>2 DEF HasWaker, WakerOf, DonePcs, ClearPcs
<1>2. Init => SoleWaiter(w)
  BY SoleWaiterInit
<1>3. TypeOK /\ SoleWaiter(w) /\ [Next]_vars => SoleWaiter(w)'
  BY SoleWaiterStep
<1>. QED BY <1>1, <1>2, <1>3, GroupTypeCorrect, PTL DEF Spec

\* The only waiter on the weak machine: came says who it is, and stale when its last
\* look at the counter says nothing.
OneWaiter ==
  /\ OneInDone
  /\ \A t \in Threads : pc[t] \in WaitPcs => t \in came
  /\ \A w \in Threads : came \subseteq {w} =>
       /\ workers > 0 => Working(w)
       /\ workers = 0 /\ ~stale[w] /\ Asleep(w) => HasWaker(w)

LEMMA OneWaiterInit == WeakInit => TypeOK /\ OneWaiter
<1>. SUFFICES ASSUME WeakInit PROVE TypeOK /\ OneWaiter
  OBVIOUS
<1>1. Init /\ \A t \in Threads : pc[t] = "idle"
  BY DEF WeakInit, Init
<1>2. OneInDone
  BY <1>1 DEF OneInDone, DonePcs, ClearPcs
<1>. QED BY <1>1, <1>2, TypeInit, SoleWaiterInit DEF OneWaiter, SoleWaiter, WaitPcs

\* A look that is out of date is what stale is about.
LEMMA OneWaiterStep == IInv /\ TypeOK /\ OneWaiter /\ [WeakNext]_weakVars => OneWaiter'
<1>. SUFFICES ASSUME IInv, TypeOK, OneWaiter, [WeakNext]_weakVars PROVE OneWaiter'
  OBVIOUS
<1>1. CASE UNCHANGED weakVars
  BY <1>1
  DEF weakVars, vars, views, OneWaiter, OneInDone, Working, Asleep, HasWaker, WakerOf, Holds
<1>2. ASSUME NEW t \in Threads, WeakArrive(t) \/ WeakContinue(t) PROVE OneWaiter'
  <2>0. workers \in Int /\ OneInDone /\ stale \in [Threads -> BOOLEAN]
    BY DEF TypeOK, IInv, OneWaiter
  <2>1. GroupStep(t)
    BY <1>2, WeakIsGroupStep
  <2>2. OneInDone'
    BY <2>0, <2>1, OneInDoneStep
  <2>3. came \subseteq came' /\ (Wait(t) => t \in came')
    <3>1. Wait(t) => ~Done(t) /\ (\A v : ~LooksAt(t, v)) /\ ~WaiterStep(t) /\ ~DoneStep(t)
      BY <2>0, StartsWait
    <3>. QED BY <1>2, <3>1, WeakSteps DEF LoadCounter
  <2>4. \A u \in Threads : pc'[u] \in WaitPcs => u \in came'
    BY <2>1, <2>3, Moves DEF OneWaiter
  <2>5. workers' \in Int /\ (workers' >= 0 => workers' = workers \/ workers' = workers - 1)
    BY <2>0, <2>1, Moves DEF Done
  <2>6. ASSUME NEW w \in Threads, came' \subseteq {w}
        PROVE  /\ workers' > 0 => Working(w)'
               /\ workers' = 0 /\ ~stale'[w] /\ Asleep(w)' => HasWaker(w)'
    <3>1. /\ workers > 0 => Working(w)
          /\ workers = 0 /\ ~stale[w] /\ Asleep(w) => HasWaker(w)
      BY <2>3, <2>6 DEF OneWaiter
    <3>2. Alone(w) /\ Alone(w)'
      BY <2>3, <2>4, <2>6 DEF Alone, OneWaiter
    <3>3. CASE workers > 0 /\ workers' > 0
      <4>1. \/ Wait(t) \/ Done(t) \/ (\E v : v # 0 /\ LooksAt(t, v)) \/ WaiterStep(t)
            \/ DoneStep(t)
        <5>1. ASSUME NEW v \in workers..seen[t], LooksAt(t, v), LoadCounter(t, v)
              PROVE  v # 0
          BY <2>0, <3>3, <5>1 DEF LoadCounter, IInv, Readable
        <5>. QED BY <1>2, <5>1, WeakSteps
      <4>. QED BY <2>0, <3>1, <3>2, <3>3, <4>1, WorkingStep
    <3>4. CASE workers > 0 /\ workers' = 0
      BY <2>1, <3>1, <3>4, ZeroStep DEF Asleep
    <3>5. CASE workers = 0 /\ workers' = 0 /\ ~stale'[w] /\ Asleep(w)'
      <4>1. t # w
        <5>. SUFFICES ASSUME t = w PROVE FALSE
          OBVIOUS
        <5>1. PICK v \in workers..seen[w] : LooksAt(w, v) /\ LoadCounter(w, v)
          BY <1>2, <3>5, WeakSteps, NoSleepOverZero DEF Asleep
        <5>2. v # 0
          BY <3>5, <5>1, NoSleepOverZero DEF Asleep
        <5>. QED BY <2>0, <3>5, <5>1, <5>2 DEF LoadCounter
      <4>2. stale'[w] = stale[w]
        BY <1>2, <2>0, <4>1, WeakSteps DEF LoadCounter
      <4>3. Asleep(w) => HasWaker(w)
        BY <3>1, <3>5, <4>2
      <4>. QED BY <2>0, <2>1, <2>5, <3>2, <3>5, <4>1, <4>3, WakerStep
    <3>. QED BY <2>0, <2>5, <3>3, <3>4, <3>5
  <2>. QED BY <2>2, <2>4, <2>6 DEF OneWaiter
<1>. QED BY <1>1, <1>2 DEF WeakNext

\* "Blocks until the WaitGroup counter is zero", with one waiter and any number of
\* workers: a waiter that sleeps on over zero, with nobody in unpark_all, can only
\* have read the counter out of date after its push.
THEOREM OnlyStaleReadsStrand == WeakSpec => []OnlyStaleReadStrands
<1>1. OneWaiter => OnlyStaleReadStrands
  <2>. SUFFICES ASSUME OneWaiter, NEW w \in Threads, came = {w}, pc[w] = "parked",
                       ~node[w].notified, workers = 0, ~stale[w]
                PROVE  \E t \in Threads : pc[t] \in DonePcs
    BY DEF OnlyStaleReadStrands
  <2>1. HasWaker(w)
    BY DEF OneWaiter, Asleep
  <2>. QED BY <2>1 DEF HasWaker, WakerOf, DonePcs, ClearPcs
<1>. QED BY <1>1, IInvAlways, OneWaiterInit, WeakTypeStep, OneWaiterStep, PTL DEF WeakSpec

\* The clear bit belongs to one thread on the weak machine too: a look at the counter,
\* whatever it gives, is not one of the steps that touch the word.
THEOREM AtMostOneWakerWeak == WeakSpec => []OneWaker
<1>1. WeakInit => TypeOK /\ OneWaker
  BY TypeInit DEF WeakInit, Init, OneWaker, IDLE, ClearPcs
<1>2. TypeOK /\ OneWaker /\ [WeakNext]_weakVars => OneWaker'
  <2>1. TypeOK /\ OneWaker /\ UNCHANGED weakVars => OneWaker'
    BY OneWakerStep DEF weakVars
  <2>2. ASSUME TypeOK, OneWaker, NEW t \in Threads, NEW v, LooksAt(t, v) PROVE OneWaker'
    <3>1. PICK to : to \notin ClearPcs /\ pc' = [pc EXCEPT ![t] = to]
      BY <2>2 DEF LooksAt, RetryReading, RetryPushedReading, Goto, ClearPcs
    <3>2. pc[t] \notin ClearPcs /\ state' = state
      BY <2>2 DEF LooksAt, RetryReading, RetryPushedReading, Goto, ClearPcs
    <3>. QED BY <2>2, <3>1, <3>2, OutsideClear
  <2>3. ASSUME TypeOK, OneWaker, NEW t \in Threads,
               Wait(t) \/ Done(t) \/ WaiterStep(t) \/ DoneStep(t)
        PROVE  OneWaker'
    <3>1. Next
      BY <2>3 DEF Next, Arrive, Continue, WaiterStep, DoneStep
    <3>. QED BY <2>3, <3>1, OneWakerStep
  <2>. QED BY <2>1, <2>2, <2>3, WeakIsGroupStep DEF WeakNext, GroupStep
<1>. QED BY <1>1, <1>2, WeakTypeStep, PTL DEF WeakSpec
=============================================================================
