------------------------ MODULE MutexOverFutexProofs ------------------------
(***************************************************************************)
(* RawMutex over futexes implements RawMutex over tokens, for every set of *)
(* threads and every width of the word, so every theorem about RawMutex is *)
(* one about MutexOverFutex. Its threads are never all asleep.             *)
(***************************************************************************)
EXTENDS MutexOverFutex, RawMutexListProofs

\* Only a thread that has pushed itself is inside park.
OnlySleepersPark ==
  \A u \in Threads : place[u] # "running" => pc[u] = "parked"

\* A sleeper's word says NOTIFIED only if an unlocker has notified it.
WordTellsTruth ==
  \A u \in Threads : pc[u] = "parked" /\ word[u] = NOTIFIED => node[u].notified

\* The word is PARKED only behind fetch_sub, and not EMPTY behind it.
WordAtPlace ==
  \A u \in Threads : /\ place[u] # "running" => word[u] # EMPTY
                     /\ place[u] = "running" /\ pc[u] = "parked" => word[u] # PARKED

FInv ==
  /\ TypeInv
  /\ ParkerTypes
  /\ OnlySleepersPark
  /\ WordTellsTruth
  /\ WordAtPlace
  /\ NotifiedSleeperIsWoken

\* The three values of the word differ.
LEMMA ValuesDiffer ==
  /\ EMPTY # NOTIFIED /\ EMPTY # PARKED /\ NOTIFIED # PARKED
  /\ wrapping_dec(EMPTY) = PARKED
  /\ wrapping_dec(NOTIFIED) = EMPTY
BY FutexAssumption DEF EMPTY, NOTIFIED, PARKED, wrapping_dec

\* What a thread does outside of park and unpark tells no sleeper anything, and
\* moves no other thread.
LEMMA ElsewhereTellsNobody ==
  ASSUME TypeInv, NEW t \in Threads, Elsewhere(t), Continue(t)
  PROVE  \A u \in Threads \ {t} :
           pc'[u] = pc[u] /\ node'[u].notified = node[u].notified
<1>1. /\ pc \in [Threads -> PcValues]
      /\ node \in [Threads -> ThreadDatas]
      /\ pc[t] # "parked" /\ pc[t] # "us_wake" /\ pc[t] # "usf_wake"
  BY DEF TypeInv, TypeOK, Elsewhere, WakePcs
<1>2. ASSUME UNCHANGED node, \E to : pc' = [pc EXCEPT ![t] = to]
      PROVE  \A u \in Threads \ {t} :
               pc'[u] = pc[u] /\ node'[u].notified = node[u].notified
  BY <1>1, <1>2
<1>3. CASE \/ IsLockedReturn(t) \/ LockSlowLoad(t) \/ UnlockSlowLoad(t)
           \/ UnlockFairLoad(t) \/ Unlock(t) \/ UnlockFair(t)
  BY <1>2, <1>3
  DEF IsLockedReturn, LockSlowLoad, UnlockSlowLoad, UnlockFairLoad, Unlock, UnlockFair,
      Goto, NoListChange
<1>4. CASE LockSlowGrab(t) \/ LockSlowSpin(t)
  BY <1>1, <1>4 DEF LockSlowGrab, LockSlowSpin, Return, NoListChange
<1>5. CASE LockSlowPark(t)
  BY <1>1, <1>5 DEF LockSlowPark, Return, NoListChange
<1>6. CASE UnlockFairClear(t) \/ UnlockSlowReturn(t)
  BY <1>1, <1>6 DEF UnlockFairClear, UnlockSlowReturn, Return, NoListChange
<1>7. CASE UnlockSlowTry(t) \/ UnlockFairTry(t)
  BY <1>1, <1>7 DEF UnlockSlowTry, UnlockFairTry, NoListChange
<1>8. CASE UnlockSlowRelease(t)
  BY <1>1, <1>8 DEF UnlockSlowRelease, Return, Relink, NoListChange
<1>9. CASE LinkPrev(t)
  BY <1>1, <1>9 DEF LinkPrev, ThreadDatas
<1>10. CASE LinkDone(t)
  BY <1>1, <1>10 DEF LinkDone, ThreadDatas
<1>11. ASSUME NEW from, NEW link, NEW wake, NEW kept, PopLast(t, from, link, wake, kept)
       PROVE  \A u \in Threads \ {t} :
                pc'[u] = pc[u] /\ node'[u].notified = node[u].notified
  BY <1>1, <1>11 DEF PopLast, Relink, NoListChange
<1>12. ASSUME NEW from, NEW wake, NEW cleared, PopMore(t, from, wake, cleared)
       PROVE  \A u \in Threads \ {t} :
                pc'[u] = pc[u] /\ node'[u].notified = node[u].notified
  BY <1>1, <1>12 DEF PopMore, Goto, ThreadDatas
<1>13. CASE UnlockSlowPopLast(t) \/ UnlockFairPopLast(t)
  BY <1>11, <1>13 DEF UnlockSlowPopLast, UnlockFairPopLast
<1>14. CASE UnlockSlowPopMore(t) \/ UnlockFairPopMore(t)
  BY <1>12, <1>14 DEF UnlockSlowPopMore, UnlockFairPopMore
<1>15. ~ParkReturn(t) /\ ~UnlockSlowWake(t) /\ ~UnlockFairWake(t)
  BY <1>1 DEF ParkReturn, Resume, UnlockSlowWake, UnlockFairWake
<1>. QED
  BY <1>3, <1>4, <1>5, <1>6, <1>7, <1>8, <1>9, <1>10, <1>13, <1>14, <1>15 DEF Continue

\* An unpark notifies the thread in frame[t].tail and moves nobody but t.
LEMMA WakeTells ==
  ASSUME TypeInv, NEW t \in Threads, UnlockSlowWake(t) \/ UnlockFairWake(t)
  PROVE  /\ frame[t].tail \in Threads
         /\ node'[frame[t].tail].notified
         /\ \A u \in Threads : node[u].notified => node'[u].notified
         /\ \A u \in Threads \ {t} : pc'[u] = pc[u]
         /\ pc[t] # "parked" /\ pc'[t] # "parked"
<1>1. /\ pc \in [Threads -> PcValues]
      /\ node \in [Threads -> ThreadDatas]
      /\ frame[t].tail \in Threads
      /\ pc[t] # "parked" /\ pc' = [pc EXCEPT ![t] = "idle"]
  BY DEF TypeInv, TypeOK, TailKnown, Locals, Pointers, WakePcs, UnlockSlowWake,
         UnlockFairWake, Return
<1>2. CASE UnlockSlowWake(t)
  BY <1>1, <1>2 DEF UnlockSlowWake, ThreadDatas
<1>3. CASE UnlockFairWake(t)
  BY <1>1, <1>3 DEF UnlockFairWake, ThreadDatas
<1>. QED BY <1>2, <1>3

\* A thread that returns from park is no longer a sleeper.
LEMMA ResumeMoves ==
  ASSUME TypeInv, NEW t \in Threads, Resume(t)
  PROVE  /\ pc[t] = "parked" /\ pc'[t] # "parked"
         /\ \A u \in Threads \ {t} :
              pc'[u] = pc[u] /\ node'[u].notified = node[u].notified
<1>1. pc \in [Threads -> PcValues] /\ node \in [Threads -> ThreadDatas]
  BY DEF TypeInv, TypeOK
<1>. QED BY <1>1 DEF Resume, Return

-----------------------------------------------------------------------------
\* Every step over futexes is a step over tokens, or none.
LEMMA FutexStepIsMutexStep == FInv /\ [FutexNext]_allVars => [Next]_vars
<1>. SUFFICES ASSUME FInv, [FutexNext]_allVars PROVE [Next]_vars
  OBVIOUS
<1>1. ASSUME NEW t \in Threads, Park(t) PROVE [Next]_vars
  <2>1. CASE word[t] = NOTIFIED
    <3>1. Resume(t) /\ pc[t] = "parked"
      BY <1>1, <2>1 DEF Park
    <3>2. node[t].notified
      BY <2>1, <3>1 DEF FInv, WordTellsTruth
    <3>. QED BY <3>1, <3>2 DEF Next, Continue, ParkReturn
  <2>2. CASE word[t] # NOTIFIED
    BY <1>1, <2>2 DEF Park
  <2>. QED BY <2>1, <2>2
<1>2. ASSUME NEW t \in Threads, Recheck(t) PROVE [Next]_vars
  <2>1. CASE word[t] = NOTIFIED
    <3>1. Resume(t) /\ pc[t] = "parked"
      BY <1>2, <2>1 DEF Recheck, Resume
    <3>2. node[t].notified
      BY <2>1, <3>1 DEF FInv, WordTellsTruth
    <3>. QED BY <3>1, <3>2 DEF Next, Continue, ParkReturn
  <2>2. CASE word[t] # NOTIFIED
    BY <1>2, <2>2 DEF Recheck
  <2>. QED BY <2>1, <2>2
<1>3. ASSUME NEW t \in Threads,
             FutexWait(t) \/ SpuriousWakeup(t) \/ WakeOne(t)
      PROVE  UNCHANGED vars
  BY <1>3 DEF FutexWait, SpuriousWakeup, WakeOne
<1>4. ASSUME NEW t \in Threads, Call(t) \/ Proceed(t) \/ UnparkSwap(t) PROVE Next
  BY <1>4 DEF Call, Proceed, UnparkSwap, Next, Continue
<1>5. CASE UNCHANGED allVars
  BY <1>5 DEF allVars
<1>. QED BY <1>1, <1>2, <1>3, <1>4, <1>5 DEF FutexNext, Run

LEMMA FutexInitial == FutexInit => FInv
<1>. SUFFICES ASSUME FutexInit PROVE FInv
  OBVIOUS
<1>1. TypeInv
  BY TypeInit DEF FutexInit
<1>2. \A u \in Threads : pc[u] = "idle" /\ place[u] = "running" /\ word[u] = EMPTY
  BY DEF FutexInit, Init
<1>3. ParkerTypes
  BY DEF FutexInit, ParkerTypes, Places, Pointers
<1>. QED
  BY <1>1, <1>2, <1>3 DEF FInv, OnlySleepersPark, WordTellsTruth, WordAtPlace,
                           NotifiedSleeperIsWoken

\* What the steps of the parkers do to each sleeper.
LEMMA FutexStepKeepsInv == FInv /\ [FutexNext]_allVars => FInv'
<1>. SUFFICES ASSUME FInv, [FutexNext]_allVars PROVE FInv'
  OBVIOUS
<1>1. TypeInv'
  BY FutexStepIsMutexStep, TypeStep DEF FInv
<1>2. /\ TypeInv /\ ParkerTypes /\ OnlySleepersPark /\ WordTellsTruth /\ WordAtPlace
      /\ NotifiedSleeperIsWoken
  BY DEF FInv
<1>3. /\ word \in [Threads -> {EMPTY, NOTIFIED, PARKED}]
      /\ place \in [Threads -> Places]
      /\ waking \in [Threads -> Pointers]
      /\ pc \in [Threads -> PcValues]
  BY <1>2 DEF ParkerTypes, TypeInv, TypeOK
<1>. DEFINE Keeps == /\ ParkerTypes' /\ OnlySleepersPark' /\ WordTellsTruth'
                     /\ WordAtPlace' /\ NotifiedSleeperIsWoken'
<1>. SUFFICES Keeps
  BY <1>1 DEF FInv
<1>4. ASSUME NEW t \in Threads, Resume(t), word' = [word EXCEPT ![t] = EMPTY],
             place' = [place EXCEPT ![t] = "running"], UNCHANGED waking
      PROVE  Keeps
  <2>1. /\ pc'[t] # "parked"
        /\ \A u \in Threads \ {t} :
             pc'[u] = pc[u] /\ node'[u].notified = node[u].notified
    BY <1>2, <1>4, ResumeMoves
  <2>2. ParkerTypes'
    BY <1>3, <1>4 DEF ParkerTypes, Places
  <2>3. OnlySleepersPark' /\ WordTellsTruth' /\ WordAtPlace'
    BY <1>2, <1>3, <1>4, <2>1 DEF OnlySleepersPark, WordTellsTruth, WordAtPlace
  <2>4. NotifiedSleeperIsWoken'
    BY <1>2, <1>3, <1>4 DEF NotifiedSleeperIsWoken
  <2>. QED BY <2>2, <2>3, <2>4
<1>5. ASSUME NEW t \in Threads, Park(t) PROVE Keeps
  <2>1. CASE word[t] = NOTIFIED
    <3>1. /\ Resume(t) /\ place[t] = "running" /\ place' = place /\ waking' = waking
          /\ word' = [word EXCEPT ![t] = EMPTY]
      BY <1>3, <1>5, <2>1, ValuesDiffer DEF Park
    <3>2. place' = [place EXCEPT ![t] = "running"]
      BY <1>3, <3>1
    <3>. QED BY <1>4, <3>1, <3>2
  <2>2. CASE word[t] # NOTIFIED
    <3>1. /\ pc[t] = "parked" /\ place[t] = "running" /\ UNCHANGED <<vars, waking>>
          /\ place' = [place EXCEPT ![t] = "waiting"]
      BY <1>5, <2>2 DEF Park, Move
    <3>2. word[t] = EMPTY
      BY <1>2, <1>3, <2>2, <3>1 DEF WordAtPlace
    <3>3. word' = [word EXCEPT ![t] = PARKED]
      BY <1>3, <1>5, <3>2, ValuesDiffer DEF Park
    <3>4. ParkerTypes'
      BY <1>3, <3>1, <3>3 DEF ParkerTypes, Places
    <3>5. OnlySleepersPark' /\ WordTellsTruth' /\ WordAtPlace'
      BY <1>2, <1>3, <3>1, <3>3, ValuesDiffer
      DEF OnlySleepersPark, WordTellsTruth, WordAtPlace, vars
    <3>6. NotifiedSleeperIsWoken'
      BY <1>2, <1>3, <3>1, <3>3, ValuesDiffer DEF NotifiedSleeperIsWoken
    <3>. QED BY <3>4, <3>5, <3>6
  <2>. QED BY <2>1, <2>2
<1>6. ASSUME NEW t \in Threads, FutexWait(t) \/ SpuriousWakeup(t) PROVE Keeps
  <2>1. PICK to \in {"sleeping", "woken"} :
          /\ place[t] # "running" /\ place' = [place EXCEPT ![t] = to]
          /\ to = "sleeping" => word[t] = PARKED
          /\ UNCHANGED <<vars, word, waking>>
    BY <1>6 DEF FutexWait, SpuriousWakeup, Move
  <2>2. ParkerTypes'
    BY <1>3, <2>1 DEF ParkerTypes, Places
  <2>3. OnlySleepersPark' /\ WordTellsTruth' /\ WordAtPlace'
    BY <1>2, <1>3, <2>1 DEF OnlySleepersPark, WordTellsTruth, WordAtPlace, vars
  <2>4. NotifiedSleeperIsWoken'
    BY <1>2, <1>3, <2>1, ValuesDiffer DEF NotifiedSleeperIsWoken
  <2>. QED BY <2>2, <2>3, <2>4
<1>7. ASSUME NEW t \in Threads, Recheck(t) PROVE Keeps
  <2>1. CASE word[t] = NOTIFIED
    <3>1. /\ Resume(t) /\ place' = [place EXCEPT ![t] = "running"] /\ waking' = waking
          /\ word' = [word EXCEPT ![t] = EMPTY]
      BY <1>3, <1>7, <2>1 DEF Recheck, Move
    <3>. QED BY <1>4, <3>1
  <2>2. CASE word[t] # NOTIFIED
    <3>1. /\ place[t] = "woken" /\ place' = [place EXCEPT ![t] = "waiting"]
          /\ UNCHANGED <<vars, waking>> /\ word' = word
      BY <1>3, <1>7, <2>2 DEF Recheck, Move
    <3>2. ParkerTypes'
      BY <1>3, <3>1 DEF ParkerTypes, Places
    <3>3. OnlySleepersPark' /\ WordTellsTruth' /\ WordAtPlace'
      BY <1>2, <1>3, <3>1 DEF OnlySleepersPark, WordTellsTruth, WordAtPlace, vars
    <3>4. NotifiedSleeperIsWoken'
      BY <1>2, <1>3, <3>1 DEF NotifiedSleeperIsWoken
    <3>. QED BY <3>2, <3>3, <3>4
  <2>. QED BY <2>1, <2>2
<1>8. ASSUME NEW t \in Threads, waking[t] = Null, UnparkSwap(t) PROVE Keeps
  <2>. DEFINE v == frame[t].tail
  <2>1. /\ v \in Threads /\ node'[v].notified
        /\ \A u \in Threads : node[u].notified => node'[u].notified
        /\ \A u \in Threads \ {t} : pc'[u] = pc[u]
        /\ pc[t] # "parked" /\ pc'[t] # "parked"
    BY <1>2, <1>8, WakeTells DEF UnparkSwap
  <2>2. /\ word' = [word EXCEPT ![v] = NOTIFIED] /\ place' = place
        /\ waking' = [waking EXCEPT ![t] = IF word[v] = PARKED THEN v ELSE Null]
    BY <1>8 DEF UnparkSwap
  <2>. HIDE DEF v
  <2>3. ParkerTypes'
    BY <1>3, <2>1, <2>2 DEF ParkerTypes, Pointers
  <2>4. OnlySleepersPark'
    BY <1>2, <1>3, <2>1, <2>2 DEF OnlySleepersPark
  <2>5. WordTellsTruth' /\ WordAtPlace'
    BY <1>2, <1>3, <2>1, <2>2, ValuesDiffer DEF WordTellsTruth, WordAtPlace
  <2>6. NotifiedSleeperIsWoken'
    <3>1. ASSUME NEW u \in Threads, place[u] = "sleeping", word'[u] = NOTIFIED
          PROVE  \E w \in Threads : waking'[w] = u
      <4>1. CASE u = v /\ word[v] = PARKED
        BY <1>3, <2>2, <4>1
      <4>2. CASE ~(u = v /\ word[v] = PARKED)
        <5>1. word[u] = NOTIFIED
          BY <1>2, <1>3, <2>1, <2>2, <3>1, <4>2 DEF WordAtPlace
        <5>2. PICK w \in Threads : waking[w] = u
          BY <1>2, <3>1, <5>1 DEF NotifiedSleeperIsWoken
        <5>3. w # t
          BY <1>8, <5>2, ThreadsAssumption
        <5>. QED BY <1>3, <2>2, <5>2, <5>3
      <4>. QED BY <4>1, <4>2
    <3>. QED BY <2>2, <3>1 DEF NotifiedSleeperIsWoken
  <2>. QED BY <2>3, <2>4, <2>5, <2>6
<1>9. ASSUME NEW t \in Threads, WakeOne(t) PROVE Keeps
  <2>. DEFINE v == waking[t]
  <2>1. /\ v \in Threads /\ UNCHANGED <<vars, word>>
        /\ waking' = [waking EXCEPT ![t] = Null]
        /\ place' = [place EXCEPT ![v] = IF @ = "sleeping" THEN "woken" ELSE @]
    BY <1>3, <1>9 DEF WakeOne, Pointers
  <2>. HIDE DEF v
  <2>2. /\ place'[v] # "sleeping" /\ (place'[v] = "running" <=> place[v] = "running")
        /\ \A u \in Threads \ {v} : place'[u] = place[u]
    BY <1>3, <2>1
  <2>3. ParkerTypes'
    BY <1>3, <2>1 DEF ParkerTypes, Pointers, Places
  <2>4. OnlySleepersPark' /\ WordTellsTruth' /\ WordAtPlace'
    BY <1>2, <1>3, <2>1, <2>2 DEF OnlySleepersPark, WordTellsTruth, WordAtPlace, vars
  <2>5. NotifiedSleeperIsWoken'
    <3>1. ASSUME NEW u \in Threads, place'[u] = "sleeping", word[u] = NOTIFIED
          PROVE  \E w \in Threads : waking'[w] = u
      <4>1. u # v /\ place[u] = "sleeping"
        BY <2>2, <3>1
      <4>2. PICK w \in Threads : waking[w] = u
        BY <1>2, <3>1, <4>1 DEF NotifiedSleeperIsWoken
      <4>. QED BY <1>3, <2>1, <4>1, <4>2 DEF v
    <3>. QED BY <2>1, <3>1 DEF NotifiedSleeperIsWoken
  <2>. QED BY <2>3, <2>4, <2>5
<1>10. ASSUME NEW t \in Threads, Call(t) PROVE Keeps
  <2>1. /\ UNCHANGED <<node, word, place, waking>> /\ pc[t] = "idle" /\ pc'[t] # "parked"
        /\ \A u \in Threads \ {t} : pc'[u] = pc[u]
    BY <1>3, <1>10 DEF Call, parkers, Arrive, TryLock, LockContended, IsLocked, Goto,
                       NoListChange
  <2>2. place[t] = "running"
    BY <1>2, <2>1 DEF OnlySleepersPark
  <2>. QED
    BY <1>2, <2>1, <2>2
    DEF ParkerTypes, OnlySleepersPark, WordTellsTruth, WordAtPlace, NotifiedSleeperIsWoken
<1>11. ASSUME NEW t \in Threads, Proceed(t) PROVE Keeps
  <2>1. \A u \in Threads \ {t} : pc'[u] = pc[u] /\ node'[u].notified = node[u].notified
    BY <1>2, <1>11, ElsewhereTellsNobody DEF Proceed
  <2>2. /\ UNCHANGED <<place, waking>> /\ pc[t] # "parked"
        /\ word' = [word EXCEPT ![t] = IF pc'[t] = "parked" THEN EMPTY ELSE @]
    BY <1>11 DEF Proceed, Elsewhere, FreshWord
  <2>3. place[t] = "running"
    BY <1>2, <2>2 DEF OnlySleepersPark
  <2>4. ParkerTypes'
    BY <1>3, <2>2 DEF ParkerTypes
  <2>5. OnlySleepersPark' /\ WordTellsTruth' /\ WordAtPlace'
    BY <1>2, <1>3, <2>1, <2>2, <2>3, ValuesDiffer
    DEF OnlySleepersPark, WordTellsTruth, WordAtPlace
  <2>6. NotifiedSleeperIsWoken'
    BY <1>2, <1>3, <2>2, <2>3 DEF NotifiedSleeperIsWoken
  <2>. QED BY <2>4, <2>5, <2>6
<1>12. CASE UNCHANGED allVars
  BY <1>2, <1>12
  DEF allVars, parkers, vars, ParkerTypes, OnlySleepersPark, WordTellsTruth, WordAtPlace,
      NotifiedSleeperIsWoken
<1>. QED
  BY <1>5, <1>6, <1>7, <1>8, <1>9, <1>10, <1>11, <1>12 DEF FutexNext, Run

LEMMA FutexInvariant == FutexSpec => []FInv
BY FutexInitial, FutexStepKeepsInv, PTL DEF FutexSpec

-----------------------------------------------------------------------------
\* No sleeper that an unlocker has notified is left asleep in the kernel.
THEOREM NoSleeperIsForgotten == FutexSpec => []NotifiedSleeperIsWoken
<1>1. FInv => NotifiedSleeperIsWoken
  BY DEF FInv
<1>. QED BY <1>1, FutexInvariant, PTL

\* The words of the parkers hold one of their three values, whatever late and
\* repeated calls of unpark do to them.
THEOREM WordsAreConsistent == FutexSpec => []ParkerTypes
<1>1. FInv => ParkerTypes
  BY DEF FInv
<1>. QED BY <1>1, FutexInvariant, PTL

\* The mutex over futexes is the mutex over tokens.
THEOREM FutexMutexIsRawMutex == FutexSpec => ImplementsRawMutex
<1>1. FutexInit => Init
  BY DEF FutexInit
<1>. QED
  BY <1>1, FutexInvariant, FutexStepIsMutexStep, PTL
  DEF FutexSpec, ImplementsRawMutex, Spec

\* So the mutex of the library, from the word down to the system calls, implements
\* the abstract lock with its line of sleepers.
THEOREM FutexMutexImplementsSpec == FutexSpec => RefinesMutexSpec
BY FutexMutexIsRawMutex, ImplementsMutexSpec, PTL DEF ImplementsRawMutex

\* It is exclusive.
THEOREM FutexMutexIsExclusive == FutexSpec => []MutualExclusion
BY FutexMutexIsRawMutex, MutexIsExclusive, PTL DEF ImplementsRawMutex

\* And the list of sleepers has one worker at a time, futexes included.
THEOREM FutexQueueIsExclusive == FutexSpec => []QueueLockExclusive
BY FutexMutexIsRawMutex, QueueLockIsExclusive, PTL DEF ImplementsRawMutex

-----------------------------------------------------------------------------
(* The parkers. *)

\* The word of a thread that does not sleep is fresh.
GoneIsEmpty == \A u \in Threads : pc[u] # "parked" => word[u] = EMPTY

\* An unlocker that wakes a sleeper finds it in park, so it never writes a word
\* whose ThreadData is gone.
LEMMA GoneStep ==
  FInv /\ NodesAlive /\ GoneIsEmpty /\ [FutexNext]_allVars => GoneIsEmpty'
<1>. SUFFICES ASSUME FInv, NodesAlive, GoneIsEmpty, [FutexNext]_allVars PROVE GoneIsEmpty'
  OBVIOUS
<1>1. /\ word \in [Threads -> {EMPTY, NOTIFIED, PARKED}]
      /\ pc \in [Threads -> PcValues]
      /\ TypeInv
  BY DEF FInv, ParkerTypes, TypeInv, TypeOK
<1>2. ASSUME NEW t \in Threads, Resume(t), word' = [word EXCEPT ![t] = EMPTY]
      PROVE  GoneIsEmpty'
  BY <1>1, <1>2, ResumeMoves DEF GoneIsEmpty
<1>3. ASSUME NEW t \in Threads, pc[t] = "parked", UNCHANGED pc,
             NEW w, word' = [word EXCEPT ![t] = w]
      PROVE  GoneIsEmpty'
  BY <1>1, <1>3 DEF GoneIsEmpty
<1>4. ASSUME NEW t \in Threads, Park(t) PROVE GoneIsEmpty'
  <2>1. CASE word[t] = NOTIFIED
    BY <1>1, <1>2, <1>4, <2>1, ValuesDiffer DEF Park
  <2>2. CASE word[t] # NOTIFIED
    BY <1>3, <1>4, <2>2 DEF Park, vars
  <2>. QED BY <2>1, <2>2
<1>5. ASSUME NEW t \in Threads, Recheck(t) PROVE GoneIsEmpty'
  <2>1. CASE word[t] = NOTIFIED
    BY <1>1, <1>2, <1>5, <2>1 DEF Recheck
  <2>2. CASE word[t] # NOTIFIED
    BY <1>1, <1>5, <2>2 DEF Recheck, vars, GoneIsEmpty
  <2>. QED BY <2>1, <2>2
<1>6. ASSUME NEW t \in Threads, FutexWait(t) \/ SpuriousWakeup(t) \/ WakeOne(t)
      PROVE  GoneIsEmpty'
  BY <1>6 DEF FutexWait, SpuriousWakeup, WakeOne, vars, GoneIsEmpty
<1>7. ASSUME NEW t \in Threads, UnparkSwap(t) PROVE GoneIsEmpty'
  <2>1. pc[t] \in WakePcs /\ pc' = [pc EXCEPT ![t] = "idle"]
    BY <1>7 DEF UnparkSwap, UnlockSlowWake, UnlockFairWake, Return, WakePcs
  <2>2. PICK v \in Threads : v = frame[t].tail /\ pc[v] = "parked"
    BY <2>1 DEF NodesAlive, Asleep
  <2>3. v # t /\ word' = [word EXCEPT ![v] = NOTIFIED]
    BY <1>7, <2>1, <2>2 DEF UnparkSwap, WakePcs
  <2>. QED BY <1>1, <2>1, <2>2, <2>3 DEF GoneIsEmpty, WakePcs
<1>8. ASSUME NEW t \in Threads, Call(t) PROVE GoneIsEmpty'
  BY <1>1, <1>8
  DEF Call, parkers, Arrive, TryLock, LockContended, IsLocked, Goto, GoneIsEmpty
<1>9. ASSUME NEW t \in Threads, Proceed(t) PROVE GoneIsEmpty'
  <2>1. \A u \in Threads \ {t} : pc'[u] = pc[u]
    BY <1>1, <1>9, ElsewhereTellsNobody DEF Proceed
  <2>2. /\ pc[t] # "parked"
        /\ word' = [word EXCEPT ![t] = IF pc'[t] = "parked" THEN EMPTY ELSE @]
    BY <1>9 DEF Proceed, Elsewhere, FreshWord
  <2>. QED BY <1>1, <2>1, <2>2 DEF GoneIsEmpty
<1>10. CASE UNCHANGED allVars
  BY <1>10 DEF allVars, parkers, vars, GoneIsEmpty
<1>. QED
  BY <1>4, <1>5, <1>6, <1>7, <1>8, <1>9, <1>10 DEF FutexNext, Run

\* A step that leaves the parts of a parker alone leaves the parker alone.
LEMMA ParkerAlone ==
  ASSUME NEW u \in Threads, word'[u] = word[u], place'[u] = place[u],
         \A t \in Threads : waking'[t] = u <=> waking[t] = u
  PROVE  UNCHANGED Parker(u)!vars
BY DEF Parker!vars

\* Every step of the mutex is one that FutexParker allows, for every parker.
LEMMA ParkerStep ==
  FInv /\ GoneIsEmpty /\ [FutexNext]_allVars =>
    \A u \in Threads : Parker(u)!Next \/ UNCHANGED Parker(u)!vars
<1>. SUFFICES ASSUME FInv, GoneIsEmpty, [FutexNext]_allVars, NEW u \in Threads
              PROVE  Parker(u)!Next \/ UNCHANGED Parker(u)!vars
  OBVIOUS
<1>1. /\ word \in [Threads -> {EMPTY, NOTIFIED, PARKED}]
      /\ place \in [Threads -> Places]
      /\ waking \in [Threads -> Pointers]
  BY DEF FInv, ParkerTypes
<1>. DEFINE Allowed == Parker(u)!Next \/ UNCHANGED Parker(u)!vars
<1>2. ASSUME NEW t \in Threads, Call(t) \/ Proceed(t) PROVE Allowed
  <2>1. word' = word
    <3>1. CASE Call(t)
      BY <3>1 DEF Call, parkers
    <3>2. CASE Proceed(t)
      BY <1>1, <3>2 DEF Proceed, Elsewhere, FreshWord, GoneIsEmpty
    <3>. QED BY <1>2, <3>1, <3>2
  <2>2. UNCHANGED <<place, waking>>
    BY <1>2 DEF Call, Proceed, parkers
  <2>. QED BY <2>1, <2>2, ParkerAlone
<1>3. ASSUME NEW t \in Threads, t # u,
             Park(t) \/ FutexWait(t) \/ SpuriousWakeup(t) \/ Recheck(t)
      PROVE  Allowed
  <2>1. word'[u] = word[u] /\ place'[u] = place[u] /\ UNCHANGED waking
    BY <1>1, <1>3 DEF Park, FutexWait, SpuriousWakeup, Recheck, Move
  <2>. QED BY <2>1, ParkerAlone
<1>4. CASE Park(u)
  <2>1. place[u] = "running" /\ UNCHANGED waking /\ word'[u] = wrapping_dec(word[u])
    BY <1>1, <1>4 DEF Park, Move
  <2>2. CASE word[u] = NOTIFIED
    <3>1. place'[u] = "running"
      BY <1>4, <2>1, <2>2 DEF Park
    <3>2. Parker(u)!Park("park")
      BY <2>1, <2>2, <3>1
      DEF Parker!Park, Parker!Return, Parker!NOTIFIED, Parker!wrapping_dec, NOTIFIED,
          wrapping_dec
    <3>. QED BY <3>2 DEF Parker!Next
  <2>3. CASE word[u] # NOTIFIED
    <3>1. place'[u] = "waiting"
      BY <1>1, <1>4, <2>3 DEF Park, Move
    <3>2. Parker(u)!Park("park")
      BY <2>1, <2>3, <3>1
      DEF Parker!Park, Parker!LoopTop, Parker!NOTIFIED, Parker!wrapping_dec, NOTIFIED,
          wrapping_dec
    <3>. QED BY <3>2 DEF Parker!Next
  <2>. QED BY <2>2, <2>3
<1>5. CASE FutexWait(u)
  <2>1. /\ place[u] = "waiting" /\ UNCHANGED <<word, waking>>
        /\ place'[u] = IF word[u] = PARKED THEN "sleeping" ELSE "woken"
    BY <1>1, <1>5 DEF FutexWait, Move
  <2>2. Parker(u)!FutexWait
    BY <2>1 DEF Parker!FutexWait, Parker!PARKED, PARKED
  <2>. QED BY <2>2 DEF Parker!Next
<1>6. CASE SpuriousWakeup(u)
  <2>1. place[u] = "sleeping" /\ UNCHANGED <<word, waking>> /\ place'[u] = "woken"
    BY <1>1, <1>6 DEF SpuriousWakeup, Move
  <2>2. Parker(u)!SpuriousWakeup
    BY <2>1 DEF Parker!SpuriousWakeup
  <2>. QED BY <2>2 DEF Parker!Next
<1>7. CASE Recheck(u)
  <2>1. /\ place[u] = "woken" /\ UNCHANGED waking
        /\ place'[u] = IF word[u] = NOTIFIED THEN "running" ELSE "waiting"
        /\ word'[u] = IF word[u] = NOTIFIED THEN EMPTY ELSE word[u]
    BY <1>1, <1>7 DEF Recheck, Move
  <2>2. Parker(u)!Recheck
    BY <2>1
    DEF Parker!Recheck, Parker!Return, Parker!LoopTop, Parker!NOTIFIED, Parker!EMPTY,
        NOTIFIED, EMPTY
  <2>. QED BY <2>2 DEF Parker!Next
<1>8. ASSUME NEW t \in Threads, waking[t] = Null, UnparkSwap(t) PROVE Allowed
  <2>1. PICK v \in Threads : v = frame[t].tail
    BY <1>8, WakeTells DEF FInv, UnparkSwap
  <2>2. /\ word' = [word EXCEPT ![v] = NOTIFIED] /\ place' = place
        /\ waking' = [waking EXCEPT ![t] = IF word[v] = PARKED THEN v ELSE Null]
    BY <1>8, <2>1 DEF UnparkSwap
  <2>3. CASE u # v
    <3>1. \A w \in Threads : waking'[w] = u <=> waking[w] = u
      BY <1>1, <1>8, <2>2, <2>3, ThreadsAssumption
    <3>. QED BY <1>1, <2>2, <2>3, <3>1, ParkerAlone
  <2>4. CASE u = v
    <3>1. word'[u] = NOTIFIED /\ place'[u] = place[u]
      BY <1>1, <2>2, <2>4
    <3>2. {w \in Threads : waking'[w] = u} =
            IF word[u] = PARKED THEN {w \in Threads : waking[w] = u} \union {t}
                                ELSE {w \in Threads : waking[w] = u}
      BY <1>1, <1>8, <2>2, <2>4, ThreadsAssumption
    <3>3. t \notin {w \in Threads : waking[w] = u}
      BY <1>8, ThreadsAssumption
    <3>4. Parker(u)!UnparkSwap(t)
      BY <3>1, <3>2, <3>3
      DEF Parker!UnparkSwap, Parker!NOTIFIED, Parker!PARKED, NOTIFIED, PARKED
    <3>. QED BY <3>4 DEF Parker!Next
  <2>. QED BY <2>3, <2>4
<1>9. ASSUME NEW t \in Threads, WakeOne(t) PROVE Allowed
  <2>1. PICK v \in Threads : v = waking[t]
    BY <1>1, <1>9 DEF WakeOne, Pointers
  <2>2. /\ UNCHANGED word /\ waking' = [waking EXCEPT ![t] = Null]
        /\ place' = [place EXCEPT ![v] = IF @ = "sleeping" THEN "woken" ELSE @]
    BY <1>9, <2>1 DEF WakeOne
  <2>3. CASE u # v
    <3>1. \A w \in Threads : waking'[w] = u <=> waking[w] = u
      BY <1>1, <2>1, <2>2, <2>3, ThreadsAssumption
    <3>. QED BY <1>1, <2>2, <2>3, <3>1, ParkerAlone
  <2>4. CASE u = v
    <3>1. /\ place'[u] = IF place[u] = "sleeping" THEN "woken" ELSE place[u]
          /\ place'[u] = "running" <=> place[u] = "running"
      BY <1>1, <2>2, <2>4
    <3>2. {w \in Threads : waking'[w] = u} = {w \in Threads : waking[w] = u} \ {t}
      BY <1>1, <2>1, <2>2, <2>4, ThreadsAssumption
    <3>3. Parker(u)!WakeOne(t)
      BY <2>1, <2>2, <2>4, <3>1, <3>2 DEF Parker!WakeOne
    <3>. QED BY <3>3 DEF Parker!Next
  <2>. QED BY <2>3, <2>4
<1>10. CASE UNCHANGED allVars
  BY <1>10, ParkerAlone DEF allVars, parkers
<1>. QED
  BY <1>2, <1>3, <1>4, <1>5, <1>6, <1>7, <1>8, <1>9, <1>10 DEF FutexNext, Run

\* Whatever the unlockers do to the parker of a sleeper, before, during and after
\* the life of its ThreadData, is something FutexParker allows its unparkers to do,
\* so that its theorems hold for the parkers of the mutex.
THEOREM ParkersAreUsedRight == FutexSpec => ParkersAreFutexParkers
<1>1. FutexInit => GoneIsEmpty
  BY DEF FutexInit, GoneIsEmpty
<1>2. FutexSpec => []NodesAlive
  BY FutexMutexIsRawMutex, NodesStayAlive, PTL DEF ImplementsRawMutex
<1>3. FutexSpec => []GoneIsEmpty
  BY <1>1, <1>2, GoneStep, FutexInvariant, PTL DEF FutexSpec
<1>4. FInv /\ GoneIsEmpty /\ [FutexNext]_allVars =>
        [\A u \in Threads : Parker(u)!Next \/ UNCHANGED Parker(u)!vars]_allVars
  BY ParkerStep
<1>. QED
  BY <1>3, <1>4, FutexInvariant, PTL DEF FutexSpec, ParkersAreFutexParkers

-----------------------------------------------------------------------------
(* Nobody sleeps alone. *)

\* A sleeper that was told to wake up finds that in its word.
NotifiedInWord ==
  \A u \in Threads : pc[u] = "parked" /\ node[u].notified => word[u] = NOTIFIED

\* Who goes to sleep has just pushed a ThreadData that nobody has told anything.
LEMMA OnlyPushersPark ==
  ASSUME TypeInv, NEW t \in Threads, Elsewhere(t), Continue(t), pc'[t] = "parked"
  PROVE  ~node'[t].notified
<1>1. /\ pc \in [Threads -> PcValues]
      /\ node \in [Threads -> ThreadDatas]
      /\ pc[t] # "parked" /\ pc[t] # "us_wake" /\ pc[t] # "usf_wake"
  BY DEF TypeInv, TypeOK, Elsewhere, WakePcs
<1>2. ~ParkReturn(t) /\ ~UnlockSlowWake(t) /\ ~UnlockFairWake(t)
  BY <1>1 DEF ParkReturn, Resume, UnlockSlowWake, UnlockFairWake
<1>3. ~IsLockedReturn(t) /\ ~LockSlowLoad(t) /\ ~LockSlowGrab(t) /\ ~LockSlowSpin(t)
  BY <1>1 DEF IsLockedReturn, LockSlowLoad, LockSlowGrab, LockSlowSpin, Goto, Return
<1>4. ~Unlock(t) /\ ~UnlockFair(t) /\ ~UnlockFairClear(t)
  BY <1>1 DEF Unlock, UnlockFair, UnlockFairClear, Goto, Return
<1>5. ~UnlockSlowLoad(t) /\ ~UnlockSlowReturn(t) /\ ~UnlockSlowTry(t)
  BY <1>1 DEF UnlockSlowLoad, UnlockSlowReturn, UnlockSlowTry, Goto, Return
<1>6. ~LinkPrev(t) /\ ~LinkDone(t) /\ ~UnlockSlowRelease(t)
  BY <1>1 DEF LinkPrev, LinkDone, UnlockSlowRelease, Return, Relink
<1>7. ~UnlockFairLoad(t) /\ ~UnlockFairTry(t)
  BY <1>1 DEF UnlockFairLoad, UnlockFairTry, Goto
<1>8. /\ ~UnlockSlowPopLast(t) /\ ~UnlockSlowPopMore(t)
      /\ ~UnlockFairPopLast(t) /\ ~UnlockFairPopMore(t)
  BY <1>1
  DEF UnlockSlowPopLast, UnlockSlowPopMore, UnlockFairPopLast, UnlockFairPopMore,
      PopLast, PopMore, Goto, Relink
<1>9. LockSlowPark(t)
  BY <1>2, <1>3, <1>4, <1>5, <1>6, <1>7, <1>8 DEF Continue
<1>10. node' = [node EXCEPT ![t] = PushedNode(t, frame[t].snap.head)]
  BY <1>1, <1>9 DEF LockSlowPark
<1>. QED BY <1>1, <1>10 DEF PushedNode, NewThreadData

\* Only an unpark tells anybody, and it writes the word; only the sleeper itself
\* takes the notification out again, when it leaves park.
LEMMA NotifiedStep ==
  FInv /\ NotifiedInWord /\ [FutexNext]_allVars => NotifiedInWord'
<1>. SUFFICES ASSUME FInv, NotifiedInWord, [FutexNext]_allVars PROVE NotifiedInWord'
  OBVIOUS
<1>1. /\ word \in [Threads -> {EMPTY, NOTIFIED, PARKED}]
      /\ pc \in [Threads -> PcValues]
      /\ node \in [Threads -> ThreadDatas]
      /\ TypeInv
  BY DEF FInv, ParkerTypes, TypeInv, TypeOK
<1>2. ASSUME NEW t \in Threads, Resume(t), NEW w, word' = [word EXCEPT ![t] = w]
      PROVE  NotifiedInWord'
  BY <1>1, <1>2, ResumeMoves DEF NotifiedInWord
<1>3. ASSUME NEW t \in Threads, word[t] # NOTIFIED, UNCHANGED <<pc, node>>,
             NEW w, word' = [word EXCEPT ![t] = w]
      PROVE  NotifiedInWord'
  BY <1>1, <1>3 DEF NotifiedInWord
<1>4. ASSUME NEW t \in Threads, Park(t) PROVE NotifiedInWord'
  <2>1. CASE word[t] = NOTIFIED
    BY <1>2, <1>4, <2>1 DEF Park
  <2>2. CASE word[t] # NOTIFIED
    BY <1>3, <1>4, <2>2 DEF Park, vars
  <2>. QED BY <2>1, <2>2
<1>5. ASSUME NEW t \in Threads, Recheck(t) PROVE NotifiedInWord'
  <2>1. CASE word[t] = NOTIFIED
    BY <1>2, <1>5, <2>1 DEF Recheck
  <2>2. CASE word[t] # NOTIFIED
    BY <1>3, <1>5, <2>2 DEF Recheck, vars
  <2>. QED BY <2>1, <2>2
<1>6. ASSUME NEW t \in Threads, FutexWait(t) \/ SpuriousWakeup(t) \/ WakeOne(t)
      PROVE  NotifiedInWord'
  BY <1>6 DEF FutexWait, SpuriousWakeup, WakeOne, vars, NotifiedInWord
<1>7. ASSUME NEW t \in Threads, UnparkSwap(t) PROVE NotifiedInWord'
  <2>1. /\ \A u \in Threads \ {t} : pc'[u] = pc[u]
        /\ pc'[t] # "parked" /\ frame[t].tail \in Threads
    BY <1>1, <1>7, WakeTells DEF UnparkSwap
  <2>2. \A u \in Threads \ {frame[t].tail} : node'[u] = node[u]
    BY <1>1, <1>7, <2>1 DEF UnparkSwap, UnlockSlowWake, UnlockFairWake
  <2>3. word' = [word EXCEPT ![frame[t].tail] = NOTIFIED]
    BY <1>7 DEF UnparkSwap
  <2>. QED BY <1>1, <2>1, <2>2, <2>3 DEF NotifiedInWord
<1>8. ASSUME NEW t \in Threads, Call(t) PROVE NotifiedInWord'
  BY <1>1, <1>8
  DEF Call, parkers, Arrive, TryLock, LockContended, IsLocked, Goto, NoListChange,
      NotifiedInWord
<1>9. ASSUME NEW t \in Threads, Proceed(t) PROVE NotifiedInWord'
  <2>1. \A u \in Threads \ {t} : pc'[u] = pc[u] /\ node'[u].notified = node[u].notified
    BY <1>1, <1>9, ElsewhereTellsNobody DEF Proceed
  <2>2. /\ pc[t] # "parked"
        /\ word' = [word EXCEPT ![t] = IF pc'[t] = "parked" THEN EMPTY ELSE @]
    BY <1>9 DEF Proceed, Elsewhere, FreshWord
  <2>3. pc'[t] = "parked" => ~node'[t].notified
    BY <1>1, <1>9, OnlyPushersPark DEF Proceed
  <2>. QED BY <1>1, <2>1, <2>2, <2>3 DEF NotifiedInWord
<1>10. CASE UNCHANGED allVars
  BY <1>10 DEF allVars, parkers, vars, NotifiedInWord
<1>. QED
  BY <1>4, <1>5, <1>6, <1>7, <1>8, <1>9, <1>10 DEF FutexNext, Run

\* An unlocker that has a futex to wake does nothing else.
WakersOnlyWake == \A t \in Threads : waking[t] # Null => pc[t] = "idle"

LEMMA WakersStep ==
  FInv /\ WakersOnlyWake /\ [FutexNext]_allVars => WakersOnlyWake'
<1>. SUFFICES ASSUME FInv, WakersOnlyWake, [FutexNext]_allVars PROVE WakersOnlyWake'
  OBVIOUS
<1>1. /\ waking \in [Threads -> Pointers]
      /\ pc \in [Threads -> PcValues]
      /\ TypeInv
  BY DEF FInv, ParkerTypes, TypeInv, TypeOK
<1>2. ASSUME NEW t \in Threads, waking[t] = Null, UNCHANGED waking,
             \A u \in Threads \ {t} : pc'[u] = pc[u]
      PROVE  WakersOnlyWake'
  BY <1>2 DEF WakersOnlyWake
<1>3. ASSUME NEW t \in Threads, waking[t] = Null, Park(t) \/ Recheck(t)
      PROVE  WakersOnlyWake'
  <2>1. UNCHANGED pc \/ Resume(t)
    BY <1>3 DEF Park, Recheck, vars
  <2>2. UNCHANGED waking /\ \A u \in Threads \ {t} : pc'[u] = pc[u]
    BY <1>1, <1>3, <2>1, ResumeMoves DEF Park, Recheck
  <2>. QED BY <1>2, <1>3, <2>2
<1>4. ASSUME NEW t \in Threads, FutexWait(t) \/ SpuriousWakeup(t) PROVE WakersOnlyWake'
  BY <1>4 DEF FutexWait, SpuriousWakeup, vars, WakersOnlyWake
<1>5. ASSUME NEW t \in Threads, WakeOne(t) PROVE WakersOnlyWake'
  BY <1>1, <1>5 DEF WakeOne, vars, WakersOnlyWake
<1>6. ASSUME NEW t \in Threads, waking[t] = Null, UnparkSwap(t) PROVE WakersOnlyWake'
  <2>1. pc'[t] = "idle" /\ \A u \in Threads \ {t} : pc'[u] = pc[u]
    BY <1>1, <1>6 DEF UnparkSwap, UnlockSlowWake, UnlockFairWake, Return
  <2>2. \A u \in Threads \ {t} : waking'[u] = waking[u]
    BY <1>1, <1>6 DEF UnparkSwap
  <2>. QED BY <2>1, <2>2 DEF WakersOnlyWake
<1>7. ASSUME NEW t \in Threads, waking[t] = Null, Call(t) PROVE WakersOnlyWake'
  <2>1. UNCHANGED waking /\ \A u \in Threads \ {t} : pc'[u] = pc[u]
    BY <1>1, <1>7 DEF Call, parkers, Arrive, TryLock, LockContended, IsLocked, Goto
  <2>. QED BY <1>2, <1>7, <2>1
<1>8. ASSUME NEW t \in Threads, waking[t] = Null, Proceed(t) PROVE WakersOnlyWake'
  <2>1. UNCHANGED waking /\ \A u \in Threads \ {t} : pc'[u] = pc[u]
    BY <1>1, <1>8, ElsewhereTellsNobody DEF Proceed
  <2>. QED BY <1>2, <1>8, <2>1
<1>9. CASE UNCHANGED allVars
  BY <1>9 DEF allVars, parkers, vars, WakersOnlyWake
<1>. QED
  BY <1>3, <1>4, <1>5, <1>6, <1>7, <1>8, <1>9 DEF FutexNext, Run

\* A sleeper that was told to wake up is awake, or somebody is about to wake it.
LEMMA ToldIsNotAlone ==
  ASSUME FInv, NotifiedInWord, WakersOnlyWake, NEW u \in Threads, pc[u] = "parked", node[u].notified
  PROVE  \E t \in Threads : AwakeInMutex(t)
<1>1. CASE place[u] # "sleeping"
  BY <1>1 DEF AwakeInMutex
<1>2. CASE place[u] = "sleeping"
  <2>1. PICK t \in Threads : waking[t] = u
    BY <1>2 DEF FInv, NotifiedInWord, NotifiedSleeperIsWoken
  <2>2. waking[t] # Null /\ place[t] = "running"
    BY <2>1, ThreadsAssumption DEF WakersOnlyWake, FInv, OnlySleepersPark
  <2>. QED BY <2>2 DEF AwakeInMutex
<1>. QED BY <1>1, <1>2

\* A thread at work in the mutex is awake.
LEMMA WorkIsNotAlone ==
  ASSUME FInv, NEW t \in Threads, pc[t] \notin {"idle", "said_locked", "parked"}
  PROVE  AwakeInMutex(t)
BY DEF FInv, OnlySleepersPark, AwakeInMutex

\* While a thread sleeps in the kernel another one holds the lock, works in lock or
\* unlock, or has a futex to wake: whatever barges, hands over, wakes late or for
\* no reason, all threads of the mutex are never asleep together.
THEOREM SleepersHaveCompany == FutexSpec => []NobodySleepsAlone
<1>1. FutexInit => NotifiedInWord /\ WakersOnlyWake
  BY DEF FutexInit, Init, NotifiedInWord, WakersOnlyWake
<1>2. FutexSpec => [](NotifiedInWord /\ WakersOnlyWake)
  BY <1>1, NotifiedStep, WakersStep, FutexInvariant, PTL DEF FutexSpec
<1>3. FutexSpec => [](LockedIffOwned /\ NoStrandedWaiter /\ Accounted)
  BY FutexMutexIsRawMutex, LockBitHasOwner, NobodyIsStranded, NoSleeperIsLost, PTL
  DEF ImplementsRawMutex
<1>4. ASSUME FInv, NotifiedInWord, WakersOnlyWake, LockedIffOwned, NoStrandedWaiter,
             Accounted
      PROVE  NobodySleepsAlone
  <2> SUFFICES ASSUME NEW u \in Threads, place[u] = "sleeping"
               PROVE  \E t \in Threads : AwakeInMutex(t)
    BY DEF NobodySleepsAlone
  <2>1. pc[u] = "parked"
    BY <1>4 DEF FInv, OnlySleepersPark
  <2>2. ASSUME NEW t \in Threads, Owns(t) PROVE \E v \in Threads : AwakeInMutex(v)
    <3>1. CASE pc[t] \in OwnerPcs
      BY <1>4, <3>1, WorkIsNotAlone DEF OwnerPcs, FairPcs
    <3>2. CASE pc[t] = "parked" /\ node[t].unpark_token = TOKEN_HANDOFF
      BY <1>4, <3>2, ToldIsNotAlone DEF Accounted
    <3>. QED BY <2>2, <3>1, <3>2 DEF Owns
  <2>3. CASE LOCKED_BIT \notin state.flags /\ u \in queued
    <3>1. PICK t \in Threads : Active(t)
      BY <1>4, <2>3 DEF NoStrandedWaiter
    <3>2. CASE pc[t] \notin {"idle", "said_locked", "parked"}
      BY <1>4, <3>2, WorkIsNotAlone
    <3>3. CASE pc[t] = "parked" /\ node[t].notified
      BY <1>4, <3>3, ToldIsNotAlone
    <3>. QED BY <3>1, <3>2, <3>3 DEF Active
  <2>4. CASE node[u].notified
    BY <1>4, <2>1, <2>4, ToldIsNotAlone
  <2>5. CASE TakenOff(u)
    <3>1. PICK t \in Threads : pc[t] \in WakePcs
      BY <2>5 DEF TakenOff
    <3>. QED BY <1>4, <3>1, WorkIsNotAlone DEF WakePcs
  <2>. QED BY <1>4, <2>1, <2>2, <2>3, <2>4, <2>5 DEF Accounted, LockedIffOwned
<1>. QED BY <1>2, <1>3, <1>4, FutexInvariant, PTL
=============================================================================
