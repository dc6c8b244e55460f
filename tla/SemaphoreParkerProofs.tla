----------------------- MODULE SemaphoreParkerProofs -----------------------
(***************************************************************************)
(* Theorems about park and unpark of SemaphoreParker, for any number of    *)
(* owners and of unparkers that they share.                                *)
(***************************************************************************)
EXTENDS SemaphoreParker, TLAPS

\* Nobody is about to signal o.
NoSignal(o) == \A u \in Unparkers : signals[u] # o

\* The one count that an owner waits for is on its way, or has come.
CountToCome(o) ==
  /\ \A u, v \in Unparkers : signals[u] = o /\ signals[v] = o => u = v
  /\ \/ count[o] = 1 /\ NoSignal(o)
     \/ count[o] = 0 /\ \E u \in Unparkers : signals[u] = o

\* What each place of park knows of its state, its semaphore and its unparkers.
PlaceOK(o) ==
  /\ pc[o] = "running" <=> call[o] = "none"
  /\ pc[o] = "running" => state[o] # PARKED /\ count[o] = 0 /\ NoSignal(o)
  /\ pc[o] = "wait" =>
       \/ state[o] = PARKED /\ count[o] = 0 /\ NoSignal(o)
       \/ state[o] = NOTIFIED /\ CountToCome(o)
  /\ pc[o] = "swap" => state[o] = NOTIFIED /\ count[o] = 0 /\ NoSignal(o)

IInv == TypeOK /\ \A o \in Owners : PlaceOK(o)

\* A fresh parker satisfies the invariant.
LEMMA IInvInit == Init => IInv
  BY NoneAssumption
  DEF Init, IInv, TypeOK, PlaceOK, NoSignal, EMPTY, NOTIFIED, PARKED

\* What happens to one parker leaves the others alone.
LEMMA OthersKeepTheirPlace ==
  ASSUME IInv, NEW o \in Owners, NEW x \in Owners \ {o},
         state'[x] = state[x], count'[x] = count[x], pc'[x] = pc[x], call'[x] = call[x],
         \A u \in Unparkers : signals'[u] = x <=> signals[u] = x
  PROVE  PlaceOK(x)'
  BY DEF IInv, PlaceOK, CountToCome, NoSignal

\* No call and no signal breaks the invariant.
LEMMA IInvStep == IInv /\ [Next]_parkVars => IInv'
<1> SUFFICES ASSUME IInv, [Next]_parkVars PROVE IInv'
  OBVIOUS
<1>. USE NoneAssumption DEF EMPTY, NOTIFIED, PARKED
<1>1. ASSUME NEW o \in Owners, Park(o) PROVE IInv'
  <2>1. pc[o] = "running" /\ state[o] \in {EMPTY, NOTIFIED}
    BY <1>1 DEF Park, CountDown, Return, Goto, IInv, TypeOK, PlaceOK
  <2>2. TypeOK'
    BY <1>1, <2>1 DEF IInv, TypeOK, Park, CountDown, Return, Goto, wrapping_dec
  <2>3. PlaceOK(o)'
    BY <1>1, <2>1
    DEF IInv, TypeOK, PlaceOK, NoSignal, Park, CountDown, Return, Goto, wrapping_dec
  <2>4. ASSUME NEW x \in Owners \ {o} PROVE PlaceOK(x)'
    BY <1>1, OthersKeepTheirPlace DEF IInv, TypeOK, Park, CountDown, Return, Goto
  <2>. QED BY <2>2, <2>3, <2>4 DEF IInv
<1>2. ASSUME NEW o \in Owners, ParkWait(o) PROVE IInv'
  <2>1. /\ pc[o] = "wait" /\ state[o] = NOTIFIED /\ count[o] = 1 /\ NoSignal(o)
        /\ count' = [count EXCEPT ![o] = 0]
    <3>1. pc[o] = "wait" /\ PlaceOK(o) /\ count[o] > 0 /\ count' = [count EXCEPT ![o] = @ - 1]
      BY <1>2 DEF IInv, ParkWait, SemaphoreWait, Goto
    <3>2. state[o] = NOTIFIED /\ count[o] = 1 /\ NoSignal(o)
      BY <3>1 DEF PlaceOK, CountToCome
    <3>. QED BY <3>1, <3>2
  <2>2. TypeOK'
    BY <1>2, <2>1 DEF IInv, TypeOK, ParkWait, Goto
  <2>3. PlaceOK(o)'
    BY <1>2, <2>1 DEF IInv, TypeOK, PlaceOK, NoSignal, ParkWait, Goto
  <2>4. ASSUME NEW x \in Owners \ {o} PROVE PlaceOK(x)'
    BY <1>2, <2>1, OthersKeepTheirPlace DEF IInv, TypeOK, ParkWait, Goto
  <2>. QED BY <2>2, <2>3, <2>4 DEF IInv
<1>3. ASSUME NEW o \in Owners, ParkSwap(o) PROVE IInv'
  <2>1. pc[o] = "swap" /\ count[o] = 0 /\ NoSignal(o)
    BY <1>3 DEF IInv, PlaceOK, ParkSwap, Return, Goto
  <2>2. TypeOK'
    BY <1>3 DEF IInv, TypeOK, ParkSwap, Return, Goto
  <2>3. PlaceOK(o)'
    BY <1>3, <2>1 DEF IInv, TypeOK, PlaceOK, NoSignal, ParkSwap, Return, Goto
  <2>4. ASSUME NEW x \in Owners \ {o} PROVE PlaceOK(x)'
    BY <1>3, OthersKeepTheirPlace DEF IInv, TypeOK, ParkSwap, Return, Goto
  <2>. QED BY <2>2, <2>3, <2>4 DEF IInv
<1>4. ASSUME NEW u \in Unparkers, NEW o \in Owners, UnparkSwap(u, o) PROVE IInv'
  <2>1. TypeOK'
    BY <1>4 DEF IInv, TypeOK, UnparkSwap
  <2>2. PlaceOK(o)'
    <3>1. PlaceOK(o) /\ state'[o] = NOTIFIED /\ UNCHANGED <<count, pc, call>>
      BY <1>4 DEF IInv, TypeOK, UnparkSwap
    <3>2. CASE state[o] = PARKED
      <4>1. pc[o] = "wait" /\ NoSignal(o) /\ count[o] = 0
        BY <3>1, <3>2 DEF IInv, TypeOK, PlaceOK
      <4>2. signals'[u] = o /\ \A v \in Unparkers \ {u} : signals'[v] # o
        BY <1>4, <3>2, <4>1 DEF IInv, TypeOK, UnparkSwap, NoSignal
      <4>. QED BY <3>1, <4>1, <4>2 DEF PlaceOK, CountToCome
    <3>3. CASE state[o] # PARKED
      <4>1. \A v \in Unparkers : signals'[v] = o <=> signals[v] = o
        BY <1>4, <3>3 DEF IInv, TypeOK, UnparkSwap
      <4>2. NoSignal(o)' <=> NoSignal(o)
        BY <4>1 DEF NoSignal
      <4>3. CountToCome(o) => CountToCome(o)'
        BY <3>1, <4>1, <4>2 DEF CountToCome
      <4>. QED BY <3>1, <3>3, <4>2, <4>3 DEF PlaceOK
    <3>. QED BY <3>2, <3>3
  <2>3. ASSUME NEW x \in Owners \ {o} PROVE PlaceOK(x)'
    BY <1>4, OthersKeepTheirPlace DEF IInv, TypeOK, UnparkSwap
  <2>. QED BY <2>1, <2>2, <2>3 DEF IInv
<1>5. ASSUME NEW u \in Unparkers, Signal(u) PROVE IInv'
  <2>1. PICK o \in Owners : o = signals[u]
    BY <1>5 DEF IInv, TypeOK, Signal
  <2>2. /\ pc[o] = "wait" /\ state[o] = NOTIFIED /\ count[o] = 0
        /\ \A v \in Unparkers : signals[v] = o => v = u
    BY <2>1 DEF IInv, TypeOK, PlaceOK, CountToCome, NoSignal
  <2>3. count' = [count EXCEPT ![o] = 1]
    BY <1>5, <2>1, <2>2 DEF IInv, TypeOK, Signal
  <2>4. TypeOK'
    BY <1>5, <2>3 DEF IInv, TypeOK, Signal
  <2>5. NoSignal(o)'
    BY <1>5, <2>2 DEF IInv, TypeOK, Signal, NoSignal
  <2>6. PlaceOK(o)'
    BY <1>5, <2>2, <2>3, <2>5 DEF IInv, TypeOK, Signal, PlaceOK, CountToCome, NoSignal
  <2>7. ASSUME NEW x \in Owners \ {o} PROVE PlaceOK(x)'
    BY <1>5, <2>1, <2>3, OthersKeepTheirPlace DEF IInv, TypeOK, Signal
  <2>. QED BY <2>4, <2>6, <2>7 DEF IInv
<1>6. CASE UNCHANGED parkVars
  BY <1>6 DEF parkVars, IInv, TypeOK, PlaceOK, CountToCome, NoSignal
<1>. QED BY <1>1, <1>2, <1>3, <1>4, <1>5, <1>6 DEF Next

\* The invariant holds for ever.
LEMMA IInvariant == Spec => []IInv
  BY IInvInit, IInvStep, PTL DEF Spec

\* Every variable keeps its type: the state stays far from the ends of an i8, and
\* a semaphore never has more than one count.
THEOREM SemaphoreTypeCorrect == Spec => []TypeOK
<1>1. IInv => TypeOK
  BY DEF IInv
<1>. QED BY <1>1, IInvariant, PTL

\* Between the calls of an owner its semaphore has no count and none is to come,
\* whatever unparkers overtake its park, so that a parker that is dropped was reset.
THEOREM CounterIsReset == Spec => []CounterReset
<1>1. IInv => CounterReset
  BY DEF IInv, PlaceOK, NoSignal, CounterReset
<1>. QED BY <1>1, IInvariant, PTL

-----------------------------------------------------------------------------

\* Every step is a step of the abstract parker of the owner it is about, and
\* changes nothing that the callers of the others see.
LEMMA RefinementStep ==
  IInv /\ [Next]_parkVars => \A o \in Owners : P(o)!Next \/ UNCHANGED P(o)!vars
<1> SUFFICES ASSUME IInv, [Next]_parkVars, NEW o \in Owners
             PROVE  P(o)!Next \/ UNCHANGED P(o)!vars
  OBVIOUS
<1>. USE DEF EMPTY, NOTIFIED, PARKED
<1>1. ASSUME NEW x \in Owners, Park(x) PROVE P(o)!Next \/ UNCHANGED P(o)!vars
  <2>1. CASE x # o
    BY <1>1, <2>1 DEF IInv, TypeOK, Park, CountDown, Return, Goto, P!vars
  <2>2. CASE x = o /\ state[o] = NOTIFIED
    BY <1>1, <2>2
    DEF IInv, TypeOK, PlaceOK, Park, CountDown, Return, Goto, wrapping_dec,
        P!Next, P!ParkWithToken
  <2>3. CASE x = o /\ state[o] # NOTIFIED
    BY <1>1, <2>3
    DEF IInv, TypeOK, PlaceOK, Park, CountDown, Goto, wrapping_dec,
        P!Next, P!ParkAndBlock, P!Phases
  <2>. QED BY <2>1, <2>2, <2>3
<1>2. ASSUME NEW x \in Owners, ParkWait(x) PROVE UNCHANGED P(o)!vars
  BY <1>2 DEF ParkWait, P!vars
<1>3. ASSUME NEW x \in Owners, ParkSwap(x) PROVE P(o)!Next \/ UNCHANGED P(o)!vars
  <2>1. CASE x # o
    BY <1>3, <2>1 DEF IInv, TypeOK, ParkSwap, Return, Goto, P!vars
  <2>2. CASE x = o
    BY <1>3, <2>2 DEF IInv, TypeOK, PlaceOK, ParkSwap, Return, Goto, P!Next, P!TakeToken
  <2>. QED BY <2>1, <2>2
<1>4. ASSUME NEW u \in Unparkers, NEW x \in Owners, UnparkSwap(u, x)
      PROVE  P(o)!Next \/ UNCHANGED P(o)!vars
  <2>1. CASE x # o
    BY <1>4, <2>1 DEF IInv, TypeOK, UnparkSwap, P!vars
  <2>2. CASE x = o
    BY <1>4, <2>2 DEF IInv, TypeOK, UnparkSwap, P!Next, P!Unpark
  <2>. QED BY <2>1, <2>2
<1>5. ASSUME NEW u \in Unparkers, Signal(u) PROVE UNCHANGED P(o)!vars
  BY <1>5 DEF Signal, P!vars
<1>6. CASE UNCHANGED parkVars
  BY <1>6 DEF parkVars, P!vars
<1>. QED BY <1>1, <1>2, <1>3, <1>4, <1>5, <1>6 DEF Next

\* park and unpark implement the abstract parker for every owner: no call returns
\* without a token, and an unpark that comes at any point of a park is not lost.
THEOREM SemaphoreImplementsParker == Spec => RefinesParker
<1>1. Init => \A o \in Owners : P(o)!Init
  <2>1. ASSUME Init, NEW o \in Owners
        PROVE  state[o] # NOTIFIED /\ call[o] = "none" /\ answer[o] = "none"
    BY <2>1 DEF Init, EMPTY, NOTIFIED
  <2>. QED BY <2>1 DEF P!Init
<1>2. IInv /\ [Next]_parkVars
        => [\A o \in Owners : P(o)!Next \/ UNCHANGED P(o)!vars]_parkVars
  BY RefinementStep
<1>. QED BY <1>1, <1>2, IInvariant, PTL DEF Spec, RefinesParker
=============================================================================
