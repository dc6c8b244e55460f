----------------------------- MODULE WaitGroup -----------------------------
(***************************************************************************)
(* WaitGroup of mekong9-sync (src/wait_group.rs) over its ParkingQueue     *)
(* (src/internal/parking/auxiliary.rs): a counter of workers, and a list   *)
(* of threads that wait for it to become zero. Waiters push themselves;    *)
(* the done that counts down to zero cuts the whole list off and wakes it; *)
(* a waiter that pushed itself too late takes itself off the list again.   *)
(*                                                                         *)
(* As in RawMutex, there is one action per atomic operation, and a thread  *)
(* is the address of its ThreadData. The parker is its token, see Parker.  *)
(* The tail pointers of the nodes, which this queue never follows, and the *)
(* spinning of park, which only checks the counter again, are left out.    *)
(*                                                                         *)
(* done may be called more often than it was announced. Its thread panics  *)
(* then, after it has counted down. It is not followed any further: if it  *)
(* catches the panic, it goes on as another one of the threads would.      *)
(***************************************************************************)
EXTENDS Integers, FiniteSets

CONSTANTS
  Threads,          \* the threads that use the group
  Waiters,          \* those of them that may call wait
  Null,             \* the null pointer
  Size,             \* with_size(Size)
  MaxAdds,          \* bound: how often add(1) is called
  SpuriousFailures  \* TRUE: compare_exchange_weak may fail for no reason

ASSUME GroupAssumption ==
  /\ Waiters \subseteq Threads
  /\ Null \notin Threads
  /\ Size \in Nat
  /\ MaxAdds \in Nat
  /\ SpuriousFailures \in BOOLEAN

VARIABLES
  workers,  \* the counter
  state,    \* the word of the queue
  pc,       \* what each thread does next
  frame,    \* its local variables: the word it read, and its place in the list
  node,     \* its ThreadData
  adds      \* how often add was called

vars == <<workers, state, pc, frame, node, adds>>

QUEUE_LOCKED_BIT == "queue_locked"
QUEUE_CLEAR_BIT  == "queue_clear"

Pointers == Threads \union {Null}
Words    == [flags : SUBSET {QUEUE_LOCKED_BIT, QUEUE_CLEAR_BIT}, head : Pointers]
IDLE     == [flags |-> {}, head |-> Null]
CLEAR    == [flags |-> {QUEUE_CLEAR_BIT}, head |-> Null]

without_lock(w) == [w EXCEPT !.flags = @ \ {QUEUE_LOCKED_BIT}]

NoLocals == [snap |-> IDLE, cur |-> Null, prev |-> Null]
Locals   == [snap : Words, cur : Pointers, prev : Pointers]

\* A fresh ThreadData: notified is the token of its parker.
NewThreadData == [next |-> Null, notified |-> FALSE]
ThreadDatas   == [next : Pointers, notified : BOOLEAN]

WaitPcs  == {"retry", "park_load", "push", "pushed", "parked",
             "abort_load", "abort_try", "abort_scan"}
ClearPcs == {"walk", "cut", "clear"}
DonePcs  == {"unpark_load", "unpark_try"} \union ClearPcs
PcValues == {"idle", "panicked"} \union WaitPcs \union DonePcs

Panicked == {t \in Threads : pc[t] = "panicked"}

\* The ThreadData of t exists: from its push until its closure returns.
Alive(t) == pc[t] \in {"pushed", "parked", "abort_load", "abort_try", "abort_scan"}

Init ==
  /\ workers = Size
  /\ state = IDLE
  /\ pc = [t \in Threads |-> "idle"]
  /\ frame = [t \in Threads |-> NoLocals]
  /\ node = [t \in Threads |-> NewThreadData]
  /\ adds = 0

Goto(t, from, to) ==
  /\ pc[t] = from
  /\ pc' = [pc EXCEPT ![t] = to]

\* A call or the closure of park ends, and its locals are gone.
Return(t, to) ==
  /\ pc' = [pc EXCEPT ![t] = to]
  /\ frame' = [frame EXCEPT ![t] = NoLocals]

Load(t) == frame' = [frame EXCEPT ![t].snap = state]

\* self.state.compare_exchange_weak(snap, new), and its failure.
CasOk(t, new) == state = frame[t].snap /\ state' = new
CasFails(t)   == state # frame[t].snap \/ SpuriousFailures

\* What a thread may find in the next pointer of a node: the pointer, or, when
\* the ThreadData is gone, what was left of it or of what came after it.
NextOf(n) == IF Alive(n) THEN {node[n].next} ELSE {node[n].next, Null}

-----------------------------------------------------------------------------
(* add and wait. *)

\* "Calls with a positive delta that occur when the counter is zero must happen
\* before a wait", and "new add calls must happen after all previous wait calls
\* have returned".
Add(t) ==
  /\ pc[t] = "idle"
  /\ adds < MaxAdds
  /\ workers = 0 => \A w \in Threads : pc[w] \notin WaitPcs
  /\ workers' = workers + 1
  /\ adds' = adds + 1
  /\ UNCHANGED <<state, pc, frame, node>>

Wait(t) ==
  /\ t \in Waiters
  /\ Goto(t, "idle", "retry")
  /\ UNCHANGED <<workers, state, frame, node, adds>>

\* The top of the loop of park: return if the counter reads zero, or go on to push.
RetryReading(t, w) ==
  /\ Goto(t, "retry", IF w = 0 THEN "idle" ELSE "park_load")
  /\ UNCHANGED <<workers, state, frame, node, adds>>
Retry(t) == RetryReading(t, workers)

ParkLoad(t) ==
  /\ Goto(t, "park_load", "push")
  /\ Load(t)
  /\ UNCHANGED <<workers, state, node, adds>>

Push(t) ==
  /\ pc[t] = "push"
  /\ \/ /\ CasOk(t, [frame[t].snap EXCEPT !.head = t])
        /\ node' = [node EXCEPT ![t] = [NewThreadData EXCEPT !.next = frame[t].snap.head]]
        /\ Return(t, "pushed")
     \/ /\ CasFails(t)
        /\ Return(t, "retry")
        /\ UNCHANGED <<state, node>>
  /\ UNCHANGED <<workers, adds>>

\* Look at the counter again before sleeping: it may have become zero.
\* (Mutant: do not.)
RetryPushedReadingNothing(t, w) ==
  /\ Goto(t, "pushed", "parked")
  /\ UNCHANGED <<workers, state, frame, node, adds>>
RetryPushedReading(t, w) ==
  /\ Goto(t, "pushed", IF w = 0 THEN "abort_load" ELSE "parked")
  /\ UNCHANGED <<workers, state, frame, node, adds>>
RetryPushed(t) == RetryPushedReading(t, workers)

ParkReturn(t) ==
  /\ Goto(t, "parked", "retry")
  /\ node[t].notified
  /\ UNCHANGED <<workers, state, frame, node, adds>>

-----------------------------------------------------------------------------
(* abort_self. *)

AbortLoad(t) ==
  /\ Goto(t, "abort_load", "abort_try")
  /\ Load(t)
  /\ UNCHANGED <<workers, state, node, adds>>

\* try_lock_queue!: leave the node where it is if somebody else is at work on the
\* list or if the list is empty. The local copy is not updated by the exchange.
AbortTry(t) ==
  LET snap == frame[t].snap
      busy == snap.flags # {} \/ snap.head = Null
  IN  /\ pc[t] = "abort_try"
      /\ \/ /\ busy
            /\ Return(t, "retry")
            /\ UNCHANGED state
         \/ /\ ~busy
            /\ CasOk(t, [snap EXCEPT !.flags = {QUEUE_LOCKED_BIT}])
            /\ pc' = [pc EXCEPT ![t] = "abort_scan"]
            /\ frame' = [frame EXCEPT ![t].cur = snap.head]
         \/ /\ ~busy
            /\ CasFails(t)
            /\ Load(t)
            /\ UNCHANGED <<state, pc>>
      /\ UNCHANGED <<workers, node, adds>>

\* Another thread's node: go on to the next one.
AbortNext(t) ==
  LET cur == frame[t].cur
  IN  /\ pc[t] = "abort_scan"
      /\ cur \notin {t, Null}
      /\ \E n \in NextOf(cur) :
           frame' = [frame EXCEPT ![t].prev = cur, ![t].cur = n]
      /\ UNCHANGED <<workers, state, pc, node, adds>>

\* The end of the list: unlock the queue, and scan the same list again.
AbortNotFound(t) ==
  /\ pc[t] = "abort_scan"
  /\ frame[t].cur = Null
  /\ state' = without_lock(state)
  /\ frame' = [frame EXCEPT ![t].cur = frame[t].snap.head, ![t].prev = Null]
  /\ UNCHANGED <<workers, pc, node, adds>>

\* The node is the head of the list: unlink it with one exchange, or scan again.
\* (Mutant: scan again with the old copy of the word.)
AbortHeadStale(t) ==
  /\ pc[t] = "abort_scan"
  /\ frame[t].cur = t
  /\ frame[t].prev = Null
  /\ \/ /\ CasOk(t, without_lock([frame[t].snap EXCEPT !.head = node[t].next]))
        /\ Return(t, "retry")
     \/ /\ CasFails(t)
        /\ frame' = [frame EXCEPT ![t].cur = frame[t].snap.head]
        /\ UNCHANGED <<state, pc>>
  /\ UNCHANGED <<workers, node, adds>>
AbortHead(t) ==
  /\ pc[t] = "abort_scan"
  /\ frame[t].cur = t
  /\ frame[t].prev = Null
  /\ \/ /\ CasOk(t, without_lock([frame[t].snap EXCEPT !.head = node[t].next]))
        /\ Return(t, "retry")
     \/ /\ CasFails(t)
        /\ frame' = [frame EXCEPT ![t].snap = state, ![t].cur = state.head]
        /\ UNCHANGED <<state, pc>>
  /\ UNCHANGED <<workers, node, adds>>

\* (abort_self then unparks its own parker. The node is created again before the
\* next park, so that token is never seen, and it is left out here and in AbortHead.)
AbortMiddle(t) ==
  /\ pc[t] = "abort_scan"
  /\ frame[t].cur = t
  /\ frame[t].prev # Null
  /\ node' = [node EXCEPT ![frame[t].prev].next = node[t].next]
  /\ state' = without_lock(state)
  /\ Return(t, "retry")
  /\ UNCHANGED <<workers, adds>>

-----------------------------------------------------------------------------
(* done and unpark_all. *)

\* fetch_sub first, and then the assertion about the value that it found: a done
\* that was not announced has counted down before it panics.
\* (Mutant: without the assertion.)
DoneUnchecked(t) ==
  /\ workers' = workers - 1
  /\ \/ workers # 1 /\ Goto(t, "idle", "idle")
     \/ workers = 1 /\ Goto(t, "idle", "unpark_load")
  /\ UNCHANGED <<state, frame, node, adds>>
Done(t) ==
  /\ workers' = workers - 1
  /\ \/ workers < 1 /\ Goto(t, "idle", "panicked")
     \/ workers > 1 /\ Goto(t, "idle", "idle")
     \/ workers = 1 /\ Goto(t, "idle", "unpark_load")
  /\ UNCHANGED <<state, frame, node, adds>>

UnparkAllLoad(t) ==
  /\ Goto(t, "unpark_load", "unpark_try")
  /\ Load(t)
  /\ UNCHANGED <<workers, state, node, adds>>

\* Walk down the list in w, if there is one.
StartWalk(t, w) ==
  /\ pc' = [pc EXCEPT ![t] = IF w.head = Null THEN "clear" ELSE "walk"]
  /\ frame' = [frame EXCEPT ![t].snap = w, ![t].cur = w.head]

\* Leave it to the thread that is already clearing, wait for one that is
\* unlinking itself, or cut the list off.
UnparkAllTry(t) ==
  LET snap == frame[t].snap
  IN  /\ pc[t] = "unpark_try"
      /\ \/ /\ QUEUE_CLEAR_BIT \in snap.flags
            /\ Return(t, "idle")
            /\ UNCHANGED state
         \/ /\ snap.flags = {QUEUE_LOCKED_BIT} \/ (snap.flags = {} /\ CasFails(t))
            /\ Load(t)
            /\ UNCHANGED <<state, pc>>
         \/ /\ snap.flags = {}
            /\ CasOk(t, CLEAR)
            /\ StartWalk(t, snap)
      /\ UNCHANGED <<workers, node, adds>>

\* Read the next pointer, then unpark. (On a node that is gone, unpark writes to
\* memory that the model does not have.)
UnparkAllWalk(t) ==
  LET cur == frame[t].cur
  IN  /\ pc[t] = "walk"
      /\ cur # Null
      /\ node' = IF Alive(cur) THEN [node EXCEPT ![cur].notified = TRUE] ELSE node
      /\ \E n \in NextOf(cur) :
           /\ frame' = [frame EXCEPT ![t].cur = n]
           /\ pc' = [pc EXCEPT ![t] = IF n = Null THEN "cut" ELSE "walk"]
      /\ UNCHANGED <<workers, state, adds>>

\* Cut off what was pushed meanwhile: exchange until it succeeds.
\* (Mutant: the clear bit goes with the list.)
UnparkAllCutIdle(t) ==
  /\ pc[t] = "cut"
  /\ state' = IDLE
  /\ StartWalk(t, state)
  /\ UNCHANGED <<workers, node, adds>>
UnparkAllCut(t) ==
  /\ pc[t] = "cut"
  /\ state' = CLEAR
  /\ StartWalk(t, state)
  /\ UNCHANGED <<workers, node, adds>>

UnparkAllClear(t) ==
  /\ pc[t] = "clear"
  /\ state' = [state EXCEPT !.flags = @ \ {QUEUE_CLEAR_BIT}]
  /\ Return(t, "idle")
  /\ UNCHANGED <<workers, node, adds>>

-----------------------------------------------------------------------------

Arrive(t) == Add(t) \/ Wait(t) \/ Done(t)

Continue(t) ==
  \/ Retry(t) \/ ParkLoad(t) \/ Push(t) \/ RetryPushed(t) \/ ParkReturn(t)
  \/ AbortLoad(t) \/ AbortTry(t) \/ AbortNext(t) \/ AbortNotFound(t)
  \/ AbortHead(t) \/ AbortMiddle(t)
  \/ UnparkAllLoad(t) \/ UnparkAllTry(t) \/ UnparkAllWalk(t) \/ UnparkAllCut(t)
  \/ UnparkAllClear(t)

Next == \E t \in Threads : Arrive(t) \/ Continue(t)

Spec == Init /\ [][Next]_vars

\* The scheduler runs every thread that is not blocked in park.
Fairness == \A t \in Threads : WF_vars(Continue(t))
FairSpec == Spec /\ Fairness

-----------------------------------------------------------------------------
(* Properties. *)

\* Type correctness.
TypeOK ==
  /\ workers \in Int
  /\ state \in Words
  /\ pc \in [Threads -> PcValues]
  /\ frame \in [Threads -> Locals]
  /\ node \in [Threads -> ThreadDatas]
  /\ adds \in 0..MaxAdds

\* The clear bit says whether some done is waking the list, and never two do: a
\* done that leaves its waiters to another one leaves them to one that is there.
OneWaker ==
  /\ \A t, u \in Threads : pc[t] \in ClearPcs /\ pc[u] \in ClearPcs => t = u
  /\ QUEUE_CLEAR_BIT \in state.flags <=> \E t \in Threads : pc[t] \in ClearPcs

\* The counter is below zero by no more than the number of done calls whose assertion
\* failed: no done that was not announced goes by unnoticed, though the dones, the
\* adds and the panics of all threads come in any order.
ShortfallIsReported == workers + Cardinality(Panicked) >= 0

\* "If the counter becomes zero, all threads blocked on wait are released": a
\* waiter sleeps on over a counter of zero only while a done is in unpark_all.
ParkedIsWoken ==
  \A w \in Threads :
    pc[w] = "parked" /\ ~node[w].notified /\ workers = 0
      => \E t \in Threads : pc[t] \in DonePcs

\* The same, as long as done was called for announced workers only.
AnnouncedAreWoken == Panicked = {} => ParkedIsWoken

\* A waiter that takes itself off the list, which it does because the counter has
\* become zero, comes to an end of that, if done is called for announced workers only.
AbortReturns ==
  [](Panicked = {}) =>
    \A w \in Threads : pc[w] = "abort_scan" ~> pc[w] # "abort_scan"
=============================================================================
