--------------------------- MODULE WaitGroupWeak ---------------------------
(***************************************************************************)
(* WaitGroup on a machine that reorders as far as the memory orderings of  *)
(* the code allow. Every thread has a view: the oldest value of the        *)
(* counter that it may still read, and the work of the others that is      *)
(* visible to it. A release writes the view next to the value, in the      *)
(* counter as well as in the word of the queue; an acquire that reads the  *)
(* value takes the view over; every read-modify-write reads the newest     *)
(* value and hands on the views released before it (a release sequence).   *)
(*                                                                         *)
(* There is one generation, and add is not called: the counter only goes   *)
(* down, below zero if done is called too often, so the values a thread    *)
(* may still read are an interval. Loads of the word read the newest       *)
(* value: a stale one makes the exchange after it fail.                    *)
(***************************************************************************)
EXTENDS WaitGroup

VARIABLES
  seen,    \* the oldest value of the counter that each thread may read
  work,    \* the done calls that happened before what each thread does next
  atWord,  \* the view that the word carries
  atToken, \* the view that the token of each parker carries
  atDone,  \* the done calls whose work the counter carries
  stale,   \* history: a waiter's last look at the counter was out of date
  came     \* history: the threads that have called wait

views    == <<seen, work, atWord, atToken, atDone, stale, came>>
weakVars == <<vars, views>>

\* A done is named by the value that it finds. The announced ones are Dones, those
\* that find less panic.
Dones == 1..Size
Calls == {d \in Int : d <= Size}

NoView  == [seen |-> Size, work |-> {}]
View(t) == [seen |-> seen[t], work |-> work[t]]
Join(v, w) ==
  [seen |-> IF v.seen < w.seen THEN v.seen ELSE w.seen, work |-> v.work \union w.work]
SetView(t, v) ==
  /\ seen' = [seen EXCEPT ![t] = v.seen]
  /\ work' = [work EXCEPT ![t] = v.work]

WeakInit ==
  /\ Init
  /\ seen = [t \in Threads |-> Size]
  /\ work = [t \in Threads |-> {}]
  /\ atWord = NoView
  /\ atToken = [t \in Threads |-> NoView]
  /\ atDone = {}
  /\ stale = [t \in Threads |-> FALSE]
  /\ came = {}

-----------------------------------------------------------------------------
(* The orderings. *)

\* An operation on the word: what it reads is acquired, what it writes released.
OnWord(t, acquire, release) ==
  LET v == IF acquire THEN Join(View(t), atWord) ELSE View(t)
  IN  /\ SetView(t, v)
      /\ atWord' = IF release THEN Join(atWord, v) ELSE atWord
      /\ UNCHANGED <<atDone, stale, came>>

\* fetch_sub(1, AcqRel) on the counter, after the work that done announces.
\* (Mutant: Relaxed.)
CountDownRelaxed(t) ==
  /\ SetView(t, [seen |-> workers', work |-> work[t] \union {workers}])
  /\ UNCHANGED <<atWord, atToken, atDone, stale, came>>
CountDown(t) ==
  LET known == work[t] \union {workers} \union atDone
  IN  /\ SetView(t, [seen |-> workers', work |-> known])
      /\ atDone' = known
      /\ UNCHANGED <<atWord, atToken, stale, came>>

\* load(Acquire) of the counter gives w, which need not be its newest value. An
\* older value carries the work of the dones before it.
LoadCounter(t, w) ==
  /\ w \in workers..seen[t]
  /\ SetView(t, [seen |-> w, work |-> work[t] \union {d \in atDone : d > w}])
  /\ stale' = [stale EXCEPT ![t] = w # workers]
  /\ UNCHANGED <<atWord, atToken, atDone, came>>

-----------------------------------------------------------------------------
(* The steps of WaitGroup with their orderings. *)

\* Relaxed loads, steps on plain memory, and exchanges that fail.
Relaxed(t) ==
  /\ \/ ParkLoad(t) \/ AbortLoad(t) \/ AbortNext(t) \/ UnparkAllLoad(t)
     \/ Push(t) /\ pc'[t] # "pushed"
     \/ AbortTry(t) /\ pc'[t] # "abort_scan"
     \/ UnparkAllTry(t) /\ pc'[t] \notin ClearPcs
  /\ UNCHANGED views

\* The looks at the counter, before and after the push.
Look(t) ==
  \E w \in workers..seen[t] :
    /\ RetryReading(t, w) \/ RetryPushedReading(t, w)
    /\ LoadCounter(t, w)

\* compare_exchange_weak(AcqRel), of a fresh ThreadData.
PushPublishes(t) ==
  /\ Push(t)
  /\ pc'[t] = "pushed"
  /\ OnWord(t, TRUE, TRUE)
  /\ atToken' = [atToken EXCEPT ![t] = NoView]

\* compare_exchange_weak(Acquire): it takes over and adds nothing.
AcquireQueue(t) ==
  /\ \/ AbortTry(t) /\ pc'[t] = "abort_scan"
     \/ UnparkAllTry(t) /\ pc'[t] \in ClearPcs
     \/ UnparkAllCut(t)
  /\ OnWord(t, TRUE, FALSE)
  /\ UNCHANGED atToken

\* fetch_and(Release) and compare_exchange_weak(Release), which is followed by an
\* acquire fence if it fails.
ReleaseQueue(t) ==
  /\ \/ /\ AbortNotFound(t) \/ AbortMiddle(t) \/ UnparkAllClear(t)
        /\ OnWord(t, FALSE, TRUE)
     \/ /\ AbortHead(t)
        /\ IF pc'[t] = "retry" THEN OnWord(t, FALSE, TRUE) ELSE OnWord(t, TRUE, FALSE)
  /\ UNCHANGED atToken

\* unpark swaps the word of the parker with Release, park takes it with Acquire.
Wake(t) ==
  /\ UnparkAllWalk(t)
  /\ LET cur == frame[t].cur
     IN  atToken' = [atToken EXCEPT ![cur] = IF Alive(cur) THEN View(t) ELSE @]
  /\ UNCHANGED <<seen, work, atWord, atDone, stale, came>>

WokenUp(t) ==
  /\ ParkReturn(t)
  /\ SetView(t, Join(View(t), atToken[t]))
  /\ UNCHANGED <<atWord, atToken, atDone, stale, came>>

WeakArrive(t) ==
  \/ /\ Wait(t)
     /\ came' = came \union {t}
     /\ UNCHANGED <<seen, work, atWord, atToken, atDone, stale>>
  \/ Done(t) /\ CountDown(t)

WeakContinue(t) ==
  \/ Relaxed(t)
  \/ Look(t) \/ PushPublishes(t) \/ AcquireQueue(t) \/ ReleaseQueue(t)
  \/ Wake(t) \/ WokenUp(t)

WeakNext == \E t \in Threads : WeakArrive(t) \/ WeakContinue(t)

WeakSpec == WeakInit /\ [][WeakNext]_weakVars

\* The scheduler runs every thread that is not blocked in park.
WeakFairness == \A t \in Threads : WF_weakVars(WeakContinue(t))
FairWeakSpec == WeakSpec /\ WeakFairness

-----------------------------------------------------------------------------
(* Properties. *)

Views == [seen : {i \in Int : i <= Size}, work : SUBSET Calls]

\* Type correctness of the views.
ViewTypes ==
  /\ \A t \in Threads : View(t) \in Views /\ atToken[t] \in Views
  /\ atWord \in Views
  /\ atDone \in SUBSET Calls
  /\ stale \in [Threads -> BOOLEAN]
  /\ came \in SUBSET Threads

\* "A call to done synchronizes before the return of any Wait call that it
\* unblocks": whatever was done before any of the announced done calls is visible
\* after wait, though a waiter may read the counter long after some of them, or only
\* once.
DoneSynchronizes ==
  [][\A t \in Threads :
       pc[t] = "retry" /\ pc'[t] = "idle" => Dones \subseteq work'[t]]_weakVars

\* With one waiter, one thing only can leave it asleep over a counter of zero with
\* nobody to wake it: after its push it read a counter that was out of date.
OnlyStaleReadStrands ==
  \A w \in Threads :
    /\ came = {w} /\ pc[w] = "parked" /\ ~node[w].notified
    /\ workers = 0 /\ ~stale[w]
    => \E t \in Threads : pc[t] \in DonePcs

\* "Blocks until the WaitGroup counter is zero", and then no longer: the only
\* waiter returns on a machine where no look at the counter is out of date, unless
\* one done too many takes the counter below zero before the waiter has looked.
WaitReturnsUnlessStale ==
  \A w \in Threads :
    [](came \subseteq {w} /\ ~stale[w] /\ workers >= 0) =>
      (pc[w] \in WaitPcs /\ workers = 0 ~> pc[w] = "idle")
=============================================================================
