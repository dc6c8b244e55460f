------------------------------ MODULE RawMutex ------------------------------
(***************************************************************************)
(* RawMutex of mekong9-sync (src/internal/parking/auxiliary.rs) under the  *)
(* Mutex API (src/mutex.rs): one atomic word holding three bits and the    *)
(* head of an intrusive list of sleeping threads, one ThreadData on the    *)
(* stack of each sleeper.                                                  *)
(*                                                                         *)
(* There is one action per atomic operation on the word; accesses to plain *)
(* fields (the Cells of a ThreadData) are merged with the atomic operation *)
(* they accompany, which is what the queue lock is there to allow: see     *)
(* QueueLockExclusive and NodesAlive. A thread is also the address of its  *)
(* ThreadData, so that a node that is dropped and created again has its    *)
(* old address: every ABA the allocator could produce is a behaviour.      *)
(***************************************************************************)
EXTENDS Naturals, FiniteSets

CONSTANTS
  Threads,          \* the threads that use the mutex
  Null,             \* the null pointer
  SpinLimit,        \* how often SpinWait::spin says TRUE before a reset
  SpuriousFailures, \* TRUE: compare_exchange_weak may fail for no reason
  FairUnlock        \* TRUE: guards may be dropped through unlock_fair

ASSUME ThreadsAssumption == Null \notin Threads
ASSUME SpinAssumption == SpinLimit \in Nat
ASSUME OptionsAssumption == {SpuriousFailures, FairUnlock} \subseteq BOOLEAN

VARIABLES
  state,   \* the atomic word: its bits and the newest sleeper
  pc,      \* what each thread will do next
  frame,   \* the local variables of each thread
  node,    \* the ThreadData of each thread
  queued,  \* history: the threads pushed on the list and not popped yet
  ahead    \* history: ahead[t], the queued threads that were pushed before t

vars == <<state, pc, frame, node, queued, ahead>>

-----------------------------------------------------------------------------
(* The word, the locals and the node. *)

LOCKED_BIT       == "locked"
QUEUE_LOCKED_BIT == "queue_locked"
TIMEOUT_BIT      == "timeout"
Bits == {LOCKED_BIT, QUEUE_LOCKED_BIT, TIMEOUT_BIT}

Pointers == Threads \union {Null}
Words    == [flags : SUBSET Bits, head : Pointers]
IDLE     == [flags |-> {}, head |-> Null]

\* UnparkToken(0) and TOKEN_HANDOFF.
TOKEN_NORMAL  == "normal"
TOKEN_HANDOFF == "handoff"

is_queue_locked(w) == QUEUE_LOCKED_BIT \in w.flags

\* Nobody to wake, or somebody else is busy waking.
\* (Mutant: does not look at the queue lock.)
NothingToWakeUnlocked(w) == w.head = Null
NothingToWake(w) == is_queue_locked(w) \/ w.head = Null

with_bit(w, b)          == [w EXCEPT !.flags = @ \union {b}]
without_bits(w, bs)     == [w EXCEPT !.flags = @ \ bs]
set_queue_head(w, head) == [w EXCEPT !.head = head]

\* A fresh ThreadData; notified is the token of its parker.
NewThreadData ==
  [queue_tail |-> Null, prev |-> Null, next |-> Null,
   unpark_token |-> TOKEN_NORMAL, notified |-> FALSE]

ThreadDatas ==
  [queue_tail : Pointers, prev : Pointers, next : Pointers,
   unpark_token : {TOKEN_NORMAL, TOKEN_HANDOFF}, notified : BOOLEAN]

\* snap is the local copy of the word, spins the counter of SpinWait, cur and
\* tail the cursor and the result of link_prev_nodes!.
NoLocals == [snap |-> IDLE, spins |-> 0, cur |-> Null, tail |-> Null]
Locals   == [snap : Words, spins : 0..SpinLimit, cur : Pointers, tail : Pointers]

PcValues ==
  {"idle", "said_locked", "lock_slow", "lock_loop", "parked", "held",
   "fair_clear", "us_load", "us_try", "us_link", "us_release", "us_pop_last",
   "us_pop_more", "us_wake", "usf_load", "usf_try", "usf_empty", "usf_link",
   "usf_pop_last", "usf_pop_more", "usf_wake"}

Init ==
  /\ state = IDLE
  /\ pc = [t \in Threads |-> "idle"]
  /\ frame = [t \in Threads |-> NoLocals]
  /\ node = [t \in Threads |-> NewThreadData]
  /\ queued = {}
  /\ ahead = [t \in Threads |-> {}]

Goto(t, from, to) ==
  /\ pc[t] = from
  /\ pc' = [pc EXCEPT ![t] = to]

\* t's call returns and its locals are gone.
Return(t, to) ==
  /\ pc' = [pc EXCEPT ![t] = to]
  /\ frame' = [frame EXCEPT ![t] = NoLocals]

Load(t) == frame' = [frame EXCEPT ![t].snap = state]

\* self.state.compare_exchange_weak(snap, new), and its Err(new_state) arm.
CasOk(t, new) == state = frame[t].snap /\ state' = new
CasErr(t) ==
  /\ state # frame[t].snap \/ SpuriousFailures
  /\ Load(t)

NoListChange == UNCHANGED <<node, queued, ahead>>

-----------------------------------------------------------------------------
(* lock, try_lock and is_locked. *)

\* try_lock, and the fast path of lock.
TryLock(t) ==
  /\ Goto(t, "idle", "held")
  /\ state = IDLE
  /\ state' = with_bit(IDLE, LOCKED_BIT)
  /\ UNCHANGED frame
  /\ NoListChange

\* The fast path of lock fails.
LockContended(t) ==
  /\ Goto(t, "idle", "lock_slow")
  /\ state # IDLE \/ SpuriousFailures
  /\ UNCHANGED <<state, frame>>
  /\ NoListChange

\* is_locked: try_lock fails, and the answer is TRUE. (When it succeeds,
\* is_locked is TryLock followed by Unlock.)
IsLocked(t) ==
  /\ Goto(t, "idle", "said_locked")
  /\ state # IDLE \/ SpuriousFailures
  /\ UNCHANGED <<state, frame>>
  /\ NoListChange

IsLockedReturn(t) ==
  /\ Goto(t, "said_locked", "idle")
  /\ UNCHANGED <<state, frame>>
  /\ NoListChange

LockSlowLoad(t) ==
  /\ Goto(t, "lock_slow", "lock_loop")
  /\ Load(t)
  /\ UNCHANGED state
  /\ NoListChange

\* Grab the lock if it is not locked, even if there is a queue on it.
LockSlowGrab(t) ==
  /\ pc[t] = "lock_loop"
  /\ LOCKED_BIT \notin frame[t].snap.flags
  /\ \/ /\ CasOk(t, with_bit(frame[t].snap, LOCKED_BIT))
        /\ Return(t, "held")
     \/ /\ CasErr(t)
        /\ UNCHANGED <<state, pc>>
  /\ NoListChange

\* SpinWait::spin.
SpinsLeft(t) == frame[t].spins < SpinLimit

\* Locked and nobody queued: spin a few times.
LockSlowSpin(t) ==
  /\ pc[t] = "lock_loop"
  /\ LOCKED_BIT \in frame[t].snap.flags
  /\ frame[t].snap.head = Null
  /\ SpinsLeft(t)
  /\ frame' = [frame EXCEPT ![t].snap = state, ![t].spins = @ + 1]
  /\ UNCHANGED <<state, pc>>
  /\ NoListChange

\* The node as park! fills it in for a push on the list that starts at head.
\* (Mutants: the next pointer is left out, and every node is its own tail.)
PushedNodeUnlinked(t, head) ==
  [NewThreadData EXCEPT !.queue_tail = IF head = Null THEN t ELSE Null]
PushedNodeOwnTail(t, head) ==
  [NewThreadData EXCEPT !.queue_tail = t, !.next = head]
PushedNode(t, head) ==
  [NewThreadData EXCEPT !.queue_tail = IF head = Null THEN t ELSE Null,
                        !.next = head]

\* park!: push the node in front of the list and go to sleep, or try again.
LockSlowPark(t) ==
  /\ pc[t] = "lock_loop"
  /\ LOCKED_BIT \in frame[t].snap.flags
  /\ frame[t].snap.head = Null => ~SpinsLeft(t)
  /\ \/ /\ CasOk(t, set_queue_head(frame[t].snap, t))
        /\ node' = [node EXCEPT ![t] = PushedNode(t, frame[t].snap.head)]
        /\ queued' = queued \union {t}
        /\ ahead' = [ahead EXCEPT ![t] = queued]
        /\ Return(t, "parked")
     \/ /\ CasErr(t)
        /\ UNCHANGED <<state, pc>>
        /\ NoListChange

\* After parker.park() the ThreadData is dropped, and its token decides: the lock
\* was handed over, or lock_slow starts over. (Mutant: the token is ignored.)
ResumeIgnoringToken(t) ==
  /\ pc[t] = "parked"
  /\ Return(t, "lock_slow")
  /\ node' = [node EXCEPT ![t] = NewThreadData]
  /\ UNCHANGED <<state, queued, ahead>>
Resume(t) ==
  /\ pc[t] = "parked"
  /\ Return(t, IF node[t].unpark_token = TOKEN_HANDOFF THEN "held" ELSE "lock_slow")
  /\ node' = [node EXCEPT ![t] = NewThreadData]
  /\ UNCHANGED <<state, queued, ahead>>

\* parker.park() returns once its token is there.
ParkReturn(t) ==
  /\ node[t].notified
  /\ Resume(t)

-----------------------------------------------------------------------------
(* unlock and unlock_fair. *)

\* unlock (its fetch_sub clears a bit that LockedIffOwned shows to be set), and
\* unlock_fair while its timeout has not expired: clear the bit and look into the
\* queue, if there is one that nobody is working on.
\* (Mutant: does not look.)
UnlockWithoutLook(t) ==
  /\ Goto(t, "held", "idle")
  /\ state' = without_bits(state, {LOCKED_BIT})
  /\ UNCHANGED frame
  /\ NoListChange
Unlock(t) ==
  /\ Goto(t, "held", IF NothingToWake(state) THEN "idle" ELSE "us_load")
  /\ state' = without_bits(state, {LOCKED_BIT})
  /\ UNCHANGED frame
  /\ NoListChange

\* unlock_fair when its timeout has expired, which may be at any call.
\* (Mutant: it unlocks like unlock whether there is a queue or not.)
UnlockFairNoHandOff(t) ==
  /\ FairUnlock
  /\ Goto(t, "held", "fair_clear")
  /\ state' = with_bit(state, TIMEOUT_BIT)
  /\ UNCHANGED frame
  /\ NoListChange
UnlockFair(t) ==
  /\ FairUnlock
  /\ Goto(t, "held", IF state.head # Null THEN "usf_load" ELSE "fair_clear")
  /\ state' = with_bit(state, TIMEOUT_BIT)
  /\ UNCHANGED frame
  /\ NoListChange

\* unlock_fair saw no queue: it unlocks like unlock. In unlock_slow_fair the same
\* end of the call is fetch_and(QUEUE_MASK), which clears every bit and does not
\* look: FairReleaseFindsSleeper shows that it is never needed.
UnlockFairClear(t) ==
  LET empty == pc[t] = "usf_empty"
  IN  /\ pc[t] \in {"fair_clear", "usf_empty"}
      /\ state' = without_bits(state, IF empty THEN Bits ELSE {LOCKED_BIT, TIMEOUT_BIT})
      /\ Return(t, IF empty \/ NothingToWake(state) THEN "idle" ELSE "us_load")
      /\ NoListChange

-----------------------------------------------------------------------------
(* unlock_slow. *)

UnlockSlowLoad(t) ==
  /\ Goto(t, "us_load", "us_try")
  /\ Load(t)
  /\ UNCHANGED state
  /\ NoListChange

UnlockSlowReturn(t) ==
  /\ pc[t] = "us_try"
  /\ NothingToWake(frame[t].snap)
  /\ Return(t, "idle")
  /\ UNCHANGED state
  /\ NoListChange

\* Try to grab the queue lock. The local copy is not updated when that succeeds,
\* it keeps saying that the queue is not locked.
UnlockSlowTry(t) ==
  /\ pc[t] = "us_try"
  /\ ~NothingToWake(frame[t].snap)
  /\ \/ /\ CasOk(t, with_bit(frame[t].snap, QUEUE_LOCKED_BIT))
        /\ pc' = [pc EXCEPT ![t] = "us_link"]
        /\ frame' = [frame EXCEPT ![t].cur = frame[t].snap.head]
     \/ /\ CasErr(t)
        /\ UNCHANGED <<state, pc>>
  /\ NoListChange

\* One round of link_prev_nodes!, here and in unlock_slow_fair. (A null next
\* pointer would be dereferenced by the code: NodesAlive excludes it.)
LinkPrev(t) ==
  LET cur  == frame[t].cur
      next == node[cur].next
  IN  /\ pc[t] \in {"us_link", "usf_link"}
      /\ cur # Null
      /\ node[cur].queue_tail = Null
      /\ next # Null
      /\ node' = [node EXCEPT ![next].prev = cur]
      /\ frame' = [frame EXCEPT ![t].cur = next]
      /\ UNCHANGED <<state, pc, queued, ahead>>

\* Plain unlock wakes nobody while the lock is taken in its copy of the word.
\* (Mutant: it does.)
LeaveToOwnerNever(w) == FALSE
LeaveToOwner(w) == LOCKED_BIT \in w.flags

\* link_prev_nodes! has met a processed node, which knows the tail of the list;
\* the head now knows it too.
LinkDone(t) ==
  LET tail == node[frame[t].cur].queue_tail
      fair == pc[t] = "usf_link"
  IN  /\ pc[t] \in {"us_link", "usf_link"}
      /\ frame[t].cur # Null
      /\ tail # Null
      /\ node' = [node EXCEPT ![frame[t].snap.head].queue_tail = tail]
      /\ frame' = [frame EXCEPT ![t].tail = tail, ![t].cur = Null]
      /\ pc' = [pc EXCEPT ![t] =
           IF ~fair /\ LeaveToOwner(frame[t].snap) THEN "us_release"
           ELSE IF node[tail].prev = Null
                THEN IF fair THEN "usf_pop_last" ELSE "us_pop_last"
                ELSE IF fair THEN "usf_pop_more" ELSE "us_pop_more"]
      /\ UNCHANGED <<state, queued, ahead>>

\* Start again at label 'outer with the word that the failed exchange returned.
\* (Mutant: with the old copy of the word.)
RelinkStale(t, to) ==
  /\ pc' = [pc EXCEPT ![t] = to]
  /\ frame' = [frame EXCEPT ![t].cur = frame[t].snap.head]
Relink(t, to) ==
  /\ pc' = [pc EXCEPT ![t] = to]
  /\ frame' = [frame EXCEPT ![t].snap = state, ![t].cur = state.head]

\* Somebody took the lock meanwhile: leave the queue to the next unlock.
\* (Mutant: fetch_and instead of an exchange.)
UnlockSlowReleaseBlind(t) ==
  /\ pc[t] = "us_release"
  /\ state' = without_bits(state, {QUEUE_LOCKED_BIT})
  /\ Return(t, "idle")
  /\ NoListChange
UnlockSlowRelease(t) ==
  /\ pc[t] = "us_release"
  /\ \/ /\ CasOk(t, without_bits(frame[t].snap, {QUEUE_LOCKED_BIT}))
        /\ Return(t, "idle")
     \/ /\ state # frame[t].snap \/ SpuriousFailures
        /\ Relink(t, "us_link")
        /\ UNCHANGED state
  /\ NoListChange

\* t's tail leaves the list.
Dequeue(t) ==
  LET tail == frame[t].tail
  IN  /\ queued' = queued \ {tail}
      /\ ahead' = [u \in Threads |-> ahead[u] \ {tail}]

\* The list has one node: empty it and unlock it with one exchange, which keeps
\* only the bits in kept; if a thread was pushed meanwhile, scan again.
PopLast(t, from, link, wake, kept) ==
  /\ pc[t] = from
  /\ \/ /\ CasOk(t, [flags |-> frame[t].snap.flags \intersect kept, head |-> Null])
        /\ pc' = [pc EXCEPT ![t] = wake]
        /\ Dequeue(t)
        /\ UNCHANGED <<frame, node>>
     \/ /\ state # frame[t].snap \/ SpuriousFailures
        /\ IF state.head = Null THEN Load(t) /\ UNCHANGED pc ELSE Relink(t, link)
        /\ UNCHANGED state
        /\ NoListChange

\* The list has more nodes: the head learns the new tail, the queue is unlocked.
\* (Mutant: the head does not learn.)
PopMoreKeepsTail(t, from, wake, cleared) ==
  /\ Goto(t, from, wake)
  /\ state' = without_bits(state, cleared)
  /\ Dequeue(t)
  /\ UNCHANGED <<frame, node>>
PopMore(t, from, wake, cleared) ==
  /\ Goto(t, from, wake)
  /\ node' = [node EXCEPT ![frame[t].snap.head].queue_tail = node[frame[t].tail].prev]
  /\ state' = without_bits(state, cleared)
  /\ Dequeue(t)
  /\ UNCHANGED frame

UnlockSlowPopLast(t) ==
  PopLast(t, "us_pop_last", "us_link", "us_wake", {LOCKED_BIT, TIMEOUT_BIT})

UnlockSlowPopMore(t) ==
  PopMore(t, "us_pop_more", "us_wake", {QUEUE_LOCKED_BIT})

\* parker.unpark() on the thread that was removed.
UnlockSlowWake(t) ==
  /\ pc[t] = "us_wake"
  /\ node' = [node EXCEPT ![frame[t].tail].notified = TRUE]
  /\ Return(t, "idle")
  /\ UNCHANGED <<state, queued, ahead>>

-----------------------------------------------------------------------------
(* unlock_slow_fair: the lock stays locked and changes hands. *)

UnlockFairLoad(t) ==
  /\ Goto(t, "usf_load", "usf_try")
  /\ Load(t)
  /\ UNCHANGED state
  /\ NoListChange

\* Spin while somebody else works on the queue (the spin counter is reset when
\* it runs out, so that it never changes what happens), then grab it.
UnlockFairTry(t) ==
  /\ pc[t] = "usf_try"
  /\ \/ /\ is_queue_locked(frame[t].snap)
        /\ Load(t)
        /\ UNCHANGED <<state, pc>>
     \/ /\ ~is_queue_locked(frame[t].snap)
        /\ CasErr(t)
        /\ UNCHANGED <<state, pc>>
     \/ /\ ~is_queue_locked(frame[t].snap)
        /\ CasOk(t, with_bit(frame[t].snap, QUEUE_LOCKED_BIT))
        /\ pc' = [pc EXCEPT ![t] =
             IF frame[t].snap.head = Null THEN "usf_empty" ELSE "usf_link"]
        /\ frame' = [frame EXCEPT ![t].cur = frame[t].snap.head]
  /\ NoListChange

\* (Mutants: the lock bit goes with the rest of the word, and the timeout bit
\* stays behind.)
UnlockFairPopLastUnlocked(t) ==
  PopLast(t, "usf_pop_last", "usf_link", "usf_wake", {})
UnlockFairPopMoreTimeout(t) ==
  PopMore(t, "usf_pop_more", "usf_wake", {QUEUE_LOCKED_BIT})

UnlockFairPopLast(t) ==
  PopLast(t, "usf_pop_last", "usf_link", "usf_wake", {LOCKED_BIT})

UnlockFairPopMore(t) ==
  PopMore(t, "usf_pop_more", "usf_wake", {QUEUE_LOCKED_BIT, TIMEOUT_BIT})

\* unpark_token.set(TOKEN_HANDOFF), then unpark().
UnlockFairWake(t) ==
  /\ pc[t] = "usf_wake"
  /\ node' = [node EXCEPT ![frame[t].tail].unpark_token = TOKEN_HANDOFF,
                          ![frame[t].tail].notified = TRUE]
  /\ Return(t, "idle")
  /\ UNCHANGED <<state, queued, ahead>>

-----------------------------------------------------------------------------

\* A thread may call into the mutex at any time, or never again.
Arrive(t) == TryLock(t) \/ LockContended(t) \/ IsLocked(t)

\* A call that has begun goes on, and a guard is dropped eventually.
Continue(t) ==
  \/ IsLockedReturn(t)
  \/ LockSlowLoad(t) \/ LockSlowGrab(t) \/ LockSlowSpin(t) \/ LockSlowPark(t)
  \/ ParkReturn(t)
  \/ Unlock(t) \/ UnlockFair(t) \/ UnlockFairClear(t)
  \/ UnlockSlowLoad(t) \/ UnlockSlowReturn(t) \/ UnlockSlowTry(t)
  \/ LinkPrev(t) \/ LinkDone(t)
  \/ UnlockSlowRelease(t) \/ UnlockSlowPopLast(t) \/ UnlockSlowPopMore(t)
  \/ UnlockSlowWake(t)
  \/ UnlockFairLoad(t) \/ UnlockFairTry(t)
  \/ UnlockFairPopLast(t) \/ UnlockFairPopMore(t) \/ UnlockFairWake(t)

Next == \E t \in Threads : Arrive(t) \/ Continue(t)

Spec == Init /\ [][Next]_vars

\* The scheduler runs every thread that is not blocked in park.
Fairness == \A t \in Threads : WF_vars(Continue(t))
FairSpec == Spec /\ Fairness

-----------------------------------------------------------------------------
(* Properties. *)

\* Threads that work under the queue lock, that release the lock fairly, and
\* that are about to wake the thread they removed.
QueueLockPcs ==
  {"us_link", "us_release", "us_pop_last", "us_pop_more",
   "usf_empty", "usf_link", "usf_pop_last", "usf_pop_more"}
PopPcs  == {"us_pop_last", "us_pop_more", "usf_pop_last", "usf_pop_more"}
WakePcs == {"us_wake", "usf_wake"}
FairPcs ==
  {"fair_clear", "usf_load", "usf_try", "usf_empty", "usf_link",
   "usf_pop_last", "usf_pop_more"}
OwnerPcs == {"held", "usf_wake"} \union FairPcs

\* t owns the lock: its guard is alive or being dropped, or the lock was handed
\* over to it and it has not woken up yet.
Owns(t) ==
  \/ pc[t] \in OwnerPcs
  \/ pc[t] = "parked" /\ node[t].unpark_token = TOKEN_HANDOFF

\* Type correctness.
TypeOK ==
  /\ state \in Words
  /\ pc \in [Threads -> PcValues]
  /\ frame \in [Threads -> Locals]
  /\ node \in [Threads -> ThreadDatas]
  /\ queued \in SUBSET Threads
  /\ ahead \in [Threads -> SUBSET Threads]

\* "Upon returning, the thread is the only thread with the mutex held"
\* (Mutex::lock): at most one thread owns the lock, counting a hand-off that is
\* under way, and while it does the word says so.
MutualExclusion ==
  /\ \A t, u \in Threads : Owns(t) /\ Owns(u) => t = u
  /\ (\E t \in Threads : Owns(t)) => LOCKED_BIT \in state.flags

\* The lock bit is never left behind by a thread that is gone, and a fair
\* release never hands the lock to a thread that is not asleep to receive it.
LockedIffOwned ==
  LOCKED_BIT \in state.flags <=> \E t \in Threads : Owns(t)

\* The queue lock bit is set exactly while one thread works on the list: the
\* unsynchronised Cells of the nodes are never touched by two threads.
QueueLockExclusive ==
  /\ \A t, u \in Threads : pc[t] \in QueueLockPcs /\ pc[u] \in QueueLockPcs => t = u
  /\ is_queue_locked(state) <=> \E t \in Threads : pc[t] \in QueueLockPcs

\* The timeout bit never outlives the fair release that set it, whatever plain
\* unlocks run beside it.
TimeoutOnlyInFairRelease ==
  TIMEOUT_BIT \in state.flags => \E t \in Threads : pc[t] \in FairPcs

\* Every ThreadData that a thread is about to read or write belongs to a thread
\* that still sleeps and that nobody else is waking: the nodes live on the
\* stacks of the sleepers, and a sleeper that wakes up early takes its node away.
Asleep(u) == u \in Threads /\ pc[u] = "parked" /\ ~node[u].notified
NodesAlive ==
  /\ \A u \in queued : Asleep(u)
  /\ \A t \in Threads :
       /\ pc[t] \in QueueLockPcs \ {"usf_empty"} => frame[t].snap.head \in queued
       /\ pc[t] \in {"us_link", "usf_link"} =>
            /\ frame[t].cur \in queued
            /\ node[frame[t].cur].queue_tail = Null => node[frame[t].cur].next \in queued
       /\ pc[t] \in PopPcs => frame[t].tail \in queued
       /\ pc[t] \in WakePcs =>
            /\ Asleep(frame[t].tail)
            /\ frame[t].tail \notin queued
            /\ \A u \in Threads \ {t} :
                 pc[u] \in WakePcs => frame[u].tail # frame[t].tail

\* u was pushed right after t.
Follows(u, t) == ahead[u] = ahead[t] \union {t}

\* The intrusive list holds the queued threads in the order of their arrival:
\* the head is the newest, next leads to the one pushed before, the first
\* processed node met from the head knows the oldest, and prev leads from there
\* back to it, whatever half-linked state the pushes and unlockers leave.
Processed == {t \in queued : node[t].queue_tail # Null}
ListRep ==
  /\ state.head = Null <=> queued = {}
  /\ queued # {} => state.head \in queued /\ ahead[state.head] = queued \ {state.head}
  /\ \A t \in queued : ahead[t] # {} => node[t].next \in queued /\ Follows(t, node[t].next)
  /\ queued # {} =>
       \E p \in Processed :
         /\ \A q \in Processed : q = p \/ q \in ahead[p]
         /\ node[p].queue_tail \in queued
         /\ ahead[node[p].queue_tail] = {}
         /\ \A t \in ahead[p] : node[t].prev \in queued /\ Follows(node[t].prev, t)
         /\ \A t \in queued \ ahead[p] :
              node[t].prev # Null => node[t].prev \in queued /\ Follows(node[t].prev, t)

\* The thread that is taken off the list is the one that has waited longest.
PopsOldest ==
  \A t \in Threads : pc[t] \in PopPcs => ahead[frame[t].tail] = {}

\* A fair release that saw a sleeper still finds one when it has the queue lock,
\* although plain unlocks that began earlier go on taking sleepers off the list:
\* they never take the last one while the lock is held. So the lock is handed
\* over, and the branch of unlock_slow_fair that drops it over an empty copy of
\* the queue, without looking again, is not taken.
FairReleaseFindsSleeper ==
  \A t \in Threads :
    /\ pc[t] # "usf_empty"
    /\ pc[t] \in FairPcs \ {"fair_clear"} => state.head # Null

\* No lost wake-up: whenever the lock is free and threads sleep on it, some
\* thread is awake inside lock or unlock, or has been told to wake up, so that
\* the sleepers do not depend on a call that nobody may ever make.
Active(t) ==
  \/ pc[t] \notin {"idle", "said_locked", "parked"}
  \/ pc[t] = "parked" /\ node[t].notified
NoStrandedWaiter ==
  LOCKED_BIT \notin state.flags /\ queued # {} => \E t \in Threads : Active(t)

\* lock "will block the local thread until it is available to acquire the
\* mutex": once no new calls are made, every thread inside lock gets the mutex,
\* whatever barging, spinning and re-parking went on before.
InLock(t) == pc[t] \in {"lock_slow", "lock_loop", "parked"}
EveryLockReturns ==
  <>[][\A t \in Threads : ~Arrive(t)]_vars =>
    \A t \in Threads : InLock(t) ~> pc[t] = "held"

\* A free mutex does not stay free while a thread is inside lock, whatever calls
\* the others go on making.
FreeLockIsTaken ==
  \A t \in Threads : InLock(t) ~> \E u \in Threads : Owns(u)

\* What the fair timeout is for: as long as guards are again and again dropped
\* through unlock_fair with the timeout expired, nobody sleeps on the list for
\* ever, however many newcomers overtake the sleepers and go on doing so.
SleepersAreServed ==
  []<><<\E t \in Threads : UnlockFair(t)>>_vars =>
    \A t \in Threads : t \in queued ~> t \notin queued

-----------------------------------------------------------------------------
\* The mutex seen from outside: the thread that owns it, who counts as asleep,
\* and the order of the line. A hand-off takes place when its receiver leaves
\* the list, before it is told.
owner ==
  IF \E t \in Threads : pc[t] = "usf_wake"
  THEN frame[CHOOSE t \in Threads : pc[t] = "usf_wake"].tail
  ELSE IF \E t \in Threads : Owns(t) THEN CHOOSE t \in Threads : Owns(t) ELSE Null

M == INSTANCE MutexSpec WITH owner <- owner, sleepers <- queued, ahead <- ahead

\* The mutex implements its abstract specification: threads lie down only while
\* the lock is taken, they are called in the order they lay down, and the lock
\* changes hands only by release and acquire or by a hand-off to the oldest.
RefinesMutexSpec == M!Spec
=============================================================================
