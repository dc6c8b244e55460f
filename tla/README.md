# mekong-9 in TLA+

mekong-9 is a Rust concurrency library: a mutex and a wait group
(`mekong9-sync`), the thread parkers they sleep with (`mekong9-parker`), a hash
function (`mekong9-hash`) and small utilities (`mekong9-utils`). This directory
holds TLA+ modules of its concurrent core, the configurations that check them
with TLC, and proofs that hold for any number of threads.

`PROJECT.json` lists the components, the runs, the source lines behind every
definition, the hazards, the findings and the theorems. Paths below are relative
to the crates in `src/`; `auxiliary.rs` alone is
`mekong9-sync/src/internal/parking/auxiliary.rs`.

## The system

| Component | State | Operations | Talks to |
|---|---|---|---|
| `RawMutex` (`auxiliary.rs`), `Mutex` (`mutex.rs`) | one atomic word: lock bit, queue lock bit, timeout bit, pointer to the newest sleeper; one `ThreadData` on the stack of each sleeper | `lock`, `try_lock`, `is_locked`, `unlock`, `unlock_fair` and their slow paths | a parker per sleeper, `FairTimeout`, `SpinWait` |
| `ParkingQueue` (`auxiliary.rs`), `WaitGroup` (`wait_group.rs`) | an atomic counter of workers; one atomic word: queue lock bit, clear bit, pointer to the newest waiter; one `ThreadData` per waiter | `add`, `done`, `wait`; `park`, `unpark_all`, `abort_self` | a parker per waiter |
| Futex parker (`futex.rs`) | one word: PARKED, EMPTY, NOTIFIED | `park`, `park_until`, `unpark` | the kernel's futex |
| Dispatch-semaphore parker (`semaphore.rs`) | one word and a semaphore | the same | libdispatch |
| Pthread parker (`pthread.rs`) | a flag, a mutex, a condition variable | the same | pthreads |
| `FairTimeout` (`time.rs`) | a deadline and a generator's seed | `is_timeout`, `gen_u32` | the clock |
| `SpinWait` (`spin_wait.rs`) | a counter | `spin`, `spin_no_yield`, `reset` | |
| Timespec arithmetic (`mekong9-parker/src/auxiliary.rs`) | none | `timeout_to_timespec` | the futex and pthread parkers |
| `MixingHasher`, city hash (`mekong9-hash`) | none that is shared | hash of a byte slice | |
| `Backoff`, `CachePadded`, hints (`mekong9-utils`) | a counter, or none | | nothing in the workspace uses `Backoff` |

What makes each of them correct:

* **RawMutex**: one owner, hand-offs under way included; the plain `Cell`s of the
  list nodes touched only under the queue lock and only while their thread is
  asleep; the list in order of arrival whatever half-linked state it is in; a
  sleeper never forgotten; every `lock` comes to an end.
* **ParkingQueue and WaitGroup**: one thread clears the list at a time; everybody
  who waits is released when the counter reaches zero; a waiter that pushed
  itself too late gets off the list and returns.
* **Parkers**: the token of `Parker`: a wake-up is neither lost nor taken twice,
  whatever late, repeated or spurious wake-ups come from the system.
* **Timespec**: a deadline is the time of the timeout, never earlier and never wrapped, and
  a sleep without an end only where the sum is no `time_t`.
* **FairTimeout**: the generator keeps its randomness, and a fair unlock comes again within
  the bound.
* **Hash**: every byte of the input is read and none outside it.

The hard behaviour is all in the first three rows. The lock releases first and
looks for sleepers afterwards, so several unlockers and a new owner meet on one
list; nodes live on stacks and vanish when their thread wakes up; copies of the
word go stale between a load and an exchange; `compare_exchange_weak` may fail for
no reason; a fair unlock hands the lock to a thread that does not run yet beside
a plain unlock that wakes another; wake-ups arrive after the sleeper has come and
gone; timeouts race with wake-ups. A test reaches few of these orders. The
hazards are listed at their lines in `PROJECT.json`.

## The modules

| Module | Models | Composition |
|---|---|---|
| `MutexSpec` | what the mutex promises: an owner and a line of sleepers | abstract |
| `RawMutex` | `auxiliary.rs` 32-456, `mutex.rs` | instantiates `MutexSpec` |
| `MCRawMutex` | symmetry | extends `RawMutex` |
| `RawMutexProofs` | theorems: the owner, the queue lock, the fair release | extends `RawMutex` |
| `RawMutexListProofs` | theorems: the list of sleepers, lost sleepers and wake-ups, the refinement | extends `RawMutexProofs` |
| `MutexOverFutex` | the mutex with a futex word per sleeper instead of the token (`futex.rs` under `auxiliary.rs`) | extends `RawMutex`, instantiates `FutexParker` per sleeper |
| `MutexOverFutexProofs` | theorems | extends `MutexOverFutex` and `RawMutexListProofs` |
| `Parker` | what a parker promises: a token | abstract |
| `FutexParker` | `futex.rs` | instantiates `Parker` |
| `FutexParkerProofs` | theorems | extends `FutexParker` |
| `SemaphoreParker` | `park` and `unpark` of `semaphore.rs`, several parkers that share their unparkers | instantiates `Parker` per owner |
| `SemaphoreParkerProofs` | theorems | extends `SemaphoreParker` |
| `SemaphoreParkUntil` | `park_until` of `semaphore.rs` | extends `SemaphoreParker` |
| `PthreadParker` | `pthread.rs` | |
| `WaitGroup` | `wait_group.rs` over `ParkingQueue` (`auxiliary.rs` 458-661) | |
| `WaitGroupWeak` | the same under the memory orderings of the code | extends `WaitGroup` |
| `WaitGroupProofs` | theorems about both | extends `WaitGroupWeak` |
| `HashReads` | `write` of `hash.rs`, with `low_level.rs` and `city.rs`: which bytes are read, and the pieces | |
| `MCHashReads` | the lengths that are tried | extends `HashReads` |
| `HashReadsProofs` | theorems | extends `HashReads` |
| `FairTimeout` | `time.rs` | |
| `Timespec` | `timeout_to_timespec` of `mekong9-parker/src/auxiliary.rs` and the timed part of `futex.rs` | |
| `DeadlineProofs` | theorems | extends `MCDeadlines` |
| `MCDeadlines` | the two side by side, in one run | extends `FairTimeout` and `Timespec` |

### From code to actions

There is one action per atomic operation of the code (a load, an exchange, a
`fetch_*`, a system call), with the local computation and the plain memory
accesses up to the next one merged into it. `pc[t]` says which atomic operation
thread `t` does next, `frame[t]` holds its live locals. In `RawMutex` the plain
memory is protected by the queue lock, which `QueueLockExclusive` and `NodesAlive`
show to be so, so merging loses nothing. Both arms of every
`compare_exchange_weak` are there, and with `SpuriousFailures` the failure is
possible even when the word is as expected.

A thread is also the address of its `ThreadData`. A node that is created again
has its old address, so every ABA that the allocator could produce is a
behaviour. The word is a record of a set of bits and a head pointer; the packing
into a `usize` relies on the alignment of `ThreadData` and is not modelled. In
the two queues the parker is its token, `notified`, which is what `FutexParker` is
shown to implement.

* `lock`: `TryLock` or `LockContended`, then `LockSlowLoad`, `LockSlowGrab`,
  `LockSlowSpin`, `LockSlowPark`, `ParkReturn`, which ends when the token is there, and `Resume`,
  which looks whether it came with the lock. The fields that `park!` fills in are `PushedNode`.
* `unlock`: `Unlock`, then `UnlockSlowLoad`, `UnlockSlowReturn`, `UnlockSlowTry`,
  `LinkPrev` once per round of `link_prev_nodes!`, `LinkDone`, then either
  `UnlockSlowRelease` or `UnlockSlowPopLast`/`UnlockSlowPopMore` and `UnlockSlowWake`.
* `unlock_fair`: `UnlockFair` when the timeout has expired, which may be at any call
  (`FairTimeout` is a free choice), then `UnlockFairClear` or the `UnlockFair*` chain,
  which ends in `UnlockFairWake`, the hand-off. Otherwise it is `Unlock`.
* `wait`: `Wait`, `Retry`, `ParkLoad`, `Push`, `RetryPushed`, `ParkReturn`; a waiter that
  sees the counter at zero after its push goes through `AbortLoad`, `AbortTry`,
  `AbortNext`, `AbortNotFound`, `AbortHead`, `AbortMiddle`.
* `done`: `Done` counts down first (`fetch_sub`) and looks at what it found afterwards, as
  the code does: a done that was not announced has counted down when its assertion fails, and its
  thread is `panicked`. (One that catches the panic goes on as another thread would.) The
  last announced done goes on with `UnparkAllLoad`, `UnparkAllTry`, `UnparkAllWalk`,
  `UnparkAllCut`, `UnparkAllClear`.
* In `WaitGroup` a node can be read after its owner has left (see the findings).
  `NextOf` gives the outcomes of that: what was left of its next pointer, or null.
* `FutexParker`: the system call is `FutexWait` (compare and sleep in one step),
  `SpuriousWakeup` (EINTR, or an early timeout), `KernelTimeout`, and `WakeOne`, which
  is separate from `UnparkSwap` as it is in the code. The forms for FreeBSD, OpenBSD
  and Windows differ in the system call only.

* `MutexOverFutex`: `ParkReturn` of `RawMutex` is replaced by the steps of the parker,
  `FutexWait`, `SpuriousWakeup`, `Recheck` and `Proceed`, and a wake action by two steps of the
  waker: `UnparkSwap`, after which the sleeper may already run, and `WakeOne`, the system
  call, which may come when the sleeper has left, or sleeps again on the same address
  for another reason. `Park` is the decrement that follows the push. The `word`, the `place` of the owner in
  `park` and the thread that a waker still has to call for (`waking`) are the new state.
* `WaitGroupWeak`: each action of `WaitGroup` with the ordering of its atomic operation. A thread,
  the word, the counter and each token carry a view; release writes it, acquire takes it
  over, a failed or relaxed exchange does not. A load of the counter may give any value that the
  thread has not yet seen to be out of date.
* `FairTimeout`: a word is its set of bits, so that the shifts and exclusive ors of `gen_u32`
  are what they are, and `Value` the number that it stands for; `IsTimeout` is the call and `Elapse` the clock.
* `Timespec`: an `Option` is a set of at most one element. `timeout_to_timespec` is the function of that
  name, `ParkUntil`, `LookAtClock`, `Convert` and `EndSleep` are one round of the loop in
  `park_until`, and `TickOver` is the clock. The sleep may end at any time (see the limits).
* `HashReads`: the bytes of all writes form one stream, and a position of it stands for
  a byte. `Write` begins a call; `CombineContiguous` picks the branch by the length,
  `SplitAndCombine` is the head of the loop over chunks, `HashBlock`, `Round` and
  `FinalReads` are the parts of the block hashes. `reads` collects what the unchecked
  loads touch. `build` tells the variants apart: 64 bits with SSE4.2, with SSE2
  or with neither, 32 bits with `city::hash32`, and `city::hash64` by itself.

`queued` and `ahead` of `RawMutex`, `token` of `PthreadParker` and `pieces` and
`aligned` of `HashReads` are history variables: no guard reads them.

Definitions marked "Mutant" are variants of their neighbour with a mistake in
them. No specification uses them; they exist to show that each property can fail.

## The runs

| Run | Bounds | What it shows |
|---|---|---|
| `raw_mutex` | 4 threads, `SpinLimit` 1, spurious failures, every unlock may be fair; 350 thousand states | all safety of the mutex, and that it implements `MutexSpec` |
| `raw_mutex_live` | 3 threads over futexes, no spurious failures of exchanges, late and spurious wake-ups; 95 thousand states | the mutex over futexes is the mutex over tokens and uses every parker as `FutexParker` allows; its threads are never all asleep; a free lock is taken, every lock returns, no sleeper starves |
| `futex_parker` | 3 unparkers, word 0..3 | the token, no lost wake-up, both calls return |
| `semaphore_parker` | 2 owners, 3 unparkers | the token for each owner, the semaphore back at zero |
| `semaphore_counter_reset` | 1 owner, 2 unparkers | violation: `park_until` returns while a signal is still to come |
| `pthread_parker` | 1 owner, 2 unparkers | violation: `park` does not wait |
| `wait_group` | 3 threads that may all wait, one `add`, `done` at any time, spurious failures; 920 thousand states | the clear bit belongs to one `done`; the counter is short by no more than the calls that panicked |
| `wait_group_one_waiter` | 2 workers, 3 threads of which 2 may wait, one generation, `done` at any time, release and acquire; 54 thousand states | the work before every done is visible after `wait`; an only waiter is released unless it read the counter out of date |
| `wait_group_abort` | 1 worker, 2 waiters | violation: `abort_self` never ends |
| `wait_group_reuse` | 1 worker and one `add`, 1 waiter | violation: the second generation is not woken |
| `hash_reads` | 5 builds, 2 writes, chunks of 256 bytes, every length up to 98 and those around the multiples of 32 and 64 up to 600; 450 thousand states | exactly the bytes of the slice are read; chunks may be grouped into writes in any way |
| `deadlines` | words of 4 bits, delays below 5, a `time_t` of 2 bits, 3 nanoseconds to the second; 62 thousand states | the generator and the bound of unfairness; deadlines are exact |

**Why the bounds are enough.** In the mutex three threads are the fewest for an
unlocker to be at work on the queue while another thread owns the lock again and
a third sleeps or pushes itself. With four the list reaches three nodes: a head,
a node in the middle and a tail, which is what tells a half-linked list from a
linked one. Calls are unbounded in number: a thread may come back for ever, so
long sequences of calls are covered. `SpinLimit` is 10 in the code; it only
decides how often the word is read again before a thread parks, and 1 has both
outcomes. The futex word keeps its three values at every width from two up, and
the theorems do not fix the width. Three threads over futexes are enough for a waker between its swap
and its system call, a sleeper that has come back to the same address meanwhile, and an
owner that unlocks to wake that sleeper again. `MaxAdds` bounds the calls of `add`, one being
enough for a second generation.

The hasher's chunk is 1024 bytes in the code; 256 is also a multiple of 64 and no multiple
of 20, leaves several rounds in a chunk, and the theorems hold for every chunk of
more than 32 bytes. Two writes tell whether the grouping into writes matters.

In `deadlines` every word is a seed that some start reaches, every timeout meets every reading of
the clock, and the range of `time_t` is smaller than that of the timeouts, so that each of the three
overflow checks decides something. The two halves share no variable; they are put
into one run to be checked at one time, and their product has no more to say than each
half. The theorems hold for every width, shift, `time_t` and length of the second.

Symmetry is used in `raw_mutex` only, where every property is a safety property.

**Deadlock** is checked everywhere except in the runs of the wait group, where all threads may
wait for work that none is left to do (the documentation leaves that to the caller) or have
panicked, and where one waiter may be left behind, which the properties speak of,
and in `hash_reads`, which stops when `MaxWrites` calls have been made.

**Fairness.** `Fairness` of the mutex and the wait group says that a thread that is
inside a call and is not blocked in `park` is run by the scheduler, and that the
owner of a guard drops it eventually. Nobody is obliged to make a call.
`EveryLockReturns` assumes in addition that from some point on no new calls are
made: the lock lets newcomers overtake, and with plain unlocks only a sleeper may
lose every race, in the code as in the model. `FreeLockIsTaken` needs no such
assumption, and `SleepersAreServed` replaces it by another: if unlocks hand the lock over again and again,
a sleeper is served while newcomers go on coming. That they do is `FairAgainAndAgain` of
`FairTimeout`, under the fairness that the clock goes on and that `unlock_fair` is called for
ever. In `MutexOverFutex` a waker that has swapped a word makes its system call, and nothing obliges the
kernel to interrupt a sleeper. `WeakFairness` is `Fairness` of the wait group. Under `SpuriousFailures` an exchange could fail for ever, which no
machine does, so the liveness runs exclude it. The futex parker
is fair to the owner, to the clock and to an unparker that has already swapped the
word; `SpuriousWakeup` and all calls are unfair.

## The proofs

All theorems hold for every value of the constants.

**RawMutexProofs**, in four layers.

1. `TypeCorrect`. `TypeOK` alone is not inductive: `PopMore` and the wake actions index
   `node` with `frame[t].tail`, so `TypeInv` adds that the tail is not null there.
2. `MutexIsExclusive`. Owners are the threads in `OwnerPcs` and a sleeper whose token
   says hand-off. Each action keeps, takes or gives up the lock (`LockEffects`).
   Taking it needs the lock bit clear in a copy that is equal to the word at the
   moment of the exchange, a hand-off passes it from the releasing thread to the
   thread in `frame[t].tail`.
3. `QueueLockIsExclusive`, in the same way for the queue lock bit. The local copy
   that is not updated when the bit is set matters here: an exchange that ends the
   work compares with a word without the bit, so it fails until it has
   reread the word.
4. `FairReleaseAlwaysHandsOver` and `TimeoutBitIsTransient`. A fair release that saw a
   sleeper must not lose it to plain unlocks that began earlier. The strengthening,
   `WorkersHaveWork`, says that whoever works on the queue has a nonempty queue and
   that a plain unlock removes the last node only over an unlocked copy of the word,
   which cannot be current while the releaser holds the lock. It follows that
   lines 395-398 of `auxiliary.rs`, which would clear the word over an empty
   queue without looking again, are never run.

**RawMutexListProofs**. Nothing that is worth knowing of the list is inductive alone: that a pop takes
a sleeper needs the links, the links need the marks that earlier scans left, and a scan is at one of
its places only while nobody else works on the list. `ListInv` is their conjunction:

* `Order` and `Newest`: the history `ahead` (who was queued before whom) is a linear order of the queued threads, and
  the word points at its last element. With `ahead` the order of arrival is stated without recursion.
* `Links`: `next`, and `prev` where it is set, lead to the neighbour in that order.
* `Marks`: a nonempty list has a newest processed node, which knows the oldest one, and
  the backward links are complete from it on; a scan at work may have set more of them.
* `Workers`: what each place of `link_prev_nodes!` and `remove_tail!` knows, above all that the head it has seen
  is at least as new as every processed node.
* `Sleepers`: whoever is queued, or was taken off the list to be woken, is parked and not notified, and no two
  wakers have taken the same thread.

`ListStep` goes through the actions; pushes change the list only at its new end, scans only `prev` and
`queue_tail`, pops only at the old end, and `OneWorker` is what `QueueLockIsExclusive` says of them.
`NodesStayAlive`, `ListIsRepresented` and `OldestLeavesFirst` follow. `LockBitHasOwner` has the same effects of an action
as `MutexIsExclusive`, and needs the list because a hand-off must have a sleeper to take it.

`NoSleeperIsLost`: whoever is parked is on the list, was taken off it by a thread that is about to
notify it, or was notified, and holds a hand-off token only if it was notified (`Accounted`). Pushes put it on
the list, pops move it into the hands of the unlocker, and by `Sleepers` it is in those of nobody else.

`NobodyIsStranded` is the absence of lost wake-ups. Its invariant `Served` says that whenever there are sleepers and
the lock is free, somebody is `Responsible`: a thread in a slow path of `lock` or `unlock`, or one that
was notified. The case to look at is the unlocker that leaves because its copy of the word
says that another thread is at work or that there is nobody (`LeftToAnother`). Its exchange or load
makes that copy current, so the thread with the queue lock is there. That thread releases the queue without waking
anybody only over a copy of the word that is locked; if the lock is free by then, its exchange fails and it goes on.

`ImplementsMutexSpec` maps the steps. `OwnerKnown` says that the choice in `owner` has one outcome, by
`MutexIsExclusive`: the owner, or the receiver of a hand-off under way. `NotSeen`, `AcquireSeen`, `ReleaseSeen` and `PopSeen`
tell what a step looks like to `MutexSpec`, and each action is one of these or a push.

**FutexParkerProofs**. `IInv` joins `TypeOK`, `WordConsistent` and `NoLostWakeup` with
what each place of the code knows of the call. `NeverInconsistent` shows the
`unreachable!` of `park_until` to be unreachable, `WakeupIsNeverLost` that a sleeper
that was notified has a waker under way, `ImplementsParker` that each step
is a step of `Parker` or a stutter.

**SemaphoreParkerProofs**. `PlaceOK` says of each place of `park` what state, semaphore and unparkers can be:
an owner that waits has either not been notified, or there is exactly one count, in the semaphore or
with one unparker that is about to signal (`CountToCome`). `CounterIsReset` and
`SemaphoreImplementsParker` follow for any number of owners and of unparkers that they share.
`park_until` breaks this, as `semaphore_counter_reset` shows, and is not part of it.

**WaitGroupProofs**. `NoSilentShortfall`: `done` counts down before it asserts, so the counter may go below zero, and
nothing but the panics tells. `ShortfallIsReported` is inductive together with the types and with
the finiteness of the set of panicked threads (`ShortInv`): a done that takes the counter below zero adds its thread to
that set, and no other step takes anything from the counter or begins after a panic (`PanicSteps`).

`AtMostOneWaker` (`AtMostOneWakerWeak` for `WaitGroupWeak`): the clear bit belongs to exactly one
thread. It is set by an exchange on a word without bits, and while it is set the
queue lock cannot be taken, a push keeps it, and the clearing thread alone replaces
the word.

Of `WaitGroupWeak`, `DonesAreVisible`: "a call to `done` synchronizes before the return of any
`wait` call that it unblocks", for any threads and workers. The invariant says that every view
holds only dones that were called, those that panic included, and that the counter carries all of them: each done takes over
what the earlier ones left there and adds its own. `Control` is the lemma about the code: only `done` writes the
counter, and only a look at it that gives zero leaves `wait`.

`SoleWaiterIsWoken` and `OnlyStaleReadsStrand` are about one waiter and one generation, for any number of workers, on a
sequentially consistent machine and on the weak one. What has to be excluded is a waiter that sleeps while the
counter is zero and no `done` is in `unpark_all`. The counter only goes down, so it becomes zero in one `done`, which
alone goes to `unpark_all` (`OneInDone`), and nobody else waits (`Alone`). As long as the counter is not zero the
queue is at rest (`Working`): nobody has read zero and the word holds the node of the waiter from its push
on, or nothing. The step that makes the counter zero therefore finds a sleeper's node in the word, and from there to the
`unpark` its `done` is on the way to it (`WakerOf`). A waiter that pushes itself later looks at the counter afterwards
and does not sleep, unless that look is out of date, which is what `stale` records. `WorkingStep`,
`ZeroStep`, `NoSleepOverZero` and `WakerStep` are about the steps of both machines, which differ only in what
a look at the counter may give. So this use of the wait group leaves nobody behind, even if `done` is called too often, and every finding about
sleepers that are left behind needs what `SoleWaiterIsWoken` excludes: a second waiter, or an `add`.

**HashReadsProofs**. The lemmas `SmallExact` to `TailExact` say of each group of loads that
it is exactly a range of positions. `IInv` joins `Cursors`, which orders the positions
that the code keeps (a block of a 64-bit build has more than 32 bytes; a round is begun
only if more than a round is left), and `Progress`: what was read lies inside the slice
and covers everything before the cursor, and, of a block at work, the rounds behind it
and the end that the city hashes read first. `NothingElseIsRead` and `EverythingIsRead`
follow, and `HashTypeCorrect`, for every length of every slice.

`WritesMayBeSplit`: as long as all writes before the last have lengths that are multiples of the chunk,
the pieces are those of one write of everything. `OnPieces` says of the stream that it
has been cut at all multiples of the chunk so far and nowhere else but at the end of the last write, whatever
writes they came in. `PiecesGrow` adds the next piece, and `QuotientIs`, `MultipleOf` and `OnGrid` are the arithmetic of
multiples that it needs.

**MutexOverFutexProofs**. `FutexMutexIsRawMutex`: every step is a step of `RawMutex` or a stutter, so all
theorems of `RawMutexProofs` hold over futexes (`FutexMutexIsExclusive`, `FutexQueueIsExclusive`).
`FInv` adds to `TypeInv` where the owner of a word may be when the word has a value, and that a
word says NOTIFIED only if the node of a sleeper was notified, which a late wake-up of the previous
life of the address cannot bring about, because the push that begins a new life clears the word
and only the swap sets it. `NoSleeperIsForgotten` comes with it. `ParkersAreUsedRight` shows
`ParkersAreFutexParkers`: by `NodesAlive` an unlocker swaps only the word of a thread that is parked, so the word of every other
thread stays `EMPTY` (`GoneIsEmpty`), and the push that begins the next life of its address does not
change it behind the parker's back.
`FutexMutexImplementsSpec` composes the two refinements: from the word down to the system calls, the mutex is `MutexSpec`.

`SleepersHaveCompany`: while a thread sleeps in the kernel, another is awake that holds the lock, is inside `lock` or
`unlock`, or has a futex to wake. If the lock is taken it has an owner (`LockBitHasOwner`), which is awake or a sleeper that was
notified; if not, the sleeper is on the list, and `NobodyIsStranded` has somebody for it, or in the hands of an unlocker,
or notified (`NoSleeperIsLost`). A thread that was notified finds that in its word (`NotifiedInWord`); if it sleeps nevertheless, it has a waker
(`NoSleeperIsForgotten`), who does nothing else until it has made its system call (`WakersOnlyWake`).

**DeadlineProofs**. `NoTwoSeedsMerge`: `x ^= x << k` and `x ^= x >> k` have an inverse for every width and every shift
above zero. If two words differ, they differ in a lowest bit (for the other direction, a highest),
and there the images differ too. `SeedStaysAlive` follows, zero being mapped to zero.

`FairReleaseComes`: the delay that `gen_u32() % 1_000_000` gives is below the bound, so that a call which comes
that much later than the last fair release is fair again. It rests on the number that a word stands for being a natural one. `Value` is a recursive function over the bits, which the
prover can reason about where a recursive operator would be out of reach; that it is one, and a natural number at each bit, is shown with the
least bit at which it would fail to be, because the induction theorems of the library take an operator as a
parameter and cannot be used. `DeadlineTypesCorrect` joins it with the types of `Timespec`.

`ConversionIsExact`: `timeout_to_timespec` gives the sum, or nothing exactly if
the seconds of the sum are no `time_t`. The lemmas take the cast, the carry and the checked additions one by one.
`TimespecsAreCanonical`, `DeadlinesAreMet` and `EndlessSleepIsRight` put it between the two readings of the clock.

Assumptions: the `ASSUME`s of the modules, which say that the constants are of the
right kind (the null pointer is no thread, a spin limit is a natural number, the
futex word holds at least three values, a chunk is longer than 32 bytes, a shift is not zero, a second has nanoseconds).

**Only model-checked** is liveness, which is out of the prover's reach as it needs fairness and `ENABLED`:
`EveryLockReturns`, `FreeLockIsTaken` and `SleepersAreServed` of the mutex, `NotifiedReturns` of the two parkers and
`ParkUntilReturns` of the futex parker, `WaitReturnsUnlessStale` of the wait group, and `FairAgainAndAgain`. Every other
property of a passing run is proved.

The types of `RawMutex`, `FutexParker`, `MutexOverFutex`, `WaitGroup`, `WaitGroupWeak` and
`HashReads` are proved and not checked again by a run.

## Findings

* `is_locked` (`mutex.rs:99`) takes a mutex with a queue for a locked one, because
  `try_lock` compares the whole word with `IDLE`. Its documentation (`mutex.rs:95`) says
  "Checks whether the mutex is currently locked." The action `IsLocked` has this guard;
  no run states the difference, as it would only restate it.
* `park_until` of the semaphore parker gives up at its deadline without taking the state back. In the run an
  `unpark` has already swapped PARKED for NOTIFIED and is about to signal; `park_until` returns
  without a swap of its own, and the signal then leaves a count that nobody takes. The same loop also ends only when a
  notification and a timeout come together, so it can take a notification and
  answer FALSE; the module shows this, no run states it yet.
* `park` of the pthread parker never waits: no code sets `should_park`. The users of
  the parker run `park` once and go on, so on such targets, where `ThreadData` is kept in
  thread-local storage, a node would still be queued when its thread pushes it again.
* `WaitGroup`: a waiter that saw the counter at zero after its push leaves through `abort_self` while
  `unpark_all` walks its node, because `abort_self` returns as soon as it finds the queue in use. With two waiters the
  one behind it may then be missed, as what is left of the node's next pointer is
  anything (`NextOf`); TLC finds that against `AnnouncedAreWoken` in the configuration of `wait_group_abort`,
  and no run of its own states it. With a single waiter nobody is missed, but `unpark` is
  called on the parker of a node that is gone; the model has no memory for it to write to.
* `WaitGroup` with two waiters: a waiter in `abort_self` that cannot reach its node from the head of the list
  that it locked scans this list for ever (`wait_group_abort`), because `unpark_all` has cut its node off while
  the other waiter pushed itself, or because the node in front of its own is gone. On each round of that scan
  `abort_self` gives the queue lock up and goes on reading the list without it (`AbortNotFound`), so with two waiters
  the queue lock of the wait group does not keep threads apart: another one may take it meanwhile, and both walk
  the same list. No invariant states otherwise.
* `WaitGroup` used again: the last `done` of the second generation leaves its waiter
  to an `unpark_all` of the first one that is already past the list.
* A `done` that was not announced panics with the counter at -1, and nothing brings it back. The next `add`,
  which neither panics nor looks at the queue, takes it to zero without releasing the threads that blocked
  meanwhile, though its documentation (`wait_group.rs:56`) says "If the counter becomes zero, all threads blocked on
  [`wait`] are released." With `Size` 0 and one `add` TLC finds that against
  `ParkedIsWoken`; no run states it, and `AnnouncedAreWoken` and `AbortReturns` are about groups without such a panic.
* The exchange of `unpark_all` that sets the clear bit only acquires (`auxiliary.rs:569`). On a weakly
  ordered machine a waiter that pushes itself onto the word behind it may read the old counter and sleep, while
  `unpark_all` has already looked at the list. `OnlyStaleReadStrands` states that this
  read is the only way for an only waiter to be left behind.

## Limits

* The models are sequentially consistent, except `WaitGroupWeak`. There loads of the queue's word are
  fresh (a stale one makes the exchange after it fail), and the counter only goes down.
* Nothing crashes: a thread that panics with a guard is a thread that drops it. The panic of `done` is
  modelled, and ends the thread.
* `add` takes a delta and its documentation speaks of negative ones and a panic; the
  parameter is a `usize`. The model adds one, and makes only
  those calls of `add` that the documentation allows; `done` may be called too often.
* `timespec` values: `futex.rs` passes a pointer to a value that may be gone and times of
  a monotonic clock to a wait on the realtime clock (lines 154-163). The outcome is an
  early or a late timeout; an early one is `SpuriousWakeup`. A clock ahead of the deadline turns the loop
  into a busy wait, which still ends in time. On Android `timespec_now` itself reads the realtime clock
  (`CLOCK_REALTIME`), which may be set; the model has one clock, which never goes back.
* The sources do not build as they are (for instance `mod hash_table` has no file).
  The models follow the functions as written.
* On targets where a `ThreadData` is kept in thread-local storage the same addresses are
  used again, which the models have, but the first creation is not modelled.
* `raw_rwlock.rs` is commented out as a whole. The city hash is a port of a
  third-party function, of which only the reads are modelled. The mixing steps of the
  hasher are 64 and 128-bit arithmetic and AES rounds, beyond an explicit-state checker;
  its integer writes mix in one value and read no slice.

## Plan

Done, in the order of importance of what they model: `MutexSpec`, `RawMutex`, `Parker`, `FutexParker`,
`MutexOverFutex`, `SemaphoreParker`, `SemaphoreParkUntil`, `PthreadParker`, `WaitGroup`, `WaitGroupWeak`,
`HashReads`, `FairTimeout`, `Timespec`, and the proofs above.

To come, models:

1. `RawMutex` over a parker whose `park` returns early, as `PthreadParker` does.
2. What `park_until` of the semaphore parker answers: a notification it takes and reports as a timeout.
3. The integer writes of the hasher, and `(state + 8) * len` in the SSE code against
   `state + 8 * len` in its comment (`low_level.rs` 100-104).
4. Runs of their own for the waiter behind a node that is gone, and for the `add` after a `done` that panicked.

To come, theorems:

1. `RawMutex` with a parker that may return early, once it is modelled: which of the theorems survive.
