----------------------------- MODULE FairTimeout -----------------------------
(***************************************************************************)
(* FairTimeout (src/internal/parking/time.rs): when the next unlock_fair   *)
(* of a mutex has to hand the lock over. A word is the set of the bits     *)
(* that are set in it.                                                     *)
(*                                                                         *)
(* is_timeout is called by the owner of the mutex alone, so a call is one  *)
(* step. The clock is the real one; left and elapsed are read off it.      *)
(***************************************************************************)
EXTENDS Integers, FiniteSetsExt

CONSTANTS
  Width,     \* bits of a word, 32
  ShiftA,    \* the shifts of the generator: 13, 17, 5
  ShiftB,
  ShiftC,
  Align,     \* low bits that are clear in the address of an AtomicU64, 3
  MaxDelay   \* one millisecond, in nanoseconds

ASSUME FairTimeoutAssumption ==
  /\ Width \in Nat
  /\ {ShiftA, ShiftB, ShiftC} \subseteq Nat \ {0}
  /\ Align \in Nat
  /\ MaxDelay \in Nat \ {0}

VARIABLES
  seed,     \* the state of the generator
  left,     \* from now to the timeout; -1 when it is past
  elapsed   \* since new, or since is_timeout was true; as far as MaxDelay; history

fairVars == <<seed, left, elapsed>>

Bits  == 0..(Width - 1)
Words == SUBSET Bits

Shl(w, k) == {i \in Bits : i - k \in w}
Shr(w, k) == {i \in Bits : i + k \in w}

\* gen_u32. (Mutant: the first step shifts the seed away.)
genShiftingOut(w) ==
  LET a == Shl(w, ShiftA)
      b == SymDiff(a, Shr(a, ShiftB))
  IN  SymDiff(b, Shl(b, ShiftC))
gen(w) ==
  LET a == SymDiff(w, Shl(w, ShiftA))
      b == SymDiff(a, Shr(a, ShiftB))
  IN  SymDiff(b, Shl(b, ShiftC))

\* The number that a word stands for, read from its highest bit on.
Value(w) ==
  LET read[n \in 0..Width] ==
        IF n = 0 THEN 0 ELSE 2 * read[n - 1] + (IF Width - n \in w THEN 1 ELSE 0)
  IN  read[Width]

\* The delay that is_timeout makes of it. (Mutant: the remainder is forgotten.)
DelayUnbounded(w) == Value(w)
Delay(w) == Value(w) % MaxDelay

\* new: the timeout is now, the seed is the end of an address on the stack.
FairInit ==
  /\ seed \in SUBSET {i \in Bits : i >= Align}
  /\ left = 0
  /\ elapsed = 0

\* is_timeout. (Mutant: it asks whether the timeout is still ahead.)
Expire ==
  /\ seed' = gen(seed)
  /\ left' = Delay(seed')
  /\ elapsed' = 0

IsTimeoutReversed ==
  \/ left > 0 /\ Expire
  \/ left <= 0 /\ UNCHANGED fairVars
IsTimeout ==
  \/ left < 0 /\ Expire
  \/ left >= 0 /\ UNCHANGED fairVars

\* A nanosecond passes.
Elapse ==
  /\ left' = IF left < 0 THEN left ELSE left - 1
  /\ elapsed' = IF elapsed = MaxDelay THEN elapsed ELSE elapsed + 1
  /\ UNCHANGED seed

FairNext == IsTimeout \/ Elapse

\* Time goes on, and the mutex is unlocked by unlock_fair again and again.
FairFairness == WF_fairVars(Elapse) /\ WF_fairVars(IsTimeout)
FairTimeoutSpec == FairInit /\ [][FairNext]_fairVars /\ FairFairness

-----------------------------------------------------------------------------
(* Properties. *)

\* Type correctness.
FairTypes ==
  /\ seed \in Words
  /\ left \in -1..(MaxDelay - 1)
  /\ elapsed \in 0..MaxDelay

\* gen_u32 is a permutation: no two seeds are followed by the same one, so the
\* delays do not run into a short cycle from which the seed never comes back.
SeedsNeverMerge == \A w \in Words : gen(w) = gen(seed) => w = seed

\* The generator does not die: a seed that is not zero never becomes zero.
\* (A zero stays zero, and then every unlock_fair is fair.)
SeedNeverDies == [][seed # {} => seed' # {}]_fairVars

\* "Time between 0 and 1ms": MaxDelay after a fair release the next is_timeout
\* is true, whatever was asked in between.
UnfairnessIsBounded == left >= 0 => left + elapsed < MaxDelay

\* With unlock_fair called for ever, it is fair for ever again. This is what
\* SleepersAreServed of RawMutex asks for.
FairAgainAndAgain == []<><<Expire>>_fairVars
=============================================================================
