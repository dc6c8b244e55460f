--------------------------- MODULE DeadlineProofs ---------------------------
(***************************************************************************)
(* What the two computations with time yield, for every width.             *)
(*                                                                         *)
(* The generator of FairTimeout is a permutation of the words, for every   *)
(* three shifts: a step x ^= x << k can be undone from the lowest bit      *)
(* upwards, a step x ^= x >> k from the highest one downwards.             *)
(*                                                                         *)
(* timeout_to_timespec adds exactly or says that the sum is no time_t, and *)
(* the deadlines of park_until follow.                                     *)
(***************************************************************************)
EXTENDS MCDeadlines, WellFoundedInduction, TLAPS

\* A nonempty set of naturals has a least element.
LEMMA LeastElement ==
  ASSUME NEW S, S \subseteq Nat, S # {}
  PROVE  \E i \in S : \A j \in S : i <= j
<1>. DEFINE R == {ss \in Nat \X Nat : ss[1] < ss[2]}
<1>1. IsWellFoundedOn(R, Nat)
  BY NatLessThanWellFounded, Zenon DEF OpToRel
<1>2. PICK i \in S : \A j \in S : ~(<<j, i>> \in R)
  <2>. HIDE DEF R
  <2>. QED BY <1>1, WFMin
<1>3. ASSUME NEW j \in S PROVE i <= j
  <2>1. i \in Nat /\ j \in Nat
    OBVIOUS
  <2>2. j < i => <<j, i>> \in R
    BY <2>1
  <2>. QED BY <1>2, <2>1, <2>2
<1>. QED BY <1>3

\* The lowest bit in which two words differ, and the highest one.
LEMMA LowestDifference ==
  ASSUME NEW x \in Words, NEW y \in Words, x # y
  PROVE  \E i \in Bits : /\ (i \in x) # (i \in y)
                         /\ \A j \in Bits : j < i => ((j \in x) <=> (j \in y))
<1>. DEFINE D == {i \in Bits : (i \in x) # (i \in y)}
<1>1. D \subseteq Nat
  BY FairTimeoutAssumption DEF Bits
<1>2. D # {}
  BY DEF Words
<1>3. PICK i \in D : \A j \in D : i <= j
  BY <1>1, <1>2, LeastElement
<1>4. ASSUME NEW j \in Bits, j < i PROVE (j \in x) <=> (j \in y)
  BY <1>1, <1>3, <1>4 DEF Bits
<1>. QED BY <1>3, <1>4

LEMMA HighestDifference ==
  ASSUME NEW x \in Words, NEW y \in Words, x # y
  PROVE  \E i \in Bits : /\ (i \in x) # (i \in y)
                         /\ \A j \in Bits : j > i => ((j \in x) <=> (j \in y))
<1>. DEFINE D == {n \in 0..Width : \E i \in Bits : n = Width - i /\ (i \in x) # (i \in y)}
<1>1. D \subseteq Nat
  BY FairTimeoutAssumption
<1>2. D # {}
  <2>1. PICK i \in Bits : (i \in x) # (i \in y)
    BY DEF Words
  <2>2. Width - i \in D
    BY <2>1, FairTimeoutAssumption DEF Bits
  <2>. QED BY <2>2
<1>3. PICK n \in D : \A m \in D : n <= m
  BY <1>1, <1>2, LeastElement
<1>4. PICK i \in Bits : n = Width - i /\ (i \in x) # (i \in y)
  BY <1>3
<1>5. ASSUME NEW j \in Bits, j > i PROVE (j \in x) <=> (j \in y)
  <2>1. Width - j \in 0..Width /\ ~(n <= Width - j)
    BY <1>4, <1>5, FairTimeoutAssumption DEF Bits
  <2>2. Width - j \notin D
    BY <1>3, <2>1
  <2>. QED BY <2>1, <2>2
<1>. QED BY <1>4, <1>5

LEMMA WordsClosed ==
  ASSUME NEW x \in Words, NEW k
  PROVE  /\ SymDiff(x, Shl(x, k)) \in Words
         /\ SymDiff(x, Shr(x, k)) \in Words
BY DEF Words, SymDiff, Shl, Shr

\* x ^= x << k can be undone.
LEMMA LeftStepInjective ==
  ASSUME NEW k \in Nat \ {0}, NEW x \in Words, NEW y \in Words,
         SymDiff(x, Shl(x, k)) = SymDiff(y, Shl(y, k))
  PROVE  x = y
<1>. SUFFICES ASSUME x # y PROVE FALSE
  OBVIOUS
<1>1. PICK i \in Bits : /\ (i \in x) # (i \in y)
                        /\ \A j \in Bits : j < i => ((j \in x) <=> (j \in y))
  BY LowestDifference
<1>2. i - k \in x <=> i - k \in y
  <2>1. CASE i - k \in Bits
    BY <1>1, <2>1 DEF Bits
  <2>2. CASE i - k \notin Bits
    BY <2>2 DEF Words
  <2>. QED BY <2>1, <2>2
<1>3. i \in Shl(x, k) <=> i \in Shl(y, k)
  BY <1>2 DEF Shl
<1>4. i \in SymDiff(x, Shl(x, k)) <=> i \in SymDiff(y, Shl(y, k))
  OBVIOUS
<1>. QED BY <1>1, <1>3, <1>4 DEF SymDiff

\* x ^= x >> k can be undone.
LEMMA RightStepInjective ==
  ASSUME NEW k \in Nat \ {0}, NEW x \in Words, NEW y \in Words,
         SymDiff(x, Shr(x, k)) = SymDiff(y, Shr(y, k))
  PROVE  x = y
<1>. SUFFICES ASSUME x # y PROVE FALSE
  OBVIOUS
<1>1. PICK i \in Bits : /\ (i \in x) # (i \in y)
                        /\ \A j \in Bits : j > i => ((j \in x) <=> (j \in y))
  BY HighestDifference
<1>2. i + k \in x <=> i + k \in y
  <2>1. CASE i + k \in Bits
    BY <1>1, <2>1 DEF Bits
  <2>2. CASE i + k \notin Bits
    BY <2>2 DEF Words
  <2>. QED BY <2>1, <2>2
<1>3. i \in Shr(x, k) <=> i \in Shr(y, k)
  BY <1>2 DEF Shr
<1>4. i \in SymDiff(x, Shr(x, k)) <=> i \in SymDiff(y, Shr(y, k))
  OBVIOUS
<1>. QED BY <1>1, <1>3, <1>4 DEF SymDiff

-----------------------------------------------------------------------------
\* gen_u32 maps words to words, and different words to different words.
LEMMA GenInjective ==
  ASSUME NEW x \in Words, NEW y \in Words
  PROVE  /\ gen(x) \in Words
         /\ gen(x) = gen(y) => x = y
<1>. DEFINE a(w) == SymDiff(w, Shl(w, ShiftA))
            b(w) == SymDiff(a(w), Shr(a(w), ShiftB))
            c(w) == SymDiff(b(w), Shl(b(w), ShiftC))
<1>1. \A w : gen(w) = c(w)
  BY DEF gen
<1>2. \A w \in Words : a(w) \in Words
  BY WordsClosed
<1>3. \A w \in Words : b(w) \in Words
  <2>. HIDE DEF a
  <2>. QED BY <1>2, WordsClosed
<1>4. gen(x) \in Words
  <2>. HIDE DEF b
  <2>. QED BY <1>1, <1>3, WordsClosed
<1>5. ASSUME gen(x) = gen(y) PROVE x = y
  <2>1. c(x) = c(y)
    BY <1>1, <1>5
  <2>2. b(x) = b(y)
    <3>. HIDE DEF b
    <3>. QED BY <1>3, <2>1, LeftStepInjective, FairTimeoutAssumption
  <2>3. a(x) = a(y)
    <3>. HIDE DEF a
    <3>. QED BY <1>2, <2>2, RightStepInjective, FairTimeoutAssumption
  <2>. QED BY <2>3, LeftStepInjective, FairTimeoutAssumption
<1>. QED BY <1>4, <1>5

\* Zero is followed by zero.
LEMMA GenZero == gen({}) = {}
BY DEF gen, SymDiff, Shl, Shr

\* The seed is a word.
LEMMA SeedIsWord == FairTimeoutSpec => [](seed \in Words)
<1>1. FairInit => seed \in Words
  BY DEF FairInit, Words
<1>2. seed \in Words /\ [FairNext]_fairVars => (seed \in Words)'
  <2>. SUFFICES ASSUME seed \in Words, [FairNext]_fairVars PROVE seed' \in Words
    OBVIOUS
  <2>1. CASE seed' = gen(seed)
    BY <2>1, GenInjective
  <2>2. CASE UNCHANGED seed
    BY <2>2
  <2>. QED BY <2>1, <2>2 DEF FairNext, IsTimeout, Expire, Elapse, fairVars
<1>. QED BY <1>1, <1>2, PTL DEF FairTimeoutSpec

\* gen_u32 is a permutation, for every width and every three shifts: no two
\* seeds have the same successor.
THEOREM NoTwoSeedsMerge == FairTimeoutSpec => []SeedsNeverMerge
<1>1. seed \in Words => SeedsNeverMerge
  BY GenInjective DEF SeedsNeverMerge
<1>. QED BY <1>1, SeedIsWord, PTL

\* A seed that is not zero never becomes zero, so a mutex whose address does not
\* end in zeros never loses the randomness of its timeouts.
THEOREM SeedStaysAlive == FairTimeoutSpec => SeedNeverDies
<1>1. seed \in Words /\ [FairNext]_fairVars => [seed # {} => seed' # {}]_fairVars
  <2>. SUFFICES ASSUME seed \in Words, [FairNext]_fairVars, seed # {}
                PROVE  seed' # {}
    OBVIOUS
  <2>1. gen(seed) # {}
    <3>1. {} \in Words
      BY DEF Words
    <3>. QED BY <3>1, GenZero, GenInjective
  <2>. QED BY <2>1 DEF FairNext, IsTimeout, Expire, Elapse, fairVars
<1>. QED BY <1>1, SeedIsWord, PTL DEF FairTimeoutSpec, SeedNeverDies

-----------------------------------------------------------------------------
\* The bits of a word from the highest on, read into a number.
ReadFrom(w, read) ==
  read = [n \in 0..Width |->
            IF n = 0 THEN 0 ELSE 2 * read[n - 1] + (IF Width - n \in w THEN 1 ELSE 0)]

\* There is such a reading, and it yields naturals.
LEMMA ReadingExists ==
  ASSUME NEW w
  PROVE  \E read \in [0..Width -> Nat] : ReadFrom(w, read)
<1>. DEFINE Bit(n) == IF Width - n \in w THEN 1 ELSE 0
            Good(m, f) == \A n \in 0..m : f[n] = IF n = 0 THEN 0 ELSE 2 * f[n - 1] + Bit(n)
            Bad == {m \in 0..Width : ~ \E f \in [0..m -> Nat] : Good(m, f)}
<1>0. Width \in Nat
  BY FairTimeoutAssumption
<1>1. Bad = {}
  <2>. SUFFICES ASSUME Bad # {} PROVE FALSE
    OBVIOUS
  <2>1. PICK m \in Bad : \A j \in Bad : m <= j
    <3>. Bad \subseteq Nat
      BY <1>0
    <3>. HIDE DEF Bad
    <3>. QED BY LeastElement
  <2>2. m # 0
    <3>1. [n \in 0..0 |-> 0] \in [0..0 -> Nat] /\ Good(0, [n \in 0..0 |-> 0])
      OBVIOUS
    <3>2. 0 \notin Bad
      BY <3>1
    <3>. HIDE DEF Bad
    <3>. QED BY <2>1, <3>2
  <2>3. m - 1 \in 0..Width /\ m \in 0..Width /\ m - 1 \notin Bad
    <3>1. m \in 0..Width
      BY <2>1
    <3>. HIDE DEF Bad
    <3>. QED BY <1>0, <2>1, <2>2, <3>1
  <2>4. PICK f \in [0..(m - 1) -> Nat] : Good(m - 1, f)
    BY <2>3
  <2>. DEFINE g == [n \in 0..m |-> IF n = m THEN 2 * f[m - 1] + Bit(m) ELSE f[n]]
  <2>5. g \in [0..m -> Nat]
    BY <1>0, <2>2, <2>3, <2>4
  <2>6. Good(m, g)
    <3>1. ASSUME NEW n \in 0..m, n # m PROVE g[n] = IF n = 0 THEN 0 ELSE 2 * g[n - 1] + Bit(n)
      <4>1. n \in 0..(m - 1) /\ (n # 0 => n - 1 \in 0..(m - 1) /\ n - 1 # m)
        BY <1>0, <2>3, <3>1
      <4>. HIDE DEF Bit
      <4>. QED BY <2>4, <3>1, <4>1
    <3>2. g[m] = IF m = 0 THEN 0 ELSE 2 * g[m - 1] + Bit(m)
      BY <1>0, <2>2, <2>3
    <3>. QED BY <3>1, <3>2
  <2>. QED BY <2>1, <2>5, <2>6
<1>2. PICK f \in [0..Width -> Nat] : Good(Width, f)
  <2>1. Width \in 0..Width /\ Width \notin Bad
    <3>. HIDE DEF Bad
    <3>. QED BY <1>0, <1>1
  <2>. HIDE DEF Good
  <2>. QED BY <2>1
<1>3. f = [n \in 0..Width |-> IF n = 0 THEN 0 ELSE 2 * f[n - 1] + Bit(n)]
  <2>. HIDE DEF Bit
  <2>. QED BY <1>2
<1>. QED BY <1>2, <1>3 DEF ReadFrom

\* A word is a natural number.
LEMMA ValueNat ==
  ASSUME NEW w
  PROVE  Value(w) \in Nat
<1>. DEFINE read == CHOOSE f : ReadFrom(w, f)
<1>1. ReadFrom(w, read)
  BY ReadingExists
<1>2. Value(w) = read[Width]
  BY DEF Value, ReadFrom
<1>3. {n \in 0..Width : read[n] \notin Nat} = {}
  <2>. DEFINE Bad == {n \in 0..Width : read[n] \notin Nat}
  <2>. HIDE DEF read
  <2>. SUFFICES ASSUME Bad # {} PROVE FALSE
    OBVIOUS
  <2>1. PICK m \in Bad : \A j \in Bad : m <= j
    <3>. Bad \subseteq Nat
      BY FairTimeoutAssumption
    <3>. HIDE DEF Bad
    <3>. QED BY LeastElement
  <2>2. read[m] = IF m = 0 THEN 0 ELSE 2 * read[m - 1] + (IF Width - m \in w THEN 1 ELSE 0)
    BY <1>1, <2>1 DEF ReadFrom
  <2>3. m # 0 /\ m \in 0..Width
    BY <2>1, <2>2
  <2>4. m - 1 \in 0..Width /\ m - 1 \notin Bad
    <3>. HIDE DEF Bad
    <3>. QED BY <2>1, <2>3, FairTimeoutAssumption
  <2>5. read[m - 1] \in Nat
    BY <2>4
  <2>. QED BY <2>1, <2>2, <2>3, <2>5
<1>. QED BY <1>2, <1>3, FairTimeoutAssumption

\* The delay is below its bound.
LEMMA DelayBounded == ASSUME NEW w PROVE Delay(w) \in 0..(MaxDelay - 1)
BY ValueNat, FairTimeoutAssumption DEF Delay

\* Types, and how long the next fair release can still be away.
FairInv == FairTypes /\ UnfairnessIsBounded

\* Neither the calls of is_timeout nor the clock put the fair release off.
LEMMA FairInvariant == FairTimeoutSpec => []FairInv
<1>1. FairInit => FairInv
  BY FairTimeoutAssumption DEF FairInit, FairInv, FairTypes, UnfairnessIsBounded, Words
<1>2. seed \in Words /\ FairInv /\ [FairNext]_fairVars => FairInv'
  <2>. SUFFICES ASSUME seed \in Words, FairInv, [FairNext]_fairVars PROVE FairInv'
    OBVIOUS
  <2>. USE FairTimeoutAssumption DEF FairInv, FairTypes, UnfairnessIsBounded
  <2>1. CASE Expire
    <3>1. gen(seed) \in Words /\ Delay(gen(seed)) \in 0..(MaxDelay - 1)
      BY GenInjective, DelayBounded
    <3>. QED BY <2>1, <3>1 DEF Expire
  <2>2. CASE Elapse
    BY <2>2 DEF Elapse
  <2>3. CASE UNCHANGED fairVars
    BY <2>3 DEF fairVars
  <2>. QED BY <2>1, <2>2, <2>3 DEF FairNext, IsTimeout
<1>. QED BY <1>1, <1>2, SeedIsWord, PTL DEF FairTimeoutSpec

\* "Time between 0 and 1ms": the delays of is_timeout stay below the bound, whatever
\* the seed, so a fair release is never further away than that.
THEOREM FairReleaseComes == FairTimeoutSpec => []UnfairnessIsBounded
<1>1. FairInv => UnfairnessIsBounded
  BY DEF FairInv
<1>. QED BY <1>1, FairInvariant, PTL

-----------------------------------------------------------------------------

\* A later second is later, whatever the nanoseconds.
LEMMA SecondsFirst ==
  ASSUME NEW s \in Int, NEW t \in Int, s < t
  PROVE  s * NanoSec + NanoSec <= t * NanoSec
<1>. DEFINE d == t - s - 1
<1>1. d \in Nat /\ t = s + 1 + d
  OBVIOUS
<1>2. NanoSec \in Nat
  BY TimespecAssumption
<1>. HIDE DEF d
<1>3. d * NanoSec \in Nat
  BY <1>1, <1>2
<1>4. (s + 1 + d) * NanoSec = s * NanoSec + NanoSec + d * NanoSec
  BY <1>1, <1>2
<1>5. s * NanoSec \in Int
  BY <1>2
<1>. QED BY <1>1, <1>2, <1>3, <1>4, <1>5

\* Carrying a second changes nothing.
LEMMA Carry ==
  ASSUME NEW s \in Int
  PROVE  (s + 1) * NanoSec = s * NanoSec + NanoSec /\ s * NanoSec \in Int
BY TimespecAssumption

LEMMA AddSeconds ==
  ASSUME NEW s \in Int, NEW t \in Int
  PROVE  /\ (s + t) * NanoSec = s * NanoSec + t * NanoSec
         /\ (s - t) * NanoSec = s * NanoSec - t * NanoSec
         /\ s * NanoSec \in Int
         /\ t * NanoSec \in Int
BY TimespecAssumption

LEMMA NanosInt ==
  ASSUME NEW m \in Nat, NEW i \in Times(m)
  PROVE  Nanos(i) \in Int /\ i.sec \in 0..m /\ i.nsec \in 0..(NanoSec - 1)
BY TimespecAssumption, Carry DEF Times, Nanos

\* The clock goes on by a nanosecond.
LEMMA SuccIsNext ==
  ASSUME NEW m \in Nat, NEW i \in Times(m), Succ(i).sec <= m
  PROVE  Succ(i) \in Times(m) /\ Nanos(Succ(i)) = Nanos(i) + 1
<1>1. i = [sec |-> i.sec, nsec |-> i.nsec] /\ i.sec \in 0..m /\ i.nsec \in 0..(NanoSec - 1)
  BY DEF Times
<1>2. NanoSec \in Nat \ {0}
  BY TimespecAssumption
<1>3. CASE i.nsec + 1 < NanoSec
  <2>1. Succ(i) = [sec |-> i.sec, nsec |-> i.nsec + 1]
    BY <1>1, <1>3 DEF Succ
  <2>2. i.sec * NanoSec \in Int
    BY <1>1, Carry
  <2>. QED BY <1>1, <1>2, <1>3, <2>1, <2>2 DEF Times, Nanos
<1>4. CASE ~(i.nsec + 1 < NanoSec)
  <2>1. Succ(i) = [sec |-> i.sec + 1, nsec |-> 0]
    BY <1>4 DEF Succ
  <2>2. i.nsec = NanoSec - 1
    BY <1>1, <1>2, <1>4
  <2>3. (i.sec + 1) * NanoSec = i.sec * NanoSec + NanoSec /\ i.sec * NanoSec \in Int
    BY <1>1, Carry
  <2>. QED BY <1>1, <1>2, <2>1, <2>2, <2>3 DEF Times, Nanos
<1>. QED BY <1>3, <1>4

\* The difference of an Instant and an earlier one is exact.
LEMMA MinusIsExact ==
  ASSUME NEW m \in Nat, NEW n \in Nat, NEW i \in Times(m), NEW j \in Times(n),
         Nanos(j) < Nanos(i)
  PROVE  Minus(i, j) \in Times(m) /\ Nanos(Minus(i, j)) = Nanos(i) - Nanos(j)
<1>1. /\ i.sec \in 0..m /\ i.nsec \in 0..(NanoSec - 1)
      /\ j.sec \in 0..n /\ j.nsec \in 0..(NanoSec - 1)
  BY DEF Times
<1>2. NanoSec \in Nat \ {0}
  BY TimespecAssumption
<1>3. /\ (i.sec - j.sec) * NanoSec = i.sec * NanoSec - j.sec * NanoSec
      /\ i.sec * NanoSec \in Int
      /\ j.sec * NanoSec \in Int
  <2>1. i.sec \in Int /\ j.sec \in Int
    BY <1>1
  <2>. QED BY <2>1, AddSeconds
<1>4. ~(i.sec < j.sec)
  <2>. SUFFICES ASSUME i.sec < j.sec PROVE FALSE
    OBVIOUS
  <2>1. i.sec * NanoSec + NanoSec <= j.sec * NanoSec
    BY <1>1, SecondsFirst
  <2>. QED BY <1>1, <1>2, <1>3, <2>1 DEF Nanos
<1>5. CASE i.nsec >= j.nsec
  <2>1. Minus(i, j) = [sec |-> i.sec - j.sec, nsec |-> i.nsec - j.nsec]
    BY <1>5 DEF Minus
  <2>2. Minus(i, j) \in Times(m)
    BY <1>1, <1>2, <1>4, <1>5, <2>1 DEF Times
  <2>3. Nanos(Minus(i, j)) = (i.sec - j.sec) * NanoSec + (i.nsec - j.nsec)
    BY <2>1 DEF Nanos
  <2>. QED BY <1>1, <1>2, <1>3, <2>2, <2>3 DEF Nanos
<1>6. CASE ~(i.nsec >= j.nsec)
  <2>1. Minus(i, j) = [sec |-> i.sec - j.sec - 1, nsec |-> i.nsec + NanoSec - j.nsec]
    BY <1>6 DEF Minus
  <2>2. i.sec # j.sec
    BY <1>1, <1>2, <1>3, <1>6 DEF Nanos
  <2>3. (i.sec - j.sec - 1 + 1) * NanoSec = (i.sec - j.sec - 1) * NanoSec + NanoSec
    BY <1>1, Carry
  <2>4. i.sec - j.sec - 1 + 1 = i.sec - j.sec /\ (i.sec - j.sec - 1) * NanoSec \in Int
    BY <1>1, Carry
  <2>5. Minus(i, j) \in Times(m)
    BY <1>1, <1>2, <1>4, <1>6, <2>1, <2>2 DEF Times
  <2>6. Nanos(Minus(i, j)) = (i.sec - j.sec - 1) * NanoSec + (i.nsec + NanoSec - j.nsec)
    BY <2>1 DEF Nanos
  <2>. QED BY <1>1, <1>2, <1>3, <2>3, <2>4, <2>5, <2>6 DEF Nanos
<1>. QED BY <1>5, <1>6

\* A number of seconds that passes the first check is cast to itself.
LEMMA CastIsExact ==
  ASSUME NEW n \in 0..TimeMax
  PROVE  as_time_t(n) = n
<1>. DEFINE w == TimeMax + 1
<1>1. w \in Nat /\ n + w \in 0..(2 * w - 1) /\ 2 * w \in Nat \ {0}
  BY TimespecAssumption
<1>2. \A k \in Nat, q \in Nat \ {0} : k < q => k % q = k
  OBVIOUS
<1>3. (n + w) % (2 * w) = n + w
  BY <1>1, <1>2
<1>. QED BY <1>1, <1>3, TimespecAssumption DEF as_time_t

-----------------------------------------------------------------------------
\* timeout_to_timespec adds a duration to the time, or says that the sum is no
\* time_t: whatever the width, never a deadline that has wrapped around.
THEOREM ConversionIsExact ==
  ASSUME NEW d \in Times(SecMax), NEW t \in Times(TimeMax)
  PROVE  /\ \A ts \in timeout_to_timespec(d, t) :
              ts \in Times(TimeMax) /\ Nanos(ts) = Nanos(t) + Nanos(d)
         /\ timeout_to_timespec(d, t) = {} =>
              Nanos(t) + Nanos(d) >= (TimeMax + 1) * NanoSec
<1>1. /\ d.sec \in Nat /\ d.nsec \in 0..(NanoSec - 1)
      /\ t.sec \in 0..TimeMax /\ t.nsec \in 0..(NanoSec - 1)
  BY TimespecAssumption DEF Times
<1>2. NanoSec \in Nat \ {0} /\ TimeMax \in Nat \ {0}
  BY TimespecAssumption
<1>. DEFINE nsec  == t.nsec + d.nsec
            carry == nsec >= NanoSec
            sum   == t.sec + d.sec
            n     == IF carry THEN nsec - NanoSec ELSE nsec
            s     == IF carry THEN sum + 1 ELSE sum
<1>3. n \in 0..(NanoSec - 1) /\ s \in Nat /\ sum \in Nat
  BY <1>1, <1>2
<1>4. s * NanoSec + n = Nanos(t) + Nanos(d)
  <2>1. sum * NanoSec = t.sec * NanoSec + d.sec * NanoSec
    BY <1>1, <1>2, AddSeconds
  <2>2. (sum + 1) * NanoSec = sum * NanoSec + NanoSec /\ sum * NanoSec \in Int
    BY <1>3, Carry
  <2>3. t.sec * NanoSec \in Int /\ d.sec * NanoSec \in Int
    BY <1>1, <1>2, AddSeconds
  <2>. QED BY <1>1, <1>2, <2>1, <2>2, <2>3 DEF Nanos
<1>5. ASSUME TimeMax < s PROVE Nanos(t) + Nanos(d) >= (TimeMax + 1) * NanoSec
  <2>1. TimeMax * NanoSec + NanoSec <= s * NanoSec
    BY <1>2, <1>3, <1>5, SecondsFirst
  <2>2. (TimeMax + 1) * NanoSec = TimeMax * NanoSec + NanoSec /\ TimeMax * NanoSec \in Int
    BY <1>2, Carry
  <2>3. s * NanoSec \in Int
    BY <1>3, Carry
  <2>. QED BY <1>2, <1>3, <1>4, <2>1, <2>2, <2>3
<1>6. CASE d.sec > TimeMax
  <2>1. timeout_to_timespec(d, t) = {}
    BY <1>6 DEF timeout_to_timespec
  <2>2. TimeMax < s
    BY <1>1, <1>2, <1>6
  <2>. QED BY <1>5, <2>1, <2>2
<1>7. CASE ~(d.sec > TimeMax)
  <2>1. as_time_t(d.sec) = d.sec
    BY <1>1, <1>2, <1>7, CastIsExact
  <2>2. checked_add(t.sec, as_time_t(d.sec)) = IF sum <= TimeMax THEN {sum} ELSE {}
    BY <1>1, <1>2, <2>1 DEF checked_add, TimeT
  <2>3. UNION {checked_add(x, 1) : x \in checked_add(t.sec, as_time_t(d.sec))}
          = IF sum + 1 <= TimeMax THEN {sum + 1} ELSE {}
    <3>1. checked_add(sum, 1) = IF sum + 1 <= TimeMax THEN {sum + 1} ELSE {}
      BY <1>2, <1>3 DEF checked_add, TimeT
    <3>2. CASE sum <= TimeMax
      BY <2>2, <3>1, <3>2
    <3>3. CASE ~(sum <= TimeMax)
      BY <1>2, <1>3, <2>2, <3>3
    <3>. QED BY <3>2, <3>3
  <2>4. timeout_to_timespec(d, t) = IF s <= TimeMax THEN {[sec |-> s, nsec |-> n]} ELSE {}
    <3>. DEFINE total == IF carry
                         THEN UNION {checked_add(x, 1) : x \in checked_add(t.sec, as_time_t(d.sec))}
                         ELSE checked_add(t.sec, as_time_t(d.sec))
    <3>1. timeout_to_timespec(d, t) = {[sec |-> x, nsec |-> n] : x \in total}
      BY <1>7 DEF timeout_to_timespec
    <3>2. total = IF s <= TimeMax THEN {s} ELSE {}
      BY <2>2, <2>3
    <3>. HIDE DEF total, s, n
    <3>. QED BY <3>1, <3>2
  <2>5. CASE s <= TimeMax
    <3>1. timeout_to_timespec(d, t) = {[sec |-> s, nsec |-> n]}
      BY <2>4, <2>5
    <3>2. [sec |-> s, nsec |-> n] \in Times(TimeMax)
      BY <1>2, <1>3, <2>5 DEF Times
    <3>3. Nanos([sec |-> s, nsec |-> n]) = s * NanoSec + n
      BY DEF Nanos
    <3>. HIDE DEF s, n
    <3>. QED BY <1>4, <3>1, <3>2, <3>3
  <2>6. CASE ~(s <= TimeMax)
    <3>1. TimeMax < s
      BY <1>2, <1>3, <2>6
    <3>. QED BY <1>5, <2>4, <2>6, <3>1
  <2>. QED BY <2>5, <2>6
<1>. QED BY <1>6, <1>7

-----------------------------------------------------------------------------
\* The readings of the clock: what park_until knows at each step.
Readings ==
  /\ step = "convert" => Nanos(now) < Nanos(timeout)
  /\ step \in {"convert", "asleep"} => Nanos(now) <= Nanos(clock)

\* The inductive invariant.
IInv == TimeTypes /\ Readings /\ DeadlineMeetsTimeout /\ EndlessOnlyBeyondTime

LEMMA InitReadings == TimeInit => IInv
<1>. SUFFICES ASSUME TimeInit PROVE IInv
  OBVIOUS
<1>1. Zero \in Times(TimeMax) /\ Zero \in Instants
  BY TimespecAssumption DEF Zero, Times, Instants
<1>. QED BY <1>1 DEF TimeInit, IInv, TimeTypes, Readings, DeadlineMeetsTimeout,
                     EndlessOnlyBeyondTime

LEMMA StepReadings == IInv /\ [TimeNext]_timeVars => IInv'
<1>. SUFFICES ASSUME IInv, [TimeNext]_timeVars PROVE IInv'
  OBVIOUS
<1>1. TimeTypes /\ Readings /\ DeadlineMeetsTimeout /\ EndlessOnlyBeyondTime
  BY DEF IInv
<1>2. Nanos(clock) \in Int /\ Nanos(now) \in Int /\ Nanos(timeout) \in Int
  BY <1>1, NanosInt, TimespecAssumption DEF TimeTypes, Instants
<1>3. Zero \in Times(TimeMax) /\ Zero \in Instants
  BY TimespecAssumption DEF Zero, Times, Instants
<1>4. ASSUME NEW i \in Instants, ParkUntil(i) PROVE IInv'
  BY <1>1, <1>4 DEF ParkUntil, IInv, TimeTypes, Readings, DeadlineMeetsTimeout,
                    EndlessOnlyBeyondTime
<1>5. CASE LookAtClock
  <2>1. TimeTypes'
    BY <1>1, <1>3, <1>5 DEF LookAtClock, TimeTypes
  <2>2. Readings'
    BY <1>1, <1>2, <1>5 DEF LookAtClock, Readings
  <2>3. step' # "asleep"
    BY <1>5 DEF LookAtClock
  <2>. QED BY <2>1, <2>2, <2>3 DEF IInv, DeadlineMeetsTimeout, EndlessOnlyBeyondTime
<1>6. CASE Convert
  <2>. DEFINE d == Minus(timeout, now)
  <2>1. /\ step = "convert" /\ step' = "asleep"
        /\ deadline' = timeout_to_timespec(d, clock)
        /\ clock' = clock /\ timeout' = timeout /\ now' = now
    BY <1>6 DEF Convert
  <2>2. Nanos(now) < Nanos(timeout) /\ Nanos(now) <= Nanos(clock)
    BY <1>1, <2>1 DEF Readings
  <2>3. d \in Times(SecMax) /\ Nanos(d) = Nanos(timeout) - Nanos(now)
    BY <1>1, <2>2, MinusIsExact, TimespecAssumption DEF TimeTypes, Instants
  <2>. HIDE DEF d
  <2>4. /\ \A ts \in deadline' :
              ts \in Times(TimeMax) /\ Nanos(ts) = Nanos(clock) + Nanos(d)
        /\ deadline' = {} => Nanos(clock) + Nanos(d) >= (TimeMax + 1) * NanoSec
    BY <1>1, <2>1, <2>3, ConversionIsExact DEF TimeTypes
  <2>5. TimeTypes'
    BY <1>1, <2>1, <2>4 DEF TimeTypes
  <2>6. Readings'
    BY <2>1, <2>2 DEF Readings, Nanos
  <2>7. DeadlineMeetsTimeout'
    <3>1. ASSUME NEW ts \in deadline'
          PROVE  /\ Nanos(timeout) <= Nanos(ts)
                 /\ Nanos(ts) - Nanos(timeout) <= Nanos(clock) - Nanos(now)
      BY <1>2, <2>2, <2>3, <2>4
    <3>. QED BY <2>1, <3>1 DEF DeadlineMeetsTimeout, Nanos
  <2>8. EndlessOnlyBeyondTime'
    <3>1. deadline' = {} =>
            Nanos(timeout) + Nanos(clock) - Nanos(now) >= (TimeMax + 1) * NanoSec
      BY <1>2, <2>3, <2>4
    <3>. QED BY <2>1, <3>1 DEF EndlessOnlyBeyondTime, Nanos
  <2>. QED BY <2>5, <2>6, <2>7, <2>8 DEF IInv
<1>7. CASE EndSleep
  BY <1>1, <1>3, <1>7 DEF EndSleep, IInv, TimeTypes, Readings, DeadlineMeetsTimeout,
                          EndlessOnlyBeyondTime
<1>8. CASE TickOver
  <2>1. /\ clock' = Succ(clock) /\ Succ(clock).sec <= TimeMax
        /\ timeout' = timeout /\ now' = now /\ deadline' = deadline /\ step' = step
    BY <1>8 DEF TickOver
  <2>2. Succ(clock) \in Times(TimeMax) /\ Nanos(Succ(clock)) = Nanos(clock) + 1
    BY <1>1, <2>1, SuccIsNext, TimespecAssumption DEF TimeTypes
  <2>3. TimeTypes'
    BY <1>1, <2>1, <2>2 DEF TimeTypes
  <2>4. Readings'
    <3>1. Nanos(now) <= Nanos(clock) => Nanos(now) <= Nanos(Succ(clock))
      BY <1>2, <2>2
    <3>. QED BY <1>1, <2>1, <3>1 DEF Readings, Nanos
  <2>5. DeadlineMeetsTimeout'
    <3>1. ASSUME step = "asleep", NEW ts \in deadline
          PROVE  /\ Nanos(timeout) <= Nanos(ts)
                 /\ Nanos(ts) - Nanos(timeout) <= Nanos(Succ(clock)) - Nanos(now)
      <4>1. Nanos(ts) \in Int
        BY <1>1, NanosInt, TimespecAssumption DEF TimeTypes
      <4>. QED BY <1>1, <1>2, <2>2, <3>1, <4>1 DEF DeadlineMeetsTimeout
    <3>. QED BY <2>1, <3>1 DEF DeadlineMeetsTimeout, Nanos
  <2>6. EndlessOnlyBeyondTime'
    <3>1. ASSUME step = "asleep", deadline = {}
          PROVE  Nanos(timeout) + Nanos(Succ(clock)) - Nanos(now) >= (TimeMax + 1) * NanoSec
      <4>1. (TimeMax + 1) * NanoSec \in Int
        BY Carry, TimespecAssumption
      <4>. QED BY <1>1, <1>2, <2>2, <3>1, <4>1 DEF EndlessOnlyBeyondTime
    <3>. QED BY <2>1, <3>1 DEF EndlessOnlyBeyondTime, Nanos
  <2>. QED BY <2>3, <2>4, <2>5, <2>6 DEF IInv
<1>9. CASE UNCHANGED timeVars
  BY <1>1, <1>9 DEF timeVars, IInv, TimeTypes, Readings, DeadlineMeetsTimeout,
                    EndlessOnlyBeyondTime
<1>. QED BY <1>4, <1>5, <1>6, <1>7, <1>8, <1>9 DEF TimeNext

LEMMA ReadingsHold == TimespecSpec => []IInv
BY InitReadings, StepReadings, PTL DEF TimespecSpec

\* Every timespec is canonical and not negative, whatever the width of time_t.
THEOREM TimespecsAreCanonical == TimespecSpec => []TimeTypes
<1>1. IInv => TimeTypes
  BY DEF IInv
<1>. QED BY <1>1, ReadingsHold, PTL

\* A deadline is never early, and late only by the time between two clock readings.
THEOREM DeadlinesAreMet == TimespecSpec => []DeadlineMeetsTimeout
<1>1. IInv => DeadlineMeetsTimeout
  BY DEF IInv
<1>. QED BY <1>1, ReadingsHold, PTL

\* Only a timeout that no time_t can hold becomes a sleep without an end.
THEOREM EndlessSleepIsRight == TimespecSpec => []EndlessOnlyBeyondTime
<1>1. IInv => EndlessOnlyBeyondTime
  BY DEF IInv
<1>. QED BY <1>1, ReadingsHold, PTL

-----------------------------------------------------------------------------
\* The two halves side by side take the steps of each.
LEMMA SideBySide == MCSpec => FairTimeoutSpec /\ TimespecSpec
<1>1. [MCNext]_<<fairVars, timeVars>> => [FairNext]_fairVars /\ [TimeNext]_timeVars
  BY DEF MCNext
<1>. QED BY <1>1, PTL DEF MCSpec, MCInit, FairTimeoutSpec, TimespecSpec

\* The seed is a word, the delay is within its bound, and every timespec is canonical.
THEOREM DeadlineTypesCorrect == MCSpec => []MCTypes
<1>1. FairInv /\ TimeTypes => MCTypes
  BY DEF FairInv, MCTypes
<1>. QED BY <1>1, SideBySide, FairInvariant, TimespecsAreCanonical, PTL
=============================================================================
