-------------------------- MODULE HashReadsProofs --------------------------
(***************************************************************************)
(* Theorems about HashReads, for every length and every chunk of more than *)
(* 32 bytes: write reads every byte of its slice and no other, and it may  *)
(* be called once or chunk by chunk, the stream is hashed in the same      *)
(* pieces.                                                                 *)
(***************************************************************************)
EXTENDS HashReads, TLAPS

\* S is the len positions from p on.
Exactly(S, p, len) == \A i \in Int : i \in S <=> p <= i /\ i < p + len

\* A load reads what it says.
LEMMA LoadExact ==
  ASSUME NEW p \in Int, NEW n \in Int, NEW i
  PROVE  i \in Load(p, n) <=> i \in Int /\ p <= i /\ i < p + n
  BY DEF Load

\* The loads of at most 8 bytes.
LEMMA SmallExact ==
  ASSUME NEW p \in Int, NEW len \in 0..8
  PROVE  Exactly(combine_small_contiguous(p, len), p, len)
  BY DEF Exactly, combine_small_contiguous, read4to8, read1to3, Load

\* The loads of 9 to 16 bytes.
LEMMA MediumExact ==
  ASSUME NEW p \in Int, NEW len \in 8..16
  PROVE  Exactly(read9to16(p, len), p, len)
  BY DEF Exactly, read9to16, Load

\* The loads of 17 to 32 bytes.
LEMMA LongExact ==
  ASSUME NEW p \in Int, NEW len \in 17..32
  PROVE  Exactly(combine_contiguous_17to32(p, len), p, len)
  BY DEF Exactly, combine_contiguous_17to32, Load

\* The CRC path.
LEMMA CrcExact ==
  ASSUME NEW p \in Int, NEW len \in 0..32
  PROVE  Exactly(crc32_up_to_32(p, len), p, len)
<1>1. CASE len <= 8
  BY <1>1, SmallExact DEF crc32_up_to_32
<1>2. CASE 8 < len /\ len <= 16
  BY <1>2 DEF crc32_up_to_32, Exactly, Load
<1>3. CASE 16 < len
  BY <1>3 DEF crc32_up_to_32, Exactly, Load
<1> QED
  BY <1>1, <1>2, <1>3

\* Any build reads a short slice exactly.
LEMMA ShortExact ==
  ASSUME NEW p \in Int, NEW len \in 0..ShortLimit
  PROVE  Exactly(ShortReads(p, len), p, len)
<1>1. len \in 0..32
  BY DEF ShortLimit
<1> QED
  BY <1>1, CrcExact, SmallExact, MediumExact, LongExact DEF ShortReads

\* Four loads in a row.
LEMMA Mix32Exact ==
  ASSUME NEW p \in Int
  PROVE  Exactly(mix_32_bytes(p), p, 32)
  BY DEF Exactly, mix_32_bytes, Load

\* The 32-bit city hash of at most 24 bytes.
LEMMA Hash32ShortExact ==
  ASSUME NEW p \in Int, NEW len \in 0..24
  PROVE  Exactly(hash32_short(p, len), p, len)
<1>1. CASE len <= 4
  BY <1>1 DEF hash32_short, Exactly, Load
<1>2. CASE 4 < len /\ len <= 12
  BY <1>2 DEF hash32_short, hash32_len5_to12, Exactly, Load
<1>3. CASE 12 < len
  BY <1>3 DEF hash32_short, hash32_len13_to24, Exactly, Load
<1> QED
  BY <1>1, <1>2, <1>3

\* The 64-bit city hash of at most 64 bytes.
LEMMA Hash64ShortExact ==
  ASSUME NEW p \in Int, NEW len \in 0..64
  PROVE  Exactly(hash64_short(p, len), p, len)
<1>1. CASE len < 8
  BY <1>1, SmallExact DEF hash64_short, hash64_len0_to16
<1>2. CASE 8 <= len /\ len <= 16
  BY <1>2, MediumExact DEF hash64_short, hash64_len0_to16
<1>3. CASE 16 < len /\ len <= 32
  BY <1>3, LongExact DEF hash64_short
<1>4. CASE 32 < len
  BY <1>4 DEF hash64_short, hash64_len33_to64, Exactly, Load
<1> QED
  BY <1>1, <1>2, <1>3, <1>4

\* Any build reads a block that it takes as a whole exactly.
LEMMA WholeExact ==
  ASSUME NEW p \in Int, NEW len \in 0..WholeLimit,
         build \in {"sse42", "sse2", "plain"} => len > 32
  PROVE  build \in Builds => Exactly(WholeReads(p, len), p, len)
<1>1. CASE build = "bits32"
  BY <1>1, Hash32ShortExact DEF WholeReads, WholeLimit
<1>2. CASE build = "city64"
  BY <1>2, Hash64ShortExact DEF WholeReads, WholeLimit
<1>3. CASE build \in {"sse42", "sse2", "plain"}
  BY <1>3, Mix32Exact DEF WholeReads, WholeLimit, low_level_hash33to64, Exactly
<1> QED
  BY <1>1, <1>2, <1>3 DEF Builds

\* The number of bytes at the end of a longer block that are read before its rounds.
EndSize == IF build = "bits32" THEN 20 ELSE IF build = "city64" THEN 64 ELSE 0

\* What is read before the rounds is the end of the block, and its first bytes.
LEMMA FirstExact ==
  ASSUME NEW p \in Int, NEW e \in Int, e - p > WholeLimit
  PROVE  \A i \in Int : /\ i \in FirstReads(p, e) => p <= i /\ i < e
                        /\ e - EndSize <= i /\ i < e => i \in FirstReads(p, e)
<1>1. CASE build = "bits32"
  BY <1>1 DEF FirstReads, EndSize, WholeLimit, hash32_end, Load
<1>2. CASE build = "city64"
  <2>1. /\ Exactly(weak_hash64_len32_with_seeds(e - 64), e - 64, 32)
        /\ Exactly(weak_hash64_len32_with_seeds(e - 32), e - 32, 32)
    BY Mix32Exact DEF weak_hash64_len32_with_seeds
  <2> QED
    BY <1>2, <2>1 DEF FirstReads, EndSize, WholeLimit, hash64_end, Load, Exactly
<1>3. CASE build \notin {"bits32", "city64"}
  BY <1>3 DEF FirstReads, EndSize
<1> QED
  BY <1>1, <1>2, <1>3

\* A round reads as many bytes as it steps over.
LEMMA RoundExact ==
  ASSUME NEW p \in Int
  PROVE  Exactly(RoundReads(p), p, RoundSize)
<1>1. CASE build = "bits32"
  BY <1>1 DEF RoundReads, RoundSize, Exactly, Load
<1>2. CASE build # "bits32"
  BY <1>2, Mix32Exact DEF RoundReads, RoundSize, Exactly
<1> QED
  BY <1>1, <1>2

\* The tail of a block of which at most 64 bytes are left.
LEMMA TailExact ==
  ASSUME NEW p \in Int, NEW e \in Int, e - p <= 64
  PROVE  \A i \in Int :
           /\ i \in TailReads(p, e) => (e - 32 <= i /\ i < e) \/ (p <= i /\ i < e)
           /\ p <= i /\ i < e => i \in TailReads(p, e)
  BY Mix32Exact DEF TailReads, Exactly

-----------------------------------------------------------------------------
(* The invariant of write: how far it has read. *)

\* Everything in S lies between a and b; everything between a and b is in S.
Inside(S, a, b) == \A i \in S : i \in Int /\ a <= i /\ i < b
Covered(S, a, b) == \A i \in Int : a <= i /\ i < b => i \in S

\* Where the cursors are. A block of a 64-bit build has more than 32 bytes, because
\* a chunk has; a round is begun only if more than a round is left.
Cursors ==
  /\ build \in Builds
  /\ pc \in {"idle", "combine", "split", "block", "round", "tail"}
  /\ start \in Nat /\ end \in Nat /\ ptr \in Nat /\ stop \in Nat /\ at \in Nat
  /\ start <= ptr /\ ptr <= end
  /\ pc = "idle" => ptr = end
  /\ pc \in {"block", "round", "tail"} => ptr <= stop /\ stop <= end
  /\ pc = "block" /\ build \in {"sse42", "sse2", "plain"} => stop - ptr > 32
  /\ pc \in {"round", "tail"} => ptr <= at /\ stop - ptr > WholeLimit
  /\ pc = "round" => stop - at > RoundSize
  /\ pc = "tail" => stop - at <= 64 /\ build \notin {"bits32", "city64"}

\* Nothing outside the slice has been read, everything before ptr has, and so have
\* the rounds and the end of the block at work.
Progress ==
  /\ Inside(reads, start, end)
  /\ Covered(reads, start, ptr)
  /\ pc \in {"round", "tail"} =>
       Covered(reads, ptr, at) /\ Covered(reads, stop - EndSize, stop)

IInv == Cursors /\ Progress

\* Reads that stay inside the slice may be added.
LEMMA InsideUnion ==
  ASSUME NEW S, NEW R, NEW a \in Int, NEW b \in Int, NEW c \in Int, NEW d \in Int,
         a <= c, d <= b, Inside(S, a, b), Inside(R, c, d)
  PROVE  Inside(S \union R, a, b)
  BY DEF Inside

\* Reads that continue what was read extend it.
LEMMA CoveredUnion ==
  ASSUME NEW S, NEW R, NEW a \in Int, NEW b \in Int, NEW c \in Int,
         Covered(S, a, b), Covered(R, b, c)
  PROVE  Covered(S \union R, a, c)
  BY DEF Covered

\* What was read stays read.
LEMMA CoveredStays ==
  ASSUME NEW S, NEW R, NEW a \in Int, NEW b \in Int, Covered(S, a, b)
  PROVE  Covered(S \union R, a, b)
  BY DEF Covered

\* Two parts that meet or overlap cover what they span.
LEMMA CoveredParts ==
  ASSUME NEW S, NEW a \in Int, NEW b \in Int, NEW c \in Int, NEW d \in Int,
         Covered(S, a, b), Covered(S, c, d), c <= b
  PROVE  Covered(S, a, d)
  BY DEF Covered

\* Loads are ranges of integers.
LEMMA ReadsAreInts ==
  ASSUME NEW p \in Int, NEW len \in Int
  PROVE  /\ ShortReads(p, len) \subseteq Int
         /\ WholeReads(p, len) \subseteq Int
         /\ FirstReads(p, len) \subseteq Int
         /\ RoundReads(p) \subseteq Int
         /\ TailReads(p, len) \subseteq Int
<1>1. ShortReads(p, len) \subseteq Int
  BY DEF ShortReads, crc32_up_to_32, combine_small_contiguous, read4to8, read1to3,
         read9to16, combine_contiguous_17to32, Load
<1>2. hash32_short(p, len) \subseteq Int
  BY DEF hash32_short, hash32_len5_to12, hash32_len13_to24, Load
<1>3. hash64_short(p, len) \subseteq Int
  BY DEF hash64_short, hash64_len0_to16, hash64_len33_to64, combine_small_contiguous,
         read4to8, read1to3, read9to16, combine_contiguous_17to32, Load
<1>4. WholeReads(p, len) \subseteq Int
  BY <1>2, <1>3 DEF WholeReads, low_level_hash33to64, mix_32_bytes, Load
<1>5. FirstReads(p, len) \subseteq Int
  BY DEF FirstReads, hash32_end, hash64_end, weak_hash64_len32_with_seeds,
         mix_32_bytes, Load
<1>6. RoundReads(p) \subseteq Int /\ TailReads(p, len) \subseteq Int
  BY DEF RoundReads, TailReads, mix_32_bytes, Load
<1> QED
  BY <1>1, <1>4, <1>5, <1>6

\* It holds at the beginning.
LEMMA IInvInit == Init => IInv
  BY DEF Init, IInv, Cursors, Progress, Inside, Covered, Builds

\* A step keeps it: what it reads stays inside the slice and continues what was read.
LEMMA IInvStep == IInv /\ [Next]_vars => IInv'
<1> SUFFICES ASSUME Cursors, Progress, [Next]_vars PROVE Cursors' /\ Progress'
  BY DEF IInv
<1> USE ChunkAssumption
<1>1. ASSUME NEW n \in Lengths, Write(n) PROVE Cursors' /\ Progress'
  <2>1. n \in Nat
    BY LengthsAssumption
  <2> QED
    BY <1>1, <2>1 DEF Write, Cursors, Progress, Inside, Covered, Builds
<1>2. CASE CombineContiguous
  <2> DEFINE len == end - ptr
  <2>1. CASE len <= ShortLimit
    <3>1. /\ reads' = reads \union ShortReads(ptr, len)
          /\ ptr' = end /\ pc' = "idle" /\ UNCHANGED <<build, start, end, stop, at>>
      BY <1>2, <2>1 DEF CombineContiguous, ShortLimit, Cursors
    <3>2. Exactly(ShortReads(ptr, len), ptr, len)
      BY <2>1, ShortExact DEF ShortLimit, Cursors
    <3>3. Inside(ShortReads(ptr, len), ptr, end) /\ Covered(ShortReads(ptr, len), ptr, end)
      BY <3>2, ReadsAreInts DEF Inside, Covered, Exactly, Cursors
    <3>4. Inside(reads \union ShortReads(ptr, len), start, end)
      BY <3>3, InsideUnion DEF Cursors, Progress
    <3>5. Covered(reads \union ShortReads(ptr, len), start, end)
      BY <3>3, CoveredUnion DEF Cursors, Progress
    <3> QED
      BY <3>1, <3>4, <3>5 DEF Cursors, Progress
  <2>2. CASE len > ShortLimit
    <3>1. /\ UNCHANGED <<build, start, end, ptr, at, reads>>
          /\ (pc' = "block" /\ stop' = end) \/ (pc' = "split" /\ stop' = stop)
      <4>1. ~(len <= ShortLimit)
        BY <2>2 DEF ShortLimit, Cursors
      <4> QED
        BY <1>2, <4>1 DEF CombineContiguous, MixIn
    <3>2. build \in {"sse42", "sse2", "plain"} => len > 32
      BY <2>2 DEF ShortLimit, Cursors
    <3>3. Cursors'
      <4>1. CASE pc' = "block" /\ stop' = end
        BY <3>1, <3>2, <4>1 DEF Cursors
      <4>2. CASE pc' = "split" /\ stop' = stop
        BY <3>1, <4>2 DEF Cursors
      <4> QED
        BY <3>1, <4>1, <4>2
    <3>4. Progress'
      BY <3>1 DEF Progress
    <3> QED
      BY <3>3, <3>4
  <2> QED
    BY <2>1, <2>2 DEF ShortLimit, Cursors
<1>3. CASE SplitAndCombine
  BY <1>3 DEF SplitAndCombine, Cursors, Progress
<1>4. CASE HashBlock
  <2> DEFINE len == stop - ptr
  <2>1. CASE len <= WholeLimit
    <3>1. /\ pc = "block" /\ reads' = reads \union WholeReads(ptr, len)
          /\ ptr' = stop /\ pc' = "split" /\ UNCHANGED <<build, start, end, stop, at>>
      BY <1>4, <2>1 DEF HashBlock, BlockDone
    <3>2. Exactly(WholeReads(ptr, len), ptr, len)
      BY <2>1, <3>1, WholeExact DEF WholeLimit, Cursors
    <3>3. Inside(WholeReads(ptr, len), ptr, stop) /\ Covered(WholeReads(ptr, len), ptr, stop)
      BY <3>2, ReadsAreInts DEF Inside, Covered, Exactly, Cursors
    <3>4. Inside(reads \union WholeReads(ptr, len), start, end)
      BY <3>1, <3>3, InsideUnion DEF Cursors, Progress
    <3>5. Covered(reads \union WholeReads(ptr, len), start, stop)
      BY <3>3, CoveredUnion DEF Cursors, Progress
    <3>6. Cursors'
      BY <3>1 DEF Cursors
    <3>7. Progress'
      BY <3>1, <3>4, <3>5 DEF Progress
    <3> QED
      BY <3>6, <3>7
  <2>2. CASE len > WholeLimit
    <3>1. /\ pc = "block" /\ reads' = reads \union FirstReads(ptr, stop)
          /\ at' = ptr /\ pc' = "round" /\ UNCHANGED <<build, start, end, ptr, stop>>
      BY <1>4, <2>2 DEF HashBlock, WholeLimit, Cursors
    <3>2. WholeLimit' = WholeLimit /\ RoundSize' = RoundSize /\ EndSize' = EndSize
      BY <3>1 DEF WholeLimit, RoundSize, EndSize
    <3>3. EndSize \in Int /\ RoundSize \in Int /\ WholeLimit \in Int /\ WholeLimit >= RoundSize
      BY DEF WholeLimit, RoundSize, EndSize
    <3>4. \A i \in Int : /\ i \in FirstReads(ptr, stop) => ptr <= i /\ i < stop
                         /\ stop - EndSize <= i /\ i < stop => i \in FirstReads(ptr, stop)
      BY <2>2, FirstExact DEF Cursors
    <3>5. Inside(FirstReads(ptr, stop), ptr, stop)
      BY <3>4, ReadsAreInts DEF Inside, Cursors
    <3>6. Inside(reads \union FirstReads(ptr, stop), start, end)
      BY <3>1, <3>5, InsideUnion DEF Cursors, Progress
    <3>7. /\ Covered(reads \union FirstReads(ptr, stop), start, ptr)
          /\ Covered(reads \union FirstReads(ptr, stop), ptr, ptr)
          /\ Covered(reads \union FirstReads(ptr, stop), stop - EndSize, stop)
      BY <3>4 DEF Cursors, Progress, Covered
    <3>8. Cursors'
      BY <2>2, <3>1, <3>2, <3>3 DEF Cursors
    <3> QED
      BY <3>1, <3>2, <3>6, <3>7, <3>8 DEF Progress
  <2> QED
    BY <2>1, <2>2 DEF WholeLimit, Cursors
<1>5. CASE Round
  <2> DEFINE new == reads \union RoundReads(at)
  <2>1. /\ pc = "round" /\ reads' = new
        /\ at' = at + RoundSize /\ UNCHANGED <<build, start, end, stop>>
    BY <1>5 DEF Round
  <2>2. RoundSize \in {20, 64} /\ EndSize \in {0, 20, 64} /\ WholeLimit \in {24, 64}
    BY DEF RoundSize, EndSize, WholeLimit
  <2>3. WholeLimit' = WholeLimit /\ RoundSize' = RoundSize /\ EndSize' = EndSize
    BY <2>1 DEF WholeLimit, RoundSize, EndSize
  <2>4. ptr <= at /\ stop - at > RoundSize /\ stop <= end /\ stop - ptr > WholeLimit
    BY <2>1 DEF Cursors
  <2>5. /\ Inside(RoundReads(at), at, at + RoundSize)
        /\ Covered(RoundReads(at), at, at + RoundSize)
    BY <2>2, RoundExact, ReadsAreInts DEF Inside, Covered, Exactly, Cursors
  <2>6. Inside(new, start, end)
    <3>1. start <= at /\ at + RoundSize <= end
      BY <2>2, <2>4 DEF Cursors
    <3> QED
      BY <2>2, <2>5, <3>1, InsideUnion DEF Cursors, Progress
  <2>7. /\ Covered(new, start, ptr)
        /\ Covered(new, ptr, at + RoundSize)
        /\ Covered(new, stop - EndSize, stop)
    <3>1. Covered(reads, start, ptr) /\ Covered(reads, ptr, at)
          /\ Covered(reads, stop - EndSize, stop)
      BY <2>1 DEF Progress
    <3>2. /\ start \in Int /\ ptr \in Int /\ at \in Int /\ stop \in Int
          /\ at + RoundSize \in Int /\ stop - EndSize \in Int
      BY <2>2 DEF Cursors
    <3> QED
      BY <2>5, <3>1, <3>2, CoveredUnion, CoveredStays
  <2>8. CASE ~LastRound(stop - at - RoundSize)
    <3>1. UNCHANGED <<pc, ptr>>
      BY <1>5, <2>8 DEF Round
    <3>2. Cursors'
      BY <2>1, <2>2, <2>3, <2>4, <2>8, <3>1 DEF Cursors, LastRound
    <3> QED
      BY <2>1, <2>3, <2>6, <2>7, <3>1, <3>2 DEF Progress
  <2>9. CASE LastRound(stop - at - RoundSize) /\ build \in {"bits32", "city64"}
    <3>1. ptr' = stop /\ pc' = "split"
      BY <1>5, <2>9 DEF Round, BlockDone
    <3>2. EndSize = RoundSize
      BY <2>9 DEF EndSize, RoundSize
    <3>3. Covered(new, start, stop)
      <4>1. Covered(new, start, at + RoundSize)
        BY <2>2, <2>7, CoveredParts DEF Cursors
      <4>2. stop - EndSize <= at + RoundSize
        BY <2>2, <2>9, <3>2 DEF LastRound, Cursors
      <4> QED
        BY <2>2, <2>7, <4>1, <4>2, CoveredParts DEF Cursors
    <3>4. Cursors'
      BY <2>1, <2>2, <2>3, <2>4, <3>1 DEF Cursors
    <3> QED
      BY <2>1, <2>6, <3>1, <3>3, <3>4 DEF Progress
  <2>10. CASE LastRound(stop - at - RoundSize) /\ build \notin {"bits32", "city64"}
    <3>1. pc' = "tail" /\ UNCHANGED ptr
      BY <1>5, <2>10 DEF Round
    <3>2. RoundSize = 64
      BY <2>10 DEF RoundSize
    <3>3. Cursors'
      BY <2>1, <2>2, <2>3, <2>4, <2>10, <3>1, <3>2 DEF Cursors, LastRound
    <3> QED
      BY <2>1, <2>3, <2>6, <2>7, <3>1, <3>3 DEF Progress
  <2> QED
    BY <2>8, <2>9, <2>10
<1>6. CASE FinalReads
  <2> DEFINE new == reads \union TailReads(at, stop)
  <2>1. /\ pc = "tail" /\ reads' = new
        /\ ptr' = stop /\ pc' = "split" /\ UNCHANGED <<build, start, end, stop, at>>
    BY <1>6 DEF FinalReads, BlockDone
  <2>2. /\ ptr <= at /\ stop - at <= 64 /\ stop <= end /\ stop - ptr > 32
    BY <2>1 DEF Cursors, WholeLimit
  <2>3. \A i \in Int :
          /\ i \in TailReads(at, stop) => (stop - 32 <= i /\ i < stop) \/ (at <= i /\ i < stop)
          /\ at <= i /\ i < stop => i \in TailReads(at, stop)
    BY <2>2, TailExact DEF Cursors
  <2>4. Inside(TailReads(at, stop), ptr, stop) /\ Covered(TailReads(at, stop), at, stop)
    BY <2>2, <2>3, ReadsAreInts DEF Inside, Covered, Cursors
  <2>5. Inside(new, start, end)
    BY <2>2, <2>4, InsideUnion DEF Cursors, Progress
  <2>6. Covered(new, start, stop)
    <3>1. Covered(reads, start, at)
      BY <2>1, CoveredParts DEF Cursors, Progress
    <3> QED
      BY <2>4, <3>1, CoveredUnion DEF Cursors
  <2>7. Cursors'
    BY <2>1, <2>2 DEF Cursors
  <2> QED
    BY <2>1, <2>5, <2>6, <2>7 DEF Progress
<1>7. CASE UNCHANGED vars
  BY <1>7 DEF vars, position, Cursors, Progress, WholeLimit, RoundSize, EndSize
<1> QED
  BY <1>1, <1>2, <1>3, <1>4, <1>5, <1>6, <1>7 DEF Next

\* No load of write leaves the slice it was given, on any build and for any length.
THEOREM NothingElseIsRead == Spec => []ReadsInBounds
<1>1. IInv => ReadsInBounds
  BY DEF IInv, Progress, Inside, ReadsInBounds
<1> QED
  BY IInvInit, IInvStep, <1>1, PTL DEF Spec

\* When write returns it has read every byte of its slice.
THEOREM EverythingIsRead == Spec => []EveryByteRead
<1>1. IInv => EveryByteRead
  BY DEF IInv, Cursors, Progress, Covered, EveryByteRead
<1> QED
  BY IInvInit, IInvStep, <1>1, PTL DEF Spec

\* The rest of the type.
History ==
  /\ pieces \in Seq(Nat \X Nat)
  /\ writes \in 0..MaxWrites
  /\ aligned \in BOOLEAN

\* Type correctness of write. The reads are positions of the stream because they lie
\* inside the slice.
THEOREM HashTypeCorrect == Spec => []TypeOK
<1>1. Init => IInv /\ History
  BY IInvInit, LengthsAssumption DEF Init, History
<1>2. IInv /\ History /\ [Next]_vars => IInv' /\ History'
  <2> SUFFICES ASSUME IInv, History, [Next]_vars PROVE History'
    BY IInvStep
  <2>1. ASSUME NEW n \in Lengths, Write(n) PROVE History'
    BY <2>1, LengthsAssumption DEF Write, History
  <2>2. ptr \in Nat /\ end \in Nat /\ stop \in Nat
    BY DEF IInv, Cursors
  <2>3. <<ptr, end>> \in Nat \X Nat /\ <<ptr, stop>> \in Nat \X Nat
    BY <2>2
  <2>4. ASSUME NEW r \in Nat \X Nat, pieces' \in {pieces, Append(pieces, r)},
               UNCHANGED <<writes, aligned>>
        PROVE  History'
    <3>1. Append(pieces, r) \in Seq(Nat \X Nat)
      BY DEF History
    <3>2. pieces' \in Seq(Nat \X Nat)
      BY <2>4, <3>1, Zenon DEF History
    <3> QED
      BY <2>4, <3>2, Zenon DEF History
  <2>5. CASE CombineContiguous
    <3>1. pieces' \in {pieces, Append(pieces, <<ptr, end>>)} /\ UNCHANGED <<writes, aligned>>
      BY <2>5 DEF CombineContiguous, MixIn
    <3> QED
      BY <2>3, <2>4, <3>1
  <2>6. CASE SplitAndCombine
    BY <2>6 DEF SplitAndCombine, History
  <2>7. CASE HashBlock \/ Round \/ FinalReads
    <3>1. pieces' \in {pieces, Append(pieces, <<ptr, stop>>)} /\ UNCHANGED <<writes, aligned>>
      BY <2>7 DEF HashBlock, Round, FinalReads, BlockDone, MixIn
    <3> QED
      BY <2>3, <2>4, <3>1
  <2>8. CASE UNCHANGED vars
    BY <2>8 DEF vars, History
  <2> QED
    BY <2>1, <2>5, <2>6, <2>7, <2>8 DEF Next
<1>3. IInv /\ History => TypeOK
  BY DEF IInv, Cursors, Progress, Inside, History, TypeOK
<1> QED
  BY <1>1, <1>2, <1>3, PTL DEF Spec

-----------------------------------------------------------------------------
(* The pieces that a stream is hashed in. *)

\* More chunks are a longer distance.
LEMMA ChunksMonotone ==
  ASSUME NEW c \in Nat, NEW i \in Nat, NEW k \in Nat, i <= k
  PROVE  i * c <= k * c /\ i * c \in Nat /\ k * c \in Nat
<1>1. PICK d \in Nat : k = i + d
  <2>1. k - i \in Nat /\ k = i + (k - i)
    OBVIOUS
  <2>. QED BY <2>1
<1>2. d * c \in Nat /\ i * c \in Nat /\ (i + d) * c = i * c + d * c
  OBVIOUS
<1>. QED BY <1>1, <1>2

\* One chunk further.
LEMMA NextChunk ==
  ASSUME NEW c \in Nat, NEW k \in Nat
  PROVE  (k + 1) * c = k * c + c /\ k * c \in Nat
OBVIOUS

\* What the quotient of a number by the length of a chunk is.
LEMMA QuotientIs ==
  ASSUME NEW c \in Nat \ {0}, NEW k \in Nat, NEW r \in 0..(c - 1)
  PROVE  (k * c + r) \div c = k
<1>1. k * c \in Nat
  OBVIOUS
<1>. DEFINE a == k * c + r
            d == a \div c
<1>2. a \in Nat
  BY <1>1
<1>3. d \in Nat /\ d * c <= a /\ a < d * c + c
  <2>. HIDE DEF a
  <2>. QED BY <1>2
<1>4. ~(d < k)
  <2>. HIDE DEF d
  <2>. SUFFICES ASSUME d < k PROVE FALSE
    OBVIOUS
  <2>1. (d + 1) * c <= k * c
    BY <1>3, ChunksMonotone
  <2>2. (d + 1) * c = d * c + c
    BY <1>3, NextChunk
  <2>. QED BY <1>1, <1>3, <2>1, <2>2
<1>5. ~(k < d)
  <2>. HIDE DEF d
  <2>. SUFFICES ASSUME k < d PROVE FALSE
    OBVIOUS
  <2>1. (k + 1) * c <= d * c
    BY <1>3, ChunksMonotone
  <2>2. (k + 1) * c = k * c + c
    BY NextChunk
  <2>. QED BY <1>1, <1>3, <2>1, <2>2
<1>. HIDE DEF d
<1>6. d = k
  BY <1>3, <1>4, <1>5
<1>. QED BY <1>6 DEF d

\* A number that a chunk divides is a number of chunks.
LEMMA MultipleOf ==
  ASSUME NEW c \in Nat \ {0}, NEW a \in Nat, a % c = 0
  PROVE  \E k \in Nat : a = k * c
<1>. DEFINE k == a \div c
<1>1. k \in Nat /\ a = (k * c) + (a % c) /\ k * c \in Nat
  OBVIOUS
<1>2. a = k * c
  <2>. HIDE DEF k
  <2>. QED BY <1>1
<1>. QED BY <1>1, <1>2

-----------------------------------------------------------------------------

\* p is where a chunk begins.
OnGrid(p) == \E k \in Nat : p = k * Chunk

\* The pieces of a stream that is cut between p and q.
LEMMA PiecesGrow ==
  ASSUME NEW p \in Nat, NEW q \in Nat, OnGrid(p), p < q, q <= p + Chunk
  PROVE  Append(Pieces(p), <<p, q>>) = Pieces(q)
<1>1. PICK k \in Nat : p = k * Chunk
  BY DEF OnGrid
<1>2. Chunk \in Nat \ {0}
  BY ChunkAssumption
<1>3. (p + Chunk - 1) \div Chunk = k
  <2>1. p + Chunk - 1 = k * Chunk + (Chunk - 1) /\ Chunk - 1 \in 0..(Chunk - 1)
    BY <1>1, <1>2
  <2>. QED BY <1>2, <2>1, QuotientIs
<1>4. (q + Chunk - 1) \div Chunk = k + 1
  <2>1. /\ q + Chunk - 1 = (k + 1) * Chunk + (q - p - 1)
        /\ q - p - 1 \in 0..(Chunk - 1)
    <3>1. (k + 1) * Chunk = p + Chunk
      BY <1>1, <1>2, NextChunk
    <3>. QED BY <1>2, <3>1
  <2>. QED BY <1>2, <2>1, QuotientIs
<1>5. \A i \in 1..k : i * Chunk \in Nat /\ i * Chunk <= p
  BY <1>1, <1>2, ChunksMonotone
<1>6. (k + 1 - 1) * Chunk = p /\ (k + 1) * Chunk = p + Chunk
  BY <1>1, <1>2, NextChunk
<1>7. Pieces(p) = [i \in 1..k |-> <<(i - 1) * Chunk, i * Chunk>>]
  <2>1. \A i \in 1..k : (IF i * Chunk < p THEN i * Chunk ELSE p) = i * Chunk
    BY <1>5
  <2>. QED BY <1>3, <2>1 DEF Pieces
<1>8. Pieces(q) = [i \in 1..(k + 1) |->
                     IF i = k + 1 THEN <<p, q>> ELSE <<(i - 1) * Chunk, i * Chunk>>]
  <2>1. \A i \in 1..k : (IF i * Chunk < q THEN i * Chunk ELSE q) = i * Chunk
    BY <1>5
  <2>2. (IF (k + 1) * Chunk < q THEN (k + 1) * Chunk ELSE q) = q
    BY <1>2, <1>6
  <2>3. \A i \in 1..(k + 1) : i = k + 1 \/ i \in 1..k
    OBVIOUS
  <2>. QED BY <1>4, <1>6, <2>1, <2>2, <2>3 DEF Pieces
<1>9. /\ Len(Pieces(p)) = k
      /\ Append(Pieces(p), <<p, q>>)
           = [i \in 1..(k + 1) |-> IF i = k + 1 THEN <<p, q>> ELSE Pieces(p)[i]]
  <2>1. Pieces(p) \in Seq(Int \X Int) /\ DOMAIN Pieces(p) = 1..k
    BY <1>5, <1>2, <1>7
  <2>2. Len(Pieces(p)) = k
    BY <2>1
  <2>. QED BY <2>1, <2>2
<1>. QED BY <1>7, <1>8, <1>9

\* The stream is cut where one write would cut it: chunk by chunk as long as there
\* is one, and a rest that ends the slice.
OnPieces ==
  aligned /\ build # "city64" =>
    /\ pieces = Pieces(ptr)
    /\ pc # "idle" => OnGrid(ptr) \/ (pc = "split" /\ ptr = end)
    /\ pc = "combine" => ptr < end
    /\ pc \in {"block", "round", "tail"} =>
         /\ ptr < stop /\ stop <= ptr + Chunk
         /\ stop = ptr + Chunk \/ stop = end

\* A fresh hasher has no pieces.
LEMMA OnPiecesInit == Init => OnPieces
<1>. SUFFICES ASSUME Init PROVE pieces = Pieces(ptr) /\ pc = "idle"
  BY DEF OnPieces
<1>1. (0 + Chunk - 1) \div Chunk = 0
  <2>1. 0 + Chunk - 1 = 0 * Chunk + (Chunk - 1) /\ Chunk - 1 \in 0..(Chunk - 1)
    BY ChunkAssumption
  <2>. QED BY <2>1, ChunkAssumption, QuotientIs
<1>2. Pieces(0) = <<>>
  BY <1>1 DEF Pieces
<1>. QED BY <1>2 DEF Init

\* A block that is mixed in is a piece.
LEMMA BlockIsPiece ==
  ASSUME Cursors, OnPieces, aligned, build # "city64",
         pc \in {"block", "round", "tail"}, BlockDone,
         UNCHANGED <<build, start, end, stop, aligned>>
  PROVE  OnPieces'
<1>1. /\ pieces' = Append(pieces, <<ptr, stop>>) /\ ptr' = stop /\ pc' = "split"
  BY DEF BlockDone, MixIn
<1>2. /\ pieces = Pieces(ptr) /\ OnGrid(ptr) /\ ptr < stop /\ stop <= ptr + Chunk
      /\ stop = ptr + Chunk \/ stop = end
  BY DEF OnPieces
<1>3. pieces' = Pieces(stop)
  BY <1>1, <1>2, PiecesGrow DEF Cursors
<1>4. OnGrid(stop) \/ stop = end
  <2>1. CASE stop = ptr + Chunk
    <3>1. PICK k \in Nat : ptr = k * Chunk
      BY <1>2 DEF OnGrid
    <3>2. stop = (k + 1) * Chunk
      BY <2>1, <3>1, ChunkAssumption, NextChunk
    <3>. QED BY <3>2 DEF OnGrid
  <2>. QED BY <1>2, <2>1
<1>. QED BY <1>1, <1>3, <1>4 DEF OnPieces, OnGrid, Pieces

\* Every step of write cuts the stream there.
LEMMA OnPiecesStep == IInv /\ OnPieces /\ [Next]_vars => OnPieces'
<1>. SUFFICES ASSUME Cursors, OnPieces, [Next]_vars, aligned', build' # "city64"
              PROVE  OnPieces'
  BY DEF OnPieces, IInv
<1>0. Chunk \in Nat /\ Chunk > 32 /\ start \in Nat /\ end \in Nat /\ ptr \in Nat /\ stop \in Nat
  BY ChunkAssumption DEF Cursors
<1>1. ASSUME NEW n \in Lengths, Write(n) PROVE OnPieces'
  <2>1. /\ pc = "idle" /\ ptr' = end /\ end' = end + n /\ UNCHANGED <<pieces, build>>
        /\ aligned /\ n > 0 /\ end % Chunk = 0
        /\ pc' \in {"block", "combine"} /\ (pc' = "block" => build = "city64")
    BY <1>1 DEF Write
  <2>2. OnGrid(end)
    <3>1. Chunk \in Nat \ {0} /\ end % Chunk = 0
      BY <1>0, <2>1
    <3>2. \E k \in Nat : end = k * Chunk
      BY <1>0, <3>1, MultipleOf, Zenon
    <3>. QED BY <3>2 DEF OnGrid
  <2>3. pieces = Pieces(end)
    BY <2>1 DEF OnPieces, Cursors
  <2>4. end < end + n
    BY <1>0, <2>1, LengthsAssumption
  <2>. QED BY <2>1, <2>2, <2>3, <2>4 DEF OnPieces, OnGrid, Pieces
<1>. CASE aligned /\ build # "city64" /\ UNCHANGED <<build, start, end, aligned>>
  <2>1. CASE CombineContiguous
    <3>1. pc = "combine" /\ OnGrid(ptr) /\ ptr < end /\ pieces = Pieces(ptr)
      BY <2>1 DEF CombineContiguous, OnPieces
    <3>2. CASE /\ end - ptr <= ShortLimit /\ MixIn(ptr, end)
               /\ ptr' = end /\ pc' = "idle"
      <4>1. end <= ptr + Chunk
        BY <1>0, <3>2, ChunkAssumption DEF ShortLimit
      <4>2. pieces' = Pieces(end)
        BY <1>0, <3>1, <3>2, <4>1, PiecesGrow DEF MixIn
      <4>. QED BY <3>2, <4>2 DEF OnPieces, Pieces
    <3>3. CASE /\ end - ptr <= Chunk /\ stop' = end /\ pc' = "block"
               /\ UNCHANGED <<ptr, pieces>>
      <4>1. end <= ptr + Chunk
        BY <1>0, <3>3, ChunkAssumption
      <4>. QED BY <3>1, <3>3, <4>1 DEF OnPieces, OnGrid, Pieces
    <3>4. CASE pc' = "split" /\ UNCHANGED <<ptr, pieces>>
      BY <3>1, <3>4 DEF OnPieces, OnGrid, Pieces
    <3>. QED BY <2>1, <3>2, <3>3, <3>4 DEF CombineContiguous
  <2>2. CASE SplitAndCombine
    <3>1. /\ pc = "split" /\ (OnGrid(ptr) \/ ptr = end) /\ pieces = Pieces(ptr)
          /\ UNCHANGED <<ptr, pieces>> /\ ptr <= end
      BY <2>2 DEF SplitAndCombine, OnPieces, Cursors
    <3>2. CASE end - ptr >= Chunk
      <4>1. pc' = "block" /\ stop' = ptr + Chunk /\ ptr # end /\ ptr < ptr + Chunk
        BY <1>0, <2>2, <3>2, ChunkAssumption DEF SplitAndCombine
      <4>. QED BY <1>0, <3>1, <4>1, ChunkAssumption DEF OnPieces, OnGrid, Pieces
    <3>3. CASE ~(end - ptr >= Chunk) /\ ptr = end
      BY <2>2, <3>1, <3>3 DEF SplitAndCombine, OnPieces, Pieces
    <3>4. CASE ~(end - ptr >= Chunk) /\ ptr # end
      <4>1. pc' = "combine" /\ ptr < end
        BY <1>0, <2>2, <3>1, <3>4 DEF SplitAndCombine
      <4>. QED BY <3>1, <3>4, <4>1 DEF OnPieces, OnGrid, Pieces
    <3>. QED BY <3>2, <3>3, <3>4
  <2>3. CASE pc \in {"block", "round", "tail"} /\ BlockDone /\ UNCHANGED stop
    BY <2>3, BlockIsPiece
  <2>4. CASE /\ pc \in {"block", "round", "tail"} /\ pc' \in {"round", "tail"}
             /\ UNCHANGED <<ptr, stop, pieces>>
    BY <2>4 DEF OnPieces, OnGrid, Pieces
  <2>5. CASE HashBlock
    BY <2>3, <2>4, <2>5 DEF HashBlock
  <2>6. CASE Round
    BY <2>3, <2>4, <2>6 DEF Round
  <2>7. CASE FinalReads
    BY <2>3, <2>7 DEF FinalReads
  <2>8. CASE UNCHANGED vars
    BY <2>8 DEF vars, position, OnPieces, OnGrid, Pieces
  <2>. QED BY <1>1, <2>1, <2>2, <2>5, <2>6, <2>7, <2>8 DEF Next
<1>2. CASE ~\E n \in Lengths : Write(n)
  <2>1. UNCHANGED <<build, start, end, aligned>>
    BY <1>2
    DEF Next, CombineContiguous, SplitAndCombine, HashBlock, Round, FinalReads, vars, position
  <2>. QED BY <2>1
<1>. QED BY <1>1, <1>2

\* "Calling CombineContiguousImpl twice with PiecewiseChunkSize() must be equivalent
\* to calling CombineLargeContiguousImpl once with 2 * PiecewiseChunkSize()": for any
\* number of writes of any length, cut at any multiples of any chunk.
THEOREM WritesMayBeSplit == Spec => []SplitLikeOneWrite
<1>1. IInv /\ OnPieces => SplitLikeOneWrite
  BY DEF IInv, Cursors, OnPieces, SplitLikeOneWrite
<1>. QED BY <1>1, IInvInit, IInvStep, OnPiecesInit, OnPiecesStep, PTL DEF Spec
=============================================================================
