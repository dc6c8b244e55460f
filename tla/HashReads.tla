----------------------------- MODULE HashReads -----------------------------
(***************************************************************************)
(* Which bytes MixingHasher::write reads, and how it cuts its input into   *)
(* pieces (mekong9-hash: src/hash.rs, src/internal/low_level.rs and        *)
(* src/internal/city.rs). The loads are unaligned, unchecked and of fixed  *)
(* width; the loads of a length that is no multiple of the width overlap,  *)
(* counted from both ends of the input.                                    *)
(*                                                                         *)
(* The bytes of all writes form one stream, and a position in it stands    *)
(* for a byte. What is computed from the bytes is left out, but not the    *)
(* order in which pieces of the stream are mixed into the state.           *)
(***************************************************************************)
EXTENDS Integers, Sequences

CONSTANTS
  Lengths,    \* the lengths of the slices that are written
  MaxWrites,  \* bound: how often write is called
  Chunk       \* PIECEWISE_CHUNK_SIZE

ASSUME LengthsAssumption == Lengths \subseteq Nat /\ MaxWrites \in Nat
ASSUME ChunkAssumption == Chunk \in Nat /\ Chunk > 32

VARIABLES
  build,   \* how the crate was built, and for which processor
  pc,      \* where in write the hasher is
  start,   \* the slice being written: the position of its first byte
  end,     \* ... and the one behind its last
  ptr,     \* the first byte that is not mixed in yet
  stop,    \* the end of the block that is being hashed
  at,      \* the next round of the block starts here
  reads,   \* the positions that this write has read
  pieces,  \* history: the pieces of the stream mixed in so far, <<from, to>>
  writes,  \* how often write was called
  aligned  \* history: every write was nonempty and started at a multiple of Chunk

position == <<start, end, ptr, stop, at>>
vars == <<build, pc, position, reads, pieces, writes, aligned>>

\* 64-bit targets: with SSE4.2, with SSE2 only, without either; 32-bit targets;
\* and, for itself, the 64-bit city hash, which takes a slice as a whole.
Builds == {"sse42", "sse2", "plain", "bits32", "city64"}

Init ==
  /\ build \in Builds
  /\ pc = "idle"
  /\ start = 0 /\ end = 0 /\ ptr = 0 /\ stop = 0 /\ at = 0
  /\ reads = {}
  /\ pieces = <<>>
  /\ writes = 0
  /\ aligned = TRUE

-----------------------------------------------------------------------------
(* The loads of short inputs: len bytes at position p. *)

\* An unaligned load of n bytes at p.
Load(p, n) == p..(p + n - 1)

read4to8(p, len)  == Load(p, 4) \union Load(p + len - 4, 4)
read1to3(p, len)  == {p, p + len - 1, p + len \div 2}
read9to16(p, len) == Load(p, 8) \union Load(p + len - 8, 8)

combine_small_contiguous(p, len) ==
  IF len >= 4 THEN read4to8(p, len) ELSE IF len > 0 THEN read1to3(p, len) ELSE {}

combine_contiguous_17to32(p, len) ==
  Load(p, 8) \union Load(p + 8, 8) \union Load(p + len - 16, 8) \union Load(p + len - 8, 8)

\* The CRC instructions of SSE4.2 on up to 32 bytes.
crc32_up_to_32(p, len) ==
  IF len > 8
  THEN Load(p, 8) \union Load(p + len - 8, 8)
       \union IF len > 16 THEN Load(p + len - 16, 8) \union Load(p + 8, 8) ELSE {}
  ELSE combine_small_contiguous(p, len)

ShortLimit == IF build = "bits32" THEN 8 ELSE 32

ShortReads(p, len) ==
  IF build = "sse42" THEN crc32_up_to_32(p, len)
  ELSE IF len <= 8 THEN combine_small_contiguous(p, len)
  ELSE IF len <= 16 THEN read9to16(p, len)
  ELSE combine_contiguous_17to32(p, len)

-----------------------------------------------------------------------------
(* The loads of blocks. *)

\* Four loads of 8 bytes, or two of 16.
mix_32_bytes(p) == Load(p, 8) \union Load(p + 8, 8) \union Load(p + 16, 8) \union Load(p + 24, 8)

low_level_hash33to64(p, len) == mix_32_bytes(p) \union mix_32_bytes(p + len - 32)

hash32_len5_to12(p, len) ==
  Load(p, 4) \union Load(p + len - 4, 4) \union Load(p + 4 * ((len \div 8) % 2), 4)

hash32_len13_to24(p, len) ==
  Load(p + len \div 2 - 4, 4) \union Load(p + 4, 4) \union Load(p + len - 8, 4)
  \union Load(p + len \div 2, 4) \union Load(p, 4) \union Load(p + len - 4, 4)

hash32_short(p, len) ==
  IF len <= 4 THEN Load(p, len)
  ELSE IF len <= 12 THEN hash32_len5_to12(p, len)
  ELSE hash32_len13_to24(p, len)

\* a0 to a4 of hash32: the last 20 bytes.
hash32_end(e) ==
  Load(e - 4, 4) \union Load(e - 8, 4) \union Load(e - 16, 4) \union Load(e - 12, 4)
  \union Load(e - 20, 4)

hash64_len0_to16(p, len) ==
  IF len >= 8 THEN read9to16(p, len) ELSE combine_small_contiguous(p, len)

hash64_len33_to64(p, len) ==
  Load(p, 8) \union Load(p + 8, 8) \union Load(p + len - 24, 8) \union Load(p + len - 32, 8)
  \union Load(p + 16, 8) \union Load(p + 24, 8) \union Load(p + len - 8, 8)
  \union Load(p + len - 16, 8)

hash64_short(p, len) ==
  IF len <= 16 THEN hash64_len0_to16(p, len)
  ELSE IF len <= 32 THEN combine_contiguous_17to32(p, len)
  ELSE hash64_len33_to64(p, len)

weak_hash64_len32_with_seeds(p) == mix_32_bytes(p)

\* hash64 "hashes the end first": x, y, z, v and w.
hash64_end(p, e) ==
  Load(e - 40, 8) \union Load(e - 16, 8) \union Load(e - 56, 8) \union Load(e - 48, 8)
  \union Load(e - 24, 8) \union weak_hash64_len32_with_seeds(e - 64)
  \union weak_hash64_len32_with_seeds(e - 32) \union Load(p, 8)

\* The longest block that is hashed without rounds, and what is read of it.
WholeLimit == IF build = "bits32" THEN 24 ELSE 64
WholeReads(p, len) ==
  IF build = "bits32" THEN hash32_short(p, len)
  ELSE IF build = "city64" THEN hash64_short(p, len)
  ELSE low_level_hash33to64(p, len)

\* What a longer block reads before its rounds and in each of them.
FirstReads(p, e) ==
  IF build = "bits32" THEN hash32_end(e)
  ELSE IF build = "city64" THEN hash64_end(p, e)
  ELSE {}

RoundSize == IF build = "bits32" THEN 20 ELSE 64
RoundReads(p) ==
  IF build = "bits32"
  THEN Load(p, 4) \union Load(p + 4, 4) \union Load(p + 8, 4) \union Load(p + 12, 4)
       \union Load(p + 16, 4)
  ELSE mix_32_bytes(p) \union mix_32_bytes(p + 32)

-----------------------------------------------------------------------------
(* The steps of write. *)

MixIn(from, to) == pieces' = Append(pieces, <<from, to>>)

Write(n) ==
  /\ pc = "idle"
  /\ writes < MaxWrites
  /\ pc' = IF build = "city64" THEN "block" ELSE "combine"
  /\ start' = end /\ ptr' = end /\ end' = end + n /\ stop' = end + n
  /\ reads' = {}
  /\ writes' = writes + 1
  /\ aligned' = (aligned /\ n > 0 /\ end % Chunk = 0)
  /\ UNCHANGED <<build, at, pieces>>

\* combine_contiguous_on64bit and _on32bit of the bytes from ptr to end.
CombineContiguous ==
  LET len == end - ptr
  IN  /\ pc = "combine"
      /\ \/ /\ len <= ShortLimit
            /\ reads' = reads \union ShortReads(ptr, len)
            /\ MixIn(ptr, end)
            /\ ptr' = end
            /\ pc' = "idle"
            /\ UNCHANGED stop
         \/ /\ ShortLimit < len /\ len <= Chunk
            /\ stop' = end
            /\ pc' = "block"
            /\ UNCHANGED <<ptr, reads, pieces>>
         \/ /\ ShortLimit < len /\ len > Chunk
            /\ pc' = "split"
            /\ UNCHANGED <<ptr, stop, reads, pieces>>
      /\ UNCHANGED <<build, start, end, at, writes, aligned>>

\* The head of the loop of split_and_combine, and its end. (Mutant: it combines
\* the remainder even when it is empty.)
SplitAndCombineEmpty ==
  /\ pc = "split"
  /\ IF end - ptr >= Chunk
     THEN pc' = "block" /\ stop' = ptr + Chunk
     ELSE pc' = "combine" /\ UNCHANGED stop
  /\ UNCHANGED <<build, start, end, ptr, at, reads, pieces, writes, aligned>>
SplitAndCombine ==
  /\ pc = "split"
  /\ IF end - ptr >= Chunk
     THEN pc' = "block" /\ stop' = ptr + Chunk
     ELSE pc' = (IF ptr = end THEN "idle" ELSE "combine") /\ UNCHANGED stop
  /\ UNCHANGED <<build, start, end, ptr, at, reads, pieces, writes, aligned>>

\* A block is mixed in. The loop goes on behind it; a block that was not cut from
\* a longer slice ends where the slice ends, and leaves nothing to go on with.
BlockDone ==
  /\ MixIn(ptr, stop)
  /\ ptr' = stop
  /\ pc' = "split"

\* hash_block: low_level_hash_len_gt32, city::hash32, and city::hash64.
HashBlock ==
  LET len == stop - ptr
  IN  /\ pc = "block"
      /\ IF len <= WholeLimit
         THEN /\ reads' = reads \union WholeReads(ptr, len)
              /\ BlockDone
              /\ UNCHANGED at
         ELSE /\ reads' = reads \union FirstReads(ptr, stop)
              /\ at' = ptr
              /\ pc' = "round"
              /\ UNCHANGED <<ptr, pieces>>
      /\ UNCHANGED <<build, start, end, stop, writes, aligned>>

\* The loops end when at most a round is left. (The counters of the city hashes,
\* (len - 1) / 20 and (len - 1) & !63, say the same. Mutant: half a round.)
LastRoundHalf(left) == left <= RoundSize \div 2
LastRound(left) == left <= RoundSize

Round ==
  /\ pc = "round"
  /\ reads' = reads \union RoundReads(at)
  /\ at' = at + RoundSize
  /\ IF LastRound(stop - at - RoundSize)
     THEN IF build \in {"bits32", "city64"}
          THEN BlockDone
          ELSE pc' = "tail" /\ UNCHANGED <<ptr, pieces>>
     ELSE UNCHANGED <<pc, ptr, pieces>>
  /\ UNCHANGED <<build, start, end, stop, writes, aligned>>

\* What low_level_hash_len_gt64 reads behind its loop. (Mutant: the bytes before
\* the last 32 are left out.)
TailReadsLast32(p, e) == mix_32_bytes(e - 32)
TailReads(p, e) ==
  mix_32_bytes(e - 32) \union IF e - p > 32 THEN mix_32_bytes(p) ELSE {}

FinalReads ==
  /\ pc = "tail"
  /\ reads' = reads \union TailReads(at, stop)
  /\ BlockDone
  /\ UNCHANGED <<build, start, end, stop, at, writes, aligned>>

Next ==
  \/ \E n \in Lengths : Write(n)
  \/ CombineContiguous \/ SplitAndCombine \/ HashBlock \/ Round \/ FinalReads

Spec == Init /\ [][Next]_vars

-----------------------------------------------------------------------------
(* Properties. *)

\* Type correctness: the state stays in these sets on every path of write; above
\* all, no load begins before the stream does.
TypeOK ==
  /\ build \in Builds
  /\ pc \in {"idle", "combine", "split", "block", "round", "tail"}
  /\ {start, end, ptr, stop, at} \subseteq Nat
  /\ reads \subseteq Nat
  /\ pieces \in Seq(Nat \X Nat)
  /\ writes \in 0..MaxWrites
  /\ aligned \in BOOLEAN

\* No load leaves the slice, whatever its length: the loads are unchecked.
ReadsInBounds == \A i \in reads : start <= i /\ i < end

\* Every byte of the slice has been read when write returns: no two inputs that
\* differ in a byte are hashed alike because the byte was skipped.
EveryByteRead == pc = "idle" => \A i \in start..(end - 1) : i \in reads

\* "Calling CombineContiguousImpl twice with PiecewiseChunkSize() must be
\* equivalent to calling CombineLargeContiguousImpl once with
\* 2 * PiecewiseChunkSize()": writes that start at multiples of Chunk mix in the
\* same pieces as one write of all their bytes.
Pieces(total) ==
  [i \in 1..((total + Chunk - 1) \div Chunk) |->
     <<(i - 1) * Chunk, IF i * Chunk < total THEN i * Chunk ELSE total>>]
SplitLikeOneWrite ==
  pc = "idle" /\ aligned /\ build # "city64" => pieces = Pieces(end)
=============================================================================
