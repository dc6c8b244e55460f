---------------------------- MODULE MCHashReads ----------------------------
(***************************************************************************)
(* Lengths for HashReads: all of those up to a round and a half, and those *)
(* around the multiples of a round and of a chunk.                         *)
(***************************************************************************)
EXTENDS HashReads

Near(n) == (n - 1)..(n + 1)
MCLengths ==
  (0..98) \union Near(128) \union Near(160) \union Near(192) \union Near(256)
  \union Near(264) \union Near(288) \union Near(320) \union {400, 511, 512, 513, 600}
=============================================================================
