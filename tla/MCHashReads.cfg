\* A chunk of four rounds, and two writes.
CONSTANTS
  Lengths <- MCLengths
  MaxWrites = 2
  Chunk = 256
SPECIFICATION Spec
INVARIANTS
  ReadsInBounds
  EveryByteRead
  SplitLikeOneWrite
CHECK_DEADLOCK FALSE
