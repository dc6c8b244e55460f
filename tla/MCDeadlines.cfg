\* Words of 4 bits, delays below 5, a time_t of two bits, Instants of two bits.
SPECIFICATION MCSpec
CONSTANTS
  Width = 4
  ShiftA = 1
  ShiftB = 3
  ShiftC = 2
  Align = 2
  MaxDelay = 5
  TimeMax = 1
  SecMax = 3
  NanoSec = 3
INVARIANTS
  SeedsNeverMerge
  UnfairnessIsBounded
  MCTypes
  DeadlineMeetsTimeout
  EndlessOnlyBeyondTime
PROPERTIES
  SeedNeverDies
  FairAgainAndAgain
