SPECIFICATION LoopSpec
CONSTANTS
  Window = 4
  MaxSeq = 12
INVARIANTS
  TypeOK
  BitsAreSeen
  SeenIsCovered
  AtMostTwice
  NewestIsAccepted
PROPERTIES
  LoopAgrees
  GivesUpOnlyOld
