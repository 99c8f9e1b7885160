SPECIFICATION Spec
CONSTANTS
  Window = 3
  MaxSeq = 8
INVARIANT AtMostOnce
