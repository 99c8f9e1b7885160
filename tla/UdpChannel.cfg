SPECIFICATION Spec
CONSTANTS
  Senders = {voice, heartbeat}
  Window = 2
  MaxSeq = 3
  MaxSession = 2
  MaxTx = 1
INVARIANTS
  TypeOK
  NonceUnique
  FramesWhole
  OwnWindow
  HeardAtMostTwice
  SessionHeard
