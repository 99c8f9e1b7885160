SPECIFICATION FairSpec
CONSTANTS
  Radios = {r1, r2}
  Freqs = {none, f1}
  NoFreq = none
INVARIANTS
  TypeOK
  NoHotMic
PROPERTIES
  UpdatesGoOn
  GuardSound
  GuardOpens
