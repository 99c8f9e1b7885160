SPECIFICATION Spec
CONSTANTS
  Radios = {r1, r2}
  Freqs = {none, f1}
  NoFreq = none
INVARIANT OpenPttTransmits
