CONSTANTS
  Freqs = {f1, f2}
  Callsigns = {p1}
  Patience = 2
SPECIFICATION Spec
INVARIANTS TypeOK IndicationBacked
PROPERTY Quiesces
