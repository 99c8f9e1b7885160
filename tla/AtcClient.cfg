SPECIFICATION Spec
CONSTANTS
  Requests = {"update", "station"}
  Asks = {s1, s2, tx}
  NoAsk = NoAsk
  Handles = {h1, h2}
  NoHandle = NoHandle
  Freqs = {f1, f2}
  NoFreq = NoFreq
  Stations = {s1, s2}
  Update = tx
INVARIANTS
  TypeOK
  MicFollowsRelease
PROPERTIES
  LinksAsAsked
  RequestsAreFlags
