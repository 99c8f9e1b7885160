CONSTANTS
  Radios = {r1, r2}
  Freqs = {none, f1}
  NoFreq = none
SPECIFICATION FairClientSpec
INVARIANTS
  TypeOK
  AuthInFlight
  TokenWhileUp
  RenewalScheduled
  NoLimbo
  VoiceWatched
  VoiceReported
PROPERTIES
  ImplementsStatus
  AttemptsEnd
  ImplementsSessions
  ImplementsGuard
