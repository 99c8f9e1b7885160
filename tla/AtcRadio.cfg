SPECIFICATION Spec
CONSTANTS
  Freqs = {1, 2}
  ListLengths = {1, 2}
INVARIANTS
  TypeOK
  OnAirAsTuned
PROPERTIES
  GroupsAsCoupled
  UpdatesGoOn
