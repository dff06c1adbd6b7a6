SPECIFICATION SearchSpec
CONSTANTS
  EndEpoch = 14
  DefaultStep = 3
  MinDuration = 6
  NoEpoch = NoEpoch
INVARIANTS SearchTypeOK AccessesDisjoint AccessesArePasses LongPassesReported
PROPERTIES Terminates
CHECK_DEADLOCK FALSE
