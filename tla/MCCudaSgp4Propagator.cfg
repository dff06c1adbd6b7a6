CONSTANTS
  near = near
  deep = deep
  boundary = boundary
  Satellites <- MCSatellites
  Deep = {deep}
  Slow = {deep, boundary}
  Times <- MCTimes
  TleLists <- MCTleLists
  TimeLists <- MCTimeLists
  Overrides = {"Auto", "ForceSgp4"}
  Undefined <- MCUndefined
  MaxFailures = 1
  NoState = NoState
  None = None
SPECIFICATION Spec
CONSTRAINT MCOneListAfterFailure
INVARIANTS
  TypeOK
  CopiesAgree
  LaunchesInBounds
PROPERTY PromiseKept
