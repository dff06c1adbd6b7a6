SPECIFICATION Spec
CONSTANTS
  Ids = {s1, s2}
  Orbits <- MCOrbits
  Forces <- MCForces
  Times = {0, 1}
  Settable <- MCSettable
  Catalog <- MCCatalog
  TleLists <- MCTleLists
  EpochLists <- MCEpochLists
  Thresholds <- MCThresholds
  DefaultThreshold = 3
  ManyEpochs = 2
  UsizeMax = 100
  CpuFails <- MCCpuFails
  GpuFails <- MCGpuFails
  SaalMayRefuse <- MCSaalMayRefuse
  None = None
ACTION_CONSTRAINT MCBatchesAlone
INVARIANTS
  FieldsFollowPropagator
  ConstellationAnswersTrue
  BatchAnswersTrue
