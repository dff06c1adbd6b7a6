SPECIFICATION Spec
CONSTANTS
  N = 3
  Ids = {a, b, c}
  s1 = s1
  s2 = s2
  Satellites <- MCSatellites
  HIGH_ASSOCIATION_CLOS_RANGE = 2
  MEDIUM_ASSOCIATION_CLOS_RANGE = 3
  LOW_ASSOCIATION_CLOS_RANGE = 4
  observed_satellite_id <- MCObserved
  None = None
SYMMETRY Symmetry
INVARIANTS OneToOne NoBetterPair ReportConsistent
CHECK_DEADLOCK FALSE
