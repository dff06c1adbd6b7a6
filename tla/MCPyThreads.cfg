SPECIFICATION Spec
CONSTANTS
  Ephemerides = {e1, e2}
  Private = private
  MaxSatellites = 2
  Threads = {t1, t2}
  Workers = {w1, w2}
  Called <- MCCalled
  Copies = {o1, o2}
  MaxCalls = 1
  None = None
SYMMETRY MCSymmetry
CONSTRAINT MCOneAtLength
ACTION_CONSTRAINT MCEager
CHECK_DEADLOCK FALSE
INVARIANTS
  HangsOnlyOnWriter
  SearchSeesOneVersion
