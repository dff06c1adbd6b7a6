CONSTANTS
  None = None
  s1 = s1
  s2 = s2
  Ids = {s1, s2}
  Orbits = {"a", "b", "c"}
  Epochs = {0, 1, 2}
  Threshold = 3
  Period = 2
  VelocityThreshold = 1
  Position <- MCPosition
  Velocity <- MCVelocity
  Perigee <- MCPerigee
  Apogee <- MCApogee
  Windows <- MCWindows
  Settable <- MCSettable
  Fails <- MCFails
SYMMETRY MCSymmetry
SPECIFICATION Spec
INVARIANT ApproachesReported
