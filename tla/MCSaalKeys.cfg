CONSTANTS
  Workers = {w1, w2}
  Objects = {a, b, c}
  Keys = {k1, k2, k3}
  MaxFailures = 1
  None = None
SPECIFICATION Spec
INVARIANTS
  NoUseAfterRemove
  NoDoubleLoad
  MissingOnlyIfReloading
  KeysAccountedFor
PROPERTY CallsReturn
