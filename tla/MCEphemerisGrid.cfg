SPECIFICATION Spec
CONSTANTS
  Epochs <- MCEpochs
  Vectors = {v1, v2}
  Tolerance = 2
  MaxStates = 4
  None = None
INVARIANTS Ordered DriftBounded LookupNear GridAgreesWithSearch AddedIsFound
PROPERTY CoverageGrows
