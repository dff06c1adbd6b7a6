CONSTANTS
  ObservationSets <- MCObservationSets
  APrioris <- MCAPrioris
  IterationLimits <- MCIterationLimits
  SearchWindow = 1
  EarliestEpoch = 0
  None = None
SPECIFICATION Spec
INVARIANTS
  ColumnsEstimable
  FitDescribesInputs
  MeasurementsOfObs
  ResultsFitLoop
  ManeuverFitsInputs
PROPERTY UserObservationsKept
