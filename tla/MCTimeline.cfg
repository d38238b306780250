SPECIFICATION Spec
CONSTANTS
  Instances <- MCInstances
  Plans <- MCPlans
  Horizons <- MCHorizons
  WorkSets <- MCWorkSets
  MaxRuns = 2
INVARIANTS
  TypeOK
  Resumable
  StoreRemembers
  OccurrenceOnce
PROPERTIES
  ImplementsLog
CHECK_DEADLOCK FALSE
