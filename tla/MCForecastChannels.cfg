SPECIFICATION Spec
CONSTANTS
  Models <- MCModels
  FingerprintOf <- MCFingerprintOf
  Operations = {"baseline_forecast", "comparison"}
  CacheLimit = 2
  MaxRequests = 3
  MaxEvidenceWorkers = 1
  IdleWorkerMayFail = TRUE
INVARIANTS
  TypeOK
  ResultPaired
  NothingSurvivesReset
  ReleasedUnlessIdleFailed
PROPERTIES
  EverySubmissionSettles
  ImplementsLatest
