SPECIFICATION Spec
CONSTANTS
  Models <- MCModels
  FingerprintOf <- MCFingerprintOf
  Operations = {"baseline_forecast"}
  CacheLimit = 2
  MaxRequests = 3
  MaxEvidenceWorkers = 1
  IdleWorkerMayFail = TRUE
INVARIANTS
  EvidenceReleased
