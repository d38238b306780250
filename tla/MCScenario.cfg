SPECIFICATION Spec
CHECK_DEADLOCK FALSE
CONSTANTS
  Scalars = {1, 2}
  Lists = {3, 4}
  Foreign = {2, 4}
  Values = {"v0", "v1", "v2", "bad"}
  Refused = {"bad"}
  Nothing = "nothing"
  Catalogs <- MCCatalogs
  Requests <- MCRequests
INVARIANTS
  CycleVerdict
  OverlaysAgree
  DifferencesAttributed
