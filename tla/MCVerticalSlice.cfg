SPECIFICATION Spec
CONSTANTS
  Periods = {1, 2}
  Externals = {1, 2, 3}
  Keys = {"k1"}
  Inputs <- MCInputs
  Requests <- MCRequests
INVARIANTS
  TypeOK
  IdentityAuthority
  ObligationIntegrity
  PostedOnce
PROPERTIES
  BookOnlyGrows
