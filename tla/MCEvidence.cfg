SPECIFICATION Spec
CONSTANTS
  Panels = {"table", "chart"}
  Selections <- MCSelections
  Unavailable = {"gap"}
  CacheLimit = 1
  MaxRequests = 2
  MaxScopes = 2
  MaxRevisions = 1
INVARIANTS
  TypeOK
  OwnAnswer
  SourceFound
PROPERTIES
  SelectionsSettle
