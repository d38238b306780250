SPECIFICATION Spec
CONSTANTS
  Tabs = {"a"}
  ModelIds = {"m1", "m2"}
  InitialFormats = {"current", "old", "unusable"}
  MaxEdits = 1
  MaxRunning = 2
INVARIANTS
  TypeOK
  SavedStateIsStored
PROPERTIES
  ProtectedBytesSurvive
  UseCasesEnd
