SPECIFICATION Spec
CONSTANTS
  Tabs = {"a", "b"}
  ModelIds = {"m1", "m2"}
  InitialFormats = {"current"}
  MaxEdits = 0
  MaxRunning = 2
PROPERTIES
  DifferentModelConfirmed
