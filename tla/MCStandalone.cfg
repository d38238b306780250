SPECIFICATION StandaloneSpec
CONSTANTS
  Inputs = {"cash flow", "investments"}
  NoResult = "none"
  MaxSequence = 6
INVARIANTS
  ShownIsCurrent
PROPERTIES
  ImplementsLatest
CHECK_DEADLOCK FALSE
