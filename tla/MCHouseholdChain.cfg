CONSTANTS
    Accounts = {"A", "B"}
    Loans = {"L", "M"}
    Months = 3
    Instants = 2
    CheckpointEvery = 1
    Households <- Unchained
SPECIFICATION Spec
INVARIANT AllocationByContract
CHECK_DEADLOCK FALSE
