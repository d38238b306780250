CONSTANTS
    Accounts = {"A", "B", "C"}
    Loans = {"L", "M"}
    Months = 3
    Instants = 2
    CheckpointEvery = 1
    Households <- Catalogue
SPECIFICATION Spec
INVARIANTS
    TypeOK
    AllocationByContract
    RefusedOnlyForCause
    FailureIsReachable
    ServiceBeforeExtra
    CommittedHistory
    ReplayReproduces
CHECK_DEADLOCK FALSE
