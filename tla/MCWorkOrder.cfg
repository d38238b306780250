\* Three items in any of the three barriers, lagged or not.
CONSTANTS
    Ids = {1, 2, 3}
    Ranks = {0, 1, 2}
    Lags = {0, 1}
SPECIFICATION Spec
INVARIANTS
    TypeOK
    DependenciesFirst
    CycleVerdict
    LeastOrder
