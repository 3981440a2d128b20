SPECIFICATION Spec
CONSTANTS
    Ticks = 5
    Phase <- MCFork
    Programs <- MCForkPrograms
    Dot <- MCDot
    ClaimDate = {0}
    TrendWindow = 4
    TrendLoss = 2
    MaxNow = 2
    MaxUpdates = 2
    MaxClaims = 0
INVARIANT EveryConstraintIsDiagnosed
CHECK_DEADLOCK FALSE
