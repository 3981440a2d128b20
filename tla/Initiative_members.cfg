SPECIFICATION Spec
CONSTANTS
    Partner = {p1, p2}
    Request = {r1, r2}
    Name = {"design", "ship"}
    FirstSteps <- MCFirstSteps
    FirstDeps <- MCFirstDeps
    MaxStep = 4
    MaxCopy = 2
    MaxRequests = 4
SYMMETRY Symmetry
CHECK_DEADLOCK FALSE
INVARIANTS
    StandingIsOneCopy
    CopiesCarryTheSteps
PROPERTIES
    KeptStepsKeepTheirWork
    HistoryIsNotRewritten
