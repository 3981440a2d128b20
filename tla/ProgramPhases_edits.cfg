SPECIFICATION Spec
CONSTANTS
    Editor = {e1, e2}
    MaxPhase = 4
    FirstPhases = 2
    MaxNew = 1
    MaxDraft = 3
    Plan <- MCPlan
    Dot <- MCDot
    MaxRequests = 3
SYMMETRY Symmetry
INVARIANT NoCycle
INVARIANT OneFinalPhase
INVARIANT DotStaysWherePlaced
INVARIANT ChainIsLongest
CHECK_DEADLOCK FALSE
