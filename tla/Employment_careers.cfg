SPECIFICATION Spec
CONSTANTS
    p1 = p1
    p2 = p2
    j1 = j1
    j2 = j2
    a1 = a1
    a2 = a2
    Person = {p1, p2}
    Job = {j1}
    Address = {a1, a2}
    NoAddress = NoAddress
    NoJob = NoJob
    Editor = {e1, e2}
    Days = 3
    LastTick = 3
    PerDay = 2
    MaxRequests = 3
    MaxFaults = 1
INVARIANTS
    OneJobAtATime
    OneCurrentHolder
    AddressesAgree
    CancelUndoesTheMove
PROPERTY MovesKeepTheCareer
SYMMETRY MCSymmetry
CHECK_DEADLOCK FALSE
