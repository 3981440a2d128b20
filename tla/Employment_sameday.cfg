SPECIFICATION Spec
CONSTANTS
    p1 = p1
    p2 = p2
    j1 = j1
    j2 = j2
    a1 = a1
    a2 = a2
    Person = {p1, p2}
    Job = {j1}
    Address = {a1, a2}
    NoAddress = NoAddress
    NoJob = NoJob
    Editor = {e1}
    Days = 3
    LastTick = 2
    PerDay = 2
    MaxRequests = 4
    MaxFaults = 1
PROPERTY MovesNeverUncover
SYMMETRY MCSymmetry
CHECK_DEADLOCK FALSE
