SPECIFICATION Spec
CONSTANTS
    r1 = r1
    r2 = r2
    Partner = {p}
    Program = {g}
    Thread = {t}
    Person = {ann}
    NoOne = NoOne
    Request = {r1, r2}
    Ending = {"resolved", "duplicate"}
    NoRow = NoRow
    NoThread = NoThread
    chatConfigured = TRUE
    MaxId = 2
    MaxRequests = 4
    MaxFaults = 1
INVARIANTS
    OneOpenPerThread
    AboutSomething
    DeliveryIsHonest
SYMMETRY MCSymmetry
CHECK_DEADLOCK FALSE
