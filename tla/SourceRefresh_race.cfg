SPECIFICATION Spec
CONSTANTS
    s1 = s1
    u1 = u1
    u2 = u2
    t1 = t1
    t2 = t2
    d1 = d1
    d2 = d2
    d3 = d3
    x1 = x1
    x2 = x2
    Source = {s1}
    Kinds <- MCDriveAndChat
    User = {u1}
    Cron = Cron
    UserOps <- MCEverything
    Throttling = TRUE
    Text = {t1, t2}
    Digest <- MCTwoDigests
    DigestText <- MCTwoText
    DigestStatus <- MCTwoStatus
    NoRow = NoRow
    Nil = Nil
    MaxVersion = 2
    MaxRows = 2
    MaxRevisions = 2
    MaxFaults = 1
INVARIANTS
    TypeOK
    NewestRevisionIsTheRow
PROPERTY ImplementsRevisionLog
SYMMETRY MCSymmetry
CHECK_DEADLOCK FALSE
