SPECIFICATION FairSpec
CONSTANTS
    s1 = s1
    u1 = u1
    u2 = u2
    t1 = t1
    t2 = t2
    d1 = d1
    d2 = d2
    d3 = d3
    x1 = x1
    x2 = x2
    Source = {s1}
    Kinds <- MCFollowedKinds
    User = {u1}
    Cron = Cron
    UserOps <- MCPasteOnly
    Throttling = FALSE
    Text = {t1, t2}
    Digest <- MCTwoDigests
    DigestText <- MCTwoText
    DigestStatus <- MCTwoStatus
    NoRow = NoRow
    Nil = Nil
    MaxVersion = 3
    MaxRows = 1
    MaxRevisions = 3
    MaxFaults = 1
PROPERTIES
    FollowedSourcesConverge
    SharedDocsAreDiscovered
CHECK_DEADLOCK FALSE
