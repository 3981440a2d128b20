SPECIFICATION Spec
CONSTANTS
    s1 = s1
    u1 = u1
    u2 = u2
    t1 = t1
    t2 = t2
    d1 = d1
    d2 = d2
    d3 = d3
    x1 = x1
    x2 = x2
    Source = {s1}
    Kinds <- MCFollowedKinds
    User = {u1}
    Cron = Cron
    UserOps <- MCPasteAndDelete
    Throttling = FALSE
    Text = {t1, t2}
    Digest <- MCDigest
    DigestText <- MCDigestText
    DigestStatus <- MCDigestStatus
    NoRow = NoRow
    Nil = Nil
    MaxVersion = 3
    MaxRows = 2
    MaxRevisions = 3
    MaxFaults = 1
INVARIANTS
    MentionsNameTheDigest
    EmbeddingNamesTheDigest
    OneRevisionPerChange
    StaleIsDetectable
SYMMETRY MCSymmetry
CHECK_DEADLOCK FALSE
