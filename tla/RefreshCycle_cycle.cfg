SPECIFICATION FairSpec
CONSTANTS
    d1 = d1
    d2 = d2
    None = None
    Worker = {w1, w2}
    Listing <- MCListing
    Start <- MCStart
    WebDoc = {c1, c2}
    Broken = {c1}
    Budget = 1
    MaxSummaryRequests = 3
    MaxBriefs = 1
    MaxChanges = 1
    MaxFaults = 1
INVARIANTS OverlapNeedsADrop SpendWithinAllowance NoSilentBacklog
PROPERTIES DueSourcesAreChecked DriveDemandIsMet
