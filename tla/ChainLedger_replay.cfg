SPECIFICATION Spec
CONSTANTS
    Ticks = 5
    Phase <- MCPhase
    Programs <- MCPrograms
    Dot <- MCDot
    ClaimDate <- MCClaimDate
    TrendWindow = 4
    TrendLoss = 2
    MaxNow = 5
    MaxUpdates = 3
    MaxClaims = 1
INVARIANTS
    OneStory
    BooksBalance
    AskedMeansTold
    SeriesClosesTheBooks
    PastStaysPut
    DaysAreExplained
    OutlookIsNoBrighter
PROPERTY IdleTimeIsPaid
CHECK_DEADLOCK FALSE
