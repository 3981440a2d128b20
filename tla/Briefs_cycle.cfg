SPECIFICATION FairSpec
CONSTANTS
    p1 = p1
    p2 = p2
    i1 = i1
    i2 = i2
    Program = {p1, p2}
    Ecosystem = Ecosystem
    Item = {i1, i2}
    Home <- MCHome
    Room = {1, 2}
    Lookback = 0
    Worlds <- MCWorlds
    User = {u1}
    Cron = Cron
    Order <- MCOrder
    Requests = 1
    MaxTime = 2
    MaxClicks = 1
    MaxPlans = 1
INVARIANTS LostOnlyWhileWriting
PROPERTY StaleBriefsAreRewritten
CHECK_DEADLOCK FALSE
