SPECIFICATION FairSpec
CONSTANTS
    c1 = c1  c2 = c2  k1 = k1  s1 = s1
    t1 = t1  t2 = t2  w1 = w1  w2 = w2
    NoKey = NoKey  NoSchedule = NoSchedule  NoWorker = NoWorker
    Keys = {k1}
    Workers = {w1, w2}
    Calls = {}
    KeyOf <- NoCalls
    TickRows = {t1, t2}
    Schedules = {s1}
    NoOverlap = {s1}
    MaxAttempts = 2
    SkipLocked = TRUE
    PassBudget = 1
    ClaimTries = 1
    MaxTicks = 2
    MaxKills = 1
    MaxStops = 1
INVARIANTS
    NoStacking
PROPERTIES
    EveryJobEnds
    DueScheduleTicks
