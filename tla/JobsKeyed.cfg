SPECIFICATION Spec
CONSTANTS
    c1 = c1  c2 = c2  k1 = k1  s1 = s1
    t1 = t1  t2 = t2  w1 = w1  w2 = w2
    NoKey = NoKey  NoSchedule = NoSchedule  NoWorker = NoWorker
    Keys = {k1}
    Workers = {w1, w2}
    Calls = {c1, c2}
    KeyOf <- SameKey
    TickRows = {}
    Schedules = {}
    NoOverlap = {}
    MaxAttempts = 2
    SkipLocked = FALSE
    PassBudget = 1
    ClaimTries = 2
    MaxTicks = 0
    MaxKills = 1
    MaxStops = 1
SYMMETRY WorkerSymmetry
INVARIANTS
    OneActivePerKey
    ClaimLineage
    ShutdownIsClean
PROPERTIES
    RefinesLifecycle
