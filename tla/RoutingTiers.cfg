SPECIFICATION Spec
CONSTANTS
    Parts = {"routing"}
    Users = {u1, u2}
    Orgs = {o1, o2}
    Keys = {k1}
    NoKey = NoKey
    NoOrg = NoOrg
    Producers = {q1, q2}
    Channels = {mail}
    MaxEmits = 2
    MaxMarks = 2
    p1 = p1
    Tenants = {t1}
    Platform = platform
    Topics = {general, orders}
    Rungs = {low, high}
    General = general
    Low = low
    High = high
    Every = any
    InApp = in_app
    Email = email
    TTL = 1
    MaxChanges = 2
    MaxTicks = 1
    Wild = wild
    MaxWrites = 2
    MaxCrashes = 1
    MaxUndos = 1
    Schemas = {s1, s2}
    Default = public
    Settings = {g1, g2}
    Unset = unset
    MaxCalls = 3
    MaxLosses = 1
INVARIANT TopicBeatsImportance
CHECK_DEADLOCK FALSE
