SPECIFICATION EngineFairSpec
CONSTANTS
    t1 = t1  t2 = t2  t3 = t3
    o1 = o1  o2 = o2
    None = None
    Txns = {t1, t2, t3}
    Orgs = {o1, o2}
    Founded = {o1}
    MaxEvents = 4
    Postgres = TRUE
INVARIANT ChainIntact
PROPERTIES
    CommitsExtend
    EveryTxnEnds
CHECK_DEADLOCK FALSE
