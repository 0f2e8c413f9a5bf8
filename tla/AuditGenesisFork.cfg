SPECIFICATION Spec
CONSTANTS
    None = None
    Txns = {t1, t2}
    Orgs = {o1}
    Founded = {}
    MaxEvents = 3
    Postgres = FALSE
INVARIANT ChainIntact
CHECK_DEADLOCK FALSE
