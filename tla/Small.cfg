SPECIFICATION FairOne
CONSTANTS
    Parts = {"outbox", "breaker", "agent"}
    p1 = p1  p2 = p2
    Deliveries = {1, 2}
    Passes = {p1, p2}
    MAX_ATTEMPTS = 2
    Limits = {1, 2}
    SlowSends = FALSE
    MaxCrashes = 1
    c1 = c1  c2 = c2  c3 = c3
    positions = positions  grades = grades
    HOST = HOST
    Callers = {c1, c2, c3}
    Resources = {positions, grades}
    ResourceOf <- TwoResources
    Failures = 2
    Outcomes <- AllOutcomes
    look = look  change = change  ask = ask
    editing = editing  viewing = viewing
    NoSkill = NoSkill
    Tools = {look, change, ask}
    ReadOnly = {look}
    AskTool = ask
    Always = {ask}
    Skills = {editing, viewing}
    ToolsOf <- Holds
    Start = viewing
    MaxTools = 3
    MaxCalls = 4
INVARIANTS
    DuplicatesOnlyByCrash
    PendingIsRetryable
    OneProbe
    InTurn
    SkillInOrder
PROPERTIES
    EveryRowSettles
    ReadsComeBackUnlessStuck
    EveryCallEnds
CHECK_DEADLOCK FALSE
