SPECIFICATION BreakerFairSpec
CONSTANTS
    c1 = c1  c2 = c2
    positions = positions  grades = grades
    HOST = HOST
    Callers = {c1, c2}
    Resources = {positions, grades}
    ResourceOf <- OneEach
    Failures = 2
    Outcomes <- AllOutcomes
PROPERTY ReadsComeBack
CHECK_DEADLOCK FALSE
