SPECIFICATION MCSpec
CONSTANTS
    Chain <- MCChain
    MaxTries = 3
    c1 = c1
    c2 = c2
    v = v
    minus999 = minus999
    Callers <- MCCallers
    Values <- MCValues
    Sentinel = minus999
    MaxRestart = 2
    MaxRuns = 3
    None = None
INVARIANTS
    AsyncTypeOK
    AllOrNothing
    CoreAtMostOnce
    TypeOK
    OwnAnswer
    QuietWhenFree
PROPERTIES
    EndsInTime
    NoAnswerLost
    Answers
CHECK_DEADLOCK FALSE
