SPECIFICATION MCSpec
CONSTANTS
    Nodes = 2
    MaxTries = 3
    Flavours <- MCBoth
    Batch = 3
    c1 = c1
    c2 = c2
    c3 = c3
    c4 = c4
    Nobody = Nobody
    None = None
    Callers <- MCCallers
    Threshold = 3
    Cooldown = 3
    Closed = None
    NoProbe = Nobody
CHECK_DEADLOCK FALSE
INVARIANTS
    TypeOK
    AnswersTrue
    RequestKept
    BatchTypeOK
    OpaqueAnswersAll
    ChainAllOrFirstError
    CircuitTypeOK
    ClosedBelowThreshold
    FailuresBounded
PROPERTIES
    CallEnds
    CooldownHonoured
    CoolsDown
