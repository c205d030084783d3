SPECIFICATION Spec
CONSTANTS
    t1 = t1
    t2 = t2
    a = a
    b = b
    Threads <- MCThreads
    Sources <- MCSources
    MaxFiles = 1
    MaxCount = 4
    MaxRequests = 3
    MaxCrash = 1
    Poisoned = Poisoned
    Left = None
    None = None
INVARIANTS
    TypeOK
    CacheCorrect
    AnswerStands
SYMMETRY MCSymmetry
