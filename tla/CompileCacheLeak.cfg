SPECIFICATION Spec
CONSTANTS
    t1 = t1
    t2 = t2
    a = a
    b = b
    Threads <- MCThreads
    Sources <- MCSources
    MaxFiles = 1
    MaxCount = 4
    MaxRequests = 3
    MaxCrash = 0
    Poisoned = Poisoned
    Left = Left
    None = None
INVARIANT BuildCleansUp
