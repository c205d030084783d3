SPECIFICATION MCSpec
CONSTANTS
    m = m
    c = c
    s1 = s1
    s2 = s2
    s3 = s3
    r1 = r1
    r2 = r2
    w1 = w1
    w2 = w2
    l1 = l1
    l2 = l2
    n1 = n1
    Handles <- MCHandles
    Main = m
    Snaps <- MCSnaps
    Readers <- MCReaders
    Writers <- MCWriters
    Libs <- MCLibs
    Names <- MCNames
    None = None
    MaxLen = 2
    c1 = c1
    c2 = c2
    a = a
    b = b
    Callers <- MCCallers
    RegistryNames <- MCRegistryNames
    Items <- MCItems
    MaxVersion = 3
    MaxEntered = 4
SYMMETRY Symmetry
CHECK_DEADLOCK FALSE
INVARIANTS
    TypeOK
    SnapRefsExact
    LibRefsExact
    CallsOpen
    HostTypeOK
    StateContinues
    BuiltFresh
PROPERTIES
    ExecPinned
    ImplementsValueChain
