SPECIFICATION Spec
CONSTANTS
    c1 = c1
    c2 = c2
    Callers <- MCCallers
    Chains <- MCChains
    Limit = 2
    Window = 2
    Quotas <- MCQuotas
    MaxCalls = 3
    None = None
SYMMETRY Symmetry
INVARIANTS
    TypeOK
    SlidingBound
    Accounted
    CountExact
    LimitHonoured
