SPECIFICATION Spec
CONSTANTS
    c1 = c1
    c2 = c2
    Callers <- MCCallers
    Chains <- MCMetricsOnly
    Limit = 2
    Window = 2
    Quotas <- MCQuotas
    MaxCalls = 3
    None = None
PROPERTY ErrorsNotNegative
