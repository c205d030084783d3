SPECIFICATION CircuitSpec
CONSTANTS
    c1 = c1
    c2 = c2
    c3 = c3
    c4 = c4
    Nobody = Nobody
    None = None
    Callers <- MCCallers
    Threshold = 1
    Cooldown = 2
    Closed = None
    NoProbe = Nobody
PROPERTY SingleProbe
