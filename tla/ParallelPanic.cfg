SPECIFICATION BatchSpec
CONSTANTS
    Flavours <- MCChain
    Batch = 2
INVARIANT PanicBecomesError
CHECK_DEADLOCK FALSE
