SPECIFICATION FairSpec
CONSTANTS
    Buf = {b1, b2}
    NoBuf = NoBuf
    NCtx = 3
    MaxFaults = 1
CHECK_DEADLOCK FALSE
INVARIANTS BuffersOwned
PROPERTIES BufferReturns
