SPECIFICATION FairSpec
CONSTANTS
    Caller = {c1, c2}
    Size = 2
    Mem = {m1, m2}
    NoMem = NoMem
    DebugChannel = FALSE
INVARIANTS NoStrandedCommand FirmwareMemoryLive HonestResult
PROPERTIES Answered
