SPECIFICATION FairSpec
CONSTANTS
    NChan = 3
    Kind <- MCKind3
    Source <- MCSource3
    Size <- MCSize3
    StuckLimit = 500
    MaxFaults = 1
    MaxObjs = 1
INVARIANTS ReceivedOnce
PROPERTIES Served
