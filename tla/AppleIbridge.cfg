SPECIFICATION IbridgeSpec
CONSTANTS
    User = {u1, u2}
    Illums = {12, 20, 50, 10000}
    Fixed = {5, 9}
    MaxOps = 4
    MaxResets = 1
    Key = {}
    Translatable = {}
    Idles <- MCIdles
    Dims <- MCDims
    Params <- MCParams
    FnModes = {2}
    DefFn = 2
    MaxIdle = 2
    MaxStores = 0
    MaxSuspends = 1
    MaxRemoves = 0
    MaxFails = 0
    MaxAccidents = 1
INVARIANTS Follows
PROPERTIES NoFlapping TouchBarFollows
