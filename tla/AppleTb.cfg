SPECIFICATION Spec
CONSTANTS
    Key = {k1}
    Translatable = {k1}
    Idles <- MCAllIdles
    Dims <- MCAllDims
    Params <- MCAllParams
    FnModes = {1}
    DefFn = 1
    MaxIdle = 1
    MaxStores = 1
    MaxSuspends = 1
    MaxRemoves = 1
    MaxFails = 1
    MaxAccidents = 1
INVARIANTS DeviceKnown Prompt KeysReleased
