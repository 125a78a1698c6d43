SPECIFICATION CameraSpec
CONSTANTS
    File = {f1, f2}
    MaxGen = 3
    Buf = {b1, b2, b3}
    Entries = 5
    Page = 2
    Lists <- MCLists
    Sensors <- MCSensors
    Widths = {0, 321, 641, 849, 4000}
    Heights = {0, 243, 481, 588, 4000}
SYMMETRY Sym
CHECK_DEADLOCK FALSE
INVARIANTS StateLives TableRight FrameRight
