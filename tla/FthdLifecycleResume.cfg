SPECIFICATION Spec
CONSTANTS
    File = {f1}
    MaxGen = 3
CHECK_DEADLOCK FALSE
INVARIANTS ResumeSafe
