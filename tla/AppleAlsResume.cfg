SPECIFICATION Spec
CONSTANTS
    User = {u1}
    Illums = {5, 50}
    Fixed = {9}
    MaxOps = 2
    MaxResets = 1
INVARIANT ReportsAfterResume
