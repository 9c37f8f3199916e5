CONSTANTS
    Keys = {k1, k2, k3, k4}
    NoKey = NoKey
    MaxLosses = 2
    MaxTasks = 2
    MaxRestarts = 1
SPECIFICATION Spec
SYMMETRY Symmetry
INVARIANTS
    CurrentTrusted
    RetiredUntrusted
    KeysAccounted
CHECK_DEADLOCK FALSE
