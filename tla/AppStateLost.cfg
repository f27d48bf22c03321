CONSTANTS
    Procs = {u1}
    Elevated = {}
    MaxSets = 2
    MaxCrashes = 0
    MayReset = FALSE
SPECIFICATION Spec
INVARIANT LastSetFlushed
CHECK_DEADLOCK FALSE
