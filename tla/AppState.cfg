CONSTANTS
    Procs = {u1, e1}
    Elevated = {e1}
    MaxSets = 2
    MaxCrashes = 1
    MayReset = TRUE
SPECIFICATION Spec
INVARIANTS LocalsApart IntactUnlessRaced FlushPublishes 
CHECK_DEADLOCK FALSE
