CONSTANTS
    Threads = {t1, t2, t3}
    NoOwner = NoOwner
    Modulus = 3
    MaxDepth = 2
    MaxSuspended = 1
SPECIFICATION FairSpec
INVARIANTS MutualExclusion
PROPERTIES ImplementsFifoLock NoLostWakeup
