CONSTANTS
    Procs = {p1, p2}
    Threads = {t1, t2}
    Owner <- MCOwner
    Extras = {x}
    Rooms = {1}
    Batches <- MCBatches
    Reasons = {"pause", "select"}
    MaxEvents = 2
    None = None
    p1 = p1
    p2 = p2
    t1 = t1
    t2 = t2
SPECIFICATION FairSpec
INVARIANTS  ReadsCounted SlotLive MissedOnlyInGap
PROPERTIES TypingServes
CHECK_DEADLOCK FALSE
