CONSTANTS
    Capacity = 4
    position_mask = 3
    Counts = {1, 3}
    MaxItems = 7
SPECIFICATION FairSpec
INVARIANTS SlotsRight DeletedRight EndsTold NoLostWakeup
PROPERTIES CallsEndAfterDrop
CHECK_DEADLOCK FALSE
