SPECIFICATION FairSpec
CONSTANTS
  Clients = {c1, c2}
  Root = c1
  Inbound = {TRUE, FALSE}
  MayFail = TRUE
  MaxOps = 1
  MaxWrites = 1
  MaxSessions = 2
  MaxCrashes = 1
  OutCap = 1
CHECK_DEADLOCK FALSE
INVARIANTS NoCallAfterClose OutputComplete SettingsArrive
PROPERTIES CloseEnds 
