SPECIFICATION FairSpec
CONSTANTS
  own = own
  w2 = w2
  ui = ui
  None = None
  UI = ui
  Own = own
  Windows = {own, w2}
  IdOf <- TwoWindows
  Threads = {ui, t1, t2}
  Calls = {"mru", "id", "name", "rename", "each", "layout", "quit"}
  MaxCalls = 1
  MaxTime = 2
  MayKill = TRUE
  Queueing = TRUE
INVARIANTS MruSorted 
PROPERTIES MostRecentFirst OwnQuitsLast 
CHECK_DEADLOCK FALSE
