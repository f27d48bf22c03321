SPECIFICATION FairSpec
CONSTANTS
  own = own
  w2 = w2
  ui = ui
  None = None
  UI = ui
  Own = own
  Windows = {own, w2}
  IdOf <- TwoWindows
  Threads = {ui, t1, t2}
  Calls = {"layout"}
  MaxCalls = 1
  MaxTime = 0
  MayKill = FALSE
  Queueing = TRUE
PROPERTIES CallsEnd
CHECK_DEADLOCK FALSE
