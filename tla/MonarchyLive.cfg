SPECIFICATION FairSpec
CONSTANTS
  Procs = {p1, p2, p3}
  None = None
  Own = Own
  NewWindow = NewWindow
  AnyWindow = AnyWindow
  Glom = Glom
  Ids = {1, 3}
  Targets = {NewWindow}
  MaxCrashes = 2
  MaxAttempts = 2
  MayClose = FALSE
  NullMonarch = FALSE
  IsolatedMode = TRUE
PROPERTIES StartupEnds EventuallyOneCourt
CHECK_DEADLOCK FALSE
