SPECIFICATION Spec
CONSTANTS
  Procs = {p1, p2, p3}
  None = None
  Own = Own
  NewWindow = NewWindow
  AnyWindow = AnyWindow
  Glom = Glom
  Ids = {1, 3}
  Targets = {AnyWindow, 1}
  MaxCrashes = 1
  MaxAttempts = 1
  MayClose = TRUE
  NullMonarch = TRUE
  IsolatedMode = TRUE
SYMMETRY Symmetry
INVARIANTS OneKing IdsRight ListedUnlessIdShared 
CHECK_DEADLOCK FALSE
