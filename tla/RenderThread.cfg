SPECIFICATION RenderFairSpec
CONSTANTS
  Notifiers = {n1, n2}
  MayFail = TRUE
  MayDisable = TRUE
  LockedDelete = FALSE
INVARIANTS RequestRecorded
PROPERTIES FramesKeepComing RundownEnds
CHECK_DEADLOCK FALSE
