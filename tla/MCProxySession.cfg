CONSTANTS
  Frames = {"field"}
  NotifyCap = 1
  MsgCap = 8
  Calls = {c1, c2}
  Requests = {"login", "badLogin", "submit", "getjob"}
  RetryTimes = 1
  ExitOnPoolDown = FALSE
  OthersRunning = TRUE
SYMMETRY Symmetry
SPECIFICATION SessionSafeSpec
INVARIANTS
  SessionTypeOK
  NoChanPanic
  NoOrphanConnection
  NilAfterRelease
  HolderGoesOn
PROPERTIES
  NoFalseAlarm
  ConnSafeSpec
CHECK_DEADLOCK FALSE
