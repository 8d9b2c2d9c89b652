CONSTANTS
  Frames = {"field"}
  NotifyCap = 1
  MsgCap = 8
  Calls = {c1}
  Requests = {"login", "badLogin", "submit"}
  RetryTimes = 0
  ExitOnPoolDown = FALSE
  OthersRunning = FALSE
SPECIFICATION SessionSpec
PROPERTIES
  ClosedSessionEnds
  DepartedSessionEnds
  RequestsReturn
CHECK_DEADLOCK FALSE
