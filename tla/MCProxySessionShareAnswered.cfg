CONSTANTS
  Frames = {"field"}
  NotifyCap = 1
  MsgCap = 8
  Calls = {c1}
  Requests = {"login", "submit"}
  RetryTimes = 1
  ExitOnPoolDown = TRUE
  OthersRunning = FALSE
SPECIFICATION SessionSpec
PROPERTY
  ShareAnswered
CHECK_DEADLOCK FALSE
