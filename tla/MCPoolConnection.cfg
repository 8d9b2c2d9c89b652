CONSTANTS
  Frames = {"field"}
  NotifyCap = 2
  MsgCap = 2
SPECIFICATION ConnSpec
INVARIANTS
  ConnTypeOK
  SendersSeeOpen
PROPERTIES
  TornDownGoroutinesExit
  StopCompletes
