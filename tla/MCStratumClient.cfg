CONSTANTS
  Callers = {a, b}
  NotifCap = 1
  MaxMessages = 2
SPECIFICATION ClientSpec
INVARIANTS
  ClientTypeOK
  OwnAnswer
  WaitingIsKnown
  ReaderNeverBlocks
PROPERTY CallReturns
CHECK_DEADLOCK FALSE
