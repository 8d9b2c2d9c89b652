CONSTANTS
  Runs = {r1, r2}
  RetryTimes = 3
  Base = 6
  nonceIncrement = 6
  InitTarget = 5
  initDiffCount = 3
  submitInterval = 2
  refreshDiffInterval = 4
  OverflowTarget = 18
  NaNTarget = 18
  MaxShares = 6
  MaxTime = 6
SPECIFICATION TimersSpec
INVARIANTS
  DetectTypeOK
  IssueTypeOK
  WindowCount
PROPERTIES
  DetectorReconnects
  FreshRange
  SilentMinerEased
