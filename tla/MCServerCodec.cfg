CONSTANTS
  Ids = {a, b}
  MaxSeq = 2
  MaxJobs = 1
SPECIFICATION CodecSpec
INVARIANTS
  CodecTypeOK
  AnswersMatch
  PendingInFlight
PROPERTY ServeEnds
CHECK_DEADLOCK FALSE
