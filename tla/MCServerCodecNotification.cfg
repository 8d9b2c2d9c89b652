CONSTANTS
  Ids = {a, b}
  MaxSeq = 2
  MaxJobs = 1
SPECIFICATION CodecSpec
INVARIANTS
  NotificationsUnanswered
CHECK_DEADLOCK FALSE
