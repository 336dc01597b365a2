SPECIFICATION FairSpec
CONSTANTS
  r1 = r1
  r2 = r2
  Requests = {r1, r2}
  Specific = {r2}
  RetryTimes = 1
  MaxFaults = 1
  MaxStrays = 1
INVARIANTS ChargedOnce RefundsFollowFaults FailuresPaidBack
PROPERTIES TasksEnd
\* a poller without tasks, or without its goroutine, waits
CHECK_DEADLOCK FALSE
