SPECIFICATION FairSpec
CONSTANTS
  t1 = t1
  t2 = t2
  c1 = c1
  c2 = c2
  Tasks = {t1, t2}
  Channels = {c1, c2}
  ChannelOf <- TwoChannels
  KindOf <- MixedTasks
  MaxFaults = 1
  MaxNotices = 1
  MaxStrays = 1
INVARIANTS RefundedOnce FailuresPaidBack
PROPERTIES DoneForGood KnownTasksEnd
\* a poller without tasks, or without its goroutine, waits
CHECK_DEADLOCK FALSE
