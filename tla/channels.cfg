SPECIFICATION FairSpec
CONSTANTS
  c1 = c1
  c2 = c2
  x = x
  y = y
  None = None
  Channels <- MCChannels
  PriorityOf <- MCPriority
  AutoBan = {c1}
  Tags = {x, y}
  Starts <- MCStarts
  Modes = {TRUE, FALSE}
  RetryTimes = 1
  MaxEvents = 2
INVARIANTS AbilitiesAgree OwnersAlive
PROPERTIES ManualStays CacheFollowsTable
\* without the memory cache no sync runs, and the jobs may all be done
CHECK_DEADLOCK FALSE
