SPECIFICATION Spec
CONSTANTS
  u1 = u1
  u2 = u2
  t1 = t1
  t2 = t2
  t3 = t3
  r1 = r1
  r2 = r2
  r3 = r3
  Users <- MCUsers
  Tokens <- MCTokens
  OwnerOf <- MCOwnerOf
  UserQuota0 <- MCUserQuota
  TokenQuota0 <- MCTokenQuota
  Unlimited = {t2}
  Requests = {r1, r2, r3}
  TokenOf <- Contend
  Reserve <- MCReserve
  Playground = {r3}
  ClaudeRequests = {r1}
  Prices = {0, 2, 3}
  RetryTimes = 1
  BatchUpdateEnabled = FALSE
  MaxFaults = 2
INVARIANTS SettledFairly SettledTokens ServedOnce
\* every request of the instance is served and the system may stop
CHECK_DEADLOCK FALSE
