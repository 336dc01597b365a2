SPECIFICATION LimitsSpec
CONSTANTS
  a = a
  b = b
  Clients <- MCClients
  Configs <- MCConfigs
  Expiry = 2
  MaxTime = 4
  MaxRequests = 5
SYMMETRY Symmetry
INVARIANTS LimitsHold
PROPERTIES RefusedAtLimit
\* every client may have made its requests
CHECK_DEADLOCK FALSE
