SPECIFICATION Spec
CONSTANTS
  b1 = b1
  b2 = b2
  n1 = n1
  n2 = n2
  Nobody = Nobody
  Browsers = {b1, b2}
  Providers = {"github", "oidc", "linuxdo", "wechat", "telegram"}
  People <- MCPeople
  MaxUsers = 4
  Names = {n1, n2}
  Engines = {TRUE, FALSE}
  Tables <- MCTables
  MaxEvents = 3
SYMMETRY MCSymmetry
INVARIANTS OneAccountPerPerson OneRoot ResetOnce
CHECK_DEADLOCK FALSE
