SPECIFICATION Spec
CONSTANTS
  root = root
  user = user
  late = late
  key = key
  None = None
  Users <- MCUsers
  Root = root
  Tokens = {key}
  OwnerOf <- MCOwner
  Starts <- MCStarts
  Modes = {TRUE, FALSE}
  Reward = 1
  NewUser = 1
  Invitee = 1
  Inviter = 1
  MaxEvents = 2
INVARIANTS RowsAsOrdered RootStands CachesAgree
CHECK_DEADLOCK FALSE
