SPECIFICATION FairSpec
CONSTANTS
  u1 = u1
  u2 = u2
  u3 = u3
  q1 = q1
  q2 = q2
  q3 = q3
  q4 = q4
  q5 = q5
  q6 = q6
  q7 = q7
  Waves <- MCWaves
  gift = gift
  once = once
  NoOne = NoOne
  Codes = {gift, once}
  Requests = {q1, q2, q3, q4, q5, q6, q7}
  Users = {u1, u2, u3}
  CodeOf <- MCOfCode
  UserOf <- MCOfUser
  Gifts = {gift}
  Editable = {gift}
  MaxUses <- TwoUses
  Admin = {"edit", "status", "disable", "delete", "purge"}
  MaxAdmin = 1
  MaxOutlived = 0
  MaxFaults = 1
INVARIANTS GiftsHold RebatesFollowGrants CodeOnce
PROPERTIES CodesUnblocked
\* every request of the instance ends, and the system may stop
CHECK_DEADLOCK FALSE
