SPECIFICATION FairTopUpSpec
CONSTANTS
  o1 = o1
  o2 = o2
  n1 = n1
  n2 = n2
  n3 = n3
  m1 = m1
  Nobody = Nobody
  Orders = {o1, o2}
  Nodes = {m1}
  Notifications = {n1, n2, n3}
  OrderOf <- MCOrderOf
  NodeOf <- OneServer
  MaxFailures = 2
INVARIANTS CreditedOnce SettledOrders
PROPERTIES PaidForGood NotificationsEnd
\* every notification of the instance is handled, and the system may stop
CHECK_DEADLOCK FALSE
