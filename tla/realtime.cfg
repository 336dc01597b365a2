SPECIFICATION Spec
CONSTANTS
  Requests <- MCRequests
  MaxAnswer = 2
  MaxInputs = 1
INVARIANTS SessionsPaid
PROPERTIES SessionsEnd
\* a request comes to its end
CHECK_DEADLOCK FALSE
