SPECIFICATION StreamsSpec
CONSTANT Requests <- MCRequests
INVARIANTS MarksInOrder DeliveredIsBilled
PROPERTIES StreamsEnd
CHECK_DEADLOCK FALSE
