CONSTANTS
  Workers = {"w1"}
  Requests = {"r1"}
  InletBuffer = 1
SPECIFICATION InletsSpec
INVARIANT NoSendOnClosed
CHECK_DEADLOCK FALSE
