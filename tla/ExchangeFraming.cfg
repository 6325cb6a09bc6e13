SPECIFICATION Spec
CONSTANTS
  HeaderBytes = 2
  PayloadBytes = 2
  PrefixBytes = 1
  MaximumPayload = 3
  MaxConnections = 1
  MaxCalls = 3
  IdSpan = 3
  RequestBuffer = 2
  ResponseBuffer = 4
INVARIANTS
  OneExchange
CHECK_DEADLOCK FALSE
