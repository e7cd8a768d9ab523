SPECIFICATION PromptSpec
CONSTANTS
  c1 = c1
  c2 = c2
  Calls <- OneCall
  Monitor = monitor
  MaxSockets = 4
  MaxReceivers = 6
  MaxFaults = 1
  ExponentLimit = 3
  Events = {"peer_close"}
CHECK_DEADLOCK FALSE
INVARIANTS NoDuplicateSubscribe
