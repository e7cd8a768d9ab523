SPECIFICATION PromptFairSpec
CONSTANTS
  c1 = c1
  c2 = c2
  Calls <- OneCall
  Monitor = monitor
  MaxSockets = 4
  MaxReceivers = 6
  MaxFaults = 2
  ExponentLimit = 3
  Events = {"slow_callback","close","peer_close","send_fail"}
CHECK_DEADLOCK FALSE
PROPERTIES CloseReturns
