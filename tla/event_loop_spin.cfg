SPECIFICATION PromptFairSpec
CONSTANTS
  c1 = c1
  c2 = c2
  Calls <- TwoCalls
  Monitor = monitor
  MaxSockets = 3
  MaxReceivers = 4
  MaxFaults = 0
  ExponentLimit = 3
  Events = {"slow_callback","close"}
CHECK_DEADLOCK FALSE
PROPERTIES CallsReturn
