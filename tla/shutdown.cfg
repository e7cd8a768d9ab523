SPECIFICATION PromptFairSpec
CONSTANTS
  c1 = c1
  c2 = c2
  Calls <- OneCall
  Monitor = monitor
  MaxSockets = 5
  MaxReceivers = 7
  MaxFaults = 3
  ExponentLimit = 1
  Events = {"peer_close","connect_fail","ack_timeout","send_fail","pong_fail","slow_send","cancel","unauthenticated","close"}
CHECK_DEADLOCK FALSE
PROPERTIES CloseReturns
