SPECIFICATION FairSpec
CONSTANTS
  c1 = c1
  c2 = c2
  Calls <- OneCall
  Monitor = monitor
  MaxSockets = 5
  MaxReceivers = 7
  MaxFaults = 3
  ExponentLimit = 1024
  Events = {"peer_close","connect_fail","send_fail","ack_timeout","pong_fail","slow_callback","slow_send","cancel","unauthenticated"}
CHECK_DEADLOCK FALSE
PROPERTIES SubscriptionRestored BackoffResetsWhenRestored
