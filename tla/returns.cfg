SPECIFICATION FairSpec
CONSTANTS
  c1 = c1
  c2 = c2
  Calls <- TwoCalls
  Monitor = monitor
  MaxSockets = 3
  MaxReceivers = 5
  MaxFaults = 1
  ExponentLimit = 1024
  Events = {"peer_close","connect_fail","ack_timeout","pong_fail","slow_callback","slow_send","unauthenticated"}
CHECK_DEADLOCK FALSE
PROPERTIES CallsReturn SocketServed
