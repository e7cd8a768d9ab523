\* Two calls share the connection under every fault.
SPECIFICATION Spec
CONSTANTS
  c1 = c1
  c2 = c2
  Calls <- TwoCalls
  Monitor = monitor
  MaxSockets = 3
  MaxReceivers = 4
  MaxFaults = 1
  ExponentLimit = 1024
  Events = {"peer_close", "unauthenticated", "connect_fail", "send_fail", "ack_timeout", "pong_fail", "cancel", "slow_callback", "slow_send", "close"}
SYMMETRY CallSymmetry
CHECK_DEADLOCK FALSE
INVARIANTS TypeOK AckIsCurrent FirstSendAcknowledged NoGhostSubscription OneOpenSocket AckClearWhileConnecting
PROPERTIES NoReplayAfterComplete ImplementsSubscriptions MonitorStopsOnRequest
