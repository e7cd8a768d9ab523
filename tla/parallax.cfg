\* One Parallax subscription with two frames of any topic and content.
SPECIFICATION FairSpec
CONSTANTS
  None = None
  Malformed = Malformed
  GpsOffset = 7
  Requests <- TopicLists
  Payloads <- Messages
  MaxFrames = 2
CHECK_DEADLOCK FALSE
INVARIANTS TypeOK PresenceKept DestinationIsOneStop
PROPERTIES NewestKept FramesHandled
