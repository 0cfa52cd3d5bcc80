SPECIFICATION FairSpec
CONSTANTS
  s1 = s1
  s2 = s2
  s3 = s3
  None = None
  Sockets <- ThreeSockets
  MaxAttempts = 2
  AutoReconnect = TRUE
  MaxCalls = 3
  MaxRooms = 2
INVARIANT
  TypeOK
  OneLine
  HangUpReachesAll
  HeartbeatFollowsSocket
PROPERTIES
  NeverInLimbo
  ImplementsLink
