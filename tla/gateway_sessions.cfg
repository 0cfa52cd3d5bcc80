SPECIFICATION FairSpec
CONSTANTS
  p1 = p1
  p2 = p2
  p3 = p3
  c1 = c1
  c2 = c2
  c3 = c3
  Participants <- Duo
  Conns <- AgainOnly
  Pid <- AloneTwice
  MaxHistory = 2
  MaxChats = 2
  MaxRedisErrors = 1
  MaxSendErrors = 1
INVARIANTS
  ResyncGapFree
  PresenceConverges
PROPERTY
  Unregistered
CHECK_DEADLOCK FALSE
