SPECIFICATION Spec
CONSTANTS
  p1 = p1
  p2 = p2
  p3 = p3
  c1 = c1
  c2 = c2
  c3 = c3
  Participants <- Trio
  Conns <- Trio
  Pid <- Itself
  MaxHistory = 2
  MaxChats = 0
  MaxRedisErrors = 0
  MaxSendErrors = 0
SYMMETRY AnyOrder
VIEW Unversioned
INVARIANT
  ViewConverges
CHECK_DEADLOCK FALSE
