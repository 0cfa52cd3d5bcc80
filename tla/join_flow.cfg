\* Two tabs, two meetings and three participants, two candidate hosts; two starts or
\* joins, one answer lost and one room that LiveKit cannot provide.
SPECIFICATION Spec
CONSTANTS
  Tabs = {t1, t2}
  Rooms = {r1, r2}
  Ids = {p1, p2, p3}
  None = None
  Hosts = 2
  AnswersEarly = TRUE
  MaxFlows = 2
  MaxLosses = 1
  MaxFaults = 1
SYMMETRY AnyNames
INVARIANTS
  SeatsAccounted
  SeatedIsStarted
  AdmittedToAMeeting
CHECK_DEADLOCK FALSE
