SPECIFICATION FlowSpec
CONSTANTS
  m1 = m1
  m2 = m2
  s1 = s1
  t1 = t1
  t2 = t2
  Meetings <- Two
  Workers <- Pair
  TypeOf <- PairTypes
  Timeout = 1
  Cooldown = 2
  High = 2
  Critical = 3
  MaxLength = 3
  MaxReadErrors = 1
SYMMETRY SameMeetings
INVARIANT
  FlowTypeOK
  OutageAnswered
PROPERTIES
  KeptForCooldown
  ServiceRestored
