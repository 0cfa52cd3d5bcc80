SPECIFICATION Spec
CONSTANTS
  s1 = s1
  s2 = s2
  w1 = w1
  w2 = w2
  Groups <- AudioGroups
  Workers = {w1, w2}
  GroupOf <- AudioGroupOf
  Segments = {s1, s2}
  Strict <- StrictNone
  Poison <- PoisonNone
  Outputs <- AudioOnePer
  Batch = 2
  MaxLen = 2
  MaxRetries = 0
  MaxEntries = 3
  MaxFailures = 1
  MaxOutages = 2
INVARIANTS
  TypeOK
  NoSilentLoss
  LossNeedsOverflow
  AtMostOncePerEntry
CHECK_DEADLOCK FALSE
