SPECIFICATION Spec
CONSTANTS
  s1 = s1
  s2 = s2
  w1 = w1
  w2 = w2
  Groups <- TextGroups
  Workers = {w1, w2}
  GroupOf <- TextGroupOf
  Segments = {s1, s2}
  Strict <- TextGroups
  Poison <- PoisonNone
  Outputs <- TextOutputs
  Batch = 2
  MaxLen = 4
  MaxRetries = 1
  MaxEntries = 3
  MaxFailures = 1
  MaxOutages = 1
INVARIANTS
  EmissionOrder
  RetriedAtMostOnce
  DlqAccounted
CHECK_DEADLOCK FALSE
