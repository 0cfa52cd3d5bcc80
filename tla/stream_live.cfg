SPECIFICATION FairSpec
CONSTANTS
  s1 = s1
  s2 = s2
  w1 = w1
  w2 = w2
  Groups <- AudioGroups
  Workers = {w1}
  GroupOf <- AudioSolo
  Segments = {s1, s2}
  Strict <- StrictNone
  Poison <- PoisonNone
  Outputs <- AudioOutputs
  Batch = 2
  MaxLen = 4
  MaxRetries = 3
  MaxEntries = 4
  MaxFailures = 2
  MaxOutages = 0
PROPERTIES
  EverySegmentServed
  DlqDrains
  PendingSettles
CHECK_DEADLOCK FALSE
