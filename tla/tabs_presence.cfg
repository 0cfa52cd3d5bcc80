SPECIFICATION FairSpec
CONSTANTS
  Tabs = {t1, t2}
  MaxToggles = 1
  MaxLeaves = 1
  MaxDrops = 1

  
PROPERTIES
  PresenceHeals
CHECK_DEADLOCK FALSE
