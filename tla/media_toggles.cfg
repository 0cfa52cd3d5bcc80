SPECIFICATION Spec
CONSTANTS
  t1 = t1
  t2 = t2
  t3 = t3
  t4 = t4
  k4 = k4
  k1 = k1
  k2 = k2
  k3 = k3
  Devices = {camera, mic}
  Tracks <- FourTracks
  Clicks <- FourClicks
  NoTrack = NoTrack
  MaxLosses = 1
SYMMETRY AnyOrder
INVARIANTS
  NothingLeaks
  MutedIsSilent
  KeptAlive
CHECK_DEADLOCK FALSE
