SPECIFICATION FairSpec
CONSTANTS
  Peers <- TwoPeers
  Numbers <- Ten
  MaxCrossings = 1
  MaxLeaves = 1
  MaxSwitches = 2
  MaxBreaks = 1
  MaxTroubles = 3
INVARIANT
  NoGhostTile
  TileIsCurrent
  CandidateArrives
PROPERTIES
  MeshHeals
