SPECIFICATION FairSpec
CONSTANTS
  p1 = p1
  p2 = p2
  t1 = t1
  t2 = t2
  t3 = t3
  Participants = {p1}
  Tracks = {t1, t2}
  Owner <- OwnerOf
  Chunk = 2
  Pad = 2
  MinSpeech = 3
  MaxSpeech = 6
  SilenceTimeout = 4
  Unit = 2
  Short = {8}
  MaxUnits = 9
  MaxPipes = 2
  MaxStops = 2
  MaxFailures = 1
INVARIANTS
  SpeechAccounted
  SegmentsAdvance
PROPERTIES
  PipelineReleased
CHECK_DEADLOCK FALSE
