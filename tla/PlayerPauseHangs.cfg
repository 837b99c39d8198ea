SPECIFICATION FairSpec
CONSTANTS
  NTracks = 1
  Frames <- FramesShort
  BufCap = 1
  MaxMessages = 2
  Commands = {"play", "pause"}
  Faults = {}
PROPERTIES
  PauseReturnsWhilePlaying
CHECK_DEADLOCK FALSE
