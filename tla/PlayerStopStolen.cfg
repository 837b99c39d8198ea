SPECIFICATION Spec
CONSTANTS
  NTracks = 1
  Frames <- FramesShort
  BufCap = 1
  MaxMessages = 2
  Commands = {"play", "stop"}
  Faults = {}
PROPERTIES
  StopStopsCurrent
CHECK_DEADLOCK FALSE
