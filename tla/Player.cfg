SPECIFICATION FairSpec
CONSTANTS
  NTracks = 3
  Frames <- FramesMixed
  BufCap = 2
  MaxMessages = 4
  Commands = {"play", "stop", "pause", "resume", "other"}
  Faults = {"youtubedl", "load", "encoder", "source"}
INVARIANTS
  TypeOK
  OneVoice
  FramesConserved
PROPERTIES
  StartsInOrder
  ImplementsJukeBox
  EveryTrackPlays
  EveryStartEnds
\* Stop, Pause and Resume may wait for ever, and the process may exit.
CHECK_DEADLOCK FALSE
