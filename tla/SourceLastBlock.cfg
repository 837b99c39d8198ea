\* The end of a content: what GetNextFrames returns then.
SPECIFICATION Spec
CONSTANTS
  Contents <- MCContents
  MaxCuts = 2
  MaxFailed = 2
  BlockSamples = 3
  neededSamples = 2
INVARIANT
  RestReturned
CHECK_DEADLOCK FALSE
