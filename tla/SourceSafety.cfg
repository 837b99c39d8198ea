SPECIFICATION Spec
CONSTANTS
  Contents <- MCContents
  MaxCuts = 2
  MaxFailed = 2
  BlockSamples = 3
  neededSamples = 2
INVARIANTS
  TypeOK
  HeardInOrder
  EOFIsTheEnd
  OnlyFailuresHurt
PROPERTY
  SourceEnds
CHECK_DEADLOCK FALSE
