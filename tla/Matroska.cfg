SPECIFICATION Spec
CONSTANTS
  BufferSize = 8
  Memory = 1000
  Files <- MCFiles
INVARIANT TypeOK
INVARIANT InStep
INVARIANT Nested
INVARIANT PanicsForCause
INVARIANT HeaderFirst
INVARIANT BlocksOfFile
PROPERTY ComesToAnEnd
CHECK_DEADLOCK FALSE
