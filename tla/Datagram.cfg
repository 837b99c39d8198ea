\* Both modes, both paths, every limit of the numbers.
SPECIFICATION Spec
CONSTANTS
  E <- MCE
  D <- MCD
  Modes = {"OCB2-AES128", "XSalsa20-Poly1305"}
  SequenceNumbers <- Numbers
  PayloadLengths = {0, 1, 11, 12, 13, 28, 29, 60, 127, 128, 8191}
  Timestamps <- MCTimestamps
  Strays <- MCStrays
  MaxDatagram = 70
INVARIANTS
  ServerReadsVoice
  WrittenAsOcb2
PROPERTIES
  AnswerTellsTheTime
  OnlyShortPanics
\* A behaviour ends when its packet was read.
CHECK_DEADLOCK FALSE
