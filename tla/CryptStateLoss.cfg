SPECIFICATION Spec
CONSTANTS
  Base = 8
  Width = 3
  LateWindow = 3
  StartIVs = {9}
  MaxSent = 12
  MaxKeys = 0
INVARIANTS
  AfterLossAccepted
\* The bounds on datagrams and keys are reached.
CHECK_DEADLOCK FALSE
