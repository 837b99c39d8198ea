SPECIFICATION Spec
CONSTANTS
  Base = 8
  Width = 3
  LateWindow = 3
  StartIVs = {13, 62}
  MaxSent = 10
  MaxKeys = 1
INVARIANTS
  TypeOK
  NoReplay
  TracksNewest
  FreshAccepted
  LoopsAgree
\* The bounds on datagrams and keys are reached.
CHECK_DEADLOCK FALSE
