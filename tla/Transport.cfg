\* Both ciphers and every condition of the network.
SPECIFICATION FairSpec
CONSTANTS
  Ciphers = {"OCB2-AES128", "XSalsa20-Poly1305"}
  SocketCap = 2
  AirCap = 2
  Conditions = {"loss", "cut", "refused", "recover", "rekey", "voice"}
INVARIANTS
  TypeOK
  AnsweredBeforeUdp
  FallbackBound
PROPERTIES
  CutPathTunnels
  WorkingPathTaken
\* The process may exit.
CHECK_DEADLOCK FALSE
