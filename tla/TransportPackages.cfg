SPECIFICATION Spec
CONSTANTS
  Ciphers = {"XSalsa20-Poly1305"}
  SocketCap = 2
  AirCap = 1
  Conditions = {}
PROPERTIES
  PackagesWhole
\* The process may exit.
CHECK_DEADLOCK FALSE
