CONSTANTS
  Proc = {p1, p2, p3}
  NoSocket = NoSocket
  Overlap = FALSE
  EarlySignal = FALSE
SPECIFICATION SocketSpec
INVARIANTS SocketTypeOK Reachable NothingLeft
PROPERTY LosersGoAway
