CONSTANTS
  Proc = {p1, p2}
  NoSocket = NoSocket
  Overlap = TRUE
  EarlySignal = FALSE
SPECIFICATION SocketSpec
INVARIANT Reachable
