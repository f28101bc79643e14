CONSTANTS
  Proc = {p1, p2}
  NoSocket = NoSocket
  Overlap = FALSE
  EarlySignal = TRUE
SPECIFICATION SocketSpec
INVARIANT NothingLeft
