CONSTANTS
  Proc = {p1, p2}
  NoSocket = NoSocket
  Overlap = FALSE
  EarlySignal = FALSE
SPECIFICATION SocketSpec
INVARIANT OneRuns
