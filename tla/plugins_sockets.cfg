CONSTANTS
  ParseInt <- MCParseInt
  Blanks <- MCBlanks
  NoFile = NoFile
  NoValue = NoValue
  Title = Title
  NoCIDR = NoCIDR
  Service <- MCOtherSockets
  Contents <- MCContents
  Said <- MCSaid
  Less <- MCLess
  MaxVersion = 3
SPECIFICATION PluginsSpec
INVARIANTS SocketsAsDescribed NoWeightIsNone
CHECK_DEADLOCK FALSE
