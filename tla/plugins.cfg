CONSTANTS
  ParseInt <- MCParseInt
  Blanks <- MCBlanks
  NoFile = NoFile
  NoValue = NoValue
  Title = Title
  NoCIDR = NoCIDR
  Service <- MCService
  Contents <- MCContents
  Said <- MCSaid
  Less <- MCLess
  MaxVersion = 3
SPECIFICATION PluginsSpec
INVARIANTS PluginsTypeOK FreshAtRest FileAsDescribed ContainersAsDescribed SocketsAsDescribed
PROPERTY FollowsSource
CHECK_DEADLOCK FALSE
