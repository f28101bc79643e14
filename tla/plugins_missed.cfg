CONSTANTS
  ParseInt <- MCParseInt
  Blanks <- MCBlanks
  NoFile = NoFile
  NoValue = NoValue
  Title = Title
  NoCIDR = NoCIDR
  Service <- MCTextService
  Contents <- MCGoodContents
  Said <- MCSaid
  Less <- MCLess
  MaxVersion = 3
SPECIFICATION PluginsSpec
PROPERTY FollowsAll
CHECK_DEADLOCK FALSE
