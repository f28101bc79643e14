CONSTANTS
  ParseInt <- MCParseInt
  Blanks <- MCBlanks
  NoFile = NoFile
  NoValue = NoValue
  Title = Title
  NoCIDR = NoCIDR
  Service <- MCTextService
  Contents <- MCZeroContents
  Said <- MCSaid
  Less <- MCLess
  MaxVersion = 3
SPECIFICATION PluginsSpec
INVARIANT FileAsDescribed
CHECK_DEADLOCK FALSE
