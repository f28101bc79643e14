CONSTANTS
  Service <- MCService
  Config <- MCSameService
  Sources <- MCSources
  Kind <- MCKind
  KindF = "socket"
  KindG = "file"
  Data <- MCData
  Content <- MCContent
  NoBackends <- MCNoBackends
  NoUpdate = NoUpdate
  NoConfig = NoConfig
  Torn = Torn
  CallsFail = FALSE
  MaxChanges = 0
  ReadsFail = FALSE
  StreamsBreak = FALSE
  MaxConfigs = 2
  MaxWorkers = 2
SPECIFICATION MeshSpec
INVARIANT CacheIsRecent
CHECK_DEADLOCK FALSE
