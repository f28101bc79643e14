CONSTANTS
  Service <- MCService
  Config <- MCShrinking
  Sources <- MCSources
  Kind <- MCKind
  KindF = "file"
  KindG = "docker"
  Data <- MCData
  Content <- MCContent
  NoBackends <- MCNoBackends
  NoUpdate = NoUpdate
  NoConfig = NoConfig
  Torn = Torn
  CallsFail = FALSE
  MaxChanges = 0
  ReadsFail = FALSE
  StreamsBreak = TRUE
  MaxConfigs = 3
  MaxWorkers = 3
SPECIFICATION MeshFairSpec
INVARIANTS CacheCoversConfig TableMatchesCache
CHECK_DEADLOCK FALSE
PROPERTY Settles
