CONSTANTS
  Service <- MCService
  Config <- MCTwoServices
  Sources <- MCSources
  Kind <- MCKind
  KindF = "file"
  KindG = "socket"
  Data <- MCListData
  Content <- MCListContent
  NoBackends <- MCNoBackends
  NoUpdate = NoUpdate
  NoConfig = NoConfig
  Torn = Torn
  CallsFail = FALSE
  MaxChanges = 1
  ReadsFail = FALSE
  StreamsBreak = FALSE
  MaxConfigs = 1
  MaxWorkers = 2
SPECIFICATION MeshFairSpec
INVARIANT CacheIsRecent
PROPERTIES FollowsSources Settles
CHECK_DEADLOCK FALSE
