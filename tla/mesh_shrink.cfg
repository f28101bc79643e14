CONSTANTS
  Service <- MCService
  Config <- MCReloads
  Sources <- MCSources
  Kind <- MCKind
  KindF = "file"
  KindG = "file"
  Data <- MCData
  Content <- MCContent
  NoBackends <- MCNoBackends
  NoUpdate = NoUpdate
  NoConfig = NoConfig
  Torn = Torn
  CallsFail = FALSE
  MaxChanges = 0
  ReadsFail = FALSE
  StreamsBreak = FALSE
  MaxConfigs = 2
  MaxWorkers = 2
SPECIFICATION MeshSpec
INVARIANTS OnlyConfiguredCached EmptyConfigClearsTable
CHECK_DEADLOCK FALSE
