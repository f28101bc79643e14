CONSTANTS
  Service <- MCService
  Config <- MCWideConfig
  Sources <- MCSources
  Kind <- MCKind
  KindF = "file"
  KindS = "docker"
  Data <- MCData
  Content <- MCContent
  NoBackends = "none"
  NoUpdate = NoUpdate
  NoConfig = NoConfig
  MaxChanges = 0
  ReadsFail = FALSE
  StreamsBreak = FALSE
  MaxConfigs = 2
  MaxWorkers = 9
SPECIFICATION Spec
CHECK_DEADLOCK FALSE
INVARIANT ListMatchesModel
