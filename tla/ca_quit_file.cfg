CONSTANTS
  Service <- MCService
  Config <- MCTinyConfig
  Sources <- MCSources
  Kind <- MCKind
  KindF = "file"
  KindS = "docker"
  Data <- MCData
  Content <- MCContent
  NoBackends = "none"
  NoUpdate = NoUpdate
  NoConfig = NoConfig
  MaxChanges = 1
  ReadsFail = FALSE
  StreamsBreak = FALSE
  MaxConfigs = 2
  MaxWorkers = 2
SPECIFICATION FairSpec
PROPERTY QuitTerminates
CHECK_DEADLOCK FALSE
