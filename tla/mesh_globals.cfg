CONSTANTS
  Service <- MCService
  Config <- MCGlobals
  Sources <- MCSources
  Kind <- MCKind
  KindF = "file"
  KindG = "file"
  Data <- MCData
  Content <- MCContent
  NoBackends <- MCNoBackends
  NoUpdate = NoUpdate
  NoConfig = NoConfig
  Torn = Torn
  CallsFail = FALSE
  MaxChanges = 0
  ReadsFail = FALSE
  StreamsBreak = FALSE
  MaxConfigs = 2
  MaxWorkers = 2
SPECIFICATION MeshSpec
INVARIANT GlobalsAreCurrent
CHECK_DEADLOCK FALSE
