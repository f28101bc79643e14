CONSTANTS
  Service <- MCService
  Config <- MCConfig
  Sources <- MCSources
  Kind <- MCKind
  KindF = "file"
  Data <- MCData
  Content <- MCContent
  NoBackends <- MCNoBackends
  NoUpdate = NoUpdate
  NoConfig = NoConfig
  Torn = Torn
  CallsFail = FALSE
  MaxChanges = 0
  ReadsFail = FALSE
  StreamsBreak = FALSE
  MaxConfigs = 2
  MaxWorkers = 2
  Publisher <- MCPublisher
  Document <- MCOneFile
  NoFile = NoFile
  AtStart <- MCOneFile
  MaxTime = 1
  Ticks = TRUE
  Once = FALSE
  Callers = {"c1", "c2"}
  Signals = FALSE
  TimesOut = TRUE
SPECIFICATION DaemonFairSpec
PROPERTY StopExits
CHECK_DEADLOCK FALSE
