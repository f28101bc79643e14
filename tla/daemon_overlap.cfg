CONSTANTS
  Service <- MCService
  Config <- MCConfig
  Sources <- MCSources
  Kind <- MCKind
  KindF = "docker"
  Data <- MCData
  Content <- MCContent
  NoBackends <- MCNoBackends
  NoUpdate = NoUpdate
  NoConfig = NoConfig
  Torn = Torn
  CallsFail = FALSE
  MaxChanges = 1
  ReadsFail = TRUE
  StreamsBreak = FALSE
  MaxConfigs = 2
  MaxWorkers = 2
  Publisher <- MCPublisher
  Document <- MCOneFile
  NoFile = NoFile
  AtStart <- MCOneFile
  MaxTime = 1
  Ticks = TRUE
  Once = TRUE
  Callers = {"c1"}
  Signals = TRUE
  TimesOut = TRUE
SPECIFICATION DaemonSpec
INVARIANT WaitEndsAfterAll
CHECK_DEADLOCK FALSE
