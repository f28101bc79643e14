CONSTANTS
  Service <- MCService
  Config <- MCConfig
  Sources <- MCSources
  Kind <- MCKind
  KindF = "file"
  Data <- MCData
  Content <- MCContent
  NoBackends <- MCNoBackends
  NoUpdate = NoUpdate
  NoConfig = NoConfig
  Torn = Torn
  CallsFail = FALSE
  MaxChanges = 0
  ReadsFail = FALSE
  StreamsBreak = FALSE
  MaxConfigs = 2
  MaxWorkers = 2
  Publisher <- MCPublisher
  Document <- MCOnceFiles
  NoFile = NoFile
  AtStart <- MCOnceFiles
  MaxTime = 1
  Ticks = TRUE
  Once = TRUE
  Callers = {}
  Signals = FALSE
  TimesOut = TRUE
SPECIFICATION DaemonFairSpec
INVARIANT OnceAppliesAll
PROPERTY OnceExits
CHECK_DEADLOCK FALSE
