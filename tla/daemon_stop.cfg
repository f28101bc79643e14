CONSTANTS
  Service <- MCService
  Config <- MCConfig
  Sources <- MCSources
  Kind <- MCKind
  KindF = "file"
  Data <- MCData
  Content <- MCContent
  NoBackends <- MCNoBackends
  NoUpdate = NoUpdate
  NoConfig = NoConfig
  Torn = Torn
  CallsFail = FALSE
  MaxChanges = 0
  ReadsFail = FALSE
  StreamsBreak = FALSE
  MaxConfigs = 2
  MaxWorkers = 2
  Publisher <- MCPublisher
  Document <- MCDocument
  NoFile = NoFile
  AtStart <- MCDocument
  MaxTime = 2
  Ticks = TRUE
  Once = FALSE
  Callers = {"c1"}
  Signals = FALSE
  TimesOut = FALSE
SPECIFICATION DaemonFairSpec
INVARIANT PublishersMatch
PROPERTY QuietStopsClean
CHECK_DEADLOCK FALSE
