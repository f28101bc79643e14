CONSTANTS
  Service <- MCService
  Config <- MCTinyConfig
  Sources <- MCSources
  Kind <- MCKind
  KindF = "file"
  KindS = "docker"
  Data <- MCData
  Content <- MCContent
  NoBackends = "none"
  NoUpdate = NoUpdate
  NoConfig = NoConfig
  MaxChanges = 1
  ReadsFail = FALSE
  StreamsBreak = TRUE
  MaxConfigs = 2
  MaxWorkers = 2
SPECIFICATION FairSpec
INVARIANTS TypeOK WgCountsWorkers StopsConserved OneWorkerPerService AppliedConfig
PROPERTIES PoolRefined ApplierReturns QuitCompletes
CHECK_DEADLOCK FALSE
