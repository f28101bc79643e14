CONSTANTS
  Service <- MCTwoServices
  Config <- MCFileConfig
  Data <- MCMixedData
  NoConfig = NoConfig
  Torn = Torn
  CallsFail = TRUE
SPECIFICATION IPVSSpec
INVARIANTS IPVSTypeOK LoneServiceAsAsked DestinationsExact InstalledOrError
PROPERTY TableFromUpdate
CHECK_DEADLOCK FALSE
