CONSTANTS
  Service <- MCService
  Config <- MCConfig
  Data <- MCUniformData
  NoConfig = NoConfig
  Torn = Torn
  CallsFail = FALSE
SPECIFICATION IPVSSpec
INVARIANT EachAsItsUpdateAsks
CHECK_DEADLOCK FALSE
