CONSTANTS
  Service <- MCService
  Config <- MCConfig
  Data <- MCUniformData
  NoConfig = NoConfig
  Torn = Torn
  CallsFail = FALSE
SPECIFICATION IPVSSpec
INVARIANT UnsetWeightIsTheServices
CHECK_DEADLOCK FALSE
