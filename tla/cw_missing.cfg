CONSTANTS
  Config <- MCConfig
  NoConfig = NoConfig
  Document <- MCGoodOrNot
  NoFile = NoFile
  AtStart <- MCGoodOrNot
  MaxTime = 3
  Ticks = TRUE
  Once = FALSE
SPECIFICATION WatcherFairSpec
PROPERTY FollowsAnyFile
CHECK_DEADLOCK FALSE
