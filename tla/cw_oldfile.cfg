CONSTANTS
  Config <- MCConfig
  NoConfig = NoConfig
  Document <- MCNoPublishers
  NoFile = NoFile
  AtStart <- MCNoPublishers
  MaxTime = 3
  Ticks = FALSE
  Once = FALSE
SPECIFICATION WatcherFairSpec
PROPERTY FollowsFile
CHECK_DEADLOCK FALSE
