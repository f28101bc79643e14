CONSTANTS
  Config <- MCConfig
  NoConfig = NoConfig
  Document <- MCFileOrNot
  NoFile = NoFile
  AtStart <- MCFileOrNot
  MaxTime = 4
  Ticks = TRUE
  Once = FALSE
SPECIFICATION WatcherFairSpec
INVARIANTS WatcherTypeOK CaughtUp
CHECK_DEADLOCK FALSE
PROPERTY FollowsFile
