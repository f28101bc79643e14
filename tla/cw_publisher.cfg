CONSTANTS
  Config <- MCConfig
  NoConfig = NoConfig
  Document <- MCDocument
  NoFile = NoFile
  AtStart <- MCFileOrNot
  MaxTime = 4
  Ticks = TRUE
  Once = FALSE
SPECIFICATION WatcherSpec
INVARIANT NoPanic
CHECK_DEADLOCK FALSE
