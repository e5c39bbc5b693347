\* The daemon with two workers and one client, on good and bad configurations.
SPECIFICATION Spec
CONSTANTS
  w1 = w1
  w2 = w2
  r1 = r1
  Main = Main
  Files <- MCFiles
  NoConfig = NoConfig
  PoolWorkers = {w1, w2}
  Requested = 2
  MaxWorkers = 100
  RetentionLoop = RetentionLoop
  RecoveryLoop = RecoveryLoop
  NoOne = NoOne
  Requests = {r1}
  Paths <- MCPaths
  NoPath = NoPath
  Digits = {}
  StorageFaults = TRUE
  Minute = 6
  Limit = 1024
CHECK_DEADLOCK FALSE
INVARIANTS
  TypeOK NeverPanics FailureHasCause CleanExit
PROPERTIES
  ShutdownEnds
