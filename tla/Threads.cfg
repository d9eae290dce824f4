SPECIFICATION ThreadsSpec
CONSTANTS
  Monitors <- TwoMonitors
  Critical <- CriticalOnes
  Components <- TwoComponents
  Early <- EarlyOnes
  MaxSignals = 1
CHECK_DEADLOCK FALSE
INVARIANTS
  TypeOK
  EndsStopped
  RestartIsClean
PROPERTIES
  ServingShutsDown
  QueuedCommandSettles
  ContinuousEntryClears
