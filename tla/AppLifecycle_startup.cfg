SPECIFICATION FairSpec
CONSTANTS
  Monitors <- OneMonitor
  Critical <- CriticalGyro
  Components <- TwoComponents
  Early <- NoneEarly
  MaxSignals = 0
CHECK_DEADLOCK FALSE
PROPERTIES
  RequestEndsProcess
