SPECIFICATION FairSpec
CONSTANTS
  left = left
  rest = rest
  navigation = navigation
  Rest = rest
  Motors <- MotorsValue
  Callers <- RestOnly
  Requests <- ForeverRequests
  Priorities <- OnePriority
  MaxCommands = 2
  MaxFaults = 0
  MayShutDown = FALSE
  JoinMayTimeOut = FALSE
CHECK_DEADLOCK FALSE
PROPERTIES
  ContinuousMotionStops
