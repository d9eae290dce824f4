SPECIFICATION EitherSpec
CONSTANTS
  left = left
  rest = rest
  navigation = navigation
  Rest = rest
  Motors <- MotorsValue
  Callers <- CallersValue
  Requests <- SafetyRequests
  Priorities <- SafetyPriorities
  MaxCommands = 2
  MaxFaults = 0
  MayShutDown = TRUE
  JoinMayTimeOut = FALSE
CHECK_DEADLOCK FALSE
INVARIANTS
  TypeOK
  SchedulerConsistent
  MotionIsSupervised
PROPERTIES
  NoOvertaking
  StoppedAtFinalize
