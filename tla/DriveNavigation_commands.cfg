SPECIFICATION FairSpec
CONSTANTS
  Requests <- AllRequests
  TargetDistance = 2
  TargetAngle = 2
  Tolerance = 0
  FullTurn = 6
  MaxQuiet = 1
  MaxRecoveries = 1
  MaxTravel = 2
  MaxCommands = 1
CHECK_DEADLOCK FALSE
INVARIANTS
  TypeOK
  IdleMeansStill
  CompletedMeansReached
  LateMotionIsBounded
PROPERTIES
  NavigationEnds
