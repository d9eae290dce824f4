SPECIFICATION Spec
CONSTANTS
  Requests <- TurnsOnly
  TargetDistance = 2
  TargetAngle = 5
  Tolerance = 0
  FullTurn = 6
  MaxQuiet = 2
  MaxRecoveries = 1
  MaxTravel = 2
  MaxCommands = 1
CHECK_DEADLOCK FALSE
INVARIANTS
  FailedMeansStalled
