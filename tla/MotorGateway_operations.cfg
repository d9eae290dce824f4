SPECIFICATION FairSpec
CONSTANTS
  left = left
  right = right
  tank = tank
  lift = lift
  Motors <- OneMotor
  Objects <- OneObject
  Methods <- EndingMethods
  MaxObjects = 2
  MaxOperations = 2
  MaxFaults = 1
CHECK_DEADLOCK FALSE
INVARIANTS
  TypeOK
  ReservationsSettled
  MovementIsReserved
PROPERTIES
  TimedOperationEnds
