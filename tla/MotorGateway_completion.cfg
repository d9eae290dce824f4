SPECIFICATION Spec
CONSTANTS
  left = left
  right = right
  tank = tank
  lift = lift
  Motors <- OneMotor
  Objects <- OneObject
  Methods <- LoadingMethods
  MaxObjects = 1
  MaxOperations = 1
  MaxFaults = 0
CHECK_DEADLOCK FALSE
INVARIANTS
  MovementStaysReserved
