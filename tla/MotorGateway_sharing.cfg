SPECIFICATION Spec
CONSTANTS
  left = left
  right = right
  tank = tank
  lift = lift
  Motors <- TwoMotors
  Objects <- TwoObjects
  Methods <- SharingMethods
  MaxObjects = 2
  MaxOperations = 2
  MaxFaults = 0
SYMMETRY Alike
CHECK_DEADLOCK FALSE
PROPERTIES
  ReservationRefined
