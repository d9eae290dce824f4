--------------------------- MODULE MCMotorGateway ---------------------------
(* Instances of MotorGateway for TLC: two motors, objects that share them.  *)
EXTENDS MotorGateway, TLC

CONSTANTS left, right, tank, lift

TwoMotors  == {left, right}
OneMotor   == {left}
TwoObjects == {tank, lift}
OneObject  == {tank}

Alike == Permutations(TwoObjects) \cup Permutations(TwoMotors)

EndingMethods  == Guarded \cup {"STOP"}
TimedMethods   == {"CONTINUOUS", "NON_BLOCKING", "STOP"}
SharingMethods == {"CONTINUOUS", "ODOMETRY_STOP"}
LoadingMethods == {"NON_BLOCKING"}
=============================================================================
