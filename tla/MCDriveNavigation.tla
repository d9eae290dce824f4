------------------------- MODULE MCDriveNavigation -------------------------
(* Instances of DriveNavigation for TLC: short targets before a wall.       *)
EXTENDS DriveNavigation

AllRequests   == {"MOVE", "TURN", "STOP", "STATUS", "RESET"}
TurnsOnly     == {"TURN"}
=============================================================================
