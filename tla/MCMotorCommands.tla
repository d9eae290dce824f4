-------------------------- MODULE MCMotorCommands --------------------------
(* Instances of MotorCommands for TLC: one motor, whose path is independent *)
(* of the other motors', and one or two callers.                            *)
EXTENDS MotorCommands

CONSTANTS left, rest, navigation

MotorsValue     == {left}
CallersValue    == {rest, navigation}
RestOnly        == {rest}

PreemptingRequests == {"STOP", "RUN_FOREVER", "CANCEL"}
GuardedForever     == {"RUN_FOREVER", "GUARD"}
StoppedTimed       == {"RUN_TIMED", "STOP_ALL"}
ForeverRequests    == {"STOP", "RUN_FOREVER"}
ResettingRequests  == {"RESET", "RUN_FOREVER"}

OnePriority   == {5}
TwoPriorities == {1, 9}
=============================================================================
