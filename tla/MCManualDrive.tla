---------------------------- MODULE MCManualDrive ----------------------------
(* Instances of ManualDrive for TLC.  The state space is finite by itself:  *)
(* the constants choose the operation mode and the number of faults.        *)
EXTENDS ManualDrive
=============================================================================
