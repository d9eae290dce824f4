SPECIFICATION Spec
CONSTANTS
  Drive = "MECANUM"
  FieldCentric = TRUE
  MaxFaults = 0
  MayShutDown = TRUE
INVARIANTS
  BlindStandsStill
  StoppedAfterShutdown
