SPECIFICATION FairSpec
CONSTANTS
  Drive = "DIFFERENTIAL"
  FieldCentric = FALSE
  MaxFaults = 1
  MayShutDown = FALSE
INVARIANTS
  TypeOK
  FollowsStick
  NeverRefused
PROPERTIES
  MovesOnlyAfterNeutral
  LossStopsMotors
