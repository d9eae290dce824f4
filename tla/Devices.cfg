SPECIFICATION FairSpec
CHECK_DEADLOCK FALSE
CONSTANTS
  Workers = {"worker"}
  Readers = {"monitor"}
  MaxAttempts = 2
  MaxPluggings = 2
  MaxFaults = 1
  Axes = {"x", "y"}
  QueueSize = 3
  ReadSize = 2
  MaxBatches = 2
  EventLimit = 2
  MaxMoves = 2
  MaxPresses = 2
  ModeColor = "YELLOW"
  MaxWriteErrors = 2
  Queriers = {"joystick", "operator"}
  Turn = 2
  MaxAge = 1
  MaxFailures = 2
  AngleBound = 1
  Commanders = {"rest"}
  Finishers = {"monitor"}
  MaxCommands = 2
  MaxTravel = 1
  LastPage = 2
  MaxDrawErrors = 1
INVARIANTS
  TypeOK
  DriversAreReachable
  NothingLeftBehind
  NothingIsLost
  ModeIsAsShown
  ScreenIsTrue
  OutdatedIsOwed
PROPERTIES
  Reconnects
  StopEnds
  ShowsFaults
  AnswersAreTrue
  SnapshotSettles
