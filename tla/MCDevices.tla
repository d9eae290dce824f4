----------------------------- MODULE MCDevices -----------------------------
(***************************************************************************)
(* One instance of each module of a device for TLC.  A behaviour is one of *)
(* the device it is about: the variables of the others keep their initial  *)
(* values, so that the states are those of the instances side by side.     *)
(***************************************************************************)
EXTENDS Integers, FiniteSets

CONSTANTS
  Workers, Readers, MaxAttempts, MaxPluggings, MaxFaults,           \* DriverRepository
  Axes, QueueSize, ReadSize, MaxBatches, EventLimit, MaxMoves, MaxPresses,   \* JoystickEvents
  ModeColor, MaxWriteErrors,                                        \* StatusLed
  Queriers, Turn, MaxAge, MaxFailures, AngleBound,                  \* FieldHeading
  Commanders, Finishers, MaxCommands, MaxTravel,                    \* MotorSnapshots
  LastPage, MaxDrawErrors                                           \* OperationStatus

\* The limits of the code are not zero, the turn has a half, the monitor finishes
\* commands; threads have names of their own; the bounds are numbers.
DevicesAssumption ==
  /\ MaxAttempts \in Nat /\ MaxPluggings \in Nat \ {0} /\ MaxFaults \in Nat
  /\ IsFiniteSet(Axes) /\ QueueSize \in Nat \ {0} /\ ReadSize \in Nat \ {0}
  /\ MaxBatches \in Nat \ {0} /\ EventLimit \in Nat \ {0}
  /\ MaxMoves \in Nat /\ MaxPresses \in Nat
  /\ ModeColor \in {"GREEN", "YELLOW", "RED"} /\ MaxWriteErrors \in Nat
  /\ Turn \in Nat \ {0} /\ Turn % 2 = 0
  /\ MaxAge \in Nat /\ MaxFailures \in Nat \ {0} /\ AngleBound \in Nat
  /\ "monitor" \in Finishers /\ MaxCommands \in Nat /\ MaxTravel \in Nat
  /\ Commanders \cap Finishers = {} /\ (Commanders \cup Finishers) \cap {"worker", "refresh"} = {}
  /\ LastPage \in Nat /\ MaxDrawErrors \in Nat
ASSUME DevicesAssumption

VARIABLES
  device,                                                      \* which one runs
  driver, error, attempts, waiting, plug, turning, client, published, hiccups,
  link, closing, stopAsked, cancelled, process, registered, device_, node, clock, fault, started,
  opened,
  position, presses, kernel, taken, buffer, drain, latest, memory, delivered, dropped, discarded,
  forgotten,
  faults, lastColor, led, motorsFail, setter, writeErrors,
  past, gyro, monitor, failures, sample, zero, query, answer,
  screen, cursor, choice, local, mode, drawn,
  shown, motor, sequence, kind, queue, active, caller, worker, refresh, finisher, over,
  abandoned, stale, revived,
  startup, bluetooth, page, display, undrawn, call, owed, held, sounds, refresher, pressed,
  latched, phase, outlived, drawErrors

driver_vars  == <<driver, error, attempts, waiting, plug, turning, client, published, hiccups>>
link_vars    == <<link, closing, stopAsked, cancelled, process, registered, device_, node, clock,
                  fault, started, opened>>
event_vars   == <<position, presses, kernel, taken, buffer, drain, latest, memory, delivered,
                  dropped, discarded, forgotten>>
led_vars     == <<faults, lastColor, led, motorsFail, setter, writeErrors>>
heading_vars == <<past, gyro, monitor, failures, sample, zero, query, answer>>
setup_vars   == <<screen, cursor, choice, local, mode, drawn>>
snap_vars    == <<shown, motor, sequence, kind, queue, active, caller, worker, refresh, finisher,
                  over, abandoned, stale, revived>>
screen_vars  == <<startup, bluetooth, page, display, undrawn, call, owed, held, sounds, refresher,
                  pressed, latched, phase, outlived, drawErrors>>

\* With the monitor, and in LOCAL, where the lock of the service makes its threads one.
Repository == INSTANCE DriverRepository WITH Callers <- Workers, ConnectedOnly <- FALSE
LocalRepository == INSTANCE DriverRepository WITH
  Callers <- {"service"}, Readers <- {}, ConnectedOnly <- TRUE, MaxAttempts <- 0
Link == INSTANCE JoystickLink WITH device <- device_
Events == INSTANCE JoystickEvents
\* With the poller, and in LOCAL, where the joystick thread reports.
Led == INSTANCE StatusLed WITH Polls <- TRUE, Reporters <- {}
LocalLed == INSTANCE StatusLed WITH Polls <- FALSE, Reporters <- {"joystick"}
Heading == INSTANCE FieldHeading
Setup == INSTANCE OperatorSetup
Snapshots == INSTANCE MotorSnapshots WITH Callers <- Commanders
Screen == INSTANCE OperationStatus WITH error <- bluetooth, shown <- display

vars == <<device, driver_vars, link_vars, event_vars, led_vars, heading_vars,
          setup_vars, snap_vars, screen_vars>>

Devices == {"repository", "localRepository", "link", "events", "led", "localLed", "heading",
            "setup", "snapshots", "screen"}

\* What an instance leaves open at first is open only for the device that runs.
Init ==
  /\ device \in Devices
  /\ IF device = "localRepository" THEN LocalRepository!Init ELSE Repository!Init
  /\ IF device = "localLed" THEN LocalLed!Init ELSE Led!Init
  /\ Link!Init /\ Events!Init /\ Heading!Init /\ Setup!Init /\ Snapshots!Init /\ Screen!Init
  /\ device # "led" => ~motorsFail
  /\ device # "heading" => gyro
  /\ device # "screen" => startup
  /\ device # "events" => buffer = << >>

\* What the steps of each leave alone.
ButRepository ==
  UNCHANGED <<device, link_vars, event_vars, led_vars, heading_vars, setup_vars, snap_vars, screen_vars>>
ButLink ==
  UNCHANGED <<device, driver_vars, event_vars, led_vars, heading_vars, setup_vars, snap_vars, screen_vars>>
ButEvents ==
  UNCHANGED <<device, driver_vars, link_vars, led_vars, heading_vars, setup_vars, snap_vars, screen_vars>>
ButLed ==
  UNCHANGED <<device, driver_vars, link_vars, event_vars, heading_vars, setup_vars, snap_vars, screen_vars>>
ButHeading ==
  UNCHANGED <<device, driver_vars, link_vars, event_vars, led_vars, setup_vars, snap_vars, screen_vars>>
ButSetup ==
  UNCHANGED <<device, driver_vars, link_vars, event_vars, led_vars, heading_vars, snap_vars, screen_vars>>
ButSnapshots ==
  UNCHANGED <<device, driver_vars, link_vars, event_vars, led_vars, heading_vars, setup_vars, screen_vars>>
ButScreen ==
  UNCHANGED <<device, driver_vars, link_vars, event_vars, led_vars, heading_vars, setup_vars, snap_vars>>

Next ==
  \/ device = "repository" /\ Repository!Next /\ ButRepository
  \/ device = "localRepository" /\ LocalRepository!Next /\ ButRepository
  \/ device = "link" /\ Link!Next /\ ButLink
  \/ device = "events" /\ Events!Next /\ ButEvents
  \/ device = "led" /\ Led!Next /\ ButLed
  \/ device = "localLed" /\ LocalLed!Next /\ ButLed
  \/ device = "heading" /\ Heading!Next /\ ButHeading
  \/ device = "setup" /\ Setup!Next /\ ButSetup
  \/ device = "snapshots" /\ Snapshots!Next /\ ButSnapshots
  \/ device = "screen" /\ Screen!Next /\ ButScreen

Spec == Init /\ [][Next]_vars

\* The fairness each module states for itself, for the device that runs.
Fairness ==
  /\ \A t \in Workers :
       WF_driver_vars(device = "repository" /\ (Repository!Executes(t) \/ Repository!Looks(t)))
  /\ \A t \in Readers :
       WF_driver_vars(device = "repository" /\ (Repository!Peek(t, "READ") \/ Repository!Looks(t)))
  /\ WF_driver_vars(device = "repository" /\ Repository!RetryDue)
  /\ WF_link_vars(device = "link" /\ Link!Joystick)
  /\ WF_link_vars(device = "link" /\ Link!Stopper)
  /\ WF_link_vars(device = "link" /\ Link!TimePasses)
  /\ WF_led_vars(device = "led" /\ (Led!ReadMotors \/ Led!JudgeMotors))
  /\ WF_led_vars(device = "led" /\ (Led!Resolve("poller") \/ Led!Apply("poller")))
  /\ WF_led_vars(device = "localLed" /\ (LocalLed!Resolve("joystick") \/ LocalLed!Apply("joystick")))
  /\ \A c \in Commanders : WF_snap_vars(device = "snapshots" /\ Snapshots!CallerStep(c))
  /\ WF_snap_vars(device = "snapshots" /\ Snapshots!WorkerStep)
  /\ SF_snap_vars(device = "snapshots" /\ Snapshots!Read)
  /\ WF_snap_vars(device = "snapshots" /\ (Snapshots!Compare \/ Snapshots!Refresh))
  /\ \A f \in Finishers :
       /\ SF_snap_vars(device = "snapshots" /\ Snapshots!Finish(f))
       /\ WF_snap_vars(device = "snapshots" /\ Snapshots!FinisherGoesOn(f))

FairSpec == Spec /\ Fairness

-----------------------------------------------------------------------------
(* The properties of the instances, under their names.                     *)

\* The type invariant of every device.
TypeOK ==
  /\ IF device = "localRepository" THEN LocalRepository!TypeOK ELSE Repository!TypeOK
  /\ IF device = "localLed" THEN LocalLed!TypeOK ELSE Led!TypeOK
  /\ Link!TypeOK /\ Events!TypeOK /\ Heading!TypeOK /\ Setup!TypeOK /\ Snapshots!TypeOK
  /\ Screen!TypeOK

\* DriverRepository: a cached driver has its whole budget of attempts, and a
\* motor that turns can be stopped or is in evidenced trouble.
DriversAreReachable ==
  /\ Repository!BudgetIsWhole
  /\ device = "localRepository" => LocalRepository!TurningIsReachable

\* DriverRepository: reading reconnects a motor that is plugged in.
Reconnects == device = "repository" => Repository!Reconnects

\* JoystickLink: an attempt that ended leaves no process and no device.
NothingLeftBehind == Link!NothingLeftBehind

\* JoystickLink: a stop ends the joystick thread.
StopEnds == Link!StopEnds

\* JoystickEvents: neither an axis position nor a press is lost in the adapter.
NothingIsLost == Events!MemoryCatchesUp /\ Events!PressesAreKept

\* StatusLed: the brick comes to show the faults.
ShowsFaults ==
  /\ device = "led" => Led!ShowsFaults
  /\ device = "localLed" => LocalLed!ShowsFaults

\* FieldHeading: an answer is a heading the rover had.
AnswersAreTrue == Heading!AnswersAreTrue

\* OperatorSetup: the mode in force is the one the operator saw.
ModeIsAsShown == Setup!ModeIsAsShown

\* MotorSnapshots: what is over is shown only while a thread is to correct it.
OutdatedIsOwed == Snapshots!OutdatedIsOwed

\* MotorSnapshots: the store comes to show the motor.
SnapshotSettles == device = "snapshots" => Snapshots!SnapshotSettles

\* OperationStatus: the display and the buzzer are what the flags demand.
ScreenIsTrue == Screen!ScreenIsTrue
=============================================================================
