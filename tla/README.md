# Rover DR: verification project

TLA+ models of the control software of the rover: what moves its motors, what
stops them, what the devices around it report, and how the process starts and
ends. Every module is a translation of the Python sources; `PROJECT.json` maps
each definition to the lines it stands for. The models are checked with TLC on
small instances, and all their safety properties are proved with TLAPS for every
instance: those of the command path, of the guarded operations, of the joystick
drive, of the navigation, of the lifecycle of the process and of the devices.
What stays with TLC alone is liveness.

## 1. The system

One Python process on an EV3 brick. `config/rover_config.json` and, on the
brick, two selection screens choose how it is controlled: REMOTE over a REST
API, or LOCAL with a Bluetooth joystick. The threads are the main thread (which
ends up serving REST, one request at a time), one thread per monitor, one worker
per motor, the safety watchdog, the lifecycle thread of the EV3Dev2 gateway, the
navigation thread, the joystick thread, the threads of the status LED, of the
status screen and of the buzzer, and the thread that shuts the application down.

| Component | State it keeps | Operations | Talks to |
|---|---|---|---|
| Motor command path: `MotorMonitor`, scheduler, registries, watchdog, executor | priority queue and tracked commands per motor, cancelled flags, active command per motor, command records, reserved motors | enqueue, cancel, worker loop, watchdog, monitor cycle, `stop_all_motors` | REST and navigation call it; drivers through the repository |
| Published snapshots: `MotorStateStore`, `MotorStateCollector` | one record per motor | copy, merge, publish | written by every thread of the command path; read by REST, gateway, navigation, screens |
| Guarded operations and `Ev3Dev2MotorGateway` | native objects, their motors, running operations with deadlines, reservations | create, invoke, delete, lifecycle loop, close | called by REST; reserves motors in the command path; reads the snapshots |
| Application lifecycle: `RoverApplication`, concurrency port, REST server, `MonitorBase`, `main` | flags of requests, threads, server, components, resources | start, stop, request_shutdown, request_restart, signal handler, failure handler | everything |
| Drive navigation: `DriveService` | active command, pose, encoder baseline, stop event, worker thread | move, rotate, curve, stop, status, reset, stall recovery | command path; reads encoders and gyro from the state stores |
| Manual drive: `JoystickControlService`, `ManualDriveService` | axis memory, neutral gate, session ids, last setpoint, running motors | connection, event batches, setpoints, emergency stop, release, stop | joystick adapter, driver repository, heading query |
| Driver repository | driver per motor, error, retry state | connect, execute, read, disconnect | used by all of the above |
| Joystick adapter | device, `bluetoothctl` process, cancel event, event buffer | open, snapshot, read batch, cancel, close | joystick service |
| Gyro and FIELD heading | heading sample with its time, zero reference | monitor cycle, query, set zero | joystick service, screens |
| Operation mode and setup screens | mode in force, local parameters, cursor | button handlers, confirm, back | assembly at startup |
| Status LED | faults, cached color, channels | set_fault, clear_faults, poll, refresh | joystick service, motor snapshots |
| Status screen and alerts | flags, page, buzzer | show, refresh, page buttons, stop | joystick service |
| REST API and handlers | none but the server | routes, validation | command path, gateway, navigation, lifecycle |
| Sensor and controller monitors | last samples | cycle, get | REST, screens |
| Configuration, assembly | none at run time | validation, construction | startup |

What is hard in it:

- **Interleaving.** Commands, watchdog, monitor cycle and shutdown act on the same
  motor without one lock; every decision is taken on a copy and applied later. The
  same holds of the published snapshots, of the odometry (two threads read the
  encoders outside the lock, and from a store that lags behind them), of the
  status screen (values are read outside the display lock) and of the gateway's
  operations, which five parties can end.
- **Shutdown.** Five parties may request it, at any moment of the startup too;
  a restart replaces the process image; the joystick thread may be inside a
  Bluetooth connection when it is told to stop.
- **Failure.** Every driver call may raise; the driver is then dropped and the
  motor keeps doing what it did. Link, gyro, LED channels and display come and go.
- **Safety gate.** After any stop the joystick may move the rover only after it
  was seen at neutral, through reconnections, rejected setpoints, lost headings.
- **Progress.** A navigation must end, a queued command be settled, an expired
  entry be cleared, a fault be shown, although the others never stop working.

Each hazard at its line, with the properties that cover it, is in `PROJECT.json`
under `hazards`.

## 2. Plan

1. **Done.** `MotorCommands` with its proofs, `MotorGateway` with the abstract
   `MotorReservation`, the proof that it implements it and those of its
   invariants, `AppLifecycle` with its proofs, `ManualDrive`.
2. **Done.** `DriveNavigation` with its proofs; the devices `DriverRepository`,
   `JoystickLink`, `JoystickEvents`, `StatusLed`, `FieldHeading`, `OperatorSetup`,
   `MotorSnapshots`, `OperationStatus`, which share one run; the instances of the
   command path and of the lifecycle, put side by side in `MCMotorSafety` and
   `MCThreads`.
3. **Done: proofs** of every safety property the passing runs check, and of the
   refinement, of what `MotorSnapshots` shows in between its writes among them.
4. **Open: compositions.** `DriveNavigation` over `MotorCommands`, where now a
   call of `drive_tank` and the batch it queues are a step each;
   `MotorGateway` and `DriveNavigation` over `MotorSnapshots`, where now they only
   assume readings that may be old.

## 3. Modules

### MotorCommands
One step is one critical section or one hardware call of `motor_monitor.py`,
`command_scheduler.py`, `registries.py` and `guarded_operation_manager.py`.

| Model | Code |
|---|---|
| `queue`, `tracked`, `cancelled`, `sequence` | `_queues`, `_tracked`, the `cancelled` field, `_sequence` of the scheduler |
| `registry` | `MotorCommandRegistry._items[...]["status"]` |
| `active` | `MotorMonitor._active_commands` |
| `drive` | what the motor physically does, and on whose behalf |
| `Begin`, `Cancel`, `Halt`, `Number`, `Put`, `Create`, `Publish`, `Drained`, `FinishCall`, `Reserve` | `_enqueue_motor_command`, `cancel_motor_commands`, `begin` of a guarded operation, `stop_all_motors` of a REST request, in their steps |
| `Take` ... `Remove` | `_worker_loop` and `process_available` with `_execute_queued_command` |
| `WatchdogExpires`, `Inspect`, `EvaluatorStops`, `EvaluatorFinishes` | `_evaluate_watchdog_deadlines`, `_evaluate_active_commands`, `_finish_active_command` |
| `Prepare` ... `Finalized`, `Sweep*` | `prepare_for_shutdown`, the end of `MonitorBase.run`, `on_finalize`, `stop_all_motors` |

Time is abstracted: a deadline may pass at any moment once it is set. Callers
are the REST thread and the navigation thread; only REST reserves, cancels and
stops all motors. That stop is one call for each motor, as its loop makes it, and
what it does to the motors is independent; the sweeps of the shutdown are the
same method run by the monitor.
The history variables `ran` and `stranded`, and the field `known` of a command
(what had been asked for when its call began), serve the properties alone.

- `SchedulerConsistent`: the queue and `_tracked` describe the same commands,
  one thread executes a command, once.
- `NoOvertaking`: nothing asked for before a command runs after it. It is what
  makes a stop final although the stop button of one caller and the motion of
  another pass through three unlocked steps each.
- `MotionIsSupervised`: a motor moved by a command has the entry of that command
  in `_active_commands`, unless that entry was finished while it moved
  (`stranded`). This excepts the race of the finding, which the run
  `MotorCommands_watchdog` shows; the property says that nothing else, a stop of
  all motors included, leaves a motion without its entry.
- `StoppedAtFinalize`: what the workers were still doing during the shutdown is
  stopped by the last sweep, if no driver call has raised and the workers end
  within their join.
- `QueuedCommandSettles`, `ContinuousEntryClears`: progress of the workers and
  of the watchdog.

### MotorGateway, MotorReservation
`MotorGateway` models the REST thread (`call["rest"]`), the lifecycle thread and
the closing thread over objects, operations and reservations; a native method
is one step that may raise. A blocking method returns at any moment, since
`_classify` counts some that return at once among them (`run_timed`,
`run_to_rel_pos`, `run_to_abs_pos`), and its operation is COMPLETED then without
a wait or a stop. `MotorReservation` is what the guarded operations
promise: a motor belongs to one operation at a time, an operation gets all its
motors at once and gives them back once. The refinement maps a motor's owner to
the reservation holding it. `ReservationsSettled` says that no interleaving of
the five ways to end an operation leaks a reservation; `MovementIsReserved` that
a moving motor is reserved, but for operations ended without an effective stop
(`loose`: before the method was called, on a stale reading, by a STOP method that
stops nothing, by the return of a blocking method, or with a stop that raised).

### AppLifecycle
The main thread from `main` through `start` to the exit of the process, the
asynchronous thread that runs `stop`, the monitor threads, and the signal
handler, which interrupts the main thread. The locked section that a signal can
interrupt is split in two steps. `EndsStopped`, `RestartIsClean` and
`ServingShutsDown` say that all ways out pass through one complete stop. The last
excludes the state in which a signal handler waits for the lock of its own thread
(a finding), which the module reaches.

### ManualDrive
The joystick thread from the opening of the device to the cleanup of the
connection, `ManualDriveService` under its lock with one step per motor in its
loops, and the thread that stops both services. The service is started when the
behaviour begins; what `prepare_start` and `start` do before is in `JoystickLink`.
An axis is at neutral or out of it; mixing is the code's wheel equations before
scaling. The history variable `centred` holds the axes that were at neutral since
the last stop, so that `MovesOnlyAfterNeutral` speaks of the physical stick and
not of the service's memory of it; `discarded` names the axes whose event the stop
button threw away. The module is instantiated in the two modes that differ most.
`FollowsStick`: between two batches the wheels have the speeds of the axes
remembered, or stand still while neutral is required or the heading counts as
missing. `StoppedAfterShutdown` holds however late the joystick thread is, with
one exception that the property names: a motor whose driver was dropped by a call
that raised keeps running, a late `acquire` connects it again, and its stop raises
too; the cleanup of the thread then stops it.

### DriveNavigation
`DriveService`: the REST thread that starts, stops, polls and resets, and the
thread of `_run_command` with its loop of testing the stop event, reading the
encoders, integrating, judging the progress, driving, and watching for a stall;
then the recovery (`brake`, `batch`, `wait`, `abort`), the error path and the
`finally`. The encoders are read in one step and integrated in another, by both
threads. They and the gyro are read from the state stores: `store` is what these
show, `PublishMotors` and `PublishHeading` refresh it at any later moment, and
`StoreFallsBack` is the old copy that `MotorSnapshots` lets a thread store.
`tank` is what `drive_tank` decides on: whether the last setpoint is kept, and
whether both motors have active entries. A setpoint that is repeated while they
have reaches `self.read_motor`, which the monitor does not have, and raises; any
other is a batch that is queued by this step and executed, or not, by
`Executes`. The rover advances, or not, before a wall; a guarded operation, or a
stop of all motors, may take the motors at any moment. Otherwise a call into the
command path is one step.

- `IdleMeansStill`: whichever way a navigation ends, nothing it ordered moves.
- `CompletedMeansReached`: COMPLETED is never reported short of the target,
  recoveries included and however old the readings are, when it began with the
  readings of the moment and nobody else asked for the status, reset the odometry
  or put an old position back (`undisturbed`; the findings say what happens
  otherwise).
- `LateMotionIsBounded`: between the test of the stop event and the next test a
  stop may be overtaken by one drive and one recovery at most.
- `NavigationEnds`: under a fair navigation thread, against obstacles, polls
  and reservations, unless the motors are stopped under it or old positions put
  back for ever.
- `FailedMeansStalled` says that a motion the service supports fails for a stall
  and nothing else. It does not hold: a rotation repeats its setpoint in the
  second interval of the loop, and `drive_tank` raises.

### DriverRepository
One motor of `Ev3MotorDriverRepository`: cached driver, error, retry budget and
delay, in the sections of its lock, while the motor is unplugged and plugged in
again (a driver keeps the device it was made for). Callers execute commands with
a forced connection; readers connect within the budget. `DriversAreReachable`
says two things: a cached driver has its whole budget before it, whoever failed
before (`BudgetIsWhole`); and with the service of LOCAL operation, whose lock
makes the callers one, a turning motor has a driver of its own or a kept error
(`TurningIsReachable`).
`Reconnects`: a motor that stays plugged in gets a driver by reading alone,
unless the budget is used up. `max_retry_attempts` has no limit by default; the
model has one, which is the harder case.

### JoystickLink, JoystickEvents
`JoystickLink` is the connection: evdev search, passive wait, `bluetoothctl`
with its registration, the wait on the process, cancellation and `close` by the
stopping thread at any of these steps. `prepare_start` makes its attempts in the
main thread; `Start` then clears the stop event and begins the thread, whose
first pass takes the connection that is already open (`opened`), or the
application notices the stop and it never starts. `NothingLeftBehind`: no
`bluetoothctl` is left by an attempt, by `prepare_start` or by the thread; nor is
a device, between attempts, and after the end of the thread only until the stop
has closed it. It excepts a device that `prepare_start` opens when the stop has
closed the adapter already. `StopEnds`: a stop of the started service ends the
thread; a cancellation that `open` clears costs the time of one attempt. A stop
that `start` forgets ends nothing (a finding).
`JoystickEvents` is the data: the kernel's bounded queue with its overflow,
batches of a bounded number of reads, coalescing of axes, the delivery limit and
the start-up snapshot. The loop of `_append_coalesced` over what a read returned
(`taken`) and the loop of `read_event_batch` over the buffer take one step for
each event, so the operator and the kernel act between two events of a batch.
The one key is the stop button: the service discards the axis events of a batch
that holds its press (`Delivered`), as `joystick_control_service.py:651-655`
does. `NothingIsLost`: between two batches an axis of which no event waits is
where the service remembers it, unless the kernel dropped an event of it or the
service discarded its newest (`discarded`), and each press arrives once and in
order.

### FieldHeading
Monitor, store, query adapter and zero reference, each with its own lock. Ages
are ticks, angles steps of a turn, the gyro counts beyond a turn.
`AnswersAreTrue`: an answer is a heading the rover had no longer than `MaxAge`
ago, relative to the zero in force at that moment.

### OperatorSetup
Both selection screens, the loop of `prepare_rover_runtime` over them and
`OperationModeService`. `ModeIsAsShown`: the mode the application is assembled
for is that of the artwork the operator last saw, however often he went back.

### StatusLed
Faults, resolved color, cached color and the two channels; the poll and the
reports change faults, resolve and apply in three sections, and a write may fail
half way. `ShowsFaults`: once faults settle the brick shows them for good, unless
the cache conceals a failed write (`Concealed`, a finding). `Concealed` is coarse:
it is any state after a failed write in which the cached color is the resolved one
or, without a poller, any state after a failed write.

### MotorSnapshots
The copies taken of a snapshot and the writes of one, a step each, by callers,
worker, monitor cycle and the threads that finish commands, with the pending and
the running command and the position. Callers enqueue, stop, cancel, are refused,
stop all motors (`STOP_ALL`) and begin guarded operations (`GUARD`). The last two
cancel what is queued and mark the motor, and leave the pending command as it
is. Writes that change none of these fields, those of the shutdown, and `clear`
are left out. `OutdatedIsOwed`: a command that is over is shown as pending, or one
that is not active as active, only while a call, the worker or a finisher is on
its way to correct it (`Rewrites`, `Clears`), or because an old copy put it back
(`revived`), or, pending, because one of the two requests above cancelled it
(`abandoned`); both are findings. `SnapshotSettles`: after the last command the
store comes to show that nothing is active and, unless an abandoned command stays
pending, where the motor stands, with the exception of `revived`.

### OperationStatus
The joystick thread that switches between start-up, error and status pages, the
refresh thread, the page buttons and the buzzer. `ScreenIsTrue`: the display is
what the flags demand unless the last drawing failed, and the buzzer is silent
on the status pages and after the end.

### Modules for TLC
`MCMotorCommands`, `MCMotorGateway`, `MCAppLifecycle`, `MCManualDrive` and
`MCDriveNavigation` hold the values of constants. `MCMotorSafety`, `MCThreads`
and `MCDevices` put instances side by side: a variable that never changes
chooses which of them runs, so that a run is the union of the instances and its
properties are theirs, under the fairness they state. They are not compositions.
`MCDevices` keeps the constants of its instances as its own, with the assumption
`DevicesAssumption`; `Devices.cfg` gives them their values, and the theorems
about the devices hold for all others.

## 4. Runs

| Run | Instance | Shows |
|---|---|---|
| `MotorCommands_safety` | 1 motor, 2 callers, 2 commands: preempting requests with 2 priorities; during a shutdown, one continuous motion and guarded operations, or two timed motions and stops of all motors | types, scheduler, order, supervision, motors stopped at the end |
| `MotorCommands_watchdog` | 1 caller, fair threads | **violated**: a continuous motion outlives its watchdog |
| `Threads` | 2 monitors (1 critical), 2 components (1 early), 1 signal; beside it, RESET and RUN_FOREVER of 2 callers with one hardware fault | exits and restarts are clean, a request while serving ends the process, commands settle, entries clear |
| `AppLifecycle_startup` | 1 critical monitor | **violated**: a failure during startup does not end the process |
| `MotorGateway_operations` | 1 motor, an object created twice, 2 operations, one fault, fair lifecycle thread | types, no leak, movement reserved, deadlines release motors |
| `MotorGateway_sharing` | 2 motors, 2 objects, symmetric | refinement of `MotorReservation` |
| `MotorGateway_completion` | one non-blocking operation | **violated**: released while moving |
| `ManualDrive_session` | DIFFERENTIAL, one driver fault | stick, gate, owner, lost link |
| `ManualDrive_field` | MECANUM, FIELD-centric, shutdown | lost heading, stop at a shutdown |
| `DriveNavigation_commands` | a command of 2 units before a wall, 1 recovery, stores that lag behind | the five properties of navigation |
| `DriveNavigation_repeat` | turns alone | **violated**: a turn fails when it orders its setpoint again |
| `Devices` | the eight device modules, two of them in two modes | drivers, connection, events, LED, heading, setup, snapshots, screen |

Bounds. `MaxCommands`, `MaxOperations`, `MaxObjects`, `MaxFaults`, `MaxSignals`,
`MaxPluggings`, `MaxMoves`, `MaxPresses`, `MaxWriteErrors`, `MaxDrawErrors`,
`MaxTravel`, `AngleBound`, and `Farthest` in `DriveNavigation`. The motors of the
command path do not interact, so one motor with two callers reaches all of its
races; two commands are enough for one to overtake, replace or strand the other,
and the theorems have no such bound. Two operations over shared motors reach every
conflict of the gateway. One fault reaches every error path; two write errors of
the LED let one hide the other. Two positions of two axes in a kernel queue of
three reach overflow, coalescing across batches and a batch cut by the delivery
limit. A second plugging makes a driver stale. A target of two units lets a stall
fall before, between and after progress, and the wall lies at the target:
the rover may stop anywhere on the way to it. One navigation command is enough since what an earlier one, or another caller, leaves to it is in
`Init`: stores that are one unit behind, and entries of its motors; the theorems
have no such bound. `StoreFallsBack` happens once in a command and by one unit. In
`Threads` the commands have one priority, so `QueuedCommandSettles` says nothing
of starvation by better ones. The events of the joystick, the presses of the
operator's buttons, the reads of the gyro and the connection attempts are not
bounded. Deadlock checking is off where a system stops on purpose.

Fairness. Threads that the code keeps running are weakly fair: callers inside a
call, workers, watchdog and monitor cycle (`MotorCommands`), the lifecycle
thread, begun deletions and the passing of deadlines (`MotorGateway`), the main
thread, the stopping thread and a failing monitor's notification
(`AppLifecycle`), the joystick thread (`ManualDrive`, `JoystickLink`), the
navigation thread and a request being served (`DriveNavigation`), readers and the
retry delay (`DriverRepository`), the poll (`StatusLed`). In `MotorSnapshots`
the two halves of the monitor's cycle are strongly fair, since a cycle always
does both and what enables one may come and go with the other. Time that a
deadline waits for passes. Nothing the environment does is fair: requests,
failures, signals, native methods, the operator, link, gyro, floor and plug. A
worker's wait for `start_at` is fair because it is a bounded sleep.

## 5. Proofs

`MotorCommands_proofs` proves, for any set of motors, any finite set of callers,
any requests, priorities and bounds (the assumption `ConstantsAssumption`):

- `TypeCorrect`: `Spec => []TypeOK`. The inductive invariant `WellFormed` adds to
  the types that every id in use was given, that a call has a real motor and
  request, and a budget: `sequence` plus the calls that will still create a
  command never exceeds `MaxCommands`. Without the budget `NextId` could leave
  `Ids`, and two callers between `Begin` and `Number` are exactly the case.
- `SchedulerCorrect`: `Spec => []SchedulerConsistent`. The invariant
  `Consistent` adds to `WellFormed` that only ids already given have run; this is
  what makes an id that a call was given neither queued, nor executing, nor run, nor
  another call's, until `Put` adds it.
- `NothingOvertakes`: `Spec => NoOvertaking`. The invariant `Ordered` follows a
  command from the call that makes it: what was known when the call began is,
  from the call's own cancel on, cancelled or no longer waiting; a worker
  executes one command at a time, so what it holds when a later command is taken
  is that command alone. It ends with the monitor, when callers execute inline
  beside a worker.
- `SupervisedMotion`: `Spec => []MotionIsSupervised`. The invariant `Motion` adds
  that a command drives the motor it is for, and that between the hardware call
  of a worker and its registration nothing but a stop or a native operation
  changes what its motor does. Registering replaces the entry of the motor, so
  without the single worker of `NothingOvertakes` an older motion could lose it.

`DriveNavigation_proofs` proves the four invariants of the navigation for any
positive target, number of commands, stall limit and turn, and any tolerance and
number of recoveries (the assumption `DriveAssumption`); only the counters of
the model have bounds:

- `NavigationTypes`: `Spec => []TypeOK`.
- `IdleIsStill`: the invariant `Stilled` lists the steps at which the thread has
  already stopped the motors and dropped what was queued, and that whoever takes
  them stops them too.
- `StopIsOvertakenTwice`: the invariant `LateInv` counts what may still be
  ordered at each step. It holds because a recovery never returns to the loop.
- `CompletedIsReached`: `Settled` says that a recovery is never left towards the
  target and that a request of REST in progress clears `undisturbed` or has set
  the stop event. `Reaching` says that what the odometry has added, what it would
  add at the next reading, and what the store does not show yet, is together at
  most what the rover has come: so readings may be older than the wheels by any
  distance, but the baseline of the command may not, which is what `undisturbed`
  asks of its begin. For a straight move this is a sum of
  distances (`MoveOnTheWay`). For a turn the heading is kept within a turn and
  its difference within half a turn, so the argument needs that one unit of
  heading changes the size of the difference by one at most, also where both
  wrap (`NormalizedStep`). Hence a rotation can end late, or never, but
  not early.

`MotorGateway_proofs` proves what the guarded operations promise, for any set of
motors, any finite set of objects and any methods (the assumption
`ConstantsAssumption`). Its first part says once for each action what it does to
the call of its thread; the invariants follow from that, action by action.

- `GatewayTypes`: `Spec => []TypeOK`. `WellFormed` adds that only REST begins
  operations, that an object that is there has motors, and that every operation
  mentioned anywhere was begun.
- `ReservationsAreSettled`: the invariant `Settled` says that a reserved operation
  is in `_operations` or with exactly one thread that will release it, and that the
  reserved operations divide `activeCodes` among them. "Exactly one" is what two
  threads that pop the same id are kept from by the lock.
- `GatewayReserves`: `Spec => ReservationRefined`. `Begin` is the abstract
  `Acquire`, `Release` is `GiveBack`, every other step of every thread a stutter.
  The mapping names the holder of a motor; `Settled` makes it the only one.
- `MovementsAreReserved`: the invariant `Loosened` follows an operation from its
  reservation to its release. No loop knows it before it is registered
  (`UnknownBefore`), it is registered or was ended when its method is called
  (`HandedOver`), and a thread that finishes it stops its motors first, or the
  operation is one of those that were ended too early (`Accounts`), those
  of blocking methods that return while their motors move among them.

`AppLifecycle_proofs` proves what the end of the process promises, for any sequence
of monitors and of components and any number of signals (its
`ConstantsAssumption`). Every step is of one of six kinds (the main thread moves
on, leaves, is refused a request; a request is claimed; a thread stops; nothing
of these), and the invariants are shown for the kinds.

- `LifecycleTypes`: `Spec => []TypeOK`. `Flagged` adds that no thread is beyond
  the claim of a stop that nobody claimed.
- `EndIsStopped`: `Spec => []EndsStopped`. The invariant `Ended` says that a
  claimed stop is completed or some thread carries it out, at a step that says
  what of it is done, and that a main thread that stops the application itself
  does not end before.
- `ReplacedIsClean`: `Spec => []RestartIsClean`. A restart can only be claimed
  while the server runs, when everything is started and nobody stops; the
  invariant `Restarting` says that what runs from then on is what the loop over
  the components has not come to.

`FinalizeStops` (`MotorCommands_proofs`) proves `Spec => []StoppedAtFinalize`
under the hypothesis `JoinMayTimeOut = FALSE`; without it the property is false,
since `on_finalize` gives the workers 0.5 s only and then sweeps. The property
itself speaks of behaviours in which no driver call has raised (`faults = 0`): a
stop that raises leaves its motor moving, and nobody tries again. The invariant
`Closing` says of each step of the end what is already certain: what was ordered
before is behind the workers, the workers have ended, and the motors that the
last sweep has passed stand still and nobody is left who moves them.

`ManualDrive_proofs` proves the five safety properties and the types of the
joystick drive in both drives, robot or field reference, with or without a
shutdown and for any number of faults (its `ConstantsAssumption`). What a loop
over the motors leaves behind is stated once for each loop (the stops, the
setpoint, the auxiliary motor), by sets of wheels and never by recursion.

- `TypesCorrect`: `WellFormed` adds to the types which step of a call has which
  index and list of motors.
- `NeverRefusedTheorem`: the invariant `Owners` says where the session id of the
  manual service is known: in the joystick service, or in the thread that is
  about to store or to release it.
- `MovesOnlyAfterNeutralTheorem`: the invariant `Gate` relates the memory of an
  axis to the stick. An axis remembered at neutral was there since the last
  stop or its event was discarded, and an open gate has seen all of them.
- `FollowsStickTheorem` and `BlindStandsStillTheorem`: the invariant `Follows`
  says for each step of a setpoint which wheels have the new speed and which
  the old, and that after a refused call the stop that follows covers all wheels
  with a driver. It rests on `Quiet`, by which nothing moves without a session.
- `StoppedAfterShutdownTheorem`: the invariant `Stops` names, for each pair of
  a step of the shutdown and a step of the joystick thread, who still has to
  stop the motors.

`DriverRepository` and `FieldHeading` carry no assumption on their constants,
since one run instantiates them several times; the theorems of their modules have
it as a hypothesis, `Configured`: a number of attempts and of faults, at least
one plugging; an age and a bound of the angle that are numbers, at least one
tolerated failure, an even turn. No step of these modules needs more.

- `DriverRepository_proofs`: `BudgetsAreWhole` for any threads; the
  invariant `HoldsCached` and its companions say which driver a thread holds
  and that a failed attempt leaves none. `TurningIsReached` has the hypothesis
  that one thread commands and none reads: with two, one drops the driver and
  clears the error that the other has just kept. `Reachable` follows the
  motor from the native call to the report.
- `FieldHeading_proofs`: `AnsweredIsTrue`. `SampleWasTrue` and `AskedWasTrue`
  follow a heading from the gyro through the store to the query: its age
  counts from the moment it was read, so it is always found in the past that
  the property looks at.

`Devices_proofs` proves every safety property of the run `Devices`, from
`DevicesAssumption` alone: the limits of the code are positive, the turn is even,
the monitor is one of the threads that finish commands, and no thread has the
name of another.

- `LinkLeavesNothing`: the invariant `LinkInv` says that a process that lives has
  a thread that watches it, and that a device found is in use or about to be
  closed, by the thread or by the stop; what `prepare_start` leaves open is in use
  until the thread it was opened for begins.
- `AssembledAsShown`: what is drawn is the choice, and the second screen was
  drawn after the first was confirmed (`SetupInv`).
- `ScreensAreTrue`, for any number of pages: the display shows what is due after
  each section of its lock (`ShowsDue`); an alert begins only while the error is
  shown, and whoever leaves the error has silenced it (`BuzzerInv`).
- `NothingIsLostEver`, for any axes and any sizes of the queue, the reads and the
  batches. `NothingIsLost` speaks of the moment when no event of an axis waits;
  the invariant `EventsInv` says what holds while some do. The events of an axis,
  and the presses, wait in the order in which they happened, buffer before `taken`
  before kernel (`Lined`); none tells of what has not happened (`Happened`); and
  where events of an axis wait the newest is among them, in the kernel by itself
  (`KernelIsNew`) and along the line for an axis of which nothing was dropped
  (`SessionIsTrue`). So coalescing may delete an older event of the axis, the
  limit of a batch may leave events behind, and the last event of an axis to be
  delivered is its position. `LatestCatchesUp` says what a batch is about to tell
  the service, and `Applied` that the service knows as much between two batches.
  It is false if the buffer is read from its other end. The lemmas on sequences
  (`SplitEvents`, `RemoveEvent`, `TailEvents`, `AppendEvents`) state what taking a
  part of a line does to its order and its contents.
- `OutdatedIsCorrected`, for any callers, finishers and commands: the property
  says who corrects the snapshot, and `OwedInv` what each copy is worth until
  then. A copy that no write has overtaken is what the store shows
  (`CopiesAreFresh`). A caller whose command is over before it publishes it does
  so by an old copy, or while another call is about to correct it (`CallersOwe`);
  what the worker is about to show as active is active, or a finisher takes it out
  again, or the copy is old (`WorkerOwes`). A command that `stop_all_motors` or
  the begin of a guarded operation cancelled is in `abandoned` from then on,
  whoever shows it later. Every write makes all other copies old, so the lemmas
  `CallerStores` and `FinishersStore` treat all of them alike.
- `HeadingsAreTrue` and `DriversReached` carry the theorems of the two modules
  above over to the instances that the devices run (`ForHeading`, `ForRepository`,
  `ForLocal`): the specification of an instance implies that of the module with
  the constants of the instance, and `DevicesAssumption` implies `Configured`.
- `DeviceTypes` and `DevicesAreSafe`: each step of the devices is a step of the
  one that runs and a stutter of all others (`DevicesRun`, `RepositoryRuns`,
  `LedRuns`), so the invariants of the instances, `LedInv` and `SnapshotInv` among
  them, hold together, and so do all the properties above. `WorkerHasCommand` is
  needed for the types of the snapshots: a worker reads the kind of its command,
  which must have been given.

TLC checks the same properties on the instances of section 4.

Only model-checked: all liveness (`QueuedCommandSettles`,
`ContinuousEntryClears`, `ServingShutsDown`, `TimedOperationEnds`,
`LossStopsMotors`, `NavigationEnds`, `Reconnects`, `StopEnds`, `ShowsFaults`,
`SnapshotSettles`), since fairness and ENABLED are beyond the prover used. What
is violated, the four runs of section 6, has no theorem.

## 6. Disagreements

`PROJECT.json` lists them under `findings`, four with a run that shows the
behaviour: the watchdog that removes the entry of a newer command
(`motor_monitor.py:653`), the completion read from an old snapshot
(`ev3dev2_motor_gateway.py:401`), the start that survives its own stop
(`rover_application.py:63`), and the navigation that fails when it repeats a
setpoint (`motor_monitor.py:911`). The others were met while modelling and have no
run of their own. Where a property would fail because of one, it names the case as
its exception (`undisturbed`, `stranded`, `loose`, `Concealed`, `revived`,
`abandoned`, `dropped`, `discarded`, `undrawn`), so that everything outside that
case is still checked.

## 7. Not modelled

- REST routing and parameter validation: one thread without state, tables and
  range tests; its calls are the callers of the modules.
- Sensor and controller monitors and their stores: one writer replaces whole
  records and no decision is taken from them; their threads are the generic
  monitors of `AppLifecycle`.
- Configuration loading and validation, construction of objects: sequential, at
  startup.
- Layout, images, fonts, spoken and written wording, logging; the fatal-error
  screen, which one thread shows before the process ends.
- The arithmetic of the axis response, speed scaling and polarity; the position
  in the plane and the heading correction of navigation; limits and arguments of
  commands and native calls.
- Whose entries a repeated `drive_tank` renews in the command path
  (`DriveNavigation` has the reuse, `MotorCommands` not its effect on deadlines),
  and a driver that fails on one of its two wheels.
- Hardware: a motor does what it was last told until a bounded motion ends.
