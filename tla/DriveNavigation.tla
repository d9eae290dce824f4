-------------------------- MODULE DriveNavigation --------------------------
(***************************************************************************)
(* drive_service.py: one navigation command at a time, carried out by the  *)
(* thread _run_command starts; the REST thread starts, stops, asks for the *)
(* status and resets the odometry.  The two share the pose, the encoder    *)
(* baseline and the stop event.  Neither reads a device: encoders and gyro *)
(* come from MotorStateStore and SensorStateStore, which the monitors      *)
(* refresh once a second.  Below them stands the command path, which       *)
(* MotorCommands details: here a call of drive_tank, stop_drive or         *)
(* run_synchronized_motors is one step on the two traction motors, and a   *)
(* batch that drive_tank queued is executed by another one.                *)
(* Distances and angles are counted in units; a wheel turns at most one    *)
(* unit per control interval.                                              *)
(***************************************************************************)
EXTENDS Integers

CONSTANTS
  Requests,         \* what REST asks for: MOVE, TURN, STOP, STATUS, RESET
  TargetDistance,   \* of a MOVE
  TargetAngle,      \* of a TURN
  Tolerance,        \* distance_tolerance_mm, angle_tolerance_deg
  FullTurn,         \* units of angle in 360 degrees
  MaxQuiet,         \* control intervals without progress that are a stall
  MaxRecoveries,    \* max_recovery_attempts
  MaxTravel,        \* where the wall stands
  MaxCommands       \* bound: navigation commands in a behaviour

ASSUME DriveAssumption ==
  /\ Requests \subseteq {"MOVE", "TURN", "STOP", "STATUS", "RESET"}
  /\ {TargetDistance, TargetAngle, FullTurn, MaxQuiet, MaxTravel, MaxCommands} \subseteq Nat \ {0}
  /\ {Tolerance, MaxRecoveries} \subseteq Nat

VARIABLES
  command,    \* _active_command, with what the thread keeps of it
  worker,     \* the navigation thread: where it is, and its local variables
  stopEvent,  \* _stop_event
  rest,       \* the REST thread: where it is, and the encoder it has read
  pose,       \* _pose["distance_mm"] and _last_encoder
  rover,      \* the wheels, the gyro and the traction motors
  store,      \* what the state stores show of the wheels and of the gyro
  tank,       \* of drive_tank: _last_drive_setpoint is set; both motors have an active entry
  issued,     \* _command_sequence
  path,       \* history: how far the rover has come in this command
  undisturbed, \* history: this command began with the readings of the moment, and no status
              \* or reset was asked for and no reading was put back during it
  late        \* history: motions ordered since the stop command was carried out

vars == <<command, worker, stopEvent, rest, pose, rover, store, tank, issued, path, undisturbed,
          late>>

Kinds  == {"MOVE", "TURN"}
States == {"IDLE", "RUNNING", "COMPLETED", "STOPPED", "STALLED", "RECOVERING", "FAILED"}

Working == {"begin", "test", "read", "integrate", "judge", "drive", "watch", "brake", "batch",
            "wait", "abort", "fail", "halt", "lastRead", "lastIntegrate", "finish"}

Size(n) == IF n < 0 THEN -n ELSE n

\* Bound: distances are counted up to this one.
Farthest == MaxCommands * (TargetDistance + MaxTravel)

CommandType == [kind : Kinds, state : States, recover : BOOLEAN, attempts : 0..MaxRecoveries,
                error : {"none", "stalled", "broken"}]
WorkerType  == [pc : Working \cup {"none"}, seen : Int, start : Int, progress : Nat, mark : Nat,
                quiet : 0..MaxQuiet]
RestType    == [pc : {"idle", "brake", "mark", "read", "integrate"}, seen : Int]
PoseType    == [distance : 0..Farthest, last : Int]
RoverType   == [wheels : Int, heading : 0..(FullTurn - 1), moved : BOOLEAN,
                traction : {"still", "queued", "driving", "backing"}]
StoreType   == [wheels : Int, heading : 0..(FullTurn - 1)]
TankType    == [driven : BOOLEAN, entries : BOOLEAN]

TypeOK ==
  /\ command \in CommandType
  /\ worker \in WorkerType
  /\ stopEvent \in BOOLEAN
  /\ rest \in RestType
  /\ pose \in PoseType
  /\ rover \in RoverType
  /\ store \in StoreType
  /\ tank \in TankType
  /\ issued \in 0..MaxCommands
  /\ path \in Int
  /\ undisturbed \in BOOLEAN
  /\ late \in Nat

Init ==
  /\ command = [kind |-> "MOVE", state |-> "IDLE", recover |-> FALSE, attempts |-> 0,
                error |-> "none"]
  /\ worker = [pc |-> "none", seen |-> 0, start |-> 0, progress |-> 0, mark |-> 0, quiet |-> 0]
  /\ stopEvent = FALSE
  /\ rest = [pc |-> "idle", seen |-> 0]
  /\ rover = [wheels |-> 0, heading |-> 0, moved |-> FALSE, traction |-> "still"]
  \* The status was asked for once, which sets the baseline.  Others have driven the rover:
  \* since the stores were refreshed it may have advanced or turned (bound: by one unit),
  \* and its motors may have active entries still.
  /\ \E advanced, turned \in 0..1 :
       /\ advanced = 0 \/ turned = 0
       /\ store = [wheels |-> -advanced, heading |-> (FullTurn - turned) % FullTurn]
       /\ pose = [distance |-> 0, last |-> -advanced]
  /\ \E left \in BOOLEAN : tank = [driven |-> FALSE, entries |-> left]
  /\ issued = 0
  /\ path = 0
  /\ undisturbed = TRUE
  /\ late = 0

-----------------------------------------------------------------------------
(* Measuring.                                                              *)

Travelled(seen) ==
  LET distance == pose.distance + Size(seen - pose.last)
  IN  IF distance > Farthest THEN Farthest ELSE distance

IntegratedTwice(seen) == [pose EXCEPT !.distance = Travelled(seen)]  \* mutant: the baseline stays

\* The odometry adds the size of what the wheels turned since the baseline,
\* forward or back, and moves the baseline to the encoder it was given.
Integrated(seen) == [distance |-> Travelled(seen), last |-> seen]

\* An angle between minus half a turn and half a turn.
Normalized(angle) == ((angle + FullTurn \div 2) % FullTurn) - FullTurn \div 2

\* The value a command measures its progress on, and the progress.
Gauge == IF command.kind = "MOVE" THEN pose.distance ELSE store.heading

Progress ==
  IF command.kind = "MOVE" THEN Size(pose.distance - worker.start)
                           ELSE Size(Normalized(store.heading - worker.start))

Target == IF command.kind = "MOVE" THEN TargetDistance ELSE TargetAngle

-----------------------------------------------------------------------------
(* The traction motors.  A motor that a guarded operation has reserved     *)
(* refuses every command, a stop too: but then the operation has stopped   *)
(* it.  Guarded operations come and go at any time: a motion is refused    *)
(* or not.                                                                 *)

Told(traction) == [rover EXCEPT !.traction = traction]

\* stop_drive preempts what is queued and stops the motors; it forgets the setpoint.
StopDrive ==
  /\ rover' = Told("still")
  /\ tank' = [tank EXCEPT !.driven = FALSE]

\* A motion ordered by the navigation thread, counted when it comes after a stop.
Order(traction) ==
  /\ rover' = Told(traction)
  /\ late' = IF stopEvent /\ rest.pc # "brake" THEN late + 1 ELSE late

Refused == UNCHANGED <<rover, late>>

-----------------------------------------------------------------------------
(* The REST thread.                                                        *)

\* _start_command refuses while the thread of another command lives.
Start(kind, recover) ==
  /\ kind \in Requests
  /\ rest.pc = "idle" /\ worker.pc = "none"
  /\ issued < MaxCommands
  /\ issued' = issued + 1
  /\ command' = [kind |-> kind, state |-> "RUNNING", recover |-> recover, attempts |-> 0,
                 error |-> "none"]
  /\ stopEvent' = FALSE
  /\ pose' = [pose EXCEPT !.last = store.wheels]
  /\ worker' = [worker EXCEPT !.pc = "begin"]
  /\ path' = 0 /\ late' = 0
  /\ undisturbed' = (store.wheels = rover.wheels /\ store.heading = rover.heading)
  /\ rover' = [rover EXCEPT !.moved = FALSE]
  /\ UNCHANGED <<rest, store, tank>>

\* stop sets the event, stops the motors, marks whatever command is there as
\* stopped, and returns the status, which updates the odometry.
StopRequested ==
  /\ "STOP" \in Requests
  /\ rest.pc = "idle"
  /\ stopEvent' = TRUE
  /\ rest' = [rest EXCEPT !.pc = "brake"]
  /\ UNCHANGED <<command, worker, pose, rover, store, tank, issued, path, undisturbed,
                 late>>

StopBrakes ==
  /\ rest.pc = "brake"
  /\ StopDrive
  /\ rest' = [rest EXCEPT !.pc = "mark"]
  /\ UNCHANGED <<command, worker, stopEvent, pose, store, issued, path, undisturbed, late>>

StopMarks ==
  /\ rest.pc = "mark"
  /\ command' = IF command.state = "IDLE" THEN command ELSE [command EXCEPT !.state = "STOPPED"]
  /\ rest' = [rest EXCEPT !.pc = "read"]
  /\ UNCHANGED <<worker, stopEvent, pose, rover, store, tank, issued, path, undisturbed,
                 late>>

StatusRequested ==
  /\ "STATUS" \in Requests
  /\ rest.pc = "idle"
  /\ rest' = [rest EXCEPT !.pc = "read"]
  /\ undisturbed' = (undisturbed /\ worker.pc = "none")
  /\ UNCHANGED <<command, worker, stopEvent, pose, rover, store, tank, issued, path, late>>

\* _update_odometry reads the encoders before it takes the lock.
RestReads ==
  /\ rest.pc = "read"
  /\ rest' = [pc |-> "integrate", seen |-> store.wheels]
  /\ UNCHANGED <<command, worker, stopEvent, pose, rover, store, tank, issued, path, undisturbed,
                 late>>

RestIntegrates ==
  /\ rest.pc = "integrate"
  /\ pose' = Integrated(rest.seen)
  /\ rest' = [pc |-> "idle", seen |-> 0]
  /\ UNCHANGED <<command, worker, stopEvent, rover, store, tank, issued, path, undisturbed, late>>

ResetRequested ==
  /\ "RESET" \in Requests
  /\ rest.pc = "idle"
  /\ pose' = [distance |-> 0, last |-> store.wheels]
  /\ undisturbed' = (undisturbed /\ worker.pc = "none")
  /\ UNCHANGED <<command, worker, stopEvent, rest, rover, store, tank, issued, path, late>>

RestContinues == StopBrakes \/ StopMarks \/ RestReads \/ RestIntegrates

-----------------------------------------------------------------------------
(* The navigation thread.                                                  *)

At(pc)    == worker.pc = pc
Ended     == [pc |-> "none", seen |-> 0, start |-> 0, progress |-> 0, mark |-> 0, quiet |-> 0]
Goes(pc)  == worker' = [worker EXCEPT !.pc = pc]
InState(s) == command' = [command EXCEPT !.state = s]

\* The execute method of the command notes where it starts.
Begin ==
  /\ At("begin")
  /\ worker' = [worker EXCEPT !.pc = "test", !.start = Gauge, !.mark = 0, !.quiet = 0]
  /\ UNCHANGED <<command, stopEvent, rest, pose, rover, store, tank, issued, path, undisturbed,
                 late>>

TestsNothing ==                         \* mutant: the loop does not look at the event
  /\ At("test")
  /\ Goes("read")
  /\ UNCHANGED <<command, stopEvent, rest, pose, rover, store, tank, issued, path, undisturbed,
                 late>>

Test ==
  /\ At("test")
  /\ Goes(IF stopEvent THEN "halt" ELSE "read")
  /\ UNCHANGED <<command, stopEvent, rest, pose, rover, store, tank, issued, path, undisturbed,
                 late>>

Read ==
  /\ worker.pc \in {"read", "lastRead"}
  /\ worker' = [worker EXCEPT !.pc = IF @ = "read" THEN "integrate" ELSE "lastIntegrate",
                              !.seen = store.wheels]
  /\ UNCHANGED <<command, stopEvent, rest, pose, rover, store, tank, issued, path, undisturbed,
                 late>>

Integrate ==
  /\ worker.pc \in {"integrate", "lastIntegrate"}
  /\ pose' = Integrated(worker.seen)
  /\ worker' = [worker EXCEPT !.pc = IF @ = "integrate" THEN "judge" ELSE "finish", !.seen = 0]
  /\ UNCHANGED <<command, stopEvent, rest, rover, store, tank, issued, path, undisturbed, late>>

\* The loop ends when the target is within the tolerance.
Judge ==
  /\ At("judge")
  /\ worker' = [worker EXCEPT !.progress = Progress,
                              !.pc = IF Progress + Tolerance >= Target THEN "halt" ELSE "drive"]
  /\ UNCHANGED <<command, stopEvent, rest, pose, rover, store, tank, issued, path, undisturbed,
                 late>>

\* drive_tank.  The same setpoint again, with both motors active, renews the watchdogs
\* and then asks the monitor for a method it does not have, which raises.  Any other
\* setpoint (a MOVE corrects its heading) is a batch that replaces what was queued or
\* running; what it returns is a success, also of reserved motors.
SetpointIsNew == ~tank.driven \/ command.kind = "MOVE"
Drive ==
  /\ At("drive")
  /\ \/ /\ SetpointIsNew \/ ~tank.entries
        /\ Order("queued") \/ Refused
        /\ tank' = [tank EXCEPT !.driven = TRUE]
        /\ Goes("watch")
        /\ UNCHANGED command
     \/ /\ tank.driven /\ tank.entries
        /\ command' = [command EXCEPT !.error = "broken"]
        /\ Goes("abort")
        /\ Refused /\ UNCHANGED tank
  /\ UNCHANGED <<stopEvent, rest, pose, store, issued, path, undisturbed>>

AlwaysQuiet(progressed) == 0           \* mutant: the clock restarts at every interval
Quiet(progressed) == IF progressed THEN 0 ELSE worker.quiet + 1

OneTooMany == command.recover /\ command.attempts <= MaxRecoveries   \* mutant
Recovers   == command.recover /\ command.attempts < MaxRecoveries

\* Progress restarts the stall clock; without it, for long enough, the command
\* recovers or, when it may not or did so often enough, is stalled.
Watch ==
  /\ At("watch")
  /\ LET progressed == worker.progress # worker.mark
         stalled    == Quiet(progressed) >= MaxQuiet
     IN
     /\ worker' = [worker EXCEPT
                     !.pc = IF ~stalled THEN "test" ELSE IF Recovers THEN "brake" ELSE "abort",
                     !.mark = IF progressed THEN worker.progress ELSE @,
                     !.quiet = IF stalled THEN @ ELSE Quiet(progressed)]
     /\ command' = IF ~stalled THEN command
                   ELSE IF Recovers
                   THEN [command EXCEPT !.state = "RECOVERING", !.attempts = @ + 1]
                   ELSE [command EXCEPT !.state = "STALLED", !.error = "stalled"]
     /\ rover' = IF stalled THEN rover ELSE [rover EXCEPT !.moved = FALSE]
  /\ UNCHANGED <<stopEvent, rest, pose, store, tank, issued, path, undisturbed, late>>

Brake ==
  /\ At("brake")
  /\ StopDrive
  /\ Goes("batch")
  /\ UNCHANGED <<command, stopEvent, rest, pose, store, issued, path, undisturbed, late>>

\* The recovery is a synchronized batch that backs up both wheels.  A refused
\* batch (reserved motors, a limit) has no command ids, and the wait for no
\* command succeeds at once: the command goes on.
BatchRefused ==
  /\ At("batch")
  /\ InState("RUNNING")
  /\ worker' = [worker EXCEPT !.pc = "test", !.mark = Progress, !.quiet = 0]
  /\ rover' = [rover EXCEPT !.moved = FALSE]
  /\ UNCHANGED <<stopEvent, rest, pose, store, tank, issued, path, undisturbed, late>>

\* A batch that was queued moves the motors, unless the driver raises.
BatchQueued ==
  /\ At("batch")
  /\ \/ Order("backing") /\ tank' = [tank EXCEPT !.entries = TRUE]
     \/ Refused /\ UNCHANGED tank
  /\ Goes("wait")
  /\ UNCHANGED <<command, stopEvent, rest, pose, store, issued, path, undisturbed>>

\* The records of the batch become DISPATCHED or FAILED and nothing else, and
\* the wait knows neither: it ends at its deadline, and the recovery failed.
WaitExpires ==
  /\ At("wait")
  /\ Goes("abort")
  /\ command' = [command EXCEPT !.state = "STALLED", !.error = "stalled"]
  /\ UNCHANGED <<stopEvent, rest, pose, rover, store, tank, issued, path, undisturbed,
                 late>>

AbortRolling ==                         \* mutant: the handler forgets the motors
  /\ At("abort")
  /\ Goes("fail")
  /\ UNCHANGED <<command, stopEvent, rest, pose, rover, store, tank, issued, path, undisturbed,
                 late>>

\* The handler of _run_command stops the motors and fails the command.
Abort ==
  /\ At("abort")
  /\ StopDrive
  /\ Goes("fail")
  /\ UNCHANGED <<command, stopEvent, rest, pose, store, issued, path, undisturbed, late>>

Fail ==
  /\ At("fail")
  /\ InState("FAILED")
  /\ worker' = Ended
  /\ UNCHANGED <<stopEvent, rest, pose, rover, store, tank, issued, path, undisturbed,
                 late>>

Halt ==
  /\ At("halt")
  /\ StopDrive
  /\ Goes("lastRead")
  /\ UNCHANGED <<command, stopEvent, rest, pose, store, issued, path, undisturbed, late>>

Finish ==
  /\ At("finish")
  /\ command' = IF command.state = "RUNNING" THEN [command EXCEPT !.state = "COMPLETED"]
                ELSE command
  /\ worker' = Ended
  /\ UNCHANGED <<stopEvent, rest, pose, rover, store, tank, issued, path, undisturbed,
                 late>>

Navigates ==
  \/ Begin \/ Test \/ Read \/ Integrate \/ Judge \/ Drive \/ Watch \/ Brake \/ BatchRefused
  \/ BatchQueued \/ WaitExpires \/ Abort \/ Fail \/ Halt \/ Finish

-----------------------------------------------------------------------------
(* The surroundings.                                                       *)

\* A worker executes the batch of drive_tank: the motors run and have active entries, or
\* the driver raises and nothing moves.
Executes ==
  /\ rover.traction = "queued"
  /\ \/ /\ rover' = [rover EXCEPT !.traction = "driving"]
        /\ tank' = [tank EXCEPT !.entries = TRUE]
     \/ rover' = [rover EXCEPT !.traction = "still"] /\ UNCHANGED tank
  /\ UNCHANGED <<command, worker, stopEvent, rest, pose, store, issued, path, undisturbed, late>>

\* The monitor or the watchdog ends the active commands: it stops the motors and removes
\* the entries, which stay there otherwise, also when the motors are stopped.
SupervisionStops ==
  /\ tank.entries
  /\ tank' = [tank EXCEPT !.entries = FALSE]
  /\ rover' = IF rover.traction = "queued" THEN rover ELSE [rover EXCEPT !.traction = "still"]
  /\ UNCHANGED <<command, worker, stopEvent, rest, pose, store, issued, path, undisturbed, late>>

\* The monitors refresh the stores.
PublishMotors ==
  /\ store.wheels # rover.wheels
  /\ store' = [store EXCEPT !.wheels = rover.wheels]
  /\ UNCHANGED <<command, worker, stopEvent, rest, pose, rover, tank, issued, path, undisturbed,
                 late>>

PublishHeading ==
  /\ store.heading # rover.heading
  /\ store' = [store EXCEPT !.heading = rover.heading]
  /\ UNCHANGED <<command, worker, stopEvent, rest, pose, rover, tank, issued, path, undisturbed,
                 late>>

\* A thread stores an old copy of the snapshot, and an earlier position with it
\* (MotorSnapshots).  Bound: of one unit before, once in a MOVE that was undisturbed.
StoreFallsBack ==
  /\ undisturbed /\ worker.pc # "none"
  /\ command.kind = "MOVE" /\ path > 0
  /\ store' = [store EXCEPT !.wheels = @ - 1]
  /\ undisturbed' = FALSE
  /\ UNCHANGED <<command, worker, stopEvent, rest, pose, rover, tank, issued, path, late>>

\* Bound: at most one unit per control interval.  Nothing makes the rover
\* advance: it may be blocked, or its motors stopped by somebody else.
RoverAdvances ==
  /\ rover.traction = "driving" /\ ~rover.moved
  /\ IF command.kind = "MOVE"
     THEN /\ rover.wheels < MaxTravel
          /\ rover' = [rover EXCEPT !.wheels = @ + 1, !.moved = TRUE]
     ELSE rover' = [rover EXCEPT !.heading = (@ + 1) % FullTurn, !.moved = TRUE]
  /\ path' = IF path < Target THEN path + 1 ELSE path
  /\ UNCHANGED <<command, worker, stopEvent, rest, pose, store, tank, issued, undisturbed,
                 late>>

\* The bounded motion of a recovery ends by itself.
RoverBacks ==
  /\ rover.traction = "backing"
  /\ rover' = [rover EXCEPT !.wheels = @ - 1, !.traction = "still"]
  /\ path' = path - 1
  /\ UNCHANGED <<command, worker, stopEvent, rest, pose, store, tank, issued, undisturbed,
                 late>>

\* A guarded operation takes the traction motors: what was queued is dropped, and they
\* are stopped.  A stop of all motors by REST is this and SupervisionStops.
MotorsAreReserved ==
  /\ rover.traction # "still"
  /\ rover' = Told("still")
  /\ UNCHANGED <<command, worker, stopEvent, rest, pose, store, tank, issued, path, undisturbed,
                 late>>

-----------------------------------------------------------------------------
Next ==
  \/ \E kind \in Kinds, recover \in BOOLEAN : Start(kind, recover)
  \/ StopRequested \/ StatusRequested \/ ResetRequested \/ RestContinues
  \/ Navigates
  \/ Executes \/ SupervisionStops \/ PublishMotors \/ PublishHeading \/ StoreFallsBack
  \/ RoverAdvances \/ RoverBacks \/ MotorsAreReserved

Spec == Init /\ [][Next]_vars

\* The navigation thread and a request being served keep running.  Nothing is
\* assumed of the operator, the floor, or the wheels.
FairSpec == Spec /\ WF_vars(Navigates) /\ WF_vars(RestContinues)

-----------------------------------------------------------------------------
(* Properties.                                                             *)

\* Whichever way a navigation ends (target, stop, stall, failed recovery, with
\* a stop of the operator at any moment), nothing it ordered is still moving.
IdleMeansStill == At("none") => rover.traction = "still"

\* A command reported COMPLETED has moved the rover the whole distance or angle, although
\* every reading may be old: recoveries, obstacles and refused motions never count as
\* progress.  Not so if it began with an old reading, or if meanwhile it was stopped, the
\* status was asked for, the odometry reset or an old position put back in the store.
CompletedMeansReached ==
  command.state = "COMPLETED" /\ undisturbed /\ ~stopEvent => path + Tolerance >= Target

\* After the stop command of REST was carried out, the thread that had already
\* tested the event orders at most a last drive and a last recovery.
LateMotionIsBounded == late <= 2

\* Every navigation ends, however often the status is polled: its target is reached, or
\* drive_tank raises, or what keeps the rover from the target is noticed as a stall,
\* unless for ever its motors are stopped under it or old positions are put back.
NavigationEnds ==
  (At("begin") ~> At("none")) \/ []<><<SupervisionStops \/ StoreFallsBack>>_vars

\* docs/drive_navigation.md:40 supports three finite geometric motions: one that the code
\* accepts fails for a stall, as the text of its error says, and for nothing else.
FailedMeansStalled == command.state = "FAILED" => command.error = "stalled"
=============================================================================
