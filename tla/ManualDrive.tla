----------------------------- MODULE ManualDrive -----------------------------
(***************************************************************************)
(* LOCAL + MANUAL control: JoystickControlService, which turns joystick    *)
(* events into setpoints, and ManualDriveService, which owns the motors    *)
(* for one session.                                                        *)
(*                                                                         *)
(* Two threads meet here: the joystick thread, and the thread that stops   *)
(* both services at shutdown.  A step of the joystick thread is a section  *)
(* under the state lock or one call of the manual service, which the lock  *)
(* of that service makes atomic; applying a setpoint and acquiring, which  *)
(* are loops over motors, are one step a motor with the lock held.         *)
(*                                                                         *)
(* An axis is at neutral (0) or out of it (1), and a wheel's speed is the  *)
(* sum the mixing gives it before it is scaled.  The front convention and  *)
(* the gear factors (one to one) are left out, and so is the angle of the  *)
(* heading: it is fresh or missing.                                        *)
(***************************************************************************)
EXTENDS Integers, Sequences, FiniteSets

CONSTANTS
  Drive,       \* operation_mode.drive, DIFFERENTIAL or MECANUM
  FieldCentric, \* whether operation_mode.centric is FIELD
  MaxFaults,   \* bound: calls of a motor driver that raise
  MayShutDown  \* whether the application may be shut down

ASSUME ConstantsAssumption ==
  /\ Drive \in {"DIFFERENTIAL", "MECANUM"}
  /\ FieldCentric \in BOOLEAN
  /\ FieldCentric => Drive = "MECANUM"
  /\ MaxFaults \in Nat
  /\ MayShutDown \in BOOLEAN

(* y and x translate, r rotates; hat runs one of the auxiliary motors, the  *)
(* other is alike.                                                          *)
TractionAxes == IF Drive = "MECANUM" THEN {"x", "y", "r"} ELSE {"y", "r"}
Axes         == IF Drive = "MECANUM" THEN TractionAxes ELSE TractionAxes \cup {"hat"}

Wheels    == IF Drive = "MECANUM" THEN <<"LLM", "LMM", "RLM", "RMM">>
                                  ELSE <<"LLM", "RLM">>
Auxiliary == "LMM"

(* The motors in the order of their acquisition. *)
Controlled == IF Drive = "MECANUM" THEN Wheels ELSE Append(Wheels, Auxiliary)

WheelSet == {Wheels[k] : k \in DOMAIN Wheels}
Motors   == {Controlled[k] : k \in DOMAIN Controlled}

None       == 0
Sessions   == 1..4      \* ids are unique: one that nobody holds is taken
Keys       == {"stop", "recenter"}
Unpressed  == {}

VARIABLES
  stick,      \* axis -> its physical position
  dirty,      \* axes with an event not read yet
  keys,       \* keys pressed and not read yet
  device,     \* the joystick device: "closed", "open", or "lost"
  heading,    \* whether a fresh heading is available
  memory,     \* axis -> the position the service holds
  required,   \* _neutral_required
  pending,    \* _neutral_pending_axes
  last,       \* _last_drive or _last_mecanum
  blind,      \* _field_heading_unavailable
  session,    \* the joystick service's _session_id
  owner,      \* the manual service's _session_id
  speed,      \* motor -> the speed it runs at
  connected,  \* motors whose driver the repository holds
  joystick,   \* what the joystick thread does
  shutdown,   \* what the thread that stops the services does
  stopEvent,  \* _stop_event
  faults,     \* driver calls that raised
  centred,    \* history: axes at neutral at some moment since the last stop
  discarded   \* history: axes whose last event the stop button discarded

device_vars == <<stick, dirty, keys, device, heading>>
gate_vars   == <<memory, required, pending, blind>>
motor_vars  == <<speed, connected, faults>>

vars == <<stick, dirty, keys, device, heading, memory, required, pending, last,
          blind, session, owner, speed, connected, joystick, shutdown,
          stopEvent, faults, centred, discarded>>

-----------------------------------------------------------------------------
Neutral(m) == \A a \in TractionAxes : m[a] = 0
AwayFrom0(m) == {a \in TractionAxes : m[a] # 0}
Centre == [a \in Axes |-> 0]

(* Differential arcade mixing, and the Mecanum wheel equations. *)
Mix(m) ==
  IF Drive = "MECANUM"
  THEN [LLM |-> m.y + m.x + m.r, LMM |-> m.y - m.x + m.r,
        RLM |-> m.y - m.x - m.r, RMM |-> m.y + m.x - m.r]
  ELSE [LLM |-> m.y + m.r, RLM |-> m.y - m.r]

Still      == [w \in WheelSet |-> 0]
NoSetpoint == [w \in WheelSet |-> 9]     \* None, after a recentering
AtEase     == [m \in Motors |-> 0]

(* next: the position in the loop over motors; using: the session id it     *)
(* works with; then: where a nested call returns; holds: the state lock.    *)
At(pc, then) == [pc |-> pc, next |-> 1, using |-> None, then |-> then,
                 holds |-> FALSE]

(* prepare_start opens the joystick and acquires the motors first, with the *)
(* steps the loop repeats at every reconnection.                            *)
Init ==
  /\ stick     \in [Axes -> {0, 1}]
  /\ dirty     = {}
  /\ keys      = Unpressed
  /\ device    = "closed"
  /\ heading   \in IF FieldCentric THEN BOOLEAN ELSE {TRUE}
  /\ memory    = Centre
  /\ required  = FALSE
  /\ pending   = {}
  /\ last      = NoSetpoint
  /\ blind     = FALSE
  /\ session   = None
  /\ owner     = None
  /\ speed     = AtEase
  /\ connected = {}
  /\ joystick  = At("open", "settle")
  /\ shutdown  = [pc |-> "idle", using |-> None]
  /\ stopEvent = FALSE
  /\ faults    = 0
  /\ centred   = {a \in TractionAxes : stick[a] = 0}
  /\ discarded = {}

-----------------------------------------------------------------------------
(* The operator, the Bluetooth link and the gyro *)

PhysicallyNeutral == {a \in TractionAxes : stick[a] = 0}

Move(a) ==
  /\ stick' = [stick EXCEPT ![a] = 1 - @]
  /\ dirty' = IF device = "open" THEN dirty \cup {a} ELSE dirty
  /\ centred' = IF stick'[a] = 0 THEN centred \cup ({a} \cap TractionAxes)
                ELSE centred
  /\ UNCHANGED <<keys, device, heading, gate_vars, last, session, owner,
                 motor_vars, joystick, shutdown, stopEvent, discarded>>

Press(k) ==
  /\ device = "open"
  /\ k = "recenter" => FieldCentric
  /\ keys' = keys \cup {k}
  /\ UNCHANGED <<stick, dirty, device, heading, gate_vars, last, session,
                 owner, motor_vars, joystick, shutdown, stopEvent, centred,
                 discarded>>

LinkDrops ==
  /\ device = "open"
  /\ device' = "lost"
  /\ UNCHANGED <<stick, dirty, keys, heading, gate_vars, last, session, owner,
                 motor_vars, joystick, shutdown, stopEvent, centred,
                 discarded>>

HeadingChanges ==
  /\ FieldCentric
  /\ heading' = ~heading
  /\ UNCHANGED <<stick, dirty, keys, device, gate_vars, last, session, owner,
                 motor_vars, joystick, shutdown, stopEvent, centred,
                 discarded>>

HeadingMissing == FieldCentric /\ ~heading

-----------------------------------------------------------------------------
(* ManualDriveService and the motor repository *)

(* _stop_codes_locked on the motors ms, after the drivers `gone' were       *)
(* dropped by a call that raised: only motors with a driver are stopped,    *)
(* and a stop that raises drops the driver; the motor keeps its speed.      *)
Halts(ms, gone) ==
  \E raised \in SUBSET ((ms \cap connected) \ gone) :
    /\ faults' = faults + Cardinality(gone) + Cardinality(raised)
    /\ raised # {} => faults' <= MaxFaults
    /\ connected' = connected \ (gone \cup raised)
    /\ speed' = [m \in Motors |->
                   IF m \in ms \cap connected' THEN 0 ELSE speed[m]]

MayFault == faults < MaxFaults

(* The motors emergency_stop and release stop. *)
DifferentialCodes == {"LLM", "RLM"}    \* mutant: those of one mode
StoppedCodes == Motors

(* The lock of the manual service is held between two motors of a loop. *)
ManualFree == joystick.pc \notin {"motor", "wheel"}

Valid(id) == id # None /\ id = owner

(* release: the motors stop and the session ends, if it is the owner's. *)
Releases(id) ==
  IF Valid(id)
  THEN Halts(StoppedCodes, {}) /\ owner' = None
  ELSE UNCHANGED <<motor_vars, owner>>

-----------------------------------------------------------------------------
(* Connecting: _run, _prepare_new_connection, acquire *)

Goes(pc)  == joystick' = [joystick EXCEPT !.pc = pc]
Fails(pc) == joystick' = At(pc, "pause")
Returns   == joystick' = At("ready", "ready")

(* Raising anywhere in _run leads to _cleanup_connection. *)
Raises == Fails("cleanup")

Open ==
  /\ joystick.pc = "open"
  /\ \/ /\ device' = "open"
        /\ dirty' = {} /\ keys' = Unpressed
        /\ memory' = Centre
        /\ last' = Still
        /\ required' = TRUE
        /\ pending' = TractionAxes
        /\ centred' = PhysicallyNeutral
        /\ discarded' = {}
        /\ joystick' = At("acquire", "verify")
     \/ /\ Raises
        /\ UNCHANGED <<device, dirty, keys, memory, last, required, pending,
                       centred, discarded>>
  /\ UNCHANGED <<stick, heading, blind, session, owner, motor_vars, shutdown,
                 stopEvent>>

Fresh == CHOOSE id \in Sessions :
           id \notin {session, owner, joystick.using, shutdown.using}

Acquire ==
  /\ joystick.pc = "acquire"
  /\ IF owner # None
     THEN Raises
     ELSE joystick' = [joystick EXCEPT !.pc = "motor", !.next = 1, !.using = Fresh]
  /\ UNCHANGED <<device_vars, gate_vars, last, session, owner, motor_vars,
                 shutdown, stopEvent, centred, discarded>>

NextItemSkips(k) == k + 2              \* mutant: the loop skips motors
NextItem(k) == k + 1

(* ensure_connected and _prepare_connected_motor_locked on one motor: the   *)
(* driver cannot be made, then the motors before it are stopped; or its     *)
(* stop raises, which nobody catches before _run.                           *)
AcquireMotor ==
  LET k == joystick.next
      m == Controlled[k]
  IN
  /\ joystick.pc = "motor" /\ k \in DOMAIN Controlled
  /\ \/ /\ speed' = [speed EXCEPT ![m] = 0]
        /\ connected' = connected \cup {m}
        /\ joystick' = [joystick EXCEPT !.next = NextItem(k)]
        /\ UNCHANGED faults
     \/ /\ MayFault
        /\ m \notin connected
        /\ Halts({Controlled[j] : j \in 1..(k - 1)}, {m})
        /\ Raises
     \/ /\ MayFault
        /\ faults' = faults + 1
        /\ connected' = connected \cup {m}
        /\ Raises
        /\ UNCHANGED speed
  /\ UNCHANGED <<device_vars, gate_vars, last, session, owner, shutdown,
                 stopEvent, centred, discarded>>

(* The stop that ends acquire; if it fails, nobody owns the motors. *)
OwnerAfterAnyStop(id, stopped) == id   \* mutant: the owner stays
OwnerAfterStop(id, stopped) == IF stopped THEN id ELSE None

AcquireEnds ==
  /\ joystick.pc = "motor" /\ joystick.next > Len(Controlled)
  /\ Halts(Motors, {})
  /\ owner' = OwnerAfterStop(joystick.using, faults' = faults)
  /\ IF faults' = faults THEN Goes("assign") ELSE Raises
  /\ UNCHANGED <<device_vars, gate_vars, last, session, shutdown, stopEvent,
                 centred, discarded>>

Assign ==
  /\ joystick.pc = "assign"
  /\ session' = joystick.using
  /\ Goes(joystick.then)
  /\ UNCHANGED <<device_vars, gate_vars, last, owner, motor_vars, shutdown,
                 stopEvent, centred, discarded>>

-----------------------------------------------------------------------------
(* Startup neutral: _verify_runtime_dependencies, _wait_for_startup_neutral *)

Verify ==
  /\ joystick.pc = "verify"
  /\ IF HeadingMissing THEN Raises ELSE Goes("settle")
  /\ UNCHANGED <<device_vars, gate_vars, last, session, owner, motor_vars,
                 shutdown, stopEvent, centred, discarded>>

Blocked == AwayFrom0(memory) \cup pending

(* A snapshot discards what was queued; it is taken again and again until   *)
(* the axes stay at neutral for a while.                                    *)
Snapshot ==
  /\ joystick.pc = "settle"
  /\ device = "open" /\ ~stopEvent
  /\ dirty' = {} /\ keys' = Unpressed
  /\ memory' = [a \in Axes |-> IF a \in TractionAxes THEN stick[a] ELSE memory[a]]
  /\ pending' = AwayFrom0(stick)
  /\ discarded' = {}
  /\ UNCHANGED <<stick, device, heading, required, blind, last, session, owner,
                 motor_vars, joystick, shutdown, stopEvent, centred>>

Settled ==
  /\ joystick.pc = "settle"
  /\ ~stopEvent
  /\ Blocked = {}
  /\ required' = FALSE
  /\ Returns
  /\ UNCHANGED <<device_vars, memory, pending, blind, last, session, owner,
                 motor_vars, shutdown, stopEvent, centred, discarded>>

(* The device is gone or shutting down has begun: the loops end. *)
ReadFailsClosed == device = "closed"   \* mutant: the error of a lost link is dropped
ReadFails == device # "open"

ConnectionEnds ==
  /\ joystick.pc \in {"settle", "ready"}
  /\ stopEvent \/ ReadFails
  /\ Raises
  /\ UNCHANGED <<device_vars, gate_vars, last, session, owner, motor_vars,
                 shutdown, stopEvent, centred, discarded>>

-----------------------------------------------------------------------------
(* process_event_batch: all that is pending is read, the newest value of    *)
(* each axis.  The traction axes of a batch are one step, its hat another.  *)

Reads(pressed) ==
  /\ joystick.pc = "ready"
  /\ device = "open" /\ ~stopEvent
  /\ pressed

Merged == [a \in Axes |-> IF a \in dirty \cap TractionAxes THEN stick[a] ELSE memory[a]]

StillPending == IF required THEN pending \ {a \in dirty : stick[a] = 0} ELSE pending

NeutralForgotten == required           \* mutant: a stop leaves the gate as it is
NeutralNeeded == TRUE

(* Every stop demands neutral of the axes that are away from it. *)
RequireNeutral(m) == required' = NeutralNeeded /\ pending' = AwayFrom0(m)

(* The stop button has priority, and the rest of its batch is discarded.    *)
StopButton ==
  /\ Reads("stop" \in keys)
  /\ Halts(StoppedCodes, {})
  /\ last' = Still
  /\ RequireNeutral(memory)
  /\ centred' = PhysicallyNeutral
  /\ discarded' = discarded \cup {a \in dirty \cap TractionAxes : stick[a] # memory[a]}
  /\ dirty' = {} /\ keys' = Unpressed
  /\ UNCHANGED <<stick, device, heading, memory, blind, session, owner,
                 joystick, shutdown, stopEvent>>

(* _handle_field_recenter, at neutral and with a fresh heading. *)
LastAfterKeys ==
  IF "recenter" \in keys /\ heading /\ Neutral(Merged) THEN NoSetpoint ELSE last

Recenter ==
  /\ Reads(keys = {"recenter"} /\ dirty = {})
  /\ last' = LastAfterKeys
  /\ keys' = Unpressed
  /\ UNCHANGED <<stick, dirty, device, heading, gate_vars, session, owner,
                 motor_vars, joystick, shutdown, stopEvent, centred,
                 discarded>>

TractionRead ==
  /\ Reads("stop" \notin keys /\ dirty \cap TractionAxes # {})
  /\ memory' = Merged
  /\ dirty' = dirty \ TractionAxes /\ keys' = Unpressed
  /\ discarded' = discarded \ dirty
  /\ UNCHANGED <<stick, device, heading, session, owner, shutdown, stopEvent>>

(* Without a heading the traction stops, the first time. *)
TractionBlind ==
  /\ HeadingMissing
  /\ TractionRead
  /\ blind' = TRUE
  /\ IF blind
     THEN /\ pending' = StillPending
          /\ last' = LastAfterKeys
          /\ UNCHANGED <<required, motor_vars, centred>>
     ELSE /\ RequireNeutral(Merged)
          /\ Halts(StoppedCodes, {})
          /\ last' = Still
          /\ centred' = PhysicallyNeutral
  /\ UNCHANGED joystick

GateOpens == required => Neutral(Merged) /\ StillPending = {}

TractionHeld ==
  /\ ~HeadingMissing /\ ~GateOpens
  /\ TractionRead
  /\ blind' = FALSE
  /\ pending' = StillPending
  /\ last' = LastAfterKeys
  /\ UNCHANGED <<required, motor_vars, joystick, centred>>

TractionMoves ==
  /\ ~HeadingMissing /\ GateOpens
  /\ TractionRead
  /\ blind' = FALSE
  /\ required' = FALSE /\ pending' = {}
  /\ last' = LastAfterKeys
  /\ joystick' = [At(IF required /\ session = None THEN "acquire" ELSE "decide",
                     "decide") EXCEPT !.holds = TRUE]
  /\ UNCHANGED <<motor_vars, centred>>

Hat ==
  /\ Reads("stop" \notin keys /\ dirty = {"hat"})
  /\ memory' = [memory EXCEPT !["hat"] = stick["hat"]]
  /\ dirty' = {} /\ keys' = Unpressed
  /\ joystick' = IF required \/ session = None THEN joystick
                 ELSE [At("auxiliary", "ready") EXCEPT !.using = session]
  /\ UNCHANGED <<stick, device, heading, required, pending, blind, last,
                 session, owner, motor_vars, shutdown, stopEvent, centred,
                 discarded>>

-----------------------------------------------------------------------------
(* Setpoints: _update_drive, _dispatch_drive, apply_drive_setpoint, and the *)
(* same for Mecanum; apply_auxiliary_setpoint                               *)

Decide ==
  /\ joystick.pc = "decide"
  /\ last' = Mix(memory)
  /\ IF Mix(memory) # last /\ session # None
     THEN joystick' = [joystick EXCEPT !.pc = "drive", !.using = session]
     ELSE Returns
  /\ UNCHANGED <<device_vars, gate_vars, session, owner, motor_vars, shutdown,
                 stopEvent, centred, discarded>>

IgnoresRejection == "ready"            \* mutant: the result is not looked at
AfterRejection == "terminate"

DriveBegins ==
  /\ joystick.pc = "drive"
  /\ IF ~Valid(joystick.using)
     THEN Goes(AfterRejection) /\ UNCHANGED motor_vars
     ELSE IF Mix(memory) # Still
     THEN Goes("wheel") /\ UNCHANGED motor_vars
     ELSE /\ Halts(WheelSet, {})
          /\ IF WheelSet \subseteq connected' THEN Returns ELSE Goes(AfterRejection)
  /\ UNCHANGED <<device_vars, gate_vars, last, session, owner, shutdown,
                 stopEvent, centred, discarded>>

(* _apply_speed_locked succeeds: a motor to be stopped needs its driver, a  *)
(* motor to be run gets one.                                                *)
Runs(m, v) ==
  /\ v = 0 => m \in connected
  /\ speed' = [speed EXCEPT ![m] = v]
  /\ connected' = connected \cup {m}
  /\ UNCHANGED faults

(* It fails: there is no driver to stop with, or the driver raised. *)
FailsOn(m, v, stopped) ==
  \/ v = 0 /\ m \notin connected /\ Halts(stopped, {})
  \/ MayFault /\ (v = 0 => m \in connected) /\ Halts(stopped, {m})

(* One wheel after the other; if one fails, all of them are stopped. *)
Wheel ==
  LET k == joystick.next
      w == Wheels[k]
      v == Mix(memory)[w]
  IN
  /\ joystick.pc = "wheel"
  /\ \/ Runs(w, v) /\ IF k = Len(Wheels) THEN Returns
                      ELSE joystick' = [joystick EXCEPT !.next = k + 1]
     \/ FailsOn(w, v, WheelSet) /\ Goes(AfterRejection)
  /\ UNCHANGED <<device_vars, gate_vars, last, session, owner, shutdown,
                 stopEvent, centred, discarded>>

RunAuxiliary ==
  LET v == memory["hat"] IN
  /\ joystick.pc = "auxiliary"
  /\ IF Valid(joystick.using)
     THEN \/ Runs(Auxiliary, v) /\ Returns
          \/ FailsOn(Auxiliary, v, {}) /\ Goes("terminate")
     ELSE Goes("terminate") /\ UNCHANGED motor_vars
  /\ UNCHANGED <<device_vars, gate_vars, last, session, owner, shutdown,
                 stopEvent, centred, discarded>>

(* _terminate_manual_session, _invalidate_manual_session. *)
Terminate ==
  /\ joystick.pc = "terminate"
  /\ IF required /\ session = None
     THEN /\ Returns
          /\ UNCHANGED <<required, pending, last, session, motor_vars,
                         centred>>
     ELSE /\ RequireNeutral(memory)
          /\ last' = Still
          /\ session' = None
          /\ Halts(StoppedCodes, {})
          /\ joystick' = [joystick EXCEPT !.pc = "release", !.using = session,
                                          !.then = "ready"]
          /\ centred' = PhysicallyNeutral
  /\ UNCHANGED <<device_vars, memory, blind, owner, shutdown, stopEvent,
                 discarded>>

-----------------------------------------------------------------------------
(* _cleanup_connection *)

Cleanup ==
  /\ joystick.pc = "cleanup"
  /\ Halts(StoppedCodes, {})
  /\ last' = Still
  /\ Goes("letgo")
  /\ UNCHANGED <<device_vars, gate_vars, session, owner, shutdown, stopEvent,
                 centred, discarded>>

LetGo ==
  /\ joystick.pc = "letgo"
  /\ session' = None
  /\ joystick' = [joystick EXCEPT !.pc = "release", !.using = session]
  /\ UNCHANGED <<device_vars, gate_vars, last, owner, motor_vars, shutdown,
                 stopEvent, centred, discarded>>

ReleaseReturns ==
  /\ joystick.pc = "release"
  /\ joystick.then = "ready"
  /\ Releases(joystick.using)
  /\ Returns
  /\ UNCHANGED <<device_vars, gate_vars, last, session, shutdown, stopEvent,
                 centred, discarded>>

ReleaseCleans ==
  /\ joystick.pc = "release"
  /\ joystick.then = "pause"
  /\ Releases(joystick.using)
  /\ device' = "closed" /\ dirty' = {} /\ keys' = Unpressed
  /\ memory' = Centre
  /\ last' = Still
  /\ required' = TRUE /\ pending' = TractionAxes
  /\ Fails("pause")
  /\ UNCHANGED <<stick, heading, blind, session, shutdown, stopEvent, centred,
                 discarded>>

Pause ==
  /\ joystick.pc = "pause"
  /\ Goes(IF stopEvent THEN "ended" ELSE "open")
  /\ UNCHANGED <<device_vars, gate_vars, last, session, owner, motor_vars,
                 shutdown, stopEvent, centred, discarded>>

-----------------------------------------------------------------------------
(* Shutdown: JoystickControlService.stop, then ManualDriveService.close *)

ShutdownGoes(from, to) ==
  /\ shutdown.pc = from
  /\ shutdown' = [shutdown EXCEPT !.pc = to]
  /\ UNCHANGED <<stick, heading, gate_vars, joystick, centred, discarded>>

(* stop sets the event and closes the device under the reading thread. *)
ShutDown ==
  /\ MayShutDown
  /\ ShutdownGoes("idle", "halt")
  /\ stopEvent' = TRUE
  /\ device' = "closed" /\ dirty' = {} /\ keys' = Unpressed
  /\ UNCHANGED <<last, session, owner, motor_vars>>

(* emergency_stop, of stop and then of close. *)
ShutdownHalts ==
  /\ \/ ShutdownGoes("halt", "reset")
     \/ ShutdownGoes("closing", "disown")
  /\ ManualFree
  /\ Halts(StoppedCodes, {})
  /\ UNCHANGED <<dirty, keys, device, last, session, owner, stopEvent>>

ShutdownResets ==
  /\ ShutdownGoes("reset", "letgo")
  /\ ~joystick.holds
  /\ last' = Still
  /\ UNCHANGED <<dirty, keys, device, session, owner, motor_vars, stopEvent>>

ShutdownLetsGo ==
  /\ shutdown.pc = "letgo"
  /\ shutdown' = [pc |-> "release", using |-> session]
  /\ session' = None
  /\ UNCHANGED <<device_vars, gate_vars, last, owner, motor_vars, joystick,
                 stopEvent, centred, discarded>>

ShutdownReleases ==
  /\ ShutdownGoes("release", "join")
  /\ ManualFree
  /\ Releases(shutdown.using)
  /\ UNCHANGED <<dirty, keys, device, last, session, stopEvent>>

(* The joystick thread ends, or outlives the two seconds of the join. *)
ShutdownJoins ==
  /\ ShutdownGoes("join", "closing")
  /\ UNCHANGED <<dirty, keys, device, last, session, owner, motor_vars,
                 stopEvent>>

ShutdownDisowns ==
  /\ ShutdownGoes("disown", "done")
  /\ ManualFree
  /\ owner' = None
  /\ UNCHANGED <<dirty, keys, device, last, session, motor_vars, stopEvent>>

-----------------------------------------------------------------------------
OperatorStep == \/ \E a \in Axes : Move(a)
                \/ \E k \in Keys : Press(k)

ConnectStep == \/ Open \/ Acquire \/ AcquireMotor \/ AcquireEnds \/ Assign
               \/ Verify \/ Snapshot \/ Settled \/ ConnectionEnds

BatchStep == \/ StopButton \/ Recenter \/ TractionBlind \/ TractionHeld
             \/ TractionMoves \/ Hat

DriveStep == \/ Decide \/ DriveBegins \/ Wheel \/ RunAuxiliary \/ Terminate

CleanupStep == Cleanup \/ LetGo \/ ReleaseReturns \/ ReleaseCleans \/ Pause

JoystickStep == ConnectStep \/ BatchStep \/ DriveStep \/ CleanupStep

ShutdownStep ==
  \/ ShutDown \/ ShutdownHalts \/ ShutdownResets \/ ShutdownLetsGo
  \/ ShutdownReleases \/ ShutdownJoins \/ ShutdownDisowns

Next == OperatorStep \/ LinkDrops \/ HeadingChanges \/ JoystickStep \/ ShutdownStep

Spec == Init /\ [][Next]_vars

(* The joystick thread is scheduled; the operator, the link, the gyro and   *)
(* the shutdown do as they please.                                          *)
FairSpec == Spec /\ WF_vars(JoystickStep)

-----------------------------------------------------------------------------
(* Properties *)

JoystickPcs == {"open", "acquire", "motor", "assign", "verify", "settle",
                "ready", "decide", "drive", "wheel", "auxiliary", "terminate",
                "cleanup", "letgo", "release", "pause", "ended"}

(* The types of the variables; the gate has axes pending only while neutral *)
(* is required, and no loop leaves its motors.                              *)
TypeOK ==
  /\ stick \in [Axes -> {0, 1}] /\ memory \in [Axes -> {0, 1}]
  /\ dirty \subseteq Axes /\ keys \subseteq Keys
  /\ device \in {"closed", "open", "lost"}
  /\ heading \in BOOLEAN /\ required \in BOOLEAN /\ blind \in BOOLEAN
  /\ pending \subseteq TractionAxes
  /\ ~required => pending = {}
  /\ last \in [WheelSet -> -3..9]
  /\ session \in Sessions \cup {None} /\ owner \in Sessions \cup {None}
  /\ speed \in [Motors -> -3..3]
  /\ connected \subseteq Motors
  /\ joystick \in [pc : JoystickPcs, next : 1..(Len(Controlled) + 1),
                   using : Sessions \cup {None},
                   then : {"verify", "settle", "decide", "ready", "pause"},
                   holds : BOOLEAN]
  /\ shutdown \in [pc : {"idle", "halt", "reset", "letgo", "release", "join",
                         "closing", "disown", "done"},
                   using : Sessions \cup {None}]
  /\ stopEvent \in BOOLEAN
  /\ faults \in 0..MaxFaults
  /\ centred \subseteq TractionAxes /\ discarded \subseteq TractionAxes

(* A wheel never gets a new motion after a stop (the button, a lost heading,*)
(* a rejected setpoint, a lost link) before every traction axis has been at *)
(* neutral since that stop, unless the stop button discarded the last event *)
(* of an axis.                                                              *)
MovesOnlyAfterNeutral ==
  [][(\E w \in WheelSet : speed'[w] \notin {0, speed[w]})
       => TractionAxes \subseteq centred \cup discarded]_vars

(* Between two batches the wheels do what the last axis positions say, or   *)
(* stand still while neutral is required or the heading counts as missing:  *)
(* no stop, failed setpoint or new session leaves a wheel behind whose      *)
(* driver is there.                                                         *)
FollowsStick ==
  joystick.pc = "ready" /\ shutdown.pc = "idle" =>
    \A w \in WheelSet \cap connected :
      speed[w] = IF required \/ blind \/ session = None THEN 0 ELSE Mix(memory)[w]

(* No session is left behind in the manual service: a reconnection is not   *)
(* refused because of an owner that the joystick service has forgotten.     *)
NeverRefused == joystick.pc = "acquire" => owner = None

(* When both services are stopped every motor with a driver stands still,   *)
(* however far the joystick thread still was in applying a setpoint.  The   *)
(* one exception lasts until the thread has cleaned up: a motor that ran    *)
(* away with its driver (one call raised) gets a driver again in a late     *)
(* acquire, whose stop raises too.                                          *)
StoppedAfterShutdown ==
  shutdown.pc = "done" /\ (joystick.pc = "cleanup" => faults < 2) =>
    \A m \in connected : speed[m] = 0

(* A lost Bluetooth link stops every motor that has a driver. *)
LossStopsMotors ==
  device = "lost" ~> \A m \in connected : speed[m] = 0

(* While the missing heading counts as noticed, which suppresses a further  *)
(* stop, there is nothing to stop, also when the flag is left from an       *)
(* earlier connection.                                                      *)
BlindStandsStill ==
  blind /\ joystick.pc = "ready" =>
    \A w \in WheelSet \cap connected : speed[w] = 0
=============================================================================
