------------------------- MODULE ManualDrive_proofs -------------------------
(***************************************************************************)
(* Proofs about ManualDrive, for both drives, robot or field reference, any *)
(* number of driver faults, with and without a shutdown.                   *)
(***************************************************************************)
EXTENDS ManualDrive, FiniteSetTheorems, TLAPS

(* The motors and wheels of the two drives, and what the mixing gives. *)

\* There are two drives.
LEMMA Drives == Drive \in {"DIFFERENTIAL", "MECANUM"}
BY ConstantsAssumption

\* The wheels, motors and axes of the MECANUM drive.
LEMMA MecanumLayout ==
  ASSUME Drive = "MECANUM"
  PROVE  /\ WheelSet = {"LLM", "LMM", "RLM", "RMM"} /\ Motors = WheelSet
         /\ Len(Wheels) = 4 /\ DOMAIN Wheels = 1..4
         /\ Len(Controlled) = 4 /\ DOMAIN Controlled = 1..4
         /\ Axes = {"x", "y", "r"} /\ TractionAxes = Axes
BY DEF WheelSet, Motors, Controlled, Wheels, Axes, TractionAxes

\* The same for the DIFFERENTIAL drive, whose third motor is not a wheel.
LEMMA DifferentialLayout ==
  ASSUME Drive = "DIFFERENTIAL"
  PROVE  /\ WheelSet = {"LLM", "RLM"} /\ Motors = WheelSet \cup {"LMM"}
         /\ Len(Wheels) = 2 /\ DOMAIN Wheels = 1..2
         /\ Len(Controlled) = 3 /\ DOMAIN Controlled = 1..3
         /\ Axes = {"y", "r", "hat"} /\ TractionAxes = {"y", "r"}
BY DEF WheelSet, Motors, Controlled, Wheels, Auxiliary, Axes, TractionAxes

(* What every proof uses of the layouts. *)
LEMMA Layout ==
  /\ WheelSet \subseteq Motors /\ WheelSet # {}
  /\ TractionAxes \subseteq Axes /\ TractionAxes # {}
  /\ Len(Wheels) \in 2..4 /\ Len(Controlled) \in 3..4
  /\ \A k \in 1..Len(Wheels) : Wheels[k] \in WheelSet
  /\ \A w \in WheelSet : \E k \in 1..Len(Wheels) : Wheels[k] = w
  /\ \A j, k \in 1..Len(Wheels) : Wheels[j] = Wheels[k] => j = k
  /\ DOMAIN Controlled = 1..Len(Controlled)
  /\ \A k \in 1..Len(Controlled) : Controlled[k] \in Motors
  /\ Auxiliary \in Motors
  /\ Drive = "DIFFERENTIAL" => Auxiliary \notin WheelSet
  /\ "hat" \in Axes => Drive = "DIFFERENTIAL" /\ "hat" \notin TractionAxes
  /\ FieldCentric => Drive = "MECANUM"
<1>1. CASE Drive = "MECANUM"
  BY <1>1, MecanumLayout, ConstantsAssumption DEF Wheels, Controlled, Auxiliary
<1>2. CASE Drive = "DIFFERENTIAL"
  BY <1>2, DifferentialLayout, ConstantsAssumption DEF Wheels, Controlled, Auxiliary
<1> QED  BY <1>1, <1>2, Drives

\* The motors are finitely many.
LEMMA MotorsAreFinite == IsFiniteSet(Motors)
<1>1. IsFiniteSet({"LLM", "LMM", "RLM", "RMM"}) /\ IsFiniteSet({"LLM", "RLM", "LMM"})
  <2>1. IsFiniteSet({}) BY FS_EmptySet
  <2>2. IsFiniteSet({} \cup {"LLM"}) BY <2>1, FS_AddElement
  <2>3. IsFiniteSet({} \cup {"LLM"} \cup {"LMM"}) BY <2>2, FS_AddElement
  <2>4. IsFiniteSet({} \cup {"LLM"} \cup {"LMM"} \cup {"RLM"}) BY <2>3, FS_AddElement
  <2>5. IsFiniteSet({} \cup {"LLM"} \cup {"LMM"} \cup {"RLM"} \cup {"RMM"}) BY <2>4, FS_AddElement
  <2>6. /\ {"LLM", "LMM", "RLM", "RMM"} = {} \cup {"LLM"} \cup {"LMM"} \cup {"RLM"} \cup {"RMM"}
        /\ {"LLM", "RLM", "LMM"} = {} \cup {"LLM"} \cup {"LMM"} \cup {"RLM"}
    OBVIOUS
  <2> QED  BY <2>4, <2>5, <2>6
<1>2. Motors \in {{"LLM", "LMM", "RLM", "RMM"}, {"LLM", "RLM", "LMM"}}
  BY Drives, MecanumLayout, DifferentialLayout
<1> QED  BY <1>1, <1>2

\* The speeds mixed from the axes are those of wheels.
LEMMA MixTypes ==
  ASSUME NEW m \in [Axes -> {0, 1}]
  PROVE  Mix(m) \in [WheelSet -> -3..3]
<1>1. CASE Drive = "MECANUM"
  <2>1. m.x \in {0, 1} /\ m.y \in {0, 1} /\ m.r \in {0, 1}  BY <1>1, MecanumLayout
  <2> QED  BY <1>1, <2>1, MecanumLayout DEF Mix
<1>2. CASE Drive = "DIFFERENTIAL"
  <2>1. m.y \in {0, 1} /\ m.r \in {0, 1}  BY <1>2, DifferentialLayout
  <2> QED  BY <1>2, <2>1, DifferentialLayout DEF Mix
<1> QED  BY <1>1, <1>2, Drives

\* The speeds depend on the traction axes only.
LEMMA MixOfTraction ==
  ASSUME NEW m \in [Axes -> {0, 1}], NEW n \in [Axes -> {0, 1}],
         \A a \in TractionAxes : m[a] = n[a]
  PROVE  Mix(m) = Mix(n)
<1>1. CASE Drive = "MECANUM"
  BY <1>1, MecanumLayout DEF Mix
<1>2. CASE Drive = "DIFFERENTIAL"
  BY <1>2, DifferentialLayout DEF Mix
<1> QED  BY <1>1, <1>2, Drives

\* With the axes at neutral the wheels stand still.
LEMMA NeutralMixesToStill ==
  ASSUME NEW m \in [Axes -> {0, 1}], Neutral(m)
  PROVE  Mix(m) = Still
<1>1. CASE Drive = "MECANUM"
  <2>1. m.x = 0 /\ m.y = 0 /\ m.r = 0  BY <1>1, MecanumLayout DEF Neutral
  <2>2. Mix(m) = [LLM |-> 0, LMM |-> 0, RLM |-> 0, RMM |-> 0]  BY <1>1, <2>1 DEF Mix
  <2> QED  BY <1>1, <2>2, MecanumLayout DEF Still
<1>2. CASE Drive = "DIFFERENTIAL"
  <2>1. m.y = 0 /\ m.r = 0  BY <1>2, DifferentialLayout DEF Neutral
  <2>2. Mix(m) = [LLM |-> 0, RLM |-> 0]  BY <1>2, <2>1 DEF Mix
  <2> QED  BY <1>2, <2>2, DifferentialLayout DEF Still
<1> QED  BY <1>1, <1>2, Drives

\* The setpoints there are, and that no mixed one is taken for none.
LEMMA Setpoints ==
  /\ Still \in [WheelSet -> -3..9] /\ NoSetpoint \in [WheelSet -> -3..9]
  /\ \A w \in WheelSet : Still[w] = 0
  /\ \A m \in [Axes -> {0, 1}] : Mix(m) # NoSetpoint /\ Mix(m) \in [WheelSet -> -3..9]
  /\ Still # NoSetpoint
<1>1. PICK w \in WheelSet : TRUE  BY Layout
<1>2. NoSetpoint[w] = 9  BY DEF NoSetpoint
<1>3. \A m \in [Axes -> {0, 1}] : Mix(m)[w] \in -3..3 /\ Mix(m) \in [WheelSet -> -3..9]
  BY MixTypes
<1> QED  BY <1>2, <1>3 DEF Still, NoSetpoint

-----------------------------------------------------------------------------
(* What a sweep over the motors ms does, `gone' being the drivers dropped by *)
(* the call that raised before it.                                          *)

Swept(ms, gone) ==
  /\ connected' \subseteq connected \ gone
  /\ speed' \in [Motors -> -3..3]
  /\ \A m \in Motors : speed'[m] \in {0, speed[m]}
  /\ \A m \in ms \cap connected' : speed'[m] = 0
  /\ \A m \in Motors : m \notin ms => speed'[m] = speed[m]
  /\ faults' \in 0..MaxFaults /\ faults <= faults'
  /\ gone \cup (connected \ connected') # {} => faults' > 0

\* A loop of stops leaves the motors it reached still, but for the one that raised.
LEMMA HaltsSweeps ==
  ASSUME TypeOK, NEW ms \in SUBSET Motors, NEW gone \in SUBSET Motors,
         gone = {} \/ (MayFault /\ \E m \in Motors : gone = {m}),
         Halts(ms, gone)
  PROVE  Swept(ms, gone)
<1>1. PICK raised \in SUBSET ((ms \cap connected) \ gone) :
        /\ faults' = faults + Cardinality(gone) + Cardinality(raised)
        /\ raised # {} => faults' <= MaxFaults
        /\ connected' = connected \ (gone \cup raised)
        /\ speed' = [m \in Motors |-> IF m \in ms \cap connected' THEN 0 ELSE speed[m]]
  BY DEF Halts
<1>2. Cardinality(gone) \in Nat /\ Cardinality(raised) \in Nat
  BY MotorsAreFinite, FS_Subset, FS_CardinalityType DEF TypeOK
<1>3. /\ gone # {} => Cardinality(gone) = 1 /\ faults < MaxFaults
      /\ gone = {} => Cardinality(gone) = 0
  BY FS_Singleton, FS_EmptySet DEF MayFault
<1>4. raised # {} => Cardinality(raised) > 0
  BY <1>2, MotorsAreFinite, FS_Subset, FS_EmptySet DEF TypeOK
<1>5. raised = {} => Cardinality(raised) = 0
  BY FS_EmptySet
<1>6. faults' \in 0..MaxFaults /\ faults <= faults'
  BY <1>1, <1>2, <1>3, <1>5, ConstantsAssumption DEF TypeOK
<1>7. gone \cup (connected \ connected') # {} => faults' > 0
  <2> SUFFICES ASSUME gone # {} \/ raised # {} PROVE faults' > 0  BY <1>1
  <2> QED  BY <1>1, <1>2, <1>3, <1>4 DEF TypeOK
<1>8. speed' \in [Motors -> -3..3]
  BY <1>1 DEF TypeOK
<1> QED  BY <1>1, <1>6, <1>7, <1>8 DEF Swept, TypeOK

(* A sweep that follows no failed call. *)
LEMMA SweepsAll ==
  ASSUME TypeOK, NEW ms \in SUBSET Motors, Halts(ms, {})
  PROVE  Swept(ms, {})
BY HaltsSweeps

(* A failed setpoint stops the motors ms, after losing a driver or not.     *)
LEMMA FailureSweeps ==
  ASSUME TypeOK, NEW ms \in SUBSET Motors, NEW m \in Motors, NEW v, FailsOn(m, v, ms)
  PROVE  Swept(ms, {}) \/ Swept(ms, {m})
<1>1. CASE Halts(ms, {})  BY <1>1, SweepsAll
<1>2. CASE MayFault /\ Halts(ms, {m})  BY <1>2, HaltsSweeps
<1> QED  BY <1>1, <1>2 DEF FailsOn

\* Releasing a session stops all motors, when it is the session in force.
LEMMA ReleaseSweeps ==
  ASSUME TypeOK, NEW id, Releases(id)
  PROVE  \/ Valid(id) /\ Swept(Motors, {}) /\ owner' = None
         \/ ~Valid(id) /\ UNCHANGED <<motor_vars, owner>>
BY SweepsAll DEF Releases, StoppedCodes

-----------------------------------------------------------------------------
(* Types *)

ShutdownPcs == {"idle", "halt", "reset", "letgo", "release", "join", "closing",
                "disown", "done"}

Ids == Sessions \cup {None}

JoystickType == [pc : JoystickPcs, next : 1..(Len(Controlled) + 1), using : Ids,
                 then : {"verify", "settle", "decide", "ready", "pause"},
                 holds : BOOLEAN]

(* Of the axes, the gate and the device, everything but the sweeps moves.   *)
AxesTyped ==
  /\ stick \in [Axes -> {0, 1}] /\ memory \in [Axes -> {0, 1}]
  /\ dirty \subseteq Axes /\ keys \subseteq Keys
  /\ device \in {"closed", "open", "lost"}
  /\ heading \in BOOLEAN /\ required \in BOOLEAN /\ blind \in BOOLEAN
  /\ pending \subseteq TractionAxes
  /\ ~required => pending = {}
  /\ last \in [WheelSet -> -3..9]
  /\ stopEvent \in BOOLEAN
  /\ centred \subseteq TractionAxes /\ discarded \subseteq TractionAxes

MotorsTyped ==
  /\ speed \in [Motors -> -3..3]
  /\ connected \subseteq Motors
  /\ faults \in 0..MaxFaults

ThreadsTyped ==
  /\ session \in Ids /\ owner \in Ids
  /\ joystick \in JoystickType
  /\ shutdown \in [pc : ShutdownPcs, using : Ids]

\* The types, in three parts.
LEMMA TypeParts == TypeOK <=> AxesTyped /\ MotorsTyped /\ ThreadsTyped
BY DEF TypeOK, AxesTyped, MotorsTyped, ThreadsTyped, JoystickType, ShutdownPcs, Ids

\* The types hold at first.
LEMMA TypeInit == Init => TypeOK
<1> SUFFICES ASSUME Init PROVE TypeOK  OBVIOUS
<1>1. AxesTyped
  <2>1. stick \in [Axes -> {0, 1}] /\ memory \in [Axes -> {0, 1}]  BY DEF Init, Centre
  <2>2. heading \in BOOLEAN  BY DEF Init
  <2> QED  BY <2>1, <2>2, Setpoints DEF Init, AxesTyped, Unpressed
<1>2. MotorsTyped
  BY ConstantsAssumption DEF Init, MotorsTyped, AtEase
<1>3. ThreadsTyped
  BY Layout DEF Init, ThreadsTyped, JoystickType, ShutdownPcs, Ids, JoystickPcs, At, None
<1> QED  BY <1>1, <1>2, <1>3, TypeParts

-----------------------------------------------------------------------------
(* What the program counter of the joystick thread implies.                *)

Acquiring == joystick.pc \in {"acquire", "motor", "assign"}

(* A new connection before its first batch; and a batch being carried out,  *)
(* for which the motors may first be acquired again.                        *)
Connecting == (Acquiring /\ joystick.then = "verify") \/ joystick.pc \in {"verify", "settle"}
Applying   == \/ Acquiring /\ joystick.then = "decide"
              \/ joystick.pc \in {"decide", "drive", "wheel"}
Serving    == joystick.pc \in {"ready", "auxiliary", "terminate"} \/ Applying
Rejoining  == joystick.pc = "release" /\ joystick.then = "ready"

Flow ==
  /\ Acquiring => joystick.then \in {"verify", "decide"} /\ session = None
  /\ joystick.pc = "release" => joystick.then \in {"ready", "pause"}
  /\ joystick.pc \in {"cleanup", "letgo"} => joystick.then = "pause"
  /\ joystick.pc \in {"open", "release", "pause"} => session = None
  /\ joystick.pc \in {"motor", "assign"} => joystick.using # None
  /\ Connecting \/ Rejoining => required
  /\ Applying => joystick.holds /\ ~required
  /\ joystick.pc = "auxiliary" => Drive = "DIFFERENTIAL" /\ ~required
  /\ Acquiring /\ joystick.then = "decide" => Neutral(memory)
  /\ joystick.pc \in {"decide", "drive"} => joystick.next = 1 \/ Neutral(memory)
  /\ joystick.pc = "wheel" => joystick.next \in 1..Len(Wheels)
  /\ blind => FieldCentric /\ ~Applying /\ ~Rejoining /\ joystick.pc # "terminate"
  /\ shutdown.pc # "idle" => stopEvent

WellFormed == TypeOK /\ Flow

\* Every step keeps the types of stick, device and gate.
LEMMA AxesStep ==
  ASSUME WellFormed, [Next]_vars
  PROVE  AxesTyped'
<1>0. AxesTyped
  BY TypeParts DEF WellFormed
<1> USE <1>0, Layout DEF AxesTyped
<1>1. ASSUME NEW a \in Axes, Move(a) PROVE AxesTyped'  BY <1>1 DEF Move, gate_vars
<1>2. ASSUME NEW k \in Keys, Press(k) PROVE AxesTyped'  BY <1>2 DEF Press, gate_vars
<1>3. CASE LinkDrops  BY <1>3 DEF LinkDrops, gate_vars
<1>4. CASE HeadingChanges  BY <1>4 DEF HeadingChanges, gate_vars
<1>5. CASE ConnectStep
  <2>1. CASE Open
    <3>1. /\ memory' \in [Axes -> {0, 1}]
          /\ stick' = stick /\ heading' = heading /\ blind' = blind /\ stopEvent' = stopEvent
      BY <2>1 DEF Open, Centre
    <3>2. CASE UNCHANGED <<device, dirty, last, required, pending, centred, discarded>>
      BY <2>1, <3>1, <3>2 DEF Open, Unpressed
    <3>3. CASE /\ device' = "open" /\ dirty' = {} /\ last' = Still /\ required' = TRUE
               /\ pending' = TractionAxes /\ centred' = PhysicallyNeutral /\ discarded' = {}
      BY <2>1, <3>1, <3>3, Setpoints DEF Open, PhysicallyNeutral, Unpressed
    <3> QED  BY <2>1, <3>2, <3>3 DEF Open
  <2>2. CASE Snapshot
    <3>1. memory' \in [Axes -> {0, 1}]  BY <2>2 DEF Snapshot
    <3>2. required  BY <2>2 DEF Snapshot, WellFormed, Flow, Connecting
    <3> QED  BY <2>2, <3>1, <3>2 DEF Snapshot, AwayFrom0, Unpressed
  <2>3. CASE Settled  BY <2>3 DEF Settled, Blocked, device_vars
  <2>4. CASE Acquire \/ AcquireMotor
    BY <2>4 DEF Acquire, AcquireMotor, device_vars, gate_vars
  <2>5. CASE AcquireEnds \/ Assign
    BY <2>5 DEF AcquireEnds, Assign, device_vars, gate_vars
  <2>6. CASE Verify \/ ConnectionEnds
    BY <2>6 DEF Verify, ConnectionEnds, device_vars, gate_vars
  <2> HIDE DEF AxesTyped
  <2> QED  BY <1>5, <2>1, <2>2, <2>3, <2>4, <2>5, <2>6 DEF ConnectStep
<1>6. CASE BatchStep
  <2>1. /\ Merged \in [Axes -> {0, 1}]
        /\ LastAfterKeys \in [WheelSet -> -3..9]
        /\ StillPending \subseteq TractionAxes /\ (~required => StillPending = {})
        /\ PhysicallyNeutral \subseteq TractionAxes
    BY Setpoints DEF Merged, LastAfterKeys, StillPending, PhysicallyNeutral
  <2>2. CASE StopButton
    BY <2>1, <2>2, Setpoints DEF StopButton, Unpressed, RequireNeutral, NeutralNeeded, AwayFrom0
  <2>3. CASE Recenter
    BY <2>1, <2>3 DEF Recenter, Unpressed, gate_vars
  <2>4. CASE TractionBlind
    <3>1. /\ memory' \in [Axes -> {0, 1}] /\ dirty' \subseteq Axes /\ keys' \subseteq Keys
          /\ discarded' \subseteq TractionAxes /\ blind' = TRUE
          /\ UNCHANGED <<stick, device, heading, stopEvent>>
      BY <2>1, <2>4 DEF TractionBlind, TractionRead, Unpressed
    <3>2. /\ required' \in BOOLEAN /\ pending' \subseteq TractionAxes
          /\ ~required' => pending' = {}
      <4>1. \/ pending' = StillPending /\ required' = required
            \/ required' = TRUE /\ pending' = AwayFrom0(Merged)
        BY <2>4 DEF TractionBlind, RequireNeutral, NeutralNeeded
      <4>2. CASE pending' = StillPending /\ required' = required
        BY <2>1, <4>2
      <4>3. CASE required' = TRUE /\ pending' = AwayFrom0(Merged)
        BY <4>3 DEF AwayFrom0
      <4> QED  BY <4>1, <4>2, <4>3
    <3>3. last' \in {LastAfterKeys, Still} /\ centred' \in {centred, PhysicallyNeutral}
      BY <2>4 DEF TractionBlind
    <3>4. last' \in [WheelSet -> -3..9]
      BY <2>1, <3>3, Setpoints
    <3> QED  BY <2>1, <3>1, <3>2, <3>3, <3>4
  <2>5. CASE TractionHeld \/ TractionMoves
    BY <2>1, <2>5 DEF TractionHeld, TractionMoves, TractionRead, Unpressed
  <2>6. CASE Hat
    BY <2>6 DEF Hat, Unpressed
  <2> HIDE DEF AxesTyped
  <2> QED  BY <1>6, <2>2, <2>3, <2>4, <2>5, <2>6 DEF BatchStep
<1>7. CASE DriveStep
  <2>1. CASE Decide  BY <2>1, Setpoints DEF Decide, device_vars, gate_vars
  <2>2. CASE DriveBegins  BY <2>2 DEF DriveBegins, device_vars, gate_vars
  <2>3. CASE Wheel  BY <2>3 DEF Wheel, device_vars, gate_vars
  <2>4. CASE RunAuxiliary  BY <2>4 DEF RunAuxiliary, device_vars, gate_vars
  <2>5. CASE Terminate
    BY <2>5, Setpoints DEF Terminate, device_vars, AwayFrom0, PhysicallyNeutral, RequireNeutral,
       NeutralNeeded
  <2> HIDE DEF AxesTyped
  <2> QED  BY <1>7, <2>1, <2>2, <2>3, <2>4, <2>5 DEF DriveStep
<1>8. CASE CleanupStep
  <2>1. CASE Cleanup  BY <2>1, Setpoints DEF Cleanup, device_vars, gate_vars
  <2>2. CASE LetGo \/ ReleaseReturns \/ Pause
    BY <2>2 DEF LetGo, ReleaseReturns, Pause, device_vars, gate_vars
  <2>3. CASE ReleaseCleans  BY <2>3, Setpoints DEF ReleaseCleans, Centre, Unpressed
  <2> HIDE DEF AxesTyped
  <2> QED  BY <1>8, <2>1, <2>2, <2>3 DEF CleanupStep
<1>9. CASE ShutdownStep
  <2>1. CASE ShutDown \/ ShutdownResets
    BY <2>1, Setpoints DEF ShutDown, ShutdownResets, ShutdownGoes, gate_vars, Unpressed
  <2>2. CASE ShutdownHalts  BY <2>2 DEF ShutdownHalts, ShutdownGoes, gate_vars
  <2>3. CASE ShutdownLetsGo  BY <2>3 DEF ShutdownLetsGo, device_vars, gate_vars
  <2>4. CASE ShutdownReleases \/ ShutdownJoins \/ ShutdownDisowns
    BY <2>4 DEF ShutdownReleases, ShutdownJoins, ShutdownDisowns, ShutdownGoes, gate_vars
  <2> HIDE DEF AxesTyped
  <2> QED  BY <1>9, <2>1, <2>2, <2>3, <2>4 DEF ShutdownStep
<1>10. CASE UNCHANGED vars  BY <1>10 DEF vars
<1> HIDE DEF AxesTyped
<1> QED  BY <1>1, <1>2, <1>3, <1>4, <1>5, <1>6, <1>7, <1>8, <1>9, <1>10
            DEF Next, OperatorStep, JoystickStep

(* Every step sweeps, runs or connects a motor, or leaves the motors alone. *)
MotorsMove ==
  \/ UNCHANGED motor_vars
  \/ \E ms \in SUBSET Motors, gone \in SUBSET Motors : Swept(ms, gone)
  \/ \E m \in Motors, v \in -3..3 :
       /\ connected' = connected \cup {m}
       /\ speed' \in {speed, [speed EXCEPT ![m] = v]}
       /\ faults' \in {faults, faults + 1} /\ (faults' # faults => MayFault)

\* A motor that runs, and a sweep.
LEMMA MotorRuns ==
  ASSUME NEW m \in Motors, NEW v \in -3..3, connected' = connected \cup {m},
         speed' = [speed EXCEPT ![m] = v], faults' = faults
  PROVE  MotorsMove
BY DEF MotorsMove

LEMMA SweepMoves ==
  ASSUME NEW ms \in SUBSET Motors, NEW gone \in SUBSET Motors, Swept(ms, gone)
  PROVE  MotorsMove
BY DEF MotorsMove

\* A motor is connected and stopped, or its call fails and the motors before it stop.
LEMMA AcquireMotorMoves ==
  ASSUME WellFormed, AcquireMotor
  PROVE  MotorsMove
<1> DEFINE k == joystick.next
           m == Controlled[k]
           before == {Controlled[j] : j \in 1..(k - 1)}
<1>1. k \in 1..Len(Controlled) /\ m \in Motors /\ before \in SUBSET Motors /\ {m} \in SUBSET Motors
  BY TypeParts, Layout DEF WellFormed, AcquireMotor, ThreadsTyped, JoystickType
<1>2. \/ /\ connected' = connected \cup {m} /\ speed' = [speed EXCEPT ![m] = 0]
         /\ faults' = faults
      \/ /\ connected' = connected \cup {m} /\ speed' = speed
         /\ faults' = faults + 1 /\ MayFault
      \/ MayFault /\ Halts(before, {m})
  BY DEF AcquireMotor
<1> HIDE DEF m, before
<1>3. CASE /\ connected' = connected \cup {m} /\ speed' = [speed EXCEPT ![m] = 0]
           /\ faults' = faults
  <2>1. 0 \in -3..3
    OBVIOUS
  <2> QED  BY <1>1, <1>3, <2>1, MotorRuns
<1>4. CASE /\ connected' = connected \cup {m} /\ speed' = speed
           /\ faults' = faults + 1 /\ MayFault
  <2>1. 0 \in -3..3
    OBVIOUS
  <2> QED  BY <1>1, <1>4, <2>1 DEF MotorsMove
<1>5. CASE MayFault /\ Halts(before, {m})
  <2>1. Swept(before, {m})
    BY <1>1, <1>5, HaltsSweeps DEF WellFormed
  <2> QED  BY <1>1, <2>1, SweepMoves
<1> QED  BY <1>2, <1>3, <1>4, <1>5

\* A wheel runs, or its call fails and the wheels stop.
LEMMA WheelMoves ==
  ASSUME WellFormed, Wheel
  PROVE  MotorsMove
<1> DEFINE w == Wheels[joystick.next]
           v == Mix(memory)[w]
<1>1. joystick.next \in 1..Len(Wheels)
  BY DEF WellFormed, Wheel, Flow
<1>2. /\ w \in WheelSet /\ w \in Motors /\ {} \in SUBSET Motors /\ {w} \in SUBSET Motors
      /\ WheelSet \in SUBSET Motors
  BY <1>1, Layout
<1>3. v \in -3..3
  <2>1. memory \in [Axes -> {0, 1}]
    BY TypeParts DEF WellFormed, AxesTyped
  <2> QED  BY <1>2, <2>1, MixTypes
<1>4. Runs(w, v) \/ FailsOn(w, v, WheelSet)
  BY DEF Wheel
<1> HIDE DEF w, v
<1>5. CASE Runs(w, v)
  BY <1>2, <1>3, <1>5, MotorRuns DEF Runs
<1>6. CASE FailsOn(w, v, WheelSet)
  <2>1. Swept(WheelSet, {}) \/ Swept(WheelSet, {w})
    BY <1>2, <1>6, FailureSweeps DEF WellFormed
  <2> QED  BY <1>2, <2>1, SweepMoves
<1> QED  BY <1>4, <1>5, <1>6

\* Every step keeps the types of motors and owners.
LEMMA MotorsStep ==
  ASSUME WellFormed, [Next]_vars
  PROVE  MotorsTyped'
<1>1. MotorsMove
  <2>0. /\ TypeOK /\ Flow /\ AxesTyped /\ ThreadsTyped
    BY TypeParts DEF WellFormed, MotorsMove
  <2> USE <2>0, Layout DEF MotorsMove
  <2>1. CASE OperatorStep \/ LinkDrops \/ HeadingChanges
    BY <2>1 DEF OperatorStep, Move, Press, LinkDrops, HeadingChanges
  <2>2. CASE ConnectStep
    <3>1. CASE AcquireMotor  BY <3>1, AcquireMotorMoves
    <3>2. CASE AcquireEnds  BY <3>2, SweepsAll DEF AcquireEnds
    <3>3. CASE Open \/ Acquire \/ Assign \/ Verify \/ Snapshot \/ Settled \/ ConnectionEnds
      BY <3>3 DEF Open, Acquire, Assign, Verify, Snapshot, Settled, ConnectionEnds
    <3> QED  BY <2>2, <3>1, <3>2, <3>3 DEF ConnectStep
  <2>3. CASE BatchStep
    BY <2>3, SweepsAll DEF BatchStep, StopButton, Recenter, TractionBlind, TractionHeld,
       TractionMoves, Hat, StoppedCodes
  <2>4. CASE DriveStep
    <3>1. CASE Decide  BY <3>1 DEF Decide
    <3>2. CASE DriveBegins  BY <3>2, SweepsAll DEF DriveBegins
    <3>3. CASE Wheel  BY <3>3, WheelMoves
    <3>4. CASE RunAuxiliary
      <4> DEFINE v == memory["hat"]
      <4>1. v \in -3..3  BY <3>4, DifferentialLayout DEF RunAuxiliary, Flow, AxesTyped
      <4>2. CASE Runs(Auxiliary, v)  BY <4>1, <4>2 DEF Runs
      <4>3. CASE FailsOn(Auxiliary, v, {})
        <5>1. Swept({}, {}) \/ Swept({}, {Auxiliary})  BY <4>1, <4>3, FailureSweeps
        <5>2. {} \in SUBSET Motors /\ {Auxiliary} \in SUBSET Motors  OBVIOUS
        <5> QED  BY <5>1, <5>2
      <4> QED  BY <3>4, <4>2, <4>3 DEF RunAuxiliary
    <3>5. CASE Terminate  BY <3>5, SweepsAll DEF Terminate, StoppedCodes
    <3> QED  BY <2>4, <3>1, <3>2, <3>3, <3>4, <3>5 DEF DriveStep
  <2>5. CASE CleanupStep
    BY <2>5, SweepsAll, ReleaseSweeps
       DEF CleanupStep, Cleanup, LetGo, ReleaseReturns, ReleaseCleans, Pause, StoppedCodes
  <2>6. CASE ShutdownStep
    BY <2>6, SweepsAll, ReleaseSweeps
       DEF ShutdownStep, ShutDown, ShutdownHalts, ShutdownResets, ShutdownLetsGo,
           ShutdownReleases, ShutdownJoins, ShutdownDisowns, StoppedCodes
  <2>7. CASE UNCHANGED vars  BY <2>7 DEF vars, motor_vars
  <2> QED  BY <2>1, <2>2, <2>3, <2>4, <2>5, <2>6, <2>7 DEF Next, JoystickStep
<1>2. CASE UNCHANGED motor_vars
  BY <1>2, TypeParts DEF WellFormed, MotorsTyped, motor_vars
<1>3. CASE \E ms \in SUBSET Motors, gone \in SUBSET Motors : Swept(ms, gone)
  BY <1>3, TypeParts DEF WellFormed, MotorsTyped, Swept
<1>4. ASSUME NEW m \in Motors, NEW v \in -3..3,
             connected' = connected \cup {m},
             speed' \in {speed, [speed EXCEPT ![m] = v]},
             faults' \in {faults, faults + 1}, faults' # faults => MayFault
      PROVE  MotorsTyped'
  BY <1>4, TypeParts, ConstantsAssumption DEF WellFormed, MotorsTyped, MayFault
<1> QED  BY <1>1, <1>2, <1>3, <1>4 DEF MotorsMove

(* A session id that nobody holds: there are four, and three at most are in *)
(* use where one is taken.                                                  *)
LEMMA FreshIsNew ==
  ASSUME TypeOK, owner = None
  PROVE  Fresh \in Sessions /\ Fresh \notin {session, owner, joystick.using, shutdown.using}
<1>1. \E id \in Sessions : id \notin {session, owner, joystick.using, shutdown.using}
  BY DEF Sessions, None
<1> QED  BY <1>1 DEF Fresh

(* The joystick thread goes to pc and changes nothing else of its state, or *)
(* starts afresh there.                                                     *)
Moves(pc) ==
  /\ joystick' \in JoystickType
  /\ joystick'.pc = pc
  /\ joystick'.then = joystick.then /\ joystick'.next = joystick.next
  /\ joystick'.using = joystick.using /\ joystick'.holds = joystick.holds

Starts(pc, then) ==
  /\ joystick' \in JoystickType
  /\ joystick'.pc = pc /\ joystick'.then = then
  /\ joystick'.next = 1 /\ joystick'.using = None /\ joystick'.holds = FALSE

\* Going to a step changes nothing else of the thread's record.
LEMMA GoesMoves ==
  ASSUME joystick \in JoystickType, NEW pc \in JoystickPcs, Goes(pc)
  PROVE  Moves(pc)
BY DEF Goes, Moves, JoystickType

\* A record of a call that begins has its type.
LEMMA AtStarts ==
  ASSUME NEW pc \in JoystickPcs, NEW then \in {"verify", "settle", "decide", "ready", "pause"}
  PROVE  /\ At(pc, then) \in JoystickType
         /\ joystick' = At(pc, then) => Starts(pc, then)
<1>1. 1 \in 1..(Len(Controlled) + 1)  BY Layout
<1>2. At(pc, then) \in JoystickType  BY <1>1 DEF At, JoystickType, Ids
<1>3. ASSUME joystick' = At(pc, then) PROVE Starts(pc, then)
  <2>1. joystick' \in JoystickType  BY <1>2, <1>3
  <2>2. /\ joystick'.pc = pc /\ joystick'.then = then /\ joystick'.next = 1
        /\ joystick'.using = None /\ joystick'.holds = FALSE
    BY <1>3 DEF At
  <2> QED  BY <2>1, <2>2 DEF Starts
<1> QED  BY <1>2, <1>3

\* An error leads to the cleanup, a failed opening to the pause, a return to the next
\* batch.
LEMMA FailsStarts ==
  /\ Raises => Starts("cleanup", "pause")
  /\ Fails("pause") => Starts("pause", "pause")
  /\ Returns => Starts("ready", "ready")
BY AtStarts DEF Raises, Fails, Returns, JoystickPcs

\* Every step keeps the types of the threads.
LEMMA ThreadsStep ==
  ASSUME WellFormed, [Next]_vars
  PROVE  ThreadsTyped'
<1> USE TypeParts, Layout DEF ThreadsTyped, WellFormed
<1> DEFINE Typed == joystick' \in JoystickType
<1>1. CASE OperatorStep \/ LinkDrops \/ HeadingChanges
  BY <1>1 DEF OperatorStep, Move, Press, LinkDrops, HeadingChanges
<1>2. CASE ConnectStep
  <2>1. CASE Open
    <3>1. Typed  BY <2>1, AtStarts, FailsStarts DEF Open, JoystickPcs, Starts
    <3> QED  BY <2>1, <3>1 DEF Open
  <2>2. CASE Acquire
    <3>1. Typed
      <4>1. CASE owner # None  BY <2>2, <4>1, FailsStarts DEF Acquire, Starts
      <4>2. CASE owner = None
        <5>1. Fresh \in Ids /\ "motor" \in JoystickPcs  BY <4>2, FreshIsNew DEF Ids, JoystickPcs
        <5>2. joystick' = [joystick EXCEPT !.pc = "motor", !.next = 1, !.using = Fresh]
          BY <2>2, <4>2 DEF Acquire
        <5>3. 1 \in 1..(Len(Controlled) + 1)  OBVIOUS
        <5> QED  BY <5>1, <5>2, <5>3 DEF JoystickType
      <4> QED  BY <4>1, <4>2
    <3> QED  BY <2>2, <3>1 DEF Acquire
  <2>3. CASE AcquireMotor
    <3>1. Typed
      <4>1. CASE Raises  BY <4>1, FailsStarts DEF Starts
      <4>2. CASE ~Raises
        <5>1. joystick' = [joystick EXCEPT !.next = joystick.next + 1]
          BY <2>3, <4>2 DEF AcquireMotor, NextItem
        <5>2. joystick.next + 1 \in 1..(Len(Controlled) + 1)
          BY <2>3 DEF AcquireMotor, JoystickType
        <5> QED  BY <5>1, <5>2 DEF JoystickType
      <4> QED  BY <4>1, <4>2
    <3> QED  BY <2>3, <3>1 DEF AcquireMotor
  <2>4. CASE AcquireEnds
    <3>1. Typed  BY <2>4, FailsStarts, GoesMoves DEF AcquireEnds, Starts, Moves, JoystickPcs
    <3>2. owner' \in {None, joystick.using}  BY <2>4 DEF AcquireEnds, OwnerAfterStop
    <3> QED  BY <2>4, <3>1, <3>2 DEF AcquireEnds, JoystickType, Ids
  <2>5. CASE Assign
    <3>1. Typed  BY <2>5, GoesMoves DEF Assign, Moves, Flow, Acquiring, JoystickPcs
    <3> QED  BY <2>5, <3>1 DEF Assign, JoystickType
  <2>6. CASE Verify \/ ConnectionEnds \/ Settled \/ Snapshot
    <3>1. Typed
      BY <2>6, FailsStarts, GoesMoves
         DEF Verify, ConnectionEnds, Settled, Snapshot, Starts, Moves, JoystickPcs
    <3> QED  BY <2>6, <3>1 DEF Verify, ConnectionEnds, Settled, Snapshot
  <2> QED  BY <1>2, <2>1, <2>2, <2>3, <2>4, <2>5, <2>6 DEF ConnectStep
<1>3. CASE BatchStep
  <2>1. CASE StopButton \/ Recenter \/ TractionBlind \/ TractionHeld
    BY <2>1 DEF StopButton, Recenter, TractionBlind, TractionHeld, TractionRead
  <2>2. CASE TractionMoves
    <3>1. /\ At("acquire", "decide") \in JoystickType /\ At("decide", "decide") \in JoystickType
      BY AtStarts DEF JoystickPcs
    <3>2. Typed  BY <2>2, <3>1 DEF TractionMoves, JoystickType
    <3> QED  BY <2>2, <3>2 DEF TractionMoves, TractionRead
  <2>3. CASE Hat
    <3>1. At("auxiliary", "ready") \in JoystickType  BY AtStarts DEF JoystickPcs
    <3>2. Typed  BY <2>3, <3>1 DEF Hat, JoystickType
    <3> QED  BY <2>3, <3>2 DEF Hat
  <2> QED  BY <1>3, <2>1, <2>2, <2>3 DEF BatchStep
<1>4. CASE DriveStep
  <2>1. CASE Decide
    <3>1. Typed
      <4>1. CASE Returns  BY <4>1, FailsStarts DEF Starts
      <4>2. CASE ~Returns
        <5>1. joystick' = [joystick EXCEPT !.pc = "drive", !.using = session]
          BY <2>1, <4>2 DEF Decide
        <5> QED  BY <5>1 DEF JoystickType, JoystickPcs
      <4> QED  BY <4>1, <4>2
    <3> QED  BY <2>1, <3>1 DEF Decide
  <2>2. CASE DriveBegins
    <3>1. Typed
      BY <2>2, FailsStarts, GoesMoves DEF DriveBegins, Starts, Moves, AfterRejection, JoystickPcs
    <3> QED  BY <2>2, <3>1 DEF DriveBegins
  <2>3. CASE Wheel
    <3>1. joystick.next \in 1..Len(Wheels)  BY <2>3 DEF Wheel, Flow
    <3>2. joystick.next + 1 \in 1..(Len(Controlled) + 1)
      BY <2>3, <3>1, Drives, MecanumLayout, DifferentialLayout
    <3>3. CASE Returns \/ Goes(AfterRejection)
      <4>1. Typed
        BY <3>3, FailsStarts, GoesMoves DEF Starts, Moves, AfterRejection, JoystickPcs
      <4> QED  BY <2>3, <4>1 DEF Wheel
    <3>4. CASE ~(Returns \/ Goes(AfterRejection))
      <4>1. joystick' = [joystick EXCEPT !.next = joystick.next + 1]
        BY <2>3, <3>4 DEF Wheel
      <4>2. Typed  BY <3>2, <4>1 DEF JoystickType
      <4> QED  BY <2>3, <4>2 DEF Wheel
    <3> QED  BY <3>3, <3>4
  <2>4. CASE RunAuxiliary
    <3>1. Typed
      BY <2>4, FailsStarts, GoesMoves DEF RunAuxiliary, Starts, Moves, JoystickPcs
    <3> QED  BY <2>4, <3>1 DEF RunAuxiliary
  <2>5. CASE Terminate
    <3>1. Typed
      <4>1. CASE Returns  BY <4>1, FailsStarts DEF Starts
      <4>2. CASE ~Returns
        <5>1. joystick' = [joystick EXCEPT !.pc = "release", !.using = session, !.then = "ready"]
          BY <2>5, <4>2 DEF Terminate
        <5> QED  BY <5>1 DEF JoystickType, JoystickPcs
      <4> QED  BY <4>1, <4>2
    <3> QED  BY <2>5, <3>1 DEF Terminate, Ids
  <2> QED  BY <1>4, <2>1, <2>2, <2>3, <2>4, <2>5 DEF DriveStep
<1>5. CASE CleanupStep
  <2>1. CASE LetGo
    <3>1. Typed  BY <2>1 DEF LetGo, JoystickType, JoystickPcs
    <3> QED  BY <2>1, <3>1 DEF LetGo, Ids
  <2>2. CASE Cleanup \/ ReleaseReturns \/ ReleaseCleans \/ Pause
    <3>1. Typed
      BY <2>2, FailsStarts, GoesMoves
         DEF Cleanup, ReleaseReturns, ReleaseCleans, Pause, Starts, Moves, JoystickPcs
    <3>2. owner' \in {None, owner}
      BY <2>2 DEF Cleanup, ReleaseReturns, ReleaseCleans, Pause, Releases
    <3> QED  BY <2>2, <3>1, <3>2 DEF Cleanup, ReleaseReturns, ReleaseCleans, Pause, Ids
  <2> QED  BY <1>5, <2>1, <2>2 DEF CleanupStep
<1>6. CASE ShutdownStep
  BY <1>6 DEF ShutdownStep, ShutDown, ShutdownHalts, ShutdownResets, ShutdownLetsGo,
     ShutdownReleases, ShutdownJoins, ShutdownDisowns, ShutdownGoes, ShutdownPcs, Releases, Ids
<1>7. CASE UNCHANGED vars  BY <1>7 DEF vars
<1> QED  BY <1>1, <1>2, <1>3, <1>4, <1>5, <1>6, <1>7 DEF Next, JoystickStep

-----------------------------------------------------------------------------
(* What each action of the joystick thread does to its state and the motors. *)

(* The thread goes to pc within the loop it is in.                          *)
Continues(pc) ==
  /\ joystick'.pc = pc /\ joystick'.then = joystick.then
  /\ joystick'.holds = joystick.holds

\* The opening of the device raises, or begins a session with the gate closed.
LEMMA OpenGoes ==
  ASSUME Open
  PROVE  \/ /\ Starts("cleanup", "pause")
            /\ UNCHANGED <<device, dirty, memory, last, required, pending, centred, discarded>>
         \/ /\ Starts("acquire", "verify")
            /\ dirty' = {} /\ last' = Still /\ required' /\ pending' = TractionAxes
            /\ centred' = PhysicallyNeutral /\ discarded' = {}
BY AtStarts, FailsStarts DEF Open, JoystickPcs

\* Acquiring is refused while there is an owner.
LEMMA AcquireGoes ==
  ASSUME WellFormed, Acquire
  PROVE  \/ owner # None /\ Starts("cleanup", "pause")
         \/ owner = None /\ Continues("motor") /\ joystick'.using # None
<1>1. CASE owner # None  BY <1>1, FailsStarts DEF Acquire
<1>2. CASE owner = None
  <2>1. joystick' = [joystick EXCEPT !.pc = "motor", !.next = 1, !.using = Fresh]
    BY <1>2 DEF Acquire
  <2>2. Fresh # None  BY <1>2, FreshIsNew DEF WellFormed, Sessions, None
  <2>3. joystick \in JoystickType  BY TypeParts DEF WellFormed, ThreadsTyped
  <2> QED  BY <1>2, <2>1, <2>2, <2>3 DEF Continues, JoystickType
<1> QED  BY <1>1, <1>2

\* A motor that is connected stands still; one that raises ends the session.
LEMMA AcquireMotorGoes ==
  ASSUME WellFormed, AcquireMotor
  PROVE  \E m \in Motors :
           \/ /\ Continues("motor") /\ joystick'.using = joystick.using
              /\ speed' = [speed EXCEPT ![m] = 0]
              /\ connected' = connected \cup {m} /\ faults' = faults
           \/ /\ Starts("cleanup", "pause")
              /\ \E ms \in SUBSET Motors : Swept(ms, {m})
           \/ /\ Starts("cleanup", "pause")
              /\ speed' = speed
              /\ connected' = connected \cup {m} /\ faults' = faults + 1
<1> DEFINE k == joystick.next
           before == {Controlled[j] : j \in 1..(k - 1)}
<1>1. joystick \in JoystickType  BY TypeParts DEF WellFormed, ThreadsTyped
<1>2. /\ k \in 1..Len(Controlled) /\ Controlled[k] \in Motors
      /\ before \in SUBSET Motors
  BY <1>1, Layout DEF AcquireMotor, JoystickType
<1>3. CASE MayFault /\ Halts(before, {Controlled[k]}) /\ Raises
  <2>1. Swept(before, {Controlled[k]})  BY <1>2, <1>3, HaltsSweeps DEF WellFormed
  <2> QED  BY <1>2, <1>3, <2>1, FailsStarts
<1>4. CASE /\ speed' = [speed EXCEPT ![Controlled[k]] = 0]
           /\ connected' = connected \cup {Controlled[k]}
           /\ joystick' = [joystick EXCEPT !.next = NextItem(k)]
           /\ UNCHANGED faults
  <2>1. Continues("motor") /\ joystick'.using = joystick.using
    BY <1>1, <1>4 DEF AcquireMotor, Continues, JoystickType
  <2> QED  BY <1>2, <1>4, <2>1
<1> QED  BY <1>2, <1>3, <1>4, FailsStarts DEF AcquireMotor

\* At the end of acquiring all motors were stopped.
LEMMA AcquireEndsGoes ==
  ASSUME WellFormed, AcquireEnds
  PROVE  /\ Swept(Motors, {})
         /\ \/ Moves("assign") /\ owner' = joystick.using
            \/ Starts("cleanup", "pause") /\ owner' = None
<1>1. joystick \in JoystickType  BY TypeParts DEF WellFormed, ThreadsTyped
<1> QED  BY <1>1, SweepsAll, GoesMoves, FailsStarts
            DEF WellFormed, AcquireEnds, OwnerAfterStop, JoystickPcs

\* The session id is stored before the thread goes on.
LEMMA AssignGoes ==
  ASSUME WellFormed, Assign
  PROVE  Moves(joystick.then) /\ joystick.then \in {"verify", "decide"}
<1>1. joystick \in JoystickType  BY TypeParts DEF WellFormed, ThreadsTyped
<1> QED  BY <1>1, GoesMoves DEF WellFormed, Assign, Flow, Acquiring, JoystickPcs

\* The snapshot at startup is read, or the session ends.
LEMMA VerifyGoes ==
  ASSUME WellFormed, Verify
  PROVE  Moves("settle") \/ Starts("cleanup", "pause")
<1>1. joystick \in JoystickType  BY TypeParts DEF WellFormed, ThreadsTyped
<1> QED  BY <1>1, GoesMoves, FailsStarts DEF Verify, JoystickPcs

\* A batch with traction acquires a session first, when it needs one.
LEMMA TractionMovesGoes ==
  ASSUME TractionMoves
  PROVE  /\ joystick'.pc \in {"acquire", "decide"}
         /\ joystick'.pc = "acquire" <=> required /\ session = None
         /\ joystick'.then = "decide" /\ joystick'.next = 1 /\ joystick'.holds = TRUE
BY DEF TractionMoves, At

\* The auxiliary motor exists in the DIFFERENTIAL drive and needs an open gate.
LEMMA HatGoes ==
  ASSUME WellFormed, Hat
  PROVE  /\ Drive = "DIFFERENTIAL" /\ ~FieldCentric
         /\ \/ UNCHANGED joystick
            \/ /\ joystick'.pc = "auxiliary" /\ ~required /\ session # None
               /\ joystick'.using = session /\ joystick'.holds = FALSE
<1>1. Drive = "DIFFERENTIAL" /\ ~FieldCentric
  BY TypeParts, Layout, ConstantsAssumption DEF Hat, Reads, WellFormed, AxesTyped
<1> QED  BY <1>1, AtStarts DEF Hat, Starts, At

\* A setpoint is sent when it differs from the last.
LEMMA DecideGoes ==
  ASSUME WellFormed, Decide
  PROVE  \/ Starts("ready", "ready") /\ (Mix(memory) = last \/ session = None)
         \/ /\ Continues("drive") /\ session # None
            /\ joystick'.next = joystick.next /\ joystick'.using = session
<1>1. CASE Mix(memory) # last /\ session # None
  <2>1. joystick' = [joystick EXCEPT !.pc = "drive", !.using = session]
    BY <1>1 DEF Decide
  <2>2. joystick \in JoystickType  BY TypeParts DEF WellFormed, ThreadsTyped
  <2> QED  BY <1>1, <2>1, <2>2 DEF Continues, JoystickType
<1>2. CASE ~(Mix(memory) # last /\ session # None)
  BY <1>2, FailsStarts DEF Decide
<1> QED  BY <1>1, <1>2

\* A setpoint is refused, is a stop, or is sent wheel by wheel.
LEMMA DriveBeginsGoes ==
  ASSUME WellFormed, DriveBegins
  PROVE  \/ Moves("terminate") /\ (UNCHANGED motor_vars \/ Swept(WheelSet, {}))
         \/ Moves("wheel") /\ Valid(joystick.using) /\ joystick.next = 1 /\ UNCHANGED motor_vars
         \/ /\ Starts("ready", "ready") /\ Mix(memory) = Still
            /\ Swept(WheelSet, {}) /\ WheelSet \subseteq connected'
<1>1. joystick \in JoystickType /\ memory \in [Axes -> {0, 1}]
  BY TypeParts DEF WellFormed, ThreadsTyped, AxesTyped
<1>2. Mix(memory) # Still => joystick.next = 1
  BY <1>1, NeutralMixesToStill DEF WellFormed, Flow, DriveBegins
<1>3. ASSUME Halts(WheelSet, {}) PROVE Swept(WheelSet, {})
  BY <1>3, SweepsAll, Layout DEF WellFormed
<1>4. /\ Goes("terminate") => Moves("terminate")
      /\ Goes("wheel") => Moves("wheel")
  BY <1>1, GoesMoves DEF JoystickPcs
<1> QED  BY <1>2, <1>3, <1>4, FailsStarts DEF DriveBegins, AfterRejection

\* One wheel of a setpoint: the next follows, it was the last, or it raised and the
\* wheels were stopped.
LEMMA WheelGoes ==
  ASSUME WellFormed, Wheel
  PROVE  \E k \in 1..Len(Wheels) :
           /\ k = joystick.next /\ Mix(memory)[Wheels[k]] \in -3..3
           /\ \/ Runs(Wheels[k], Mix(memory)[Wheels[k]]) /\ k = Len(Wheels) /\ Starts("ready", "ready")
              \/ /\ Runs(Wheels[k], Mix(memory)[Wheels[k]])
                 /\ Continues("wheel") /\ joystick'.using = joystick.using
                 /\ joystick'.next = k + 1 /\ k + 1 \in 1..Len(Wheels)
              \/ Moves("terminate") /\ (Swept(WheelSet, {}) \/ Swept(WheelSet, {Wheels[k]}))
<1> DEFINE k == joystick.next
           v == Mix(memory)[Wheels[k]]
<1>1. joystick \in JoystickType /\ memory \in [Axes -> {0, 1}]
  BY TypeParts DEF WellFormed, ThreadsTyped, AxesTyped
<1>2. k \in 1..Len(Wheels)  BY DEF WellFormed, Flow, Wheel
<1>3. Wheels[k] \in WheelSet /\ WheelSet \in SUBSET Motors /\ v \in -3..3
  <2>1. Wheels[k] \in WheelSet /\ WheelSet \in SUBSET Motors
    BY <1>2, Layout
  <2> QED  BY <1>1, <2>1, MixTypes
<1>4. CASE Goes("terminate") /\ FailsOn(Wheels[k], v, WheelSet)
  <2>1. Swept(WheelSet, {}) \/ Swept(WheelSet, {Wheels[k]})
    BY <1>3, <1>4, FailureSweeps DEF WellFormed
  <2>2. Moves("terminate")  BY <1>1, <1>4, GoesMoves DEF JoystickPcs
  <2> QED  BY <1>2, <1>3, <2>1, <2>2
<1>5. CASE Runs(Wheels[k], v) /\ k = Len(Wheels) /\ Returns
  BY <1>2, <1>3, <1>5, FailsStarts
<1>6. CASE Runs(Wheels[k], v) /\ k # Len(Wheels) /\ joystick' = [joystick EXCEPT !.next = k + 1]
  <2>1. Continues("wheel") /\ joystick'.using = joystick.using /\ joystick'.next = k + 1
    BY <1>1, <1>6 DEF Wheel, Continues, JoystickType
  <2>2. k + 1 \in 1..Len(Wheels)  BY <1>2, <1>6, Layout
  <2> QED  BY <1>2, <1>3, <1>6, <2>1, <2>2
<1> QED  BY <1>4, <1>5, <1>6 DEF Wheel, AfterRejection

\* The auxiliary motor runs, or the session is terminated.
LEMMA RunAuxiliaryGoes ==
  ASSUME WellFormed, RunAuxiliary
  PROVE  \/ /\ Starts("ready", "ready") /\ Valid(joystick.using)
            /\ memory["hat"] \in -3..3 /\ Runs(Auxiliary, memory["hat"])
         \/ /\ Moves("terminate")
            /\ UNCHANGED motor_vars \/ Swept({}, {}) \/ Swept({}, {Auxiliary})
<1>1. joystick \in JoystickType  BY TypeParts DEF WellFormed, ThreadsTyped
<1>2. memory["hat"] \in -3..3
  BY TypeParts, DifferentialLayout DEF WellFormed, RunAuxiliary, Flow, AxesTyped
<1>3. Goes("terminate") => Moves("terminate")  BY <1>1, GoesMoves DEF JoystickPcs
<1>4. ASSUME FailsOn(Auxiliary, memory["hat"], {})
      PROVE  Swept({}, {}) \/ Swept({}, {Auxiliary})
  BY <1>4, FailureSweeps, Layout DEF WellFormed
<1> QED  BY <1>2, <1>3, <1>4, FailsStarts DEF RunAuxiliary

\* A termination stops all motors and closes the gate.
LEMMA TerminateGoes ==
  ASSUME WellFormed, Terminate
  PROVE  \/ /\ Starts("ready", "ready") /\ required /\ session = None
            /\ UNCHANGED <<required, pending, last, session, motor_vars, centred>>
         \/ /\ Swept(Motors, {})
            /\ joystick'.pc = "release" /\ joystick'.then = "ready"
            /\ joystick'.using = session /\ joystick'.holds = joystick.holds
            /\ session' = None /\ required' /\ last' = Still /\ centred' = PhysicallyNeutral
<1>1. CASE required /\ session = None  BY <1>1, FailsStarts DEF Terminate
<1>2. CASE ~(required /\ session = None)
  <2>1. joystick' = [joystick EXCEPT !.pc = "release", !.using = session, !.then = "ready"]
    BY <1>2 DEF Terminate
  <2>2. joystick \in JoystickType  BY TypeParts DEF WellFormed, ThreadsTyped
  <2>3. Swept(Motors, {})  BY <1>2, SweepsAll DEF Terminate, StoppedCodes, WellFormed
  <2> QED  BY <1>2, <2>1, <2>2, <2>3
              DEF Terminate, RequireNeutral, NeutralNeeded, JoystickType
<1> QED  BY <1>1, <1>2

\* The cleanup stops all motors.
LEMMA CleanupGoes ==
  ASSUME WellFormed, Cleanup
  PROVE  Moves("letgo") /\ Swept(Motors, {})
<1>1. joystick \in JoystickType  BY TypeParts DEF WellFormed, ThreadsTyped
<1> QED  BY <1>1, GoesMoves, SweepsAll DEF WellFormed, Cleanup, StoppedCodes, JoystickPcs

\* Then the session is released.
LEMMA LetGoGoes ==
  ASSUME WellFormed, LetGo
  PROVE  Continues("release") /\ joystick'.using = session
<1>1. joystick \in JoystickType  BY TypeParts DEF WellFormed, ThreadsTyped
<1> QED  BY <1>1 DEF LetGo, Continues, JoystickType

\* After the pause the thread opens again, or ends.
LEMMA PauseGoes ==
  ASSUME WellFormed, Pause
  PROVE  Moves(IF stopEvent THEN "ended" ELSE "open")
<1>1. joystick \in JoystickType  BY TypeParts DEF WellFormed, ThreadsTyped
<1> QED  BY <1>1, GoesMoves DEF Pause, JoystickPcs

(* The release that ends a rejected session, and the one of a cleanup.      *)
LEMMA ReleaseGoes ==
  /\ ReleaseReturns => Starts("ready", "ready")
  /\ ReleaseCleans => Starts("pause", "pause")
BY FailsStarts DEF ReleaseReturns, ReleaseCleans

\* A lost link leads to the cleanup.
LEMMA ConnectionEndsGoes ==
  ASSUME ConnectionEnds
  PROVE  Starts("cleanup", "pause")
BY FailsStarts DEF ConnectionEnds

\* Hence every step keeps the types.
LEMMA TypesStep ==
  ASSUME WellFormed, [Next]_vars
  PROVE  TypeOK'
<1>1. AxesTyped' /\ MotorsTyped' /\ ThreadsTyped'  BY AxesStep, MotorsStep, ThreadsStep
<1> QED  BY <1>1, TypeParts DEF AxesTyped, MotorsTyped, ThreadsTyped, TypeOK, JoystickType,
         ShutdownPcs, Ids

FlowVars == <<session, joystick, required, memory, blind, shutdown, stopEvent>>

\* No call is under way at first.
LEMMA FlowInit == Init => Flow
BY DEF Init, Flow, At, Acquiring, Connecting, Applying, Rejoining

\* Every step keeps what is known of a call by its step.
LEMMA FlowStep ==
  ASSUME WellFormed, [Next]_vars
  PROVE  Flow'
<1> USE Layout DEF WellFormed, Flow, Acquiring, Connecting, Applying, Rejoining
<1>1. joystick \in JoystickType /\ memory \in [Axes -> {0, 1}]
  BY TypeParts DEF ThreadsTyped, AxesTyped
<1>2. CASE UNCHANGED FlowVars
  BY <1>2 DEF FlowVars, Neutral
<1>3. CASE OperatorStep \/ LinkDrops \/ HeadingChanges \/ UNCHANGED vars
  BY <1>2, <1>3 DEF OperatorStep, Move, Press, LinkDrops, HeadingChanges, vars, gate_vars, FlowVars
<1>4. CASE ConnectStep
  <2> USE DEF device_vars, gate_vars, Starts, Moves, Continues, Neutral
  <2>1. CASE Open  BY <2>1, OpenGoes DEF Open
  <2>2. CASE Acquire  BY <2>2, AcquireGoes DEF Acquire
  <2>3. CASE AcquireMotor  BY <2>3, AcquireMotorGoes DEF AcquireMotor
  <2>4. CASE AcquireEnds  BY <2>4, AcquireEndsGoes DEF AcquireEnds
  <2>5. CASE Assign  BY <2>5, AssignGoes DEF Assign
  <2>6. CASE Verify  BY <2>6, VerifyGoes DEF Verify
  <2>7. CASE Snapshot  BY <2>7 DEF Snapshot
  <2>8. CASE Settled  BY <2>8, FailsStarts DEF Settled
  <2>9. CASE ConnectionEnds  BY <2>9, ConnectionEndsGoes DEF ConnectionEnds
  <2> QED  BY <1>4, <2>1, <2>2, <2>3, <2>4, <2>5, <2>6, <2>7, <2>8, <2>9 DEF ConnectStep
<1>5. CASE BatchStep
  <2>1. CASE StopButton \/ Recenter \/ TractionHeld
    BY <2>1 DEF StopButton, Recenter, TractionHeld, TractionRead, Reads, RequireNeutral, gate_vars
  <2>2. CASE TractionBlind
    BY <2>2 DEF TractionBlind, TractionRead, Reads, HeadingMissing
  <2>3. CASE TractionMoves
    <3>1. required => Neutral(memory')
      BY <2>3 DEF TractionMoves, TractionRead, GateOpens, Neutral
    <3>2. ~required' /\ ~blind'  BY <2>3 DEF TractionMoves
    <3> QED  BY <2>3, <3>1, <3>2, TractionMovesGoes DEF TractionMoves, TractionRead, Neutral
  <2>4. CASE Hat  BY <2>4, HatGoes DEF Hat, Reads, Starts
  <2> QED  BY <1>5, <2>1, <2>2, <2>3, <2>4 DEF BatchStep
<1>6. CASE DriveStep
  <2> USE DEF device_vars, gate_vars, Starts, Moves, Continues, Neutral
  <2>1. CASE Decide  BY <2>1, DecideGoes DEF Decide
  <2>2. CASE DriveBegins
    <3>1. CASE Moves("wheel") /\ joystick.next = 1  BY <2>2, <3>1 DEF DriveBegins
    <3>2. CASE Moves("terminate") \/ Starts("ready", "ready")  BY <2>2, <3>2 DEF DriveBegins
    <3> HIDE DEF Moves, Starts
    <3> QED  BY <2>2, <3>1, <3>2, DriveBeginsGoes
  <2>3. CASE Wheel
    <3>1. \/ Starts("ready", "ready") \/ Moves("terminate")
          \/ Continues("wheel") /\ joystick'.next \in 1..Len(Wheels)
      BY <2>3, WheelGoes
    <3> QED  BY <2>3, <3>1 DEF Wheel
  <2>4. CASE RunAuxiliary
    <3>1. ~blind  BY <2>4, ConstantsAssumption DEF RunAuxiliary
    <3> QED  BY <2>4, <3>1, RunAuxiliaryGoes DEF RunAuxiliary
  <2>5. CASE Terminate  BY <2>5, TerminateGoes DEF Terminate
  <2> QED  BY <1>6, <2>1, <2>2, <2>3, <2>4, <2>5 DEF DriveStep
<1>7. CASE CleanupStep
  <2> USE DEF device_vars, gate_vars, Starts, Moves, Continues
  <2>1. CASE Cleanup  BY <2>1, CleanupGoes DEF Cleanup
  <2>2. CASE LetGo  BY <2>2, LetGoGoes DEF LetGo
  <2>3. CASE ReleaseReturns  BY <2>3, ReleaseGoes DEF ReleaseReturns
  <2>4. CASE ReleaseCleans  BY <2>4, ReleaseGoes DEF ReleaseCleans
  <2>5. CASE Pause  BY <2>5, PauseGoes DEF Pause
  <2> QED  BY <1>7, <2>1, <2>2, <2>3, <2>4, <2>5 DEF CleanupStep
<1>8. CASE ShutdownStep
  <2>1. /\ UNCHANGED <<joystick, required, memory, blind>>
        /\ session' \in {session, None} /\ stopEvent'
    BY <1>8, TypeParts
       DEF ShutdownStep, ShutDown, ShutdownHalts, ShutdownResets, ShutdownLetsGo, ShutdownReleases,
           ShutdownJoins, ShutdownDisowns, ShutdownGoes, gate_vars, AxesTyped
  <2> QED  BY <2>1 DEF Neutral
<1> QED  BY <1>3, <1>4, <1>5, <1>6, <1>7, <1>8 DEF Next, JoystickStep

\* Hence WellFormed always holds.
LEMMA WellFormedInvariant == Spec => []WellFormed
<1>1. Init => WellFormed  BY TypeInit, FlowInit DEF WellFormed
<1>2. WellFormed /\ [Next]_vars => WellFormed'
  BY TypesStep, FlowStep DEF WellFormed
<1> QED  BY <1>1, <1>2, PTL DEF Spec

(* Types of the variables, for every operation mode, any number of driver   *)
(* faults, with and without a shutdown.                                     *)
THEOREM TypesCorrect == Spec => []TypeOK
BY WellFormedInvariant, PTL DEF WellFormed

-----------------------------------------------------------------------------
(* Who owns the motors: the session of the manual service is the one of the *)
(* joystick service, or about to be stored there, or about to be released.  *)

Owners ==
  /\ \/ owner \in {None, session} \/ stopEvent
     \/ joystick.pc \in {"assign", "release"} /\ owner = joystick.using
  /\ joystick.pc \in {"open", "acquire", "motor"} => owner = None
  /\ joystick.pc = "pause" => owner = None \/ stopEvent
  /\ joystick.pc = "assign" => owner \in {None, joystick.using}

\* Every step keeps Owners.
LEMMA OwnersStep ==
  ASSUME WellFormed, Owners, [Next]_vars
  PROVE  Owners'
<1> USE DEF Owners
<1>1. CASE UNCHANGED <<joystick, session, owner>> /\ (stopEvent => stopEvent')
  BY <1>1
<1>2. CASE OperatorStep \/ LinkDrops \/ HeadingChanges \/ UNCHANGED vars
  BY <1>1, <1>2 DEF OperatorStep, Move, Press, LinkDrops, HeadingChanges, vars
<1>3. CASE ConnectStep
  <2> USE DEF Starts, Moves, Continues, Flow, Acquiring, WellFormed
  <2>1. CASE Open  BY <2>1, OpenGoes DEF Open
  <2>2. CASE Acquire  BY <2>2, AcquireGoes DEF Acquire
  <2>3. CASE AcquireMotor  BY <2>3, AcquireMotorGoes DEF AcquireMotor
  <2>4. CASE AcquireEnds  BY <2>4, AcquireEndsGoes DEF AcquireEnds
  <2>5. CASE Assign  BY <2>5, AssignGoes DEF Assign
  <2>6. CASE Verify  BY <2>6, VerifyGoes DEF Verify
  <2>7. CASE Snapshot  BY <2>7 DEF Snapshot
  <2>8. CASE Settled  BY <2>8, FailsStarts DEF Settled
  <2>9. CASE ConnectionEnds  BY <2>9, ConnectionEndsGoes DEF ConnectionEnds
  <2> QED  BY <1>3, <2>1, <2>2, <2>3, <2>4, <2>5, <2>6, <2>7, <2>8, <2>9 DEF ConnectStep
<1>4. CASE BatchStep
  <2>1. CASE StopButton \/ Recenter \/ TractionHeld \/ TractionBlind
    BY <2>1 DEF StopButton, Recenter, TractionHeld, TractionBlind, TractionRead
  <2>2. CASE TractionMoves
    BY <2>2, TractionMovesGoes DEF TractionMoves, TractionRead, Reads
  <2>3. CASE Hat  BY <2>3, HatGoes DEF Hat, Reads, Starts
  <2> QED  BY <1>4, <2>1, <2>2, <2>3 DEF BatchStep
<1>5. CASE DriveStep
  <2> USE DEF Starts, Moves, Continues
  <2>1. CASE Decide  BY <2>1, DecideGoes DEF Decide
  <2>2. CASE DriveBegins  BY <2>2, DriveBeginsGoes DEF DriveBegins
  <2>3. CASE Wheel  BY <2>3, WheelGoes DEF Wheel
  <2>4. CASE RunAuxiliary  BY <2>4, RunAuxiliaryGoes DEF RunAuxiliary
  <2>5. CASE Terminate  BY <2>5, TerminateGoes DEF Terminate
  <2> QED  BY <1>5, <2>1, <2>2, <2>3, <2>4, <2>5 DEF DriveStep
<1>6. CASE CleanupStep
  <2> USE DEF Starts, Moves, Continues, Flow, WellFormed
  <2>1. CASE Cleanup  BY <2>1, CleanupGoes DEF Cleanup
  <2>2. CASE LetGo  BY <2>2, LetGoGoes DEF LetGo
  <2>3. CASE ReleaseReturns
    BY <2>3, ReleaseGoes, ReleaseSweeps DEF ReleaseReturns, Valid
  <2>4. CASE ReleaseCleans
    BY <2>4, ReleaseGoes, ReleaseSweeps DEF ReleaseCleans, Valid
  <2>5. CASE Pause  BY <2>5, PauseGoes DEF Pause
  <2> QED  BY <1>6, <2>1, <2>2, <2>3, <2>4, <2>5 DEF CleanupStep
<1>7. CASE ShutdownStep
  <2>1. joystick' = joystick /\ owner' \in {owner, None} /\ stopEvent'
    BY <1>7, ReleaseSweeps
       DEF ShutdownStep, ShutDown, ShutdownHalts, ShutdownResets, ShutdownLetsGo, ShutdownReleases,
           ShutdownJoins, ShutdownDisowns, ShutdownGoes, WellFormed, Flow
  <2> QED  BY <2>1
<1> QED  BY <1>2, <1>3, <1>4, <1>5, <1>6, <1>7 DEF Next, JoystickStep

(* A reconnection, or a session that is taken up again, never finds the     *)
(* motors owned by a session the joystick service has forgotten, also when  *)
(* a shutdown takes the session away in the middle.                         *)
THEOREM NeverRefusedTheorem == Spec => []NeverRefused
<1>1. Init => Owners  BY DEF Init, Owners, At
<1>2. WellFormed /\ Owners /\ [Next]_vars => Owners'  BY OwnersStep
<1>3. Owners => NeverRefused  BY DEF Owners, NeverRefused
<1> QED  BY <1>1, <1>2, <1>3, WellFormedInvariant, PTL DEF Spec

-----------------------------------------------------------------------------
(* The neutral gate.  An axis is known to have been at neutral since the    *)
(* last stop, or its last event was discarded, whenever motion is allowed.  *)

AllNeutralOnce == TractionAxes \subseteq centred \cup discarded

Gate ==
  /\ PhysicallyNeutral \subseteq centred
  /\ Connecting => TractionAxes \subseteq pending \cup centred
  /\ Connecting => discarded = {}
  /\ Serving /\ ~required => AllNeutralOnce
  /\ Connecting \/ (Serving /\ ~required) => dirty \cap TractionAxes \subseteq centred
  /\ device = "open" /\ (Connecting \/ Serving \/ Rejoining) =>
       \A a \in TractionAxes :
         \/ memory[a] = stick[a] \/ a \in dirty \/ a \in discarded
         \/ Connecting /\ a \in pending

GateVars == <<stick, dirty, device, memory, required, pending, centred, discarded>>

(* The thread moves without touching what the gate looks at.                *)
LEMMA GateKept ==
  ASSUME WellFormed, Gate, UNCHANGED GateVars,
         Connecting' => Connecting,
         Serving' \/ Rejoining' => Serving \/ Rejoining,
         Serving' => Serving \/ required
  PROVE  Gate'
<1>1. ~(Connecting /\ (Serving \/ Rejoining))
  BY DEF Connecting, Serving, Rejoining, Acquiring, Applying
<1>2. UNCHANGED PhysicallyNeutral  BY DEF GateVars, PhysicallyNeutral
<1> QED  BY <1>1, <1>2 DEF Gate, GateVars, AllNeutralOnce

\* Moving the stick keeps Gate: the axis is dirty until its event is handled.
LEMMA MoveKeepsGate ==
  ASSUME WellFormed, Gate, NEW a \in Axes, Move(a)
  PROVE  Gate'
<1>1. /\ UNCHANGED <<device, memory, required, pending, joystick, discarded>>
      /\ stick \in [Axes -> {0, 1}] /\ stick' = [stick EXCEPT ![a] = 1 - stick[a]]
      /\ TractionAxes \subseteq Axes
  BY TypeParts, Layout DEF Move, gate_vars, WellFormed, AxesTyped
<1>2. /\ \A b \in Axes : b # a => stick'[b] = stick[b]
      /\ stick'[a] = 0 \/ stick[a] = 0
      /\ stick[a] = 0 <=> stick'[a] # 0
  BY <1>1
<1>3. /\ centred \subseteq centred' /\ (stick'[a] = 0 /\ a \in TractionAxes => a \in centred')
      /\ dirty' = IF device = "open" THEN dirty \cup {a} ELSE dirty
  BY DEF Move
<1>4. PhysicallyNeutral' \subseteq centred'
  BY <1>1, <1>2, <1>3 DEF Gate, PhysicallyNeutral
<1>5. a \in TractionAxes => a \in centred'
  BY <1>1, <1>2, <1>3 DEF Gate, PhysicallyNeutral
<1>6. UNCHANGED <<Connecting, Serving, Rejoining>>
  BY <1>1 DEF Connecting, Serving, Rejoining, Acquiring, Applying
<1>7. Connecting \/ (Serving /\ ~required) => dirty' \cap TractionAxes \subseteq centred'
  BY <1>3, <1>5 DEF Gate
<1>8. \A b \in TractionAxes : memory[b] = stick[b] => memory[b] = stick'[b] \/ b = a
  BY <1>1, <1>2
<1> QED  BY <1>1, <1>3, <1>4, <1>6, <1>7, <1>8 DEF Gate, AllNeutralOnce

\* So do the steps that connect, which read the axes or close the gate.
LEMMA ConnectKeepsGate ==
  ASSUME WellFormed, Gate, ConnectStep
  PROVE  Gate'
<1> USE DEF Connecting, Serving, Rejoining, Acquiring, Applying, device_vars, gate_vars, GateVars
<1>1. CASE Open
  <2>1. CASE Starts("cleanup", "pause") /\ UNCHANGED GateVars
    BY <2>1, GateKept DEF Starts
  <2>2. CASE /\ Starts("acquire", "verify")
             /\ dirty' = {} /\ required' /\ pending' = TractionAxes
             /\ centred' = PhysicallyNeutral /\ discarded' = {}
    <3>1. PhysicallyNeutral' = PhysicallyNeutral  BY <1>1 DEF Open, PhysicallyNeutral
    <3> QED  BY <2>2, <3>1 DEF Gate, Starts
  <2> QED  BY <1>1, <2>1, <2>2, OpenGoes DEF Open
<1>2. CASE Acquire  BY <1>2, AcquireGoes, GateKept DEF Acquire, Starts, Continues
<1>3. CASE AcquireMotor  BY <1>3, AcquireMotorGoes, GateKept DEF AcquireMotor, Starts, Continues
<1>4. CASE AcquireEnds  BY <1>4, AcquireEndsGoes, GateKept DEF AcquireEnds, Starts, Moves
<1>5. CASE Assign  BY <1>5, AssignGoes, GateKept DEF Assign, Moves
<1>6. CASE Verify  BY <1>6, VerifyGoes, GateKept DEF Verify, Starts, Moves
<1>7. CASE ConnectionEnds
  BY <1>7, ConnectionEndsGoes, GateKept DEF ConnectionEnds, Starts
<1>8. CASE Snapshot
  <2>1. /\ \A a \in TractionAxes : memory'[a] = stick'[a]
        /\ joystick' = joystick /\ Connecting
        /\ dirty' = {} /\ discarded' = {} /\ centred' = centred
        /\ pending' = {a \in TractionAxes : stick[a] # 0} /\ stick' = stick
    BY <1>8, Layout DEF Snapshot, AwayFrom0
  <2>2. PhysicallyNeutral' \subseteq centred /\ TractionAxes \subseteq pending' \cup centred
    BY <2>1 DEF Gate, PhysicallyNeutral
  <2> QED  BY <1>8, <2>1, <2>2 DEF Gate, Snapshot
<1>9. CASE Settled
  <2>1. /\ pending = {} /\ Connecting /\ joystick'.pc = "ready" /\ Serving'
        /\ UNCHANGED <<stick, dirty, device, memory, pending, centred, discarded>>
    BY <1>9, FailsStarts DEF Settled, Blocked, Starts
  <2>2. ~Connecting'  BY <2>1
  <2>3. PhysicallyNeutral' = PhysicallyNeutral  BY <2>1 DEF PhysicallyNeutral
  <2> QED  BY <2>1, <2>2, <2>3 DEF Gate, AllNeutralOnce
<1> QED  BY <1>1, <1>2, <1>3, <1>4, <1>5, <1>6, <1>7, <1>8, <1>9 DEF ConnectStep

\* So do the steps of a batch, which open it only when each axis was seen at neutral, or
\* its event was discarded.
LEMMA BatchKeepsGate ==
  ASSUME WellFormed, Gate, BatchStep
  PROVE  Gate'
<1> USE DEF Connecting, Serving, Rejoining, Acquiring, Applying
<1>1. joystick.pc = "ready" /\ device = "open" /\ stick' = stick /\ device' = device
  BY DEF BatchStep, StopButton, Recenter, TractionBlind, TractionHeld, TractionMoves, TractionRead,
     Hat, Reads
<1>2. /\ PhysicallyNeutral' = PhysicallyNeutral /\ PhysicallyNeutral \subseteq centred
      /\ Serving /\ ~Connecting /\ ~Rejoining
      /\ TractionAxes \subseteq Axes
      /\ memory \in [Axes -> {0, 1}]
  BY <1>1, TypeParts, Layout DEF PhysicallyNeutral, Gate, WellFormed, AxesTyped
<1>3. CASE StopButton
  <2>1. /\ required' /\ centred' = PhysicallyNeutral /\ dirty' = {}
        /\ UNCHANGED <<memory, joystick>>
        /\ discarded' = discarded \cup {a \in dirty \cap TractionAxes : stick[a] # memory[a]}
    BY <1>3 DEF StopButton, RequireNeutral, NeutralNeeded
  <2> QED  BY <1>1, <1>2, <2>1 DEF Gate
<1>4. CASE Recenter
  BY <1>4, GateKept DEF Recenter, GateVars, gate_vars
<1>5. CASE Hat
  <2>1. /\ UNCHANGED <<stick, required, pending, centred, discarded>>
        /\ \A a \in TractionAxes : memory'[a] = memory[a]
        /\ dirty' = {} /\ dirty \cap TractionAxes = {}
        /\ joystick'.pc \in {"ready", "auxiliary"}
    BY <1>1, <1>2, <1>5, HatGoes, Layout DEF Hat, Reads, WellFormed
  <2>2. Serving' /\ ~Connecting' /\ ~Rejoining'  BY <2>1
  <2> QED  BY <1>1, <1>2, <2>1, <2>2 DEF Gate, AllNeutralOnce
<1>6. CASE TractionRead
  <2>1. /\ dirty' = dirty \ TractionAxes /\ discarded' = discarded \ dirty
        /\ \A a \in TractionAxes : memory'[a] = IF a \in dirty THEN stick[a] ELSE memory[a]
    BY <1>2, <1>6 DEF TractionRead, Merged
  <2>2. \A a \in TractionAxes : memory'[a] = stick'[a] \/ a \in dirty' \/ a \in discarded'
    BY <1>1, <1>2, <2>1 DEF Gate
  <2>3. ~required => TractionAxes \subseteq centred \cup discarded'
    BY <1>2, <2>1 DEF Gate, AllNeutralOnce
  <2>4. PhysicallyNeutral \subseteq TractionAxes  BY DEF PhysicallyNeutral
  <2>5. CASE centred' = PhysicallyNeutral /\ required' /\ UNCHANGED joystick
    BY <1>1, <1>2, <2>1, <2>2, <2>5 DEF Gate
  <2>6. CASE centred' = centred /\ required' = required /\ UNCHANGED joystick
    BY <1>1, <1>2, <2>1, <2>2, <2>3, <2>6 DEF Gate, AllNeutralOnce
  <2>7. CASE TractionMoves
    <3>1. required => \A a \in TractionAxes : memory'[a] = 0
      BY <2>7, <1>6 DEF TractionMoves, GateOpens, Neutral, TractionRead
    <3>2. TractionAxes \subseteq centred \cup discarded'
      BY <1>1, <1>2, <2>1, <2>2, <2>3, <3>1 DEF PhysicallyNeutral
    <3>3. centred' = centred /\ joystick'.pc \in {"acquire", "decide"} /\ joystick'.then = "decide"
      BY <2>7, TractionMovesGoes DEF TractionMoves
    <3> QED  BY <1>1, <1>2, <2>1, <2>2, <3>2, <3>3 DEF Gate, AllNeutralOnce
  <2> QED  BY <2>5, <2>6, <2>7, <1>3, <1>4, <1>5
              DEF BatchStep, TractionBlind, TractionHeld, RequireNeutral, NeutralNeeded
<1> QED  BY <1>3, <1>4, <1>5, <1>6 DEF BatchStep, TractionBlind, TractionHeld, TractionMoves

\* Hence every step keeps Gate.
LEMMA GateStep ==
  ASSUME WellFormed, Gate, [Next]_vars
  PROVE  Gate'
<1> USE DEF Connecting, Serving, Rejoining, Acquiring, Applying, device_vars, gate_vars, GateVars
<1>1. ASSUME NEW a \in Axes, Move(a) PROVE Gate'  BY <1>1, MoveKeepsGate
<1>2. CASE (\E k \in Keys : Press(k)) \/ HeadingChanges \/ UNCHANGED vars
  BY <1>2, GateKept DEF Press, HeadingChanges, vars
<1>3. CASE LinkDrops
  <2>1. UNCHANGED PhysicallyNeutral  BY <1>3 DEF LinkDrops, PhysicallyNeutral
  <2> QED  BY <1>3, <2>1 DEF LinkDrops, Gate, AllNeutralOnce
<1>4. CASE DriveStep
  <2>1. CASE Decide  BY <2>1, DecideGoes, GateKept DEF Decide, Starts, Continues
  <2>2. CASE DriveBegins  BY <2>2, DriveBeginsGoes, GateKept DEF DriveBegins, Starts, Moves
  <2>3. CASE Wheel  BY <2>3, WheelGoes, GateKept DEF Wheel, Starts, Moves, Continues
  <2>4. CASE RunAuxiliary  BY <2>4, RunAuxiliaryGoes, GateKept DEF RunAuxiliary, Starts, Moves
  <2>5. CASE Terminate
    <3>1. CASE Starts("ready", "ready") /\ UNCHANGED <<required, pending, centred>>
      BY <2>5, <3>1, GateKept DEF Terminate, Starts
    <3>2. CASE /\ joystick'.pc = "release" /\ joystick'.then = "ready"
               /\ required' /\ centred' = PhysicallyNeutral
      <4>1. UNCHANGED <<stick, dirty, device, memory, discarded>> /\ Serving /\ ~Connecting
        BY <2>5 DEF Terminate
      <4>2. UNCHANGED PhysicallyNeutral  BY <4>1 DEF PhysicallyNeutral
      <4> QED  BY <3>2, <4>1, <4>2 DEF Gate
    <3> QED  BY <2>5, <3>1, <3>2, TerminateGoes
  <2> QED  BY <1>4, <2>1, <2>2, <2>3, <2>4, <2>5 DEF DriveStep
<1>5. CASE CleanupStep
  <2>1. CASE Cleanup  BY <2>1, CleanupGoes, GateKept DEF Cleanup, Moves
  <2>2. CASE LetGo  BY <2>2, LetGoGoes, GateKept DEF LetGo, Continues, WellFormed, Flow
  <2>3. CASE ReleaseReturns
    <3>1. required  BY <2>3 DEF ReleaseReturns, WellFormed, Flow
    <3> QED  BY <2>3, <3>1, ReleaseGoes, GateKept DEF ReleaseReturns, Starts
  <2>4. CASE ReleaseCleans
    <3>1. UNCHANGED PhysicallyNeutral  BY <2>4 DEF ReleaseCleans, PhysicallyNeutral
    <3> QED  BY <2>4, <3>1, ReleaseGoes DEF ReleaseCleans, Starts, Gate
  <2>5. CASE Pause  BY <2>5, PauseGoes, GateKept DEF Pause, Moves
  <2> QED  BY <1>5, <2>1, <2>2, <2>3, <2>4, <2>5 DEF CleanupStep
<1>6. CASE ShutdownStep
  <2>1. CASE ShutDown
    <3>1. UNCHANGED PhysicallyNeutral  BY <2>1 DEF ShutDown, ShutdownGoes, PhysicallyNeutral
    <3> QED  BY <2>1, <3>1 DEF ShutDown, ShutdownGoes, Gate, AllNeutralOnce
  <2>2. CASE ~ShutDown
    BY <1>6, <2>2, GateKept
       DEF ShutdownStep, ShutdownHalts, ShutdownResets, ShutdownLetsGo, ShutdownReleases,
           ShutdownJoins, ShutdownDisowns, ShutdownGoes
  <2> QED  BY <2>1, <2>2
<1> QED  BY <1>1, <1>2, <1>3, <1>4, <1>5, <1>6, ConnectKeepsGate, BatchKeepsGate
            DEF Next, OperatorStep, JoystickStep

(* A wheel gets a speed it did not have from the loop over the wheels, and  *)
(* otherwise only stops.                                                    *)
LEMMA WheelsMove ==
  ASSUME WellFormed, [Next]_vars, NEW w \in WheelSet, speed'[w] \notin {0, speed[w]}
  PROVE  joystick.pc = "wheel"
<1>1. w \in Motors /\ speed \in [Motors -> -3..3]
  BY Layout, TypeParts DEF WellFormed, MotorsTyped
<1>2. ~UNCHANGED motor_vars  BY DEF motor_vars
<1>3. ~\E ms \in SUBSET Motors, gone \in SUBSET Motors : Swept(ms, gone)
  BY <1>1 DEF Swept
<1>4. {} \in SUBSET Motors /\ WheelSet \in SUBSET Motors /\ Auxiliary \in Motors
  BY Layout
<1>5. ~AcquireMotor
  <2>1. \A m \in Motors : {m} \in SUBSET Motors  OBVIOUS
  <2> QED  BY <1>1, <1>2, <1>3, <2>1, AcquireMotorGoes
<1>6. ~ConnectStep
  BY <1>2, <1>3, <1>4, <1>5, AcquireEndsGoes
     DEF ConnectStep, Open, Acquire, Assign, Verify, Snapshot, Settled, ConnectionEnds
<1>7. ~BatchStep
  BY <1>2, <1>3, <1>4, SweepsAll
     DEF BatchStep, StopButton, Recenter, TractionBlind, TractionHeld, TractionMoves, Hat,
         StoppedCodes, WellFormed
<1>8. ~RunAuxiliary
  <2>1. ASSUME RunAuxiliary PROVE Auxiliary # w
    BY <2>1, Layout DEF RunAuxiliary, WellFormed, Flow
  <2>2. ASSUME Runs(Auxiliary, memory["hat"]), Auxiliary # w PROVE FALSE
    BY <1>1, <2>2 DEF Runs
  <2>3. {Auxiliary} \in SUBSET Motors  BY <1>4
  <2> QED  BY <1>2, <1>3, <1>4, <2>1, <2>2, <2>3, RunAuxiliaryGoes
<1>9. DriveStep => Wheel
  BY <1>2, <1>3, <1>4, <1>8, DriveBeginsGoes, TerminateGoes DEF DriveStep, Decide, DriveBegins, Terminate
<1>10. ~CleanupStep
  BY <1>2, <1>3, <1>4, CleanupGoes, ReleaseSweeps
     DEF CleanupStep, LetGo, ReleaseReturns, ReleaseCleans, Pause, WellFormed
<1>11. ~ShutdownStep
  BY <1>2, <1>3, <1>4, SweepsAll, ReleaseSweeps
     DEF ShutdownStep, ShutDown, ShutdownHalts, ShutdownResets, ShutdownLetsGo, ShutdownReleases,
         ShutdownJoins, ShutdownDisowns, StoppedCodes, WellFormed
<1>12. ~OperatorStep /\ ~LinkDrops /\ ~HeadingChanges /\ ~UNCHANGED vars
  BY <1>2 DEF OperatorStep, Move, Press, LinkDrops, HeadingChanges, vars, motor_vars
<1> QED  BY <1>6, <1>7, <1>9, <1>10, <1>11, <1>12 DEF Next, JoystickStep, Wheel

\* Hence Gate always holds.
LEMMA GateInvariant == Spec => []Gate
<1>1. Init => Gate
  BY DEF Init, Gate, At, PhysicallyNeutral, Connecting, Serving, Rejoining, Acquiring, Applying
<1>2. WellFormed /\ Gate /\ [Next]_vars => Gate'  BY GateStep
<1> QED  BY <1>1, <1>2, WellFormedInvariant, PTL DEF Spec

(* No wheel starts or changes its motion after a stop, of whatever kind,    *)
(* before every axis has been at neutral since, except an axis whose last   *)
(* event the stop button discarded.                                         *)
THEOREM MovesOnlyAfterNeutralTheorem == Spec => MovesOnlyAfterNeutral
<1>1. ASSUME WellFormed, Gate, [Next]_vars
      PROVE  [(\E w \in WheelSet : speed'[w] \notin {0, speed[w]})
                => TractionAxes \subseteq centred \cup discarded]_vars
  <2> SUFFICES ASSUME NEW w \in WheelSet, speed'[w] \notin {0, speed[w]}
               PROVE  TractionAxes \subseteq centred \cup discarded
    OBVIOUS
  <2>1. joystick.pc = "wheel"  BY <1>1, WheelsMove
  <2> QED  BY <1>1, <2>1 DEF Gate, Serving, Applying, AllNeutralOnce, WellFormed, Flow
<1> QED  BY <1>1, WellFormedInvariant, GateInvariant, PTL DEF Spec, MovesOnlyAfterNeutral

-----------------------------------------------------------------------------
(* Which motors stand still.  A motor without a driver is out of reach: it  *)
(* keeps its speed, and that a call raised accounts for it.                 *)

Rest(ms) == \A m \in ms \cap connected : speed[m] = 0

RestPcs == {"letgo", "release", "pause", "open", "ended", "acquire", "motor", "assign",
            "verify", "settle"}

Quiet ==
  /\ joystick.pc \in RestPcs => Rest(Motors)
  /\ joystick.pc = "ready" /\ blind => Rest(WheelSet)
  /\ \A m \in Motors : m \notin connected /\ speed[m] # 0 => faults > 0

(* Until a shutdown begins, the wheels do what the last setpoint says.      *)
Follow ==
  \A w \in WheelSet \cap connected :
    speed[w] = IF required \/ blind \/ session = None THEN 0 ELSE Mix(memory)[w]

AsLast == last # NoSetpoint => \A w \in WheelSet \cap connected : speed[w] = last[w]

NoMotion == {Still, NoSetpoint}

Follows == shutdown.pc = "idle" =>
  /\ joystick.pc \in {"verify", "settle", "decide", "drive", "wheel", "auxiliary", "terminate"}
       => session # None
  /\ joystick.pc = "ready" /\ session = None => required /\ Rest(Motors)
  /\ joystick.pc \in {"ready", "auxiliary"} => Follow
  /\ joystick.pc \in {"ready", "auxiliary", "decide"} => AsLast
  /\ Acquiring \/ Rejoining \/ joystick.pc \in {"verify", "settle"} => last \in NoMotion
  /\ joystick.pc = "ready" /\ required => last \in NoMotion
  /\ joystick.pc \in {"drive", "wheel"} => last = Mix(memory)
  /\ joystick.pc = "wheel" =>
       \A j \in 1..(joystick.next - 1) :
         Wheels[j] \in connected => speed[Wheels[j]] = Mix(memory)[Wheels[j]]

\* The motors of a loop of stops rest, and what rested does not begin to move.
LEMMA SweptRests ==
  ASSUME WellFormed, NEW ms \in SUBSET Motors, NEW gone, Swept(ms, gone)
  PROVE  /\ Rest(ms)'
         /\ \A xs \in SUBSET Motors : Rest(xs) => Rest(xs)'
         /\ Quiet => \A m \in Motors : m \notin connected' /\ speed'[m] # 0 => faults' > 0
<1>1. Rest(ms)' /\ \A xs \in SUBSET Motors : Rest(xs) => Rest(xs)'
  BY DEF Swept, Rest
<1>2. ASSUME Quiet, NEW m \in Motors, m \notin connected', speed'[m] # 0, ~(faults' > 0)
      PROVE  FALSE
  <2>1. m \notin connected  BY <1>2 DEF Swept
  <2>2. speed[m] # 0  BY <1>2 DEF Swept
  <2>3. faults > 0 /\ faults <= faults' /\ faults' \in Nat  BY <1>2, <2>1, <2>2 DEF Quiet, Swept
  <2>4. faults \in Nat  BY TypeParts, ConstantsAssumption DEF WellFormed, MotorsTyped
  <2> QED  BY <1>2, <2>3, <2>4
<1> QED  BY <1>1, <1>2

(* The wheels stay as they are.                                             *)
LEMMA RestKept ==
  ASSUME UNCHANGED motor_vars
  PROVE  /\ \A xs \in SUBSET Motors : Rest(xs)' <=> Rest(xs)
         /\ Quiet => \A m \in Motors : m \notin connected' /\ speed'[m] # 0 => faults' > 0
BY DEF Rest, Quiet, motor_vars

\* Every step keeps Quiet: nothing moves from the cleanup of a connection to the next.
LEMMA QuietStep ==
  ASSUME WellFormed, Quiet, Follows, [Next]_vars
  PROVE  Quiet'
<1> DEFINE Lost == \A m \in Motors : m \notin connected' /\ speed'[m] # 0 => faults' > 0
<1>0. /\ Motors \in SUBSET Motors /\ WheelSet \in SUBSET Motors /\ {} \in SUBSET Motors
      /\ Auxiliary \in Motors /\ \A m \in Motors : {m} \in SUBSET Motors
      /\ speed \in [Motors -> -3..3] /\ faults \in Nat
      /\ (Rest(Motors) => Rest(WheelSet)) /\ (Rest(Motors)' => Rest(WheelSet)')
  BY Layout, TypeParts, ConstantsAssumption DEF WellFormed, MotorsTyped, Rest
<1>1. CASE UNCHANGED <<joystick, blind>> /\ (UNCHANGED motor_vars \/ Swept(Motors, {}))
  BY <1>0, <1>1, RestKept, SweptRests DEF Quiet
<1>2. CASE OperatorStep \/ LinkDrops \/ HeadingChanges \/ UNCHANGED vars
  BY <1>1, <1>2 DEF OperatorStep, Move, Press, LinkDrops, HeadingChanges, vars, motor_vars, gate_vars
<1>3. CASE ConnectStep
  <2> USE <1>0 DEF Starts, Moves, Continues, RestPcs
  <2>1. CASE AcquireMotor
    <3>0. Rest(Motors)  BY <2>1 DEF AcquireMotor, Quiet
    <3>1. CASE \E m \in Motors : /\ Continues("motor") /\ speed' = [speed EXCEPT ![m] = 0]
                                 /\ connected' = connected \cup {m} /\ faults' = faults
      <4>1. Rest(Motors)' /\ Lost  BY <3>0, <3>1 DEF Rest, Quiet
      <4> QED  BY <3>1, <4>1 DEF Quiet
    <3>2. CASE Starts("cleanup", "pause")
               /\ \E m \in Motors, ms \in SUBSET Motors : Swept(ms, {m})
      BY <3>2, SweptRests DEF Quiet
    <3>3. CASE \E m \in Motors : /\ Starts("cleanup", "pause") /\ speed' = speed
                                 /\ connected' = connected \cup {m} /\ faults' = faults + 1
      BY <3>3 DEF Quiet
    <3> QED  BY <2>1, <3>1, <3>2, <3>3, AcquireMotorGoes
  <2>2. CASE AcquireEnds
    BY <2>2, AcquireEndsGoes, SweptRests DEF Quiet
  <2>3. CASE UNCHANGED motor_vars /\ joystick.pc \in RestPcs
             /\ joystick'.pc \in RestPcs \cup {"cleanup", "ready", "decide"}
    BY <2>3, RestKept DEF Quiet
  <2>4. CASE Open  BY <2>3, <2>4, OpenGoes DEF Open
  <2>5. CASE Acquire  BY <2>3, <2>5, AcquireGoes DEF Acquire
  <2>6. CASE Assign  BY <2>3, <2>6, AssignGoes DEF Assign
  <2>7. CASE Verify  BY <2>3, <2>7, VerifyGoes DEF Verify
  <2>8. CASE Snapshot  BY <2>3, <2>8 DEF Snapshot
  <2>9. CASE Settled  BY <2>3, <2>9, FailsStarts DEF Settled
  <2>10. CASE ConnectionEnds
    BY <2>10, ConnectionEndsGoes, RestKept DEF ConnectionEnds, Quiet
  <2> QED  BY <1>3, <2>1, <2>2, <2>4, <2>5, <2>6, <2>7, <2>8, <2>9, <2>10 DEF ConnectStep
<1>4. CASE BatchStep
  <2> USE <1>0 DEF RestPcs
  <2>1. joystick.pc = "ready" /\ ~stopEvent /\ shutdown.pc = "idle"
    BY <1>4 DEF BatchStep, StopButton, Recenter, TractionBlind, TractionHeld, TractionMoves, TractionRead,
       Hat, Reads, WellFormed, Flow
  <2>2. CASE StopButton
    <3>1. Swept(Motors, {})  BY <2>2, SweepsAll DEF StopButton, StoppedCodes, WellFormed
    <3> QED  BY <1>1, <2>2, <3>1 DEF StopButton
  <2>3. CASE Recenter  BY <1>1, <2>3 DEF Recenter, gate_vars
  <2>4. CASE TractionBlind
    <3>1. CASE blind  BY <1>1, <2>4, <3>1 DEF TractionBlind
    <3>2. CASE ~blind
      <4>1. Swept(Motors, {})  BY <2>4, <3>2, SweepsAll DEF TractionBlind, StoppedCodes, WellFormed
      <4>2. Rest(Motors)' /\ Lost  BY <4>1, SweptRests
      <4>3. joystick'.pc = "ready"  BY <2>1, <2>4 DEF TractionBlind
      <4>4. Rest(WheelSet)'  BY <4>2
      <4> QED  BY <4>2, <4>3, <4>4 DEF Quiet
    <3> QED  BY <3>1, <3>2
  <2>5. CASE TractionHeld  BY <2>1, <2>5, RestKept DEF TractionHeld, Quiet
  <2>6. CASE TractionMoves
    <3>1. joystick'.pc = "acquire" => Rest(Motors)
      BY <2>1, <2>6, TractionMovesGoes DEF Follows
    <3>2. ~blind' /\ UNCHANGED motor_vars /\ joystick'.pc \in {"acquire", "decide"}
      BY <2>6, TractionMovesGoes DEF TractionMoves
    <3> QED  BY <3>1, <3>2, RestKept DEF Quiet
  <2>7. CASE Hat
    <3>1. ~blind' /\ UNCHANGED motor_vars /\ joystick'.pc \in {"ready", "auxiliary"}
      BY <2>1, <2>7, HatGoes DEF Hat, WellFormed, Flow
    <3> QED  BY <3>1, RestKept DEF Quiet
  <2> QED  BY <1>4, <2>2, <2>3, <2>4, <2>5, <2>6, <2>7 DEF BatchStep
<1>5. CASE DriveStep
  <2> USE <1>0 DEF Starts, Moves, Continues, RestPcs
  <2>1. ~blind' /\ ~blind
    BY <1>5, ConstantsAssumption
       DEF DriveStep, Decide, DriveBegins, Wheel, RunAuxiliary, Terminate, gate_vars, WellFormed, Flow,
           Applying
  <2>2. CASE Decide  BY <2>1, <2>2, DecideGoes, RestKept DEF Decide, Quiet
  <2>3. CASE DriveBegins
    <3>1. UNCHANGED motor_vars \/ Swept(WheelSet, {})  BY <2>3, DriveBeginsGoes
    <3>2. joystick'.pc \in {"terminate", "wheel", "ready"}  BY <2>3, DriveBeginsGoes
    <3> QED  BY <2>1, <3>1, <3>2, RestKept, SweptRests DEF Quiet
  <2>4. ASSUME NEW m \in Motors, NEW v \in -3..3, Runs(m, v) PROVE Lost
    BY <2>4 DEF Runs, Quiet
  <2>5. CASE Wheel
    <3>1. Lost
      <4>1. ASSUME NEW k \in 1..Len(Wheels), Mix(memory)[Wheels[k]] \in -3..3,
                   \/ Runs(Wheels[k], Mix(memory)[Wheels[k]])
                   \/ Swept(WheelSet, {}) \/ Swept(WheelSet, {Wheels[k]})
            PROVE  Lost
        <5>1. Wheels[k] \in Motors  BY Layout
        <5> QED  BY <2>4, <4>1, <5>1, SweptRests
      <4> QED  BY <2>5, <4>1, WheelGoes
    <3>2. joystick'.pc \in {"terminate", "wheel", "ready"}  BY <2>5, WheelGoes
    <3> QED  BY <2>1, <3>1, <3>2 DEF Quiet
  <2>6. CASE RunAuxiliary
    <3>1. Lost  BY <2>4, <2>6, RunAuxiliaryGoes, SweptRests, RestKept
    <3>2. joystick'.pc \in {"terminate", "ready"}  BY <2>6, RunAuxiliaryGoes
    <3> QED  BY <2>1, <3>1, <3>2 DEF Quiet
  <2>7. CASE Terminate
    BY <2>1, <2>7, TerminateGoes, SweptRests, RestKept DEF Quiet
  <2> QED  BY <1>5, <2>2, <2>3, <2>5, <2>6, <2>7 DEF DriveStep
<1>6. CASE CleanupStep
  <2> USE <1>0 DEF Starts, Moves, Continues, RestPcs
  <2>1. CASE Cleanup  BY <2>1, CleanupGoes, SweptRests DEF Quiet
  <2>2. CASE LetGo  BY <2>2, LetGoGoes, RestKept DEF LetGo, Quiet
  <2>3. CASE ReleaseReturns \/ ReleaseCleans
    <3>1. joystick.pc = "release" /\ joystick'.pc \in {"ready", "pause"}
      BY <2>3, ReleaseGoes DEF ReleaseReturns, ReleaseCleans
    <3>2. UNCHANGED motor_vars \/ Swept(Motors, {})
      BY <2>3, ReleaseSweeps DEF ReleaseReturns, ReleaseCleans, WellFormed
    <3> QED  BY <3>1, <3>2, SweptRests, RestKept DEF Quiet
  <2>4. CASE Pause  BY <2>4, PauseGoes, RestKept DEF Pause, Quiet
  <2> QED  BY <1>6, <2>1, <2>2, <2>3, <2>4 DEF CleanupStep
<1>7. CASE ShutdownStep
  <2>1. UNCHANGED <<joystick, blind>> /\ (UNCHANGED motor_vars \/ Swept(Motors, {}))
    BY <1>7, SweepsAll, ReleaseSweeps
       DEF ShutdownStep, ShutDown, ShutdownHalts, ShutdownResets, ShutdownLetsGo, ShutdownReleases,
           ShutdownJoins, ShutdownDisowns, ShutdownGoes, StoppedCodes, WellFormed, gate_vars
  <2> QED  BY <1>1, <2>1
<1> QED  BY <1>2, <1>3, <1>4, <1>5, <1>6, <1>7 DEF Next, JoystickStep

(* The wheels as one step leaves them: alone, still, or fewer with a driver. *)
LEMMA FollowKept ==
  ASSUME WellFormed,
         \/ UNCHANGED motor_vars
         \/ \E ms \in SUBSET Motors, gone \in SUBSET Motors : Swept(ms, gone) /\ WheelSet \cap ms = {}
  PROVE  \A w \in WheelSet : w \in connected' => w \in connected /\ speed'[w] = speed[w]
BY Layout DEF motor_vars, Swept

\* Wheels that rest have the speeds of a setpoint without motion.
LEMMA StillSetpoint ==
  ASSUME Rest(WheelSet), last \in NoMotion
  PROVE  AsLast
BY Setpoints DEF Rest, NoMotion, AsLast

\* Every step keeps Follows, wheel by wheel.
LEMMA FollowsStep ==
  ASSUME WellFormed, Quiet, Follows, [Next]_vars
  PROVE  Follows'
<1> SUFFICES ASSUME shutdown'.pc = "idle" PROVE Follows'
  BY DEF Follows
<1>0. /\ Motors \in SUBSET Motors /\ WheelSet \in SUBSET Motors
      /\ (Rest(Motors) => Rest(WheelSet)) /\ (Rest(Motors)' => Rest(WheelSet)')
      /\ memory \in [Axes -> {0, 1}] /\ memory' \in [Axes -> {0, 1}]
      /\ speed \in [Motors -> -3..3]
  BY Layout, TypeParts, AxesStep DEF WellFormed, MotorsTyped, AxesTyped, Rest
<1>1. shutdown.pc = "idle" /\ ~ShutdownStep
  <2>1. ~ShutdownStep
    BY DEF ShutdownStep, ShutDown, ShutdownHalts, ShutdownResets, ShutdownLetsGo, ShutdownReleases,
       ShutdownJoins, ShutdownDisowns, ShutdownGoes, WellFormed, TypeOK
  <2>2. shutdown' = shutdown
    BY <2>1 DEF Next, vars, OperatorStep, Move, Press, LinkDrops, HeadingChanges, JoystickStep,
       ConnectStep, BatchStep, DriveStep, CleanupStep, Open, Acquire, AcquireMotor, AcquireEnds,
       Assign, Verify, Snapshot, Settled, ConnectionEnds, StopButton, Recenter, TractionBlind,
       TractionHeld, TractionMoves, TractionRead, Hat, Decide, DriveBegins, Wheel, RunAuxiliary,
       Terminate, Cleanup, LetGo, ReleaseReturns, ReleaseCleans, Pause
  <2> QED  BY <2>1, <2>2
<1>2. CASE OperatorStep \/ LinkDrops \/ HeadingChanges \/ UNCHANGED vars
  <2>1. UNCHANGED <<joystick, session, required, blind, memory, last, motor_vars>>
    BY <1>2 DEF OperatorStep, Move, Press, LinkDrops, HeadingChanges, vars, motor_vars, gate_vars
  <2> QED  BY <1>1, <2>1 DEF Follows, Follow, AsLast, Rest, motor_vars, Acquiring, Rejoining
<1>3. CASE ConnectStep
  <2> USE <1>1 DEF Starts, Moves, Continues, Acquiring, Rejoining, gate_vars, Follows
  <2>1. CASE joystick'.pc = "cleanup"  BY <2>1
  <2>2. CASE Open  BY <2>1, <2>2, OpenGoes DEF Open, NoMotion
  <2>3. CASE Acquire  BY <2>1, <2>3, AcquireGoes DEF Acquire
  <2>4. CASE AcquireMotor
    <3>1. joystick'.pc \in {"cleanup", "motor"}  BY <2>4, AcquireMotorGoes
    <3> QED  BY <2>4, <3>1 DEF AcquireMotor
  <2>5. CASE AcquireEnds  BY <2>1, <2>5, AcquireEndsGoes DEF AcquireEnds
  <2>6. CASE Assign
    <3>0. joystick.pc = "assign" /\ joystick.using # None
      BY <2>6 DEF Assign, WellFormed, Flow
    <3>1. Rest(Motors) /\ last \in NoMotion
      BY <3>0 DEF Quiet, RestPcs
    <3>2. AsLast  BY <1>0, <3>1, StillSetpoint
    <3>3. AsLast'  BY <2>6, <3>2 DEF Assign, AsLast, motor_vars
    <3> QED  BY <2>6, <3>0, <3>1, <3>3, AssignGoes DEF Assign
  <2>7. CASE Verify  BY <2>7, VerifyGoes DEF Verify
  <2>8. CASE Snapshot  BY <2>8 DEF Snapshot
  <2>9. CASE Settled
    <3>0. joystick.pc = "settle"  BY <2>9 DEF Settled
    <3>1. Rest(WheelSet) /\ last \in NoMotion /\ session # None
      BY <1>0, <3>0 DEF Quiet, RestPcs
    <3>2. Mix(memory) = Still
      BY <1>0, <2>9, NeutralMixesToStill DEF Settled, Blocked, AwayFrom0, Neutral
    <3>3. /\ UNCHANGED <<memory, last, session, motor_vars>> /\ ~required'
          /\ joystick'.pc = "ready"
      BY <2>9, FailsStarts DEF Settled
    <3>4. AsLast'  BY <3>1, <3>3, StillSetpoint DEF AsLast, motor_vars
    <3>5. Follow'
      BY <3>1, <3>2, <3>3, Setpoints DEF Follow, motor_vars, Rest
    <3> QED  BY <3>1, <3>3, <3>4, <3>5
  <2>10. CASE ConnectionEnds  BY <2>10, ConnectionEndsGoes
  <2> QED  BY <1>3, <2>2, <2>3, <2>4, <2>5, <2>6, <2>7, <2>8, <2>9, <2>10 DEF ConnectStep
<1>4. CASE BatchStep
  <2> USE <1>1 DEF Acquiring, Rejoining, gate_vars, Follows
  <2>1. joystick.pc = "ready"
    BY <1>4 DEF BatchStep, StopButton, Recenter, TractionBlind, TractionHeld, TractionMoves, TractionRead,
       Hat, Reads
  <2>2. Follow /\ AsLast /\ (required => last \in NoMotion)
        /\ (session = None => required /\ Rest(Motors))
    BY <2>1
  <2>3. LastAfterKeys \in {NoSetpoint, last}  BY DEF LastAfterKeys
  <2>4. ASSUME UNCHANGED motor_vars, last' \in {NoSetpoint, last}
        PROVE  /\ AsLast' /\ (last \in NoMotion => last' \in NoMotion)
               /\ Rest(Motors) => Rest(Motors)'
    BY <2>2, <2>4 DEF AsLast, NoMotion, Rest, motor_vars
  <2>5. ASSUME Swept(Motors, {}), last' = Still, required', UNCHANGED <<joystick, session>>
        PROVE  Follows'
    <3>1. Rest(Motors)'  BY <1>0, <2>5, SweptRests
    <3>2. Rest(WheelSet)'  BY <1>0, <3>1
    <3>3. Follow' /\ AsLast'  BY <2>5, <3>2, Setpoints DEF Follow, AsLast, Rest
    <3> QED  BY <2>1, <2>5, <3>1, <3>3 DEF NoMotion
  <2>6. CASE StopButton
    <3>1. Swept(Motors, {})  BY <2>6, SweepsAll DEF StopButton, StoppedCodes, WellFormed
    <3> QED  BY <2>5, <2>6, <3>1 DEF StopButton, RequireNeutral, NeutralNeeded
  <2>7. CASE Recenter
    <3>1. UNCHANGED <<motor_vars, memory, required, blind, session, joystick>>
          /\ last' \in {NoSetpoint, last}
      BY <2>3, <2>7 DEF Recenter
    <3> QED  BY <2>1, <2>2, <2>4, <3>1 DEF Follow, motor_vars
  <2>8. CASE TractionBlind
    <3>1. UNCHANGED <<session, joystick>> /\ blind'  BY <2>8 DEF TractionBlind, TractionRead
    <3>2. CASE blind
      <4>1. UNCHANGED <<motor_vars, required>> /\ last' \in {NoSetpoint, last}
        BY <2>3, <2>8, <3>2 DEF TractionBlind
      <4>2. Follow'  BY <2>2, <3>1, <3>2, <4>1 DEF Follow, motor_vars
      <4> QED  BY <2>1, <2>2, <2>4, <3>1, <4>1, <4>2
    <3>3. CASE ~blind
      <4>1. Swept(Motors, {})
        BY <2>8, <3>3, SweepsAll DEF TractionBlind, StoppedCodes, WellFormed
      <4> QED  BY <2>5, <2>8, <3>1, <3>3, <4>1
                  DEF TractionBlind, RequireNeutral, NeutralNeeded
    <3> QED  BY <3>2, <3>3
  <2>9. CASE TractionHeld
    <3>1. /\ required /\ UNCHANGED <<required, session, joystick, motor_vars>>
          /\ last' \in {NoSetpoint, last}
      BY <2>3, <2>9 DEF TractionHeld, TractionRead, GateOpens
    <3>2. Follow'  BY <2>2, <3>1 DEF Follow, motor_vars
    <3> QED  BY <2>1, <2>2, <2>4, <3>1, <3>2
  <2>10. CASE TractionMoves
    <3>1. UNCHANGED <<session, motor_vars>> /\ last' \in {NoSetpoint, last}
      BY <2>3, <2>10 DEF TractionMoves, TractionRead
    <3> QED  BY <2>1, <2>2, <2>4, <3>1, TractionMovesGoes, <2>10
  <2>11. CASE Hat
    <3>1. \A a \in TractionAxes : memory'[a] = memory[a]
      BY <1>0, <2>11, Layout DEF Hat
    <3>2. Mix(memory') = Mix(memory)
      BY <1>0, <3>1, MixOfTraction
    <3>3. UNCHANGED <<required, blind, session, motor_vars, last>>  BY <2>11 DEF Hat
    <3>4. Follow'  BY <2>2, <3>2, <3>3 DEF Follow, motor_vars
    <3> QED  BY <2>1, <2>2, <2>4, <3>3, <3>4, <2>11, HatGoes
  <2> QED  BY <1>4, <2>6, <2>7, <2>8, <2>9, <2>10, <2>11 DEF BatchStep
<1>5. CASE DriveStep
  <2> USE <1>1 DEF Acquiring, Rejoining, gate_vars, Follows, Starts, Moves, Continues
  <2>1. CASE joystick'.pc = "terminate" /\ session' = session
             /\ joystick.pc \in {"drive", "wheel", "auxiliary"}
    BY <2>1
  <2>2. ASSUME joystick.pc \in {"decide", "drive", "wheel"}
        PROVE  ~required /\ ~blind /\ session # None
    BY <2>2 DEF WellFormed, Flow, Applying
  <2>3. CASE Decide
    <3>1. CASE joystick'.pc = "drive"
      BY <2>3, <3>1 DEF Decide
    <3>2. CASE Starts("ready", "ready") /\ (Mix(memory) = last \/ session = None)
      <4>1. Mix(memory) = last /\ AsLast /\ session # None /\ ~required /\ ~blind
        BY <2>2, <2>3, <3>2 DEF Decide
      <4>2. /\ UNCHANGED <<memory, required, blind, session, motor_vars>> /\ last' = last
        BY <2>3, <4>1 DEF Decide
      <4>3. Follow'  BY <1>0, <4>1, <4>2, Setpoints DEF Follow, AsLast, motor_vars
      <4>4. AsLast'  BY <4>1, <4>2 DEF AsLast, motor_vars
      <4> QED  BY <3>2, <4>1, <4>2, <4>3, <4>4
    <3> QED  BY <2>3, <3>1, <3>2, DecideGoes
  <2>4. CASE DriveBegins
    <3>1. UNCHANGED <<memory, required, blind, session, last>> /\ joystick.pc = "drive"
      BY <2>4 DEF DriveBegins
    <3>2. CASE Moves("wheel") /\ joystick.next = 1
      <4>1. joystick'.next = 1  BY <3>2
      <4>2. 1..(joystick'.next - 1) = {}  BY <4>1
      <4> QED  BY <3>1, <3>2, <4>2
    <3>3. CASE Starts("ready", "ready") /\ Mix(memory) = Still /\ Swept(WheelSet, {})
      <4>1. Rest(WheelSet)'  BY <1>0, <3>3, SweptRests
      <4>2. last' = Still /\ Mix(memory') = Still /\ session' # None /\ ~required'
        BY <2>2, <3>1, <3>3
      <4>3. Follow' /\ AsLast'  BY <4>1, <4>2, Setpoints DEF Follow, AsLast, Rest
      <4> QED  BY <3>3, <4>2, <4>3
    <3> QED  BY <2>1, <2>4, <3>1, <3>2, <3>3, DriveBeginsGoes
  <2>5. CASE Wheel
    <3>1. UNCHANGED <<memory, required, blind, session, last>> /\ joystick.pc = "wheel"
      BY <2>5 DEF Wheel
    <3>2. ASSUME NEW k \in 1..Len(Wheels), k = joystick.next,
                 Runs(Wheels[k], Mix(memory)[Wheels[k]])
          PROVE  \A j \in 1..k : Wheels[j] \in connected' => speed'[Wheels[j]] = Mix(memory)[Wheels[j]]
      <4> SUFFICES ASSUME NEW j \in 1..k, Wheels[j] \in connected'
                   PROVE  speed'[Wheels[j]] = Mix(memory)[Wheels[j]]
        OBVIOUS
      <4>1. Wheels[j] \in Motors /\ Wheels[k] \in Motors /\ (Wheels[j] = Wheels[k] => j = k)
            /\ j \in 1..Len(Wheels)
        BY Layout
      <4>2. CASE j = k  BY <1>0, <3>2, <4>1, <4>2 DEF Runs
      <4>3. CASE j # k
        <5>1. Wheels[j] # Wheels[k] /\ j \in 1..(k - 1)  BY <4>1, <4>3
        <5>2. Wheels[j] \in connected /\ speed'[Wheels[j]] = speed[Wheels[j]]
          BY <1>0, <3>2, <4>1, <5>1 DEF Runs
        <5> QED  BY <3>1, <3>2, <5>1, <5>2
      <4> QED  BY <4>2, <4>3
    <3>3. ASSUME NEW k \in 1..Len(Wheels), k = joystick.next,
                 Runs(Wheels[k], Mix(memory)[Wheels[k]]), k = Len(Wheels), Starts("ready", "ready")
          PROVE  Follows'
      <4>1. \A w \in WheelSet : w \in connected' => speed'[w] = Mix(memory)[w]
        BY <3>2, <3>3, Layout
      <4>2. ~required' /\ ~blind' /\ session' # None /\ memory' = memory /\ last' = Mix(memory)
        BY <2>2, <3>1
      <4>3. Follow' /\ AsLast'  BY <4>1, <4>2 DEF Follow, AsLast
      <4> QED  BY <3>3, <4>2, <4>3
    <3>4. ASSUME NEW k \in 1..Len(Wheels), k = joystick.next,
                 Runs(Wheels[k], Mix(memory)[Wheels[k]]), Continues("wheel"), joystick'.next = k + 1
          PROVE  Follows'
      <4>1. joystick'.next - 1 = k  BY <3>4
      <4>2. \A j \in 1..(joystick'.next - 1) :
              Wheels[j] \in connected' => speed'[Wheels[j]] = Mix(memory')[Wheels[j]]
        BY <3>1, <3>2, <3>4, <4>1
      <4> QED  BY <3>1, <3>4, <4>2
    <3>5. CASE Moves("terminate")  BY <2>1, <3>1, <3>5
    <3> HIDE DEF Moves, Starts, Continues, Follows
    <3> QED  BY <2>5, <3>3, <3>4, <3>5, WheelGoes
  <2>6. CASE RunAuxiliary
    <3>1. UNCHANGED <<memory, required, blind, session, last>> /\ joystick.pc = "auxiliary"
      BY <2>6 DEF RunAuxiliary
    <3>2. CASE Moves("terminate")  BY <2>1, <3>1, <3>2
    <3>3. CASE Starts("ready", "ready") /\ Runs(Auxiliary, memory["hat"])
      <4>1. /\ Auxiliary \notin WheelSet /\ ~required /\ session # None /\ Auxiliary \in Motors
        BY <3>1, Layout DEF WellFormed, Flow
      <4>2. \A w \in WheelSet : w \in connected' => w \in connected /\ speed'[w] = speed[w]
        BY <1>0, <3>3, <4>1, Layout DEF Runs
      <4>3. Follow /\ AsLast  BY <3>1
      <4>4. Follow' /\ AsLast'  BY <3>1, <4>2, <4>3 DEF Follow, AsLast
      <4> QED  BY <3>1, <3>3, <4>1, <4>4
    <3> QED  BY <2>6, <3>2, <3>3, RunAuxiliaryGoes
  <2>7. CASE Terminate
    <3>1. joystick.pc = "terminate" /\ session # None  BY <2>7 DEF Terminate
    <3>2. joystick'.pc = "release" /\ joystick'.then = "ready" /\ last' = Still
      BY <2>7, <3>1, TerminateGoes
    <3> QED  BY <3>2 DEF NoMotion
  <2> QED  BY <1>5, <2>3, <2>4, <2>5, <2>6, <2>7 DEF DriveStep
<1>6. CASE CleanupStep
  <2> USE <1>1 DEF Acquiring, Rejoining, gate_vars, Follows, Starts, Moves, Continues
  <2>1. CASE Cleanup  BY <2>1, CleanupGoes
  <2>2. CASE LetGo  BY <2>2, LetGoGoes DEF LetGo, WellFormed, Flow
  <2>3. CASE ReleaseReturns
    <3>1. /\ joystick.pc = "release" /\ joystick.then = "ready"
          /\ UNCHANGED <<required, session, last>> /\ joystick'.pc = "ready"
      BY <2>3, ReleaseGoes DEF ReleaseReturns
    <3>2. required /\ session = None /\ last \in NoMotion
      BY <3>1 DEF WellFormed, Flow
    <3>3. Rest(Motors)'
      <4>1. Rest(Motors)  BY <3>1 DEF Quiet, RestPcs
      <4>2. UNCHANGED motor_vars \/ Swept(Motors, {})
        BY <2>3, ReleaseSweeps DEF ReleaseReturns, WellFormed
      <4> QED  BY <1>0, <4>1, <4>2, RestKept, SweptRests
    <3>4. Rest(WheelSet)'  BY <1>0, <3>3
    <3>5. Follow' /\ AsLast'
      BY <3>1, <3>2, <3>4, Setpoints DEF Follow, AsLast, Rest, NoMotion
    <3> QED  BY <3>1, <3>2, <3>3, <3>5
  <2>4. CASE ReleaseCleans  BY <2>4, ReleaseGoes
  <2>5. CASE Pause  BY <2>5, PauseGoes
  <2> QED  BY <1>6, <2>1, <2>2, <2>3, <2>4, <2>5 DEF CleanupStep
<1> QED  BY <1>1, <1>2, <1>3, <1>4, <1>5, <1>6 DEF Next, JoystickStep

\* Hence both always hold.
LEMMA MotionInvariant == Spec => [](Quiet /\ Follows)
<1>1. Init => Quiet /\ Follows
  BY DEF Init, Quiet, Follows, At, AtEase, Rest, RestPcs, Acquiring, Rejoining, NoMotion
<1>2. WellFormed /\ (Quiet /\ Follows) /\ [Next]_vars => (Quiet /\ Follows)'
  BY QuietStep, FollowsStep
<1> QED  BY <1>1, <1>2, WellFormedInvariant, PTL DEF Spec

(* Between two batches the wheels do what the last axis positions say, or   *)
(* stand still while they may not move.                                     *)
THEOREM FollowsStickTheorem == Spec => []FollowsStick
<1>1. Follows => FollowsStick  BY DEF Follows, Follow, FollowsStick
<1> QED  BY <1>1, MotionInvariant, PTL

(* While the missing heading counts as noticed no wheel moves, whatever a   *)
(* shutdown does meanwhile.                                                 *)
THEOREM BlindStandsStillTheorem == Spec => []BlindStandsStill
<1>1. Quiet => BlindStandsStill  BY DEF Quiet, Rest, BlindStandsStill
<1> QED  BY <1>1, MotionInvariant, PTL

-----------------------------------------------------------------------------
(* The shutdown takes the session away before its last sweep, so that no    *)
(* setpoint of the joystick thread is accepted after it.                    *)

Released == {"join", "closing", "disown", "done"}
Halted   == {"disown", "done"}

Stops ==
  /\ shutdown.pc \in {"letgo", "release"} \cup Released => joystick.holds = FALSE
  /\ joystick.pc = "auxiliary" =>
       /\ shutdown.pc \in {"idle", "halt", "reset", "letgo"} => joystick.using = session
       /\ shutdown.pc = "release" => joystick.using = shutdown.using
       /\ shutdown.pc \in Released => ~Valid(joystick.using)
  /\ shutdown.pc \in Halted => Rest(Motors) \/ (joystick.pc = "cleanup" /\ faults >= 2)

(* Away from a late acquire, the joystick thread leaves motors at rest.     *)
LEMMA StaysHalted ==
  ASSUME WellFormed, Quiet, Stops, JoystickStep, shutdown.pc \in Halted
  PROVE  Rest(Motors)' \/ (joystick'.pc = "cleanup" /\ faults' >= 2)
<1>0. /\ Motors \in SUBSET Motors /\ WheelSet \in SUBSET Motors /\ {} \in SUBSET Motors
      /\ faults \in Nat /\ speed \in [Motors -> -3..3]
  BY Layout, TypeParts, ConstantsAssumption DEF WellFormed, MotorsTyped
<1>1. stopEvent /\ ~joystick.holds /\ (joystick.pc = "auxiliary" => ~Valid(joystick.using))
  BY DEF WellFormed, Flow, Stops, Halted, Released
<1>2. joystick.pc \notin {"decide", "drive", "wheel"}
  BY <1>1 DEF WellFormed, Flow, Applying
<1>3. ~BatchStep
  BY <1>1 DEF BatchStep, StopButton, Recenter, TractionBlind, TractionHeld, TractionMoves, TractionRead,
     Hat, Reads
<1>4. CASE Cleanup  BY <1>0, <1>4, CleanupGoes, SweptRests
<1>5. CASE AcquireMotor
  <2>1. Rest(Motors)  BY <1>5 DEF AcquireMotor, Quiet, RestPcs
  <2>2. PICK m \in Motors :
           \/ /\ speed' = [speed EXCEPT ![m] = 0]
              /\ connected' = connected \cup {m}
           \/ \E ms \in SUBSET Motors : Swept(ms, {m})
           \/ /\ joystick'.pc = "cleanup" /\ speed' = speed
              /\ connected' = connected \cup {m} /\ faults' = faults + 1
    BY <1>5, AcquireMotorGoes DEF Starts
  <2>3. CASE \E ms \in SUBSET Motors : Swept(ms, {m})  BY <1>0, <2>1, <2>3, SweptRests
  <2>4. CASE speed' = [speed EXCEPT ![m] = 0] /\ connected' = connected \cup {m}
    BY <1>0, <2>1, <2>4 DEF Rest
  <2>5. CASE /\ joystick'.pc = "cleanup" /\ speed' = speed
             /\ connected' = connected \cup {m} /\ faults' = faults + 1
    <3>1. CASE m \in connected \/ speed[m] = 0
      BY <2>1, <2>5, <3>1 DEF Rest
    <3>2. CASE m \notin connected /\ speed[m] # 0
      <4>1. faults > 0  BY <3>2 DEF Quiet
      <4> QED  BY <1>0, <2>5, <4>1
    <3> QED  BY <3>1, <3>2
  <2> QED  BY <2>2, <2>3, <2>4, <2>5
<1>6. CASE ~Cleanup /\ ~AcquireMotor
  <2>1. joystick.pc # "cleanup"
    BY <1>2, <1>3, <1>6
       DEF JoystickStep, ConnectStep, DriveStep, CleanupStep, Open, Acquire, AcquireEnds, Assign,
           Verify, Snapshot, Settled, ConnectionEnds, Decide, DriveBegins, Wheel, RunAuxiliary,
           Terminate, LetGo, ReleaseReturns, ReleaseCleans, Pause
  <2>2. Rest(Motors)  BY <2>1 DEF Stops
  <2>3. UNCHANGED motor_vars \/ Swept(Motors, {}) \/ Swept({}, {}) \/ Swept({}, {Auxiliary})
    <3>1. CASE ConnectStep
      BY <1>6, <3>1, AcquireEndsGoes
         DEF ConnectStep, Open, Acquire, Assign, Verify, Snapshot, Settled, ConnectionEnds
    <3>2. CASE DriveStep
      <4>1. CASE RunAuxiliary  BY <1>1, <4>1, RunAuxiliaryGoes DEF RunAuxiliary
      <4> QED  BY <1>2, <3>2, <4>1, TerminateGoes DEF DriveStep, Decide, DriveBegins, Wheel
    <3>3. CASE CleanupStep
      BY <1>6, <3>3, ReleaseSweeps
         DEF CleanupStep, LetGo, ReleaseReturns, ReleaseCleans, Pause, WellFormed
    <3> QED  BY <1>3, <3>1, <3>2, <3>3 DEF JoystickStep
  <2> QED  BY <1>0, <2>2, <2>3, RestKept, SweptRests
<1> QED  BY <1>4, <1>5, <1>6

(* The joystick thread takes the state lock for a setpoint before the       *)
(* shutdown only, and so with the auxiliary motor.                          *)
LEMMA HoldsStep ==
  ASSUME WellFormed, JoystickStep
  PROVE  /\ joystick'.holds = joystick.holds \/ joystick'.holds = FALSE \/ shutdown.pc = "idle"
         /\ joystick'.pc = "auxiliary" =>
              shutdown.pc = "idle" /\ joystick'.using = session' /\ session' = session
<1> USE DEF Starts, Moves, Continues
<1>1. CASE ConnectStep
  <2>1. ASSUME ConnectStep, ~Snapshot
        PROVE  joystick'.pc # "auxiliary"
               /\ (joystick'.holds = joystick.holds \/ joystick'.holds = FALSE)
    BY <2>1, OpenGoes, AcquireGoes, AcquireMotorGoes, AcquireEndsGoes, AssignGoes, VerifyGoes,
       ConnectionEndsGoes, FailsStarts DEF ConnectStep, Settled
  <2>2. ASSUME Snapshot PROVE joystick' = joystick /\ joystick.pc # "auxiliary"
    BY <2>2 DEF Snapshot
  <2> QED  BY <1>1, <2>1, <2>2
<1>2. CASE BatchStep
  <2>1. shutdown.pc = "idle" /\ joystick.pc = "ready" /\ UNCHANGED session
    BY <1>2 DEF BatchStep, StopButton, Recenter, TractionBlind, TractionHeld, TractionMoves, TractionRead,
       Hat, Reads, WellFormed, Flow
  <2>2. joystick'.pc = "auxiliary" => joystick'.using = session
    BY <1>2, <2>1, TractionMovesGoes, HatGoes
       DEF BatchStep, StopButton, Recenter, TractionBlind, TractionHeld
  <2> QED  BY <2>1, <2>2
<1>3. CASE DriveStep
  BY <1>3, DecideGoes, DriveBeginsGoes, WheelGoes, RunAuxiliaryGoes, TerminateGoes DEF DriveStep
<1>4. CASE CleanupStep
  BY <1>4, CleanupGoes, LetGoGoes, ReleaseGoes, PauseGoes DEF CleanupStep
<1> QED  BY <1>1, <1>2, <1>3, <1>4 DEF JoystickStep

\* Every step keeps Stops: somebody still has to stop what moves.
LEMMA StopsStep ==
  ASSUME WellFormed, Quiet, Stops, [Next]_vars
  PROVE  Stops'
<1> USE DEF Released, Halted
<1>1. CASE OperatorStep \/ LinkDrops \/ HeadingChanges \/ UNCHANGED vars
  <2>1. UNCHANGED <<joystick, shutdown, session, owner, motor_vars>>
    BY <1>1 DEF OperatorStep, Move, Press, LinkDrops, HeadingChanges, vars, motor_vars
  <2> QED  BY <2>1 DEF Stops, Rest, Valid, motor_vars
<1>2. CASE JoystickStep
  <2>1. UNCHANGED shutdown
    BY <1>2 DEF JoystickStep, ConnectStep, BatchStep, DriveStep, CleanupStep, Open, Acquire, AcquireMotor,
       AcquireEnds, Assign, Verify, Snapshot, Settled, ConnectionEnds, StopButton, Recenter,
       TractionBlind, TractionHeld, TractionMoves, TractionRead, Hat, Decide, DriveBegins, Wheel,
       RunAuxiliary, Terminate, Cleanup, LetGo, ReleaseReturns, ReleaseCleans, Pause
  <2>2. shutdown.pc \in Halted => Rest(Motors)' \/ (joystick'.pc = "cleanup" /\ faults' >= 2)
    BY <1>2, StaysHalted
  <2> QED  BY <1>2, <2>1, <2>2, HoldsStep DEF Stops
<1>3. CASE ShutdownStep
  <2>0. shutdown \in [pc : ShutdownPcs, using : Ids] /\ Motors \in SUBSET Motors
    BY TypeParts DEF WellFormed, ThreadsTyped
  <2> USE <2>0 DEF ShutdownGoes
  <2>1. CASE ShutDown  BY <2>1 DEF ShutDown, Stops
  <2>2. CASE ShutdownHalts
    <3>1. Rest(Motors)'
      BY <2>2, SweepsAll, SweptRests DEF ShutdownHalts, StoppedCodes, WellFormed
    <3>2. UNCHANGED <<joystick, session, owner>>
          /\ \/ shutdown.pc = "halt" /\ shutdown'.pc = "reset"
             \/ shutdown.pc = "closing" /\ shutdown'.pc = "disown"
      BY <2>2 DEF ShutdownHalts
    <3> QED  BY <3>1, <3>2 DEF Stops, Valid
  <2>3. CASE ShutdownResets
    <3>1. joystick.holds = FALSE
      BY <2>3, TypeParts DEF ShutdownResets, WellFormed, ThreadsTyped, JoystickType
    <3> QED  BY <2>3, <3>1 DEF ShutdownResets, Stops
  <2>4. CASE ShutdownLetsGo  BY <2>4 DEF ShutdownLetsGo, Stops
  <2>5. CASE ShutdownReleases
    <3>1. ~Valid(shutdown.using)'
      BY <2>5, ReleaseSweeps DEF ShutdownReleases, WellFormed, Valid, None
    <3> QED  BY <2>5, <3>1 DEF ShutdownReleases, Stops, Valid
  <2>6. CASE ShutdownJoins  BY <2>6 DEF ShutdownJoins, Stops, Valid
  <2>7. CASE ShutdownDisowns
    BY <2>7 DEF ShutdownDisowns, Stops, Valid, Rest, motor_vars
  <2> QED  BY <1>3, <2>1, <2>2, <2>3, <2>4, <2>5, <2>6, <2>7 DEF ShutdownStep
<1> QED  BY <1>1, <1>2, <1>3 DEF Next

(* When both services are stopped every motor with a driver stands still,   *)
(* however late the joystick thread ends and however many calls raised.     *)
THEOREM StoppedAfterShutdownTheorem == Spec => []StoppedAfterShutdown
<1>1. Init => Stops  BY DEF Init, Stops, At, Released, Halted
<1>2. WellFormed /\ Quiet /\ Stops /\ [Next]_vars => Stops'  BY StopsStep
<1>3. WellFormed /\ Stops => StoppedAfterShutdown
  <2> SUFFICES ASSUME WellFormed, Stops, shutdown.pc = "done",
                      joystick.pc = "cleanup" => faults < 2
               PROVE  \A m \in connected : speed[m] = 0
    BY DEF StoppedAfterShutdown
  <2>1. connected \subseteq Motors /\ faults \in Nat
    BY TypeParts, ConstantsAssumption DEF WellFormed, MotorsTyped
  <2>2. Rest(Motors)  BY <2>1 DEF Stops, Halted
  <2> QED  BY <2>1, <2>2 DEF Rest
<1> QED  BY <1>1, <1>2, <1>3, WellFormedInvariant, MotionInvariant, PTL DEF Spec

=============================================================================
