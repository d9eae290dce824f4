------------------------ MODULE DriveNavigation_proofs ------------------------
(***************************************************************************)
(* Proofs about DriveNavigation, for every target, tolerance, stall limit, *)
(* number of recoveries and number of commands.                            *)
(***************************************************************************)
EXTENDS DriveNavigation, TLAPS

-----------------------------------------------------------------------------
(* Arithmetic.                                                             *)

\* The assumption on the constants, as types.
LEMMA ConstantTypes ==
  /\ TargetDistance \in Nat \ {0} /\ TargetAngle \in Nat \ {0} /\ FullTurn \in Nat \ {0}
  /\ MaxQuiet \in Nat \ {0} /\ MaxTravel \in Nat \ {0} /\ MaxCommands \in Nat \ {0}
  /\ Tolerance \in Nat /\ MaxRecoveries \in Nat
BY DriveAssumption

\* The bound of the way is a number.
LEMMA FarthestNat == Farthest \in Nat
<1>1. ASSUME NEW a \in Nat, NEW b \in Nat
      PROVE  a * b \in Nat
  BY <1>1
<1>2. TargetDistance + MaxTravel \in Nat
  BY ConstantTypes
<1> QED  BY <1>1, <1>2, ConstantTypes DEF Farthest

(* Angles are kept within a turn. *)
LEMMA WithinTurn ==
  ASSUME NEW x \in Int
  PROVE  x % FullTurn \in 0..(FullTurn - 1)
BY ConstantTypes

\* A heading that is normalized is a number.
LEMMA NormalizedInt ==
  ASSUME NEW x \in Int
  PROVE  Normalized(x) \in Int
<1>1. FullTurn \div 2 \in Int
  BY ConstantTypes
<1>2. (x + FullTurn \div 2) % FullTurn \in Int
  BY <1>1, WithinTurn, ConstantTypes
<1> QED  BY <1>1, <1>2 DEF Normalized

\* So is the size of a difference, and it is not negative.
LEMMA SizeNat == \A n \in Int : Size(n) \in Nat
BY DEF Size

\* The progress is not negative.
LEMMA ProgressNat ==
  ASSUME TypeOK
  PROVE  Progress \in Nat
<1>1. pose.distance - worker.start \in Int /\ store.heading - worker.start \in Int
  BY FarthestNat, ConstantTypes DEF TypeOK, PoseType, WorkerType, StoreType
<1> QED  BY <1>1, SizeNat, NormalizedInt DEF Progress

\* Integrating a reading keeps the pose in its type.
LEMMA IntegratedType ==
  ASSUME TypeOK, NEW seen \in Int
  PROVE  Integrated(seen) \in PoseType
<1>1. pose.distance \in 0..Farthest /\ pose.last \in Int
  BY DEF TypeOK, PoseType
<1>2. Size(seen - pose.last) \in Nat
  BY <1>1, SizeNat
<1>3. Travelled(seen) \in 0..Farthest
  BY <1>1, <1>2, FarthestNat DEF Travelled
<1> QED  BY <1>3 DEF Integrated, PoseType

-----------------------------------------------------------------------------
(* Types.                                                                  *)

\* The changes of the thread's record that occur keep it in its type.
LEMMA WorkerMoves ==
  ASSUME NEW w \in WorkerType, NEW pc \in Working, NEW n \in Int, NEW p \in Nat,
         NEW q \in 0..MaxQuiet
  PROVE  /\ [w EXCEPT !.pc = pc, !.seen = n] \in WorkerType
         /\ [w EXCEPT !.pc = pc, !.start = n, !.mark = p, !.quiet = q] \in WorkerType
         /\ [w EXCEPT !.pc = pc, !.mark = p, !.quiet = q] \in WorkerType
BY ConstantTypes DEF WorkerType

\* The types hold at first.
LEMMA TypeInit == Init => TypeOK
<1> SUFFICES ASSUME Init  PROVE TypeOK
  OBVIOUS
<1>1. command \in CommandType
  BY ConstantTypes DEF Init, CommandType, Kinds, States
<1>2. worker \in WorkerType
  BY ConstantTypes DEF Init, WorkerType
<1>3. rest \in RestType
  BY DEF Init, RestType
<1>4. pose \in PoseType /\ store \in StoreType /\ tank \in TankType
  <2>1. PICK advanced \in 0..1, turned \in 0..1 :
          /\ store = [wheels |-> -advanced, heading |-> (FullTurn - turned) % FullTurn]
          /\ pose = [distance |-> 0, last |-> -advanced]
    BY DEF Init
  <2>2. (FullTurn - turned) % FullTurn \in 0..(FullTurn - 1)
    <3>1. FullTurn - turned \in Int
      BY ConstantTypes
    <3> QED  BY <3>1, WithinTurn
  <2>3. tank \in TankType
    BY DEF Init, TankType
  <2> QED  BY <2>1, <2>2, <2>3, FarthestNat DEF PoseType, StoreType
<1>5. rover \in RoverType
  BY ConstantTypes DEF Init, RoverType
<1>6. stopEvent \in BOOLEAN /\ undisturbed \in BOOLEAN
  BY DEF Init
<1>7. issued \in 0..MaxCommands /\ path \in Int /\ late \in Nat
  BY ConstantTypes DEF Init
<1> QED  BY <1>1, <1>2, <1>3, <1>4, <1>5, <1>6, <1>7 DEF TypeOK

\* Stopping the motors keeps their record and that of drive_tank in their types.
LEMMA StopDriveType ==
  ASSUME TypeOK, StopDrive
  PROVE  rover' \in RoverType /\ tank' \in TankType
BY DEF TypeOK, StopDrive, Told, RoverType, TankType

\* Every step keeps the types.
LEMMA TypeNext ==
  ASSUME TypeOK, [Next]_vars
  PROVE  TypeOK'
<1> USE ConstantTypes DEF TypeOK
<1>1. ASSUME NEW kind \in Kinds, NEW recover \in BOOLEAN, Start(kind, recover)
      PROVE  TypeOK'
  <2>1. worker' \in WorkerType
    BY <1>1 DEF Start, WorkerType, Working
  <2>2. rover' \in RoverType
    BY <1>1 DEF Start, RoverType
  <2>3. command' \in CommandType
    BY <1>1 DEF Start, CommandType, States
  <2>4. pose' \in PoseType
    BY <1>1 DEF Start, PoseType, StoreType
  <2>5. stopEvent' \in BOOLEAN /\ undisturbed' \in BOOLEAN
    BY <1>1 DEF Start
  <2>6. issued' \in 0..MaxCommands /\ path' \in Int /\ late' \in Nat /\ rest' \in RestType
    BY <1>1 DEF Start
  <2>7. store' \in StoreType /\ tank' \in TankType
    BY <1>1 DEF Start
  <2> QED  BY <2>1, <2>2, <2>3, <2>4, <2>5, <2>6, <2>7
<1>2. CASE StopRequested
  <2>1. rest' \in RestType
    BY <1>2 DEF StopRequested, RestType
  <2> QED  BY <1>2, <2>1 DEF StopRequested
<1>3. CASE StopBrakes
  <2>1. rest' \in RestType
    BY <1>3 DEF StopBrakes, RestType
  <2>2. rover' \in RoverType /\ tank' \in TankType
    BY <1>3, StopDriveType DEF StopBrakes
  <2> QED  BY <1>3, <2>1, <2>2 DEF StopBrakes
<1>4. CASE StopMarks
  <2>1. rest' \in RestType
    BY <1>4 DEF StopMarks, RestType
  <2>2. command' \in CommandType
    BY <1>4 DEF StopMarks, CommandType, Kinds, States, InState
  <2> QED  BY <1>4, <2>1, <2>2 DEF StopMarks
<1>5. CASE StatusRequested
  <2>1. rest' \in RestType
    BY <1>5 DEF StatusRequested, RestType
  <2> QED  BY <1>5, <2>1 DEF StatusRequested
<1>6. CASE RestReads
  <2>1. rest' \in RestType
    BY <1>6 DEF RestReads, RestType, StoreType
  <2> QED  BY <1>6, <2>1 DEF RestReads
<1>7. CASE RestIntegrates
  <2>1. rest' \in RestType
    BY <1>7 DEF RestIntegrates, RestType
  <2>2. pose' \in PoseType
    BY <1>7, IntegratedType DEF RestIntegrates, RestType
  <2> QED  BY <1>7, <2>1, <2>2 DEF RestIntegrates
<1>8. CASE ResetRequested
  <2>1. pose' \in PoseType
    BY <1>8, FarthestNat DEF ResetRequested, PoseType, StoreType
  <2> QED  BY <1>8, <2>1 DEF ResetRequested
<1>9. CASE Begin
  <2>a. Gauge \in Int
    BY FarthestNat, ConstantTypes DEF Gauge, PoseType, StoreType
  <2>b. "test" \in Working /\ 0 \in Nat /\ 0 \in 0..MaxQuiet
    BY DEF Working
  <2>1. worker' \in WorkerType
    BY <1>9, <2>a, <2>b, WorkerMoves DEF Begin
  <2> QED  BY <1>9, <2>1 DEF Begin
<1>10. CASE Test
  <2>1. worker' \in WorkerType
    BY <1>10 DEF Test, WorkerType, Working, At, Goes, Ended
  <2> QED  BY <1>10, <2>1 DEF Test
<1>11. CASE Read
  <2>1. worker' \in WorkerType
    BY <1>11 DEF Read, WorkerType, Working, At, Goes, Ended, StoreType
  <2> QED  BY <1>11, <2>1 DEF Read
<1>12. CASE Integrate
  <2>1. worker' \in WorkerType
    <3> DEFINE pc == IF worker.pc = "integrate" THEN "judge" ELSE "finish"
    <3>1. pc \in Working /\ 0 \in Int /\ 0 \in Nat /\ 0 \in 0..MaxQuiet
      BY DEF Working
    <3> HIDE DEF pc
    <3>2. worker' = [worker EXCEPT !.pc = pc, !.seen = 0]
      BY <1>12 DEF Integrate, pc
    <3> QED  BY <3>1, <3>2, WorkerMoves
  <2>2. pose' \in PoseType
    BY <1>12, IntegratedType DEF Integrate, WorkerType
  <2> QED  BY <1>12, <2>1, <2>2 DEF Integrate
<1>13. CASE Judge
  <2>1. worker' \in WorkerType
    BY <1>13, ProgressNat DEF Judge, WorkerType, Working, At, Goes, Ended
  <2> QED  BY <1>13, <2>1 DEF Judge
<1>14. CASE Drive
  <2>1. worker' \in WorkerType
    BY <1>14 DEF Drive, WorkerType, Working, At, Goes
  <2>2. rover' \in RoverType /\ late' \in Nat
    BY <1>14 DEF Drive, RoverType, Told, Order, Refused
  <2>3. tank' \in TankType
    BY <1>14 DEF Drive, TankType
  <2>4. command' \in CommandType
    BY <1>14 DEF Drive, CommandType
  <2> QED  BY <1>14, <2>1, <2>2, <2>3, <2>4 DEF Drive
<1>15. CASE Watch
  <2>1. worker' \in WorkerType
    <3> DEFINE progressed == worker.progress # worker.mark
               stalled    == Quiet(progressed) >= MaxQuiet
               pc   == IF ~stalled THEN "test" ELSE IF Recovers THEN "brake" ELSE "abort"
               mark == IF progressed THEN worker.progress ELSE worker.mark
               quiet == IF stalled THEN worker.quiet ELSE Quiet(progressed)
    <3>1. pc \in Working
      BY DEF Working
    <3>2. mark \in Nat
      BY DEF WorkerType
    <3>3. worker.quiet \in 0..MaxQuiet
      BY DEF WorkerType
    <3>4. quiet \in 0..MaxQuiet
      BY <3>3 DEF Quiet
    <3>5. worker' = [worker EXCEPT !.pc = pc, !.mark = mark, !.quiet = quiet]
      BY <1>15 DEF Watch
    <3> QED  BY <3>1, <3>2, <3>4, <3>5, WorkerMoves
  <2>2. rover' \in RoverType
    BY <1>15 DEF Watch, RoverType, Told, Order
  <2>3. command' \in CommandType
    <3>1. CASE command' = command
      BY <3>1
    <3>2. CASE Recovers /\ command' = [command EXCEPT !.state = "RECOVERING", !.attempts = @ + 1]
      <4>1. command.attempts + 1 \in 0..MaxRecoveries
        BY <3>2 DEF Recovers, CommandType
      <4>2. command' = [command EXCEPT !.state = "RECOVERING", !.attempts = command.attempts + 1]
        BY <3>2
      <4> QED  BY <4>1, <4>2 DEF CommandType, States
    <3>3. CASE command' = [command EXCEPT !.state = "STALLED", !.error = "stalled"]
      BY <3>3 DEF CommandType, States
    <3> QED  BY <1>15, <3>1, <3>2, <3>3 DEF Watch
  <2> QED  BY <1>15, <2>1, <2>2, <2>3 DEF Watch
<1>16. CASE Brake
  <2>1. worker' \in WorkerType
    BY <1>16 DEF Brake, WorkerType, Working, At, Goes, Ended
  <2>2. rover' \in RoverType /\ tank' \in TankType
    BY <1>16, StopDriveType DEF Brake
  <2> QED  BY <1>16, <2>1, <2>2 DEF Brake
<1>17. CASE BatchRefused
  <2>1. worker' \in WorkerType
    <3>1. "test" \in Working /\ 0 \in 0..MaxQuiet
      BY DEF Working
    <3> QED  BY <1>17, <3>1, ProgressNat, WorkerMoves DEF BatchRefused
  <2>2. rover' \in RoverType
    BY <1>17 DEF BatchRefused, RoverType, Told, Order
  <2>3. command' \in CommandType
    BY <1>17 DEF BatchRefused, CommandType, Kinds, States, InState
  <2> QED  BY <1>17, <2>1, <2>2, <2>3 DEF BatchRefused
<1>18. CASE BatchQueued
  <2>1. worker' \in WorkerType
    BY <1>18 DEF BatchQueued, WorkerType, Working, At, Goes, Ended
  <2>2. rover' \in RoverType /\ late' \in Nat
    BY <1>18 DEF BatchQueued, RoverType, Told, Order, Refused
  <2>3. tank' \in TankType
    BY <1>18 DEF BatchQueued, TankType
  <2> QED  BY <1>18, <2>1, <2>2, <2>3 DEF BatchQueued
<1>19. CASE WaitExpires
  <2>1. worker' \in WorkerType
    BY <1>19 DEF WaitExpires, WorkerType, Working, At, Goes, Ended
  <2>2. command' \in CommandType
    BY <1>19 DEF WaitExpires, CommandType, Kinds, States, InState
  <2> QED  BY <1>19, <2>1, <2>2 DEF WaitExpires
<1>20. CASE Abort
  <2>1. worker' \in WorkerType
    BY <1>20 DEF Abort, WorkerType, Working, At, Goes, Ended
  <2>2. rover' \in RoverType /\ tank' \in TankType
    BY <1>20, StopDriveType DEF Abort
  <2> QED  BY <1>20, <2>1, <2>2 DEF Abort
<1>21. CASE Fail
  <2>1. worker' \in WorkerType
    BY <1>21 DEF Fail, WorkerType, Working, At, Goes, Ended
  <2>2. command' \in CommandType
    BY <1>21 DEF Fail, CommandType, Kinds, States, InState
  <2> QED  BY <1>21, <2>1, <2>2 DEF Fail
<1>22. CASE Halt
  <2>1. worker' \in WorkerType
    BY <1>22 DEF Halt, WorkerType, Working, At, Goes, Ended
  <2>2. rover' \in RoverType /\ tank' \in TankType
    BY <1>22, StopDriveType DEF Halt
  <2> QED  BY <1>22, <2>1, <2>2 DEF Halt
<1>23. CASE Finish
  <2>1. worker' \in WorkerType
    BY <1>23 DEF Finish, WorkerType, Working, At, Goes, Ended
  <2>2. command' \in CommandType
    BY <1>23 DEF Finish, CommandType, Kinds, States, InState
  <2> QED  BY <1>23, <2>1, <2>2 DEF Finish
<1>24. CASE RoverAdvances
  <2>1. rover' \in RoverType
    <3>1. rover.wheels + 1 \in Int /\ rover.heading + 1 \in Int
      BY DEF RoverType
    <3>2. (rover.heading + 1) % FullTurn \in 0..(FullTurn - 1)
      BY <3>1, WithinTurn
    <3>3. CASE rover' = [rover EXCEPT !.wheels = @ + 1, !.moved = TRUE]
      BY <3>1, <3>3 DEF RoverType
    <3>4. CASE rover' = [rover EXCEPT !.heading = (@ + 1) % FullTurn, !.moved = TRUE]
      BY <3>2, <3>4 DEF RoverType
    <3> QED  BY <1>24, <3>3, <3>4 DEF RoverAdvances
  <2> QED  BY <1>24, <2>1 DEF RoverAdvances
<1>25. CASE RoverBacks
  <2>1. rover' \in RoverType
    <3>1. rover' = [rover EXCEPT !.wheels = rover.wheels - 1, !.traction = "still"]
      BY <1>25 DEF RoverBacks
    <3>2. rover.wheels - 1 \in Int
      BY DEF RoverType
    <3> QED  BY <3>1, <3>2 DEF RoverType
  <2> QED  BY <1>25, <2>1 DEF RoverBacks
<1>26. CASE MotorsAreReserved
  <2>1. rover' \in RoverType
    BY <1>26 DEF MotorsAreReserved, RoverType, Told
  <2> QED  BY <1>26, <2>1 DEF MotorsAreReserved
<1>27. CASE Executes
  <2>1. rover' \in RoverType
    BY <1>27 DEF Executes, RoverType
  <2>2. tank' \in TankType
    BY <1>27 DEF Executes, TankType
  <2> QED  BY <1>27, <2>1, <2>2 DEF Executes
<1>28. CASE SupervisionStops
  <2>1. rover' \in RoverType
    BY <1>28 DEF SupervisionStops, RoverType
  <2>2. tank' \in TankType
    BY <1>28 DEF SupervisionStops, TankType
  <2> QED  BY <1>28, <2>1, <2>2 DEF SupervisionStops
<1>29. CASE PublishMotors
  <2>1. store' \in StoreType
    BY <1>29 DEF PublishMotors, StoreType, RoverType
  <2> QED  BY <1>29, <2>1 DEF PublishMotors
<1>30. CASE PublishHeading
  <2>1. store' \in StoreType
    BY <1>30 DEF PublishHeading, StoreType, RoverType
  <2> QED  BY <1>30, <2>1 DEF PublishHeading
<1>31. CASE StoreFallsBack
  <2>1. store.wheels - 1 \in Int
    BY DEF StoreType
  <2>2. store' = [store EXCEPT !.wheels = store.wheels - 1]
    BY <1>31 DEF StoreFallsBack
  <2>3. store' \in StoreType
    BY <2>1, <2>2 DEF StoreType
  <2> QED  BY <1>31, <2>3 DEF StoreFallsBack
<1>32. CASE UNCHANGED vars
  BY <1>32 DEF vars
<1> QED
  BY <1>1, <1>2, <1>3, <1>4, <1>5, <1>6, <1>7, <1>8, <1>9, <1>10, <1>11, <1>12, <1>13, <1>14,
     <1>15, <1>16, <1>17, <1>18, <1>19, <1>20, <1>21, <1>22, <1>23, <1>24, <1>25, <1>26, <1>27,
     <1>28, <1>29, <1>30, <1>31, <1>32
  DEF Next, RestContinues, Navigates

\* DriveService's command, pose, counters and threads keep their types.
THEOREM NavigationTypes == Spec => []TypeOK
<1> QED  BY TypeInit, TypeNext, PTL DEF Spec

-----------------------------------------------------------------------------
(* Nothing moves when navigation has ended.                                *)

\* A thread that is about to end has stopped the motors, and one that begins found
\* them so: nothing is queued either.
Stilled ==
  worker.pc \in {"none", "begin", "fail", "lastRead", "lastIntegrate", "finish"} =>
    rover.traction = "still"

\* Every step keeps Stilled: a thread past its stop has nothing moving.
LEMMA StilledNext ==
  ASSUME TypeOK, Stilled, [Next]_vars
  PROVE  Stilled'
<1> USE DEF Stilled, TypeOK, WorkerType, RoverType
<1>1. ASSUME NEW kind \in Kinds, NEW recover \in BOOLEAN, Start(kind, recover)
      PROVE  Stilled'
  BY <1>1 DEF Start
<1>2. CASE StopRequested
  BY <1>2 DEF StopRequested
<1>3. CASE StopBrakes
  BY <1>3 DEF StopBrakes, StopDrive, Told
<1>4. CASE StopMarks
  BY <1>4 DEF StopMarks
<1>5. CASE StatusRequested
  BY <1>5 DEF StatusRequested
<1>6. CASE RestReads
  BY <1>6 DEF RestReads
<1>7. CASE RestIntegrates
  BY <1>7 DEF RestIntegrates
<1>8. CASE ResetRequested
  BY <1>8 DEF ResetRequested
<1>9. CASE Begin
  BY <1>9 DEF Begin, At
<1>10. CASE Test
  BY <1>10 DEF Test, At, Goes
<1>11. CASE Read
  BY <1>11 DEF Read
<1>12. CASE Integrate
  BY <1>12 DEF Integrate
<1>13. CASE Judge
  BY <1>13 DEF Judge, At
<1>14. CASE Drive
  BY <1>14 DEF Drive, At, Goes, Order, Refused, Told
<1>15. CASE Watch
  BY <1>15 DEF Watch, At
<1>16. CASE Brake
  BY <1>16 DEF Brake, At, Goes, StopDrive, Told
<1>17. CASE BatchRefused
  BY <1>17 DEF BatchRefused, At, InState
<1>18. CASE BatchQueued
  BY <1>18 DEF BatchQueued, At, Goes, Order, Refused, Told
<1>19. CASE WaitExpires
  BY <1>19 DEF WaitExpires, At, Goes, InState
<1>20. CASE Abort
  BY <1>20 DEF Abort, At, Goes, StopDrive, Told
<1>21. CASE Fail
  BY <1>21 DEF Fail, At, Ended, InState
<1>22. CASE Halt
  BY <1>22 DEF Halt, At, Goes, StopDrive, Told
<1>23. CASE Finish
  BY <1>23 DEF Finish, At, Ended
<1>24. CASE RoverAdvances
  BY <1>24 DEF RoverAdvances
<1>25. CASE RoverBacks
  BY <1>25 DEF RoverBacks
<1>26. CASE MotorsAreReserved
  BY <1>26 DEF MotorsAreReserved, Told
<1>27. CASE Executes
  BY <1>27 DEF Executes
<1>28. CASE SupervisionStops
  BY <1>28 DEF SupervisionStops
<1>29. CASE PublishMotors
  BY <1>29 DEF PublishMotors
<1>30. CASE PublishHeading
  BY <1>30 DEF PublishHeading
<1>31. CASE StoreFallsBack
  BY <1>31 DEF StoreFallsBack
<1>32. CASE UNCHANGED vars
  BY <1>32 DEF vars
<1> HIDE DEF Stilled, TypeOK, WorkerType, RoverType
<1> QED
  BY <1>1, <1>2, <1>3, <1>4, <1>5, <1>6, <1>7, <1>8, <1>9, <1>10, <1>11, <1>12, <1>13, <1>14,
     <1>15, <1>16, <1>17, <1>18, <1>19, <1>20, <1>21, <1>22, <1>23, <1>24, <1>25, <1>26, <1>27,
     <1>28, <1>29, <1>30, <1>31, <1>32
  DEF Next, RestContinues, Navigates

\* A navigation that has ended, whichever way _run_command ended it, leaves nothing
\* moving that it ordered.
THEOREM IdleIsStill == Spec => []IdleMeansStill
<1>1. Init => Stilled
  BY DEF Init, Stilled
<1>2. Stilled => IdleMeansStill
  BY DEF Stilled, IdleMeansStill, At
<1> QED  BY <1>1, <1>2, TypeInit, TypeNext, StilledNext, PTL DEF Spec

-----------------------------------------------------------------------------
(* Motion ordered after a stop.                                            *)

\* The event that was set is seen at the next test; past it, nothing was ordered
\* since the stop, and one drive may be followed by one recovery, which is the last.
LateInv ==
  /\ ~stopEvent => late = 0
  /\ worker.pc \in {"begin", "read", "integrate", "judge", "drive"} => late = 0
  /\ worker.pc \in {"test", "watch", "brake", "batch"} => late <= 1
  /\ late <= 2

\* Every step keeps the count of what may still be ordered.
LEMMA LateNext ==
  ASSUME TypeOK, LateInv, [Next]_vars
  PROVE  LateInv'
<1> USE DEF LateInv, TypeOK, WorkerType
<1>1. ASSUME NEW kind \in Kinds, NEW recover \in BOOLEAN, Start(kind, recover)
      PROVE  LateInv'
  BY <1>1 DEF Start
<1>2. CASE StopRequested
  BY <1>2 DEF StopRequested
<1>3. CASE StopBrakes
  BY <1>3 DEF StopBrakes, StopDrive, Told
<1>4. CASE StopMarks
  BY <1>4 DEF StopMarks
<1>5. CASE StatusRequested
  BY <1>5 DEF StatusRequested
<1>6. CASE RestReads
  BY <1>6 DEF RestReads
<1>7. CASE RestIntegrates
  BY <1>7 DEF RestIntegrates
<1>8. CASE ResetRequested
  BY <1>8 DEF ResetRequested
<1>9. CASE Begin
  BY <1>9 DEF Begin, At
<1>10. CASE Test
  BY <1>10 DEF Test, At, Goes
<1>11. CASE Read
  BY <1>11 DEF Read
<1>12. CASE Integrate
  BY <1>12 DEF Integrate
<1>13. CASE Judge
  BY <1>13 DEF Judge, At
<1>14. CASE Drive
  BY <1>14 DEF Drive, At, Goes, Order, Refused, Told
<1>15. CASE Watch
  BY <1>15 DEF Watch, At
<1>16. CASE Brake
  BY <1>16 DEF Brake, At, Goes, StopDrive, Told
<1>17. CASE BatchRefused
  BY <1>17 DEF BatchRefused, At, InState
<1>18. CASE BatchQueued
  BY <1>18 DEF BatchQueued, At, Goes, Order, Refused, Told
<1>19. CASE WaitExpires
  BY <1>19 DEF WaitExpires, At, Goes, InState
<1>20. CASE Abort
  BY <1>20 DEF Abort, At, Goes, StopDrive, Told
<1>21. CASE Fail
  BY <1>21 DEF Fail, At, Ended, InState
<1>22. CASE Halt
  BY <1>22 DEF Halt, At, Goes, StopDrive, Told
<1>23. CASE Finish
  BY <1>23 DEF Finish, At, Ended
<1>24. CASE RoverAdvances
  BY <1>24 DEF RoverAdvances
<1>25. CASE RoverBacks
  BY <1>25 DEF RoverBacks
<1>26. CASE MotorsAreReserved
  BY <1>26 DEF MotorsAreReserved, Told
<1>27. CASE Executes
  BY <1>27 DEF Executes
<1>28. CASE SupervisionStops
  BY <1>28 DEF SupervisionStops
<1>29. CASE PublishMotors
  BY <1>29 DEF PublishMotors
<1>30. CASE PublishHeading
  BY <1>30 DEF PublishHeading
<1>31. CASE StoreFallsBack
  BY <1>31 DEF StoreFallsBack
<1>32. CASE UNCHANGED vars
  BY <1>32 DEF vars
<1> HIDE DEF LateInv, TypeOK, WorkerType
<1> QED
  BY <1>1, <1>2, <1>3, <1>4, <1>5, <1>6, <1>7, <1>8, <1>9, <1>10, <1>11, <1>12, <1>13, <1>14,
     <1>15, <1>16, <1>17, <1>18, <1>19, <1>20, <1>21, <1>22, <1>23, <1>24, <1>25, <1>26, <1>27,
     <1>28, <1>29, <1>30, <1>31, <1>32
  DEF Next, RestContinues, Navigates

\* DriveService.stop is overtaken by one drive and one recovery of the thread that
\* had tested the event before, and by nothing else.
THEOREM StopIsOvertakenTwice == Spec => []LateMotionIsBounded
<1>1. Init => LateInv
  BY DEF Init, LateInv
<1>2. LateInv => LateMotionIsBounded
  BY DEF LateInv, LateMotionIsBounded
<1> QED  BY <1>1, <1>2, TypeInit, TypeNext, LateNext, PTL DEF Spec

-----------------------------------------------------------------------------
(* COMPLETED means that the target was reached.                            *)

Clean == undisturbed /\ ~stopEvent

BeforeHalt == {"begin", "test", "read", "integrate", "judge", "drive", "watch", "brake", "batch"}

\* The store is not ahead of the wheels.  What the odometry has added since the start,
\* and what it has still to add, is no more than the rover has come.
MoveOnTheWay ==
  /\ pose.last <= store.wheels /\ store.wheels <= rover.wheels
  /\ worker.pc = "begin" => rover.wheels - pose.last <= path
  /\ worker.pc # "begin" =>
       /\ worker.start <= pose.distance
       /\ (pose.distance - worker.start) + (rover.wheels - pose.last) <= path
  /\ worker.pc = "integrate" => pose.last <= worker.seen /\ worker.seen <= store.wheels

\* Neither the heading nor what the store shows of it is farther from the start than
\* the rover has turned.
TurnOnTheWay ==
  /\ worker.pc = "begin" => path = 0 /\ store.heading = rover.heading
  /\ worker.pc # "begin" =>
       /\ worker.start \in 0..(FullTurn - 1)
       /\ Size(Normalized(rover.heading - worker.start)) <= path
       /\ Size(Normalized(store.heading - worker.start)) <= path

OnTheWay ==
  \/ path >= Target
  \/ command.kind = "MOVE" /\ MoveOnTheWay
  \/ command.kind = "TURN" /\ TurnOnTheWay

\* A recovery never returns to the loop, and requests meanwhile are remembered.
Settled ==
  /\ rover.traction = "backing" => worker.pc \in {"wait", "abort"}
  /\ command.state = "COMPLETED" => worker.pc = "none"
  /\ Clean /\ worker.pc # "none" => rest.pc = "idle"

Reaching ==
  /\ Clean /\ worker.pc \in BeforeHalt => OnTheWay
  /\ Clean /\ worker.pc \in {"halt", "lastRead", "lastIntegrate", "finish"} =>
       path + Tolerance >= Target
  /\ CompletedMeansReached

\* Every step keeps Settled.
LEMMA SettledNext ==
  ASSUME TypeOK, Stilled, Settled, [Next]_vars
  PROVE  Settled'
<1> USE DEF Settled, Stilled, Clean, TypeOK, WorkerType, RoverType, CommandType, RestType
<1>1. ASSUME NEW kind \in Kinds, NEW recover \in BOOLEAN, Start(kind, recover)
      PROVE  Settled'
  BY <1>1 DEF Start
<1>2. CASE StopRequested
  BY <1>2 DEF StopRequested
<1>3. CASE StopBrakes
  BY <1>3 DEF StopBrakes, StopDrive, Told
<1>4. CASE StopMarks
  BY <1>4 DEF StopMarks
<1>5. CASE StatusRequested
  BY <1>5 DEF StatusRequested
<1>6. CASE RestReads
  BY <1>6 DEF RestReads
<1>7. CASE RestIntegrates
  BY <1>7 DEF RestIntegrates
<1>8. CASE ResetRequested
  BY <1>8 DEF ResetRequested
<1>9. CASE Begin
  BY <1>9 DEF Begin, At
<1>10. CASE Test
  BY <1>10 DEF Test, At, Goes
<1>11. CASE Read
  BY <1>11 DEF Read
<1>12. CASE Integrate
  BY <1>12 DEF Integrate
<1>13. CASE Judge
  BY <1>13 DEF Judge, At
<1>14. CASE Drive
  BY <1>14 DEF Drive, At, Goes, Order, Refused, Told
<1>15. CASE Watch
  BY <1>15 DEF Watch, At
<1>16. CASE Brake
  BY <1>16 DEF Brake, At, Goes, StopDrive, Told
<1>17. CASE BatchRefused
  BY <1>17 DEF BatchRefused, At, InState
<1>18. CASE BatchQueued
  BY <1>18 DEF BatchQueued, At, Goes, Order, Refused, Told
<1>19. CASE WaitExpires
  BY <1>19 DEF WaitExpires, At, Goes, InState
<1>20. CASE Abort
  BY <1>20 DEF Abort, At, Goes, StopDrive, Told
<1>21. CASE Fail
  BY <1>21 DEF Fail, At, Ended, InState
<1>22. CASE Halt
  BY <1>22 DEF Halt, At, Goes, StopDrive, Told
<1>23. CASE Finish
  BY <1>23 DEF Finish, At, Ended
<1>24. CASE RoverAdvances
  BY <1>24 DEF RoverAdvances
<1>25. CASE RoverBacks
  BY <1>25 DEF RoverBacks
<1>26. CASE MotorsAreReserved
  BY <1>26 DEF MotorsAreReserved, Told
<1>27. CASE Executes
  BY <1>27 DEF Executes
<1>28. CASE SupervisionStops
  BY <1>28 DEF SupervisionStops
<1>29. CASE PublishMotors
  BY <1>29 DEF PublishMotors
<1>30. CASE PublishHeading
  BY <1>30 DEF PublishHeading
<1>31. CASE StoreFallsBack
  BY <1>31 DEF StoreFallsBack
<1>32. CASE UNCHANGED vars
  BY <1>32 DEF vars
<1> HIDE DEF Settled, Stilled, Clean, TypeOK, WorkerType, RoverType, CommandType, RestType
<1> QED
  BY <1>1, <1>2, <1>3, <1>4, <1>5, <1>6, <1>7, <1>8, <1>9, <1>10, <1>11, <1>12, <1>13, <1>14,
     <1>15, <1>16, <1>17, <1>18, <1>19, <1>20, <1>21, <1>22, <1>23, <1>24, <1>25, <1>26, <1>27,
     <1>28, <1>29, <1>30, <1>31, <1>32
  DEF Next, RestContinues, Navigates

\* The remainder of an angle between one turn and two.
LEMMA TurnCompleted ==
  ASSUME NEW x \in Int, x >= FullTurn, x < 2 * FullTurn
  PROVE  x % FullTurn = x - FullTurn
BY ConstantTypes

(* One unit of heading changes an angle between half a turn and half a turn back by
   one unit at most in size, also where it wraps. *)
LEMMA NormalizedStep ==
  ASSUME NEW h \in 0..(FullTurn - 1), NEW s \in 0..(FullTurn - 1)
  PROVE  /\ Size(Normalized(s - s)) = 0
         /\ Size(Normalized(((h + 1) % FullTurn) - s)) <= Size(Normalized(h - s)) + 1
<1> DEFINE half == FullTurn \div 2
<1>1. half \in Nat /\ 2 * half \in {FullTurn, FullTurn - 1}
  BY ConstantTypes
<1>2. \A x \in Int : /\ x \in 0..(FullTurn - 1) => x % FullTurn = x
                     /\ x \in (-FullTurn)..(-1) => x % FullTurn = x + FullTurn
  BY ConstantTypes
<1>3. \A x \in Int : Normalized(x) = ((x + half) % FullTurn) - half
  BY DEF Normalized
<1> HIDE DEF half
<1>4. ASSUME NEW x \in (1 - FullTurn)..(FullTurn - 1)
      PROVE  Normalized(x) = IF x < -half THEN x + FullTurn
                             ELSE IF x >= FullTurn - half THEN x - FullTurn ELSE x
  <2>1. x + half \in Int /\ Normalized(x) = ((x + half) % FullTurn) - half
    BY <1>1, <1>3
  <2>2. CASE x < -half
    <3>1. x + half \in (-FullTurn)..(-1)
      BY <1>1, <2>2, ConstantTypes
    <3>2. (x + half) % FullTurn = x + half + FullTurn
      BY <1>2, <2>1, <3>1
    <3> QED  BY <1>1, <2>1, <2>2, <3>2, ConstantTypes
  <2>3. CASE x >= FullTurn - half
    <3> DEFINE y == x + half
    <3>1. y \in Int /\ y >= FullTurn /\ y < 2 * FullTurn
      BY <1>1, <2>3, ConstantTypes
    <3> HIDE DEF y
    <3>2. y % FullTurn = y - FullTurn
      BY <3>1, TurnCompleted
    <3>3. Normalized(x) = x - FullTurn
      BY <1>1, <2>1, <3>2, ConstantTypes DEF y
    <3> QED  BY <1>1, <2>3, <3>3, ConstantTypes
  <2>4. CASE ~(x < -half) /\ ~(x >= FullTurn - half)
    <3>1. x + half \in 0..(FullTurn - 1)
      BY <1>1, <2>4, ConstantTypes
    <3>2. (x + half) % FullTurn = x + half
      BY <1>2, <2>1, <3>1
    <3> QED  BY <1>1, <2>1, <2>4, <3>2, ConstantTypes
  <2> QED  BY <2>2, <2>3, <2>4
<1>5. (h + 1) % FullTurn = IF h + 1 = FullTurn THEN 0 ELSE h + 1
  BY <1>2, ConstantTypes
<1>6. Normalized(s - s) = 0
  BY <1>1, <1>4, ConstantTypes
<1>7. CASE h + 1 = FullTurn
  <2>1. Normalized(((h + 1) % FullTurn) - s) =
          IF -s < -half THEN FullTurn - s ELSE -s
    BY <1>1, <1>4, <1>5, <1>7, ConstantTypes
  <2>2. Normalized(h - s) = IF h - s >= FullTurn - half THEN h - s - FullTurn ELSE h - s
    BY <1>1, <1>4, <1>7, ConstantTypes
  <2> QED  BY <1>1, <1>6, <1>7, <2>1, <2>2, ConstantTypes DEF Size
<1>8. CASE h + 1 # FullTurn
  <2>1. Normalized(((h + 1) % FullTurn) - s) =
          IF h + 1 - s < -half THEN h + 1 - s + FullTurn
          ELSE IF h + 1 - s >= FullTurn - half THEN h + 1 - s - FullTurn ELSE h + 1 - s
    BY <1>1, <1>4, <1>5, <1>8, ConstantTypes
  <2>2. Normalized(h - s) =
          IF h - s < -half THEN h - s + FullTurn
          ELSE IF h - s >= FullTurn - half THEN h - s - FullTurn ELSE h - s
    BY <1>1, <1>4, <1>8, ConstantTypes
  <2> QED  BY <1>1, <1>6, <1>8, <2>1, <2>2, ConstantTypes DEF Size
<1> QED  BY <1>7, <1>8

\* Every step keeps Reaching: the odometry is never ahead of the rover.
LEMMA ReachingNext ==
  ASSUME TypeOK, Stilled, Settled, Reaching, [Next]_vars
  PROVE  Reaching'
<1> USE DEF Reaching, Settled, Stilled, Clean, BeforeHalt, OnTheWay, MoveOnTheWay, TurnOnTheWay,
           Target, CompletedMeansReached, TypeOK, WorkerType, RoverType, StoreType, CommandType,
           RestType, PoseType
<1>1. ASSUME NEW kind \in Kinds, NEW recover \in BOOLEAN, Start(kind, recover)
      PROVE  Reaching'
  <2>1. /\ worker'.pc = "begin" /\ path' = 0
        /\ pose'.last = store.wheels /\ rover'.wheels = rover.wheels
        /\ rover'.heading = rover.heading /\ store' = store
        /\ command'.kind = kind /\ command'.state = "RUNNING"
        /\ undisturbed' => store.wheels = rover.wheels /\ store.heading = rover.heading
    BY <1>1 DEF Start
  <2>2. undisturbed' => OnTheWay'
    BY <2>1 DEF Kinds
  <2> QED  BY <2>1, <2>2
<1>2. CASE StopRequested
  BY <1>2 DEF StopRequested
<1>3. CASE StopBrakes
  BY <1>3 DEF StopBrakes, StopDrive, Told
<1>4. CASE StopMarks
  BY <1>4 DEF StopMarks
<1>5. CASE StatusRequested
  BY <1>5 DEF StatusRequested
<1>6. CASE RestReads
  BY <1>6 DEF RestReads
<1>7. CASE RestIntegrates
  BY <1>7 DEF RestIntegrates
<1>8. CASE ResetRequested
  BY <1>8 DEF ResetRequested
<1>9. CASE Begin
  <2>1. /\ worker.pc = "begin" /\ worker'.pc = "test" /\ worker'.start = Gauge
        /\ command' = command /\ pose' = pose /\ rover' = rover /\ path' = path
        /\ undisturbed' = undisturbed /\ stopEvent' = stopEvent /\ store' = store
    BY <1>9 DEF Begin, At
  <2>2. Clean /\ path < Target => OnTheWay'
    <3>1. CASE command.kind = "MOVE" /\ MoveOnTheWay
      BY <2>1, <3>1, FarthestNat DEF Gauge
    <3>2. CASE command.kind = "TURN" /\ TurnOnTheWay
      <4>1. worker'.start = rover.heading
        BY <2>1, <3>2 DEF Gauge
      <4>2. Size(Normalized(rover.heading - rover.heading)) = 0
        BY NormalizedStep
      <4> QED  BY <2>1, <3>2, <4>1, <4>2
    <3> QED  BY <2>1, <3>1, <3>2, ConstantTypes
  <2>3. Clean /\ path >= Target => OnTheWay'
    BY <2>1
  <2>4. Target \in Nat
    BY ConstantTypes
  <2> QED  BY <2>1, <2>2, <2>3, <2>4
<1>10. CASE Test
  BY <1>10 DEF Test, At, Goes
<1>11. CASE Read
  BY <1>11 DEF Read
<1>12. CASE Integrate
  <2>1. /\ worker.pc \in {"integrate", "lastIntegrate"}
        /\ worker'.pc = IF worker.pc = "integrate" THEN "judge" ELSE "finish"
        /\ worker'.start = worker.start /\ pose' = Integrated(worker.seen)
        /\ command' = command /\ rover' = rover /\ path' = path
        /\ undisturbed' = undisturbed /\ stopEvent' = stopEvent /\ store' = store
    BY <1>12 DEF Integrate
  <2>2. CASE worker.pc = "lastIntegrate"
    BY <2>1, <2>2
  <2>3. CASE worker.pc = "integrate" /\ Clean
    <3>1. CASE command.kind = "MOVE" /\ MoveOnTheWay
      <4>1. Size(worker.seen - pose.last) = worker.seen - pose.last
        BY <2>3, <3>1 DEF Size
      <4>2. /\ pose'.last = worker.seen
            /\ pose'.distance <= pose.distance + (worker.seen - pose.last)
            /\ worker.start <= pose'.distance
        BY <2>1, <2>3, <3>1, <4>1, FarthestNat DEF Integrated, Travelled
      <4>3. pose'.distance \in Int
        BY <2>1, IntegratedType, FarthestNat
      <4> QED  BY <2>1, <2>3, <3>1, <4>2, <4>3, FarthestNat
    <3>2. CASE command.kind = "TURN" /\ TurnOnTheWay
      BY <2>1, <2>3, <3>2
    <3>3. CASE path >= Target
      BY <2>1, <2>3, <3>3
    <3> QED  BY <2>3, <3>1, <3>2, <3>3
  <2>4. CASE worker.pc = "integrate" /\ ~Clean
    BY <2>1, <2>4
  <2> QED  BY <2>1, <2>2, <2>3, <2>4
<1>13. CASE Judge
  <2>1. /\ worker.pc = "judge"
        /\ worker'.pc = IF Progress + Tolerance >= Target THEN "halt" ELSE "drive"
        /\ worker'.start = worker.start
        /\ command' = command /\ rover' = rover /\ path' = path /\ pose' = pose
        /\ undisturbed' = undisturbed /\ stopEvent' = stopEvent /\ store' = store
    BY <1>13 DEF Judge, At
  <2>2. Clean => OnTheWay
    BY <2>1
  <2>3. Target \in Nat /\ Progress \in Nat
    BY ConstantTypes, ProgressNat
  <2>4. Clean => Progress <= path \/ path >= Target
    <3>1. CASE command.kind = "MOVE" /\ MoveOnTheWay
      <4>1. /\ worker.start <= pose.distance
            /\ pose.last <= store.wheels /\ store.wheels <= rover.wheels
            /\ (pose.distance - worker.start) + (rover.wheels - pose.last) <= path
        BY <2>1, <3>1
      <4>2. Size(pose.distance - worker.start) <= path
        BY <4>1, FarthestNat DEF Size
      <4> QED  BY <3>1, <4>2 DEF Progress
    <3>2. CASE command.kind = "TURN" /\ TurnOnTheWay
      BY <2>1, <3>2 DEF Progress
    <3> QED  BY <2>2, <3>1, <3>2
  <2>5. CASE Progress + Tolerance >= Target
    <3>1. worker'.pc = "halt"
      BY <2>1, <2>5
    <3>2. Clean => path + Tolerance >= Target
      BY <2>3, <2>4, <2>5, ConstantTypes
    <3> QED  BY <2>1, <3>1, <3>2
  <2>6. CASE ~(Progress + Tolerance >= Target)
    <3>1. worker'.pc = "drive"
      BY <2>1, <2>6
    <3> QED  BY <2>1, <2>2, <3>1
  <2> QED  BY <2>5, <2>6
<1>14. CASE Drive
  BY <1>14 DEF Drive, At, Goes, Order, Refused, Told
<1>15. CASE Watch
  BY <1>15 DEF Watch, At
<1>16. CASE Brake
  BY <1>16 DEF Brake, At, Goes, StopDrive, Told
<1>17. CASE BatchRefused
  BY <1>17 DEF BatchRefused, At, InState
<1>18. CASE BatchQueued
  BY <1>18 DEF BatchQueued, At, Goes, Order, Refused, Told
<1>19. CASE WaitExpires
  BY <1>19 DEF WaitExpires, At, Goes, InState
<1>20. CASE Abort
  BY <1>20 DEF Abort, At, Goes, StopDrive, Told
<1>21. CASE Fail
  BY <1>21 DEF Fail, At, Ended, InState
<1>22. CASE Halt
  BY <1>22 DEF Halt, At, Goes, StopDrive, Told
<1>23. CASE Finish
  BY <1>23 DEF Finish, At, Ended
<1>24. CASE RoverAdvances
  <2>1. /\ rover.traction = "driving" /\ command' = command /\ worker' = worker /\ pose' = pose
        /\ undisturbed' = undisturbed /\ stopEvent' = stopEvent /\ store' = store
        /\ path' = IF path < Target THEN path + 1 ELSE path
    BY <1>24 DEF RoverAdvances
  <2>2. worker.pc \notin {"none", "begin"}
    BY <2>1
  <2>3. Target \in Nat /\ Target' = Target
    BY <2>1, ConstantTypes
  <2>4. Clean /\ worker.pc \in BeforeHalt => OnTheWay'
    <3>1. CASE path >= Target
      BY <2>1, <2>3, <3>1
    <3>2. CASE path < Target /\ command.kind = "MOVE" /\ MoveOnTheWay
      <4>1. rover'.wheels = rover.wheels + 1 /\ path' = path + 1
        BY <1>24, <3>2 DEF RoverAdvances
      <4> QED  BY <2>1, <2>2, <3>2, <4>1, FarthestNat
    <3>3. CASE path < Target /\ command.kind = "TURN" /\ TurnOnTheWay
      <4>1. rover'.heading = (rover.heading + 1) % FullTurn /\ path' = path + 1
        BY <1>24, <3>3 DEF RoverAdvances
      <4>2. /\ worker.start \in 0..(FullTurn - 1)
            /\ Size(Normalized(rover.heading - worker.start)) <= path
        BY <2>2, <3>3
      <4>3. Size(Normalized(rover'.heading - worker.start))
              <= Size(Normalized(rover.heading - worker.start)) + 1
        BY <4>1, <4>2, NormalizedStep
      <4>4. /\ Size(Normalized(rover.heading - worker.start)) \in Int
            /\ Size(Normalized(rover'.heading - worker.start)) \in Int
        <5>1. rover'.heading \in 0..(FullTurn - 1)
          BY <4>1, WithinTurn
        <5> QED  BY <4>2, <5>1, NormalizedInt, SizeNat, ConstantTypes
      <4>5. Size(Normalized(rover'.heading - worker.start)) <= path'
        BY <4>1, <4>2, <4>3, <4>4
      <4>6. Size(Normalized(store.heading - worker.start)) <= path'
        <5>1. /\ Size(Normalized(store.heading - worker.start)) <= path
              /\ store.heading - worker.start \in Int
          BY <2>2, <3>3, ConstantTypes
        <5>2. Size(Normalized(store.heading - worker.start)) \in Int
          BY <5>1, NormalizedInt, SizeNat
        <5> QED  BY <4>1, <5>1, <5>2
      <4> QED  BY <2>1, <2>2, <3>3, <4>2, <4>5, <4>6
    <3> QED  BY <2>3, <3>1, <3>2, <3>3
  <2>5. path' >= path
    BY <2>1, <2>3
  <2>6. Clean /\ worker.pc \in {"halt", "lastRead", "lastIntegrate", "finish"} =>
          path' + Tolerance >= Target'
    BY <2>1, <2>3, <2>5, ConstantTypes
  <2>7. command'.state # "COMPLETED"
    BY <2>1, <2>2
  <2> QED  BY <2>1, <2>4, <2>6, <2>7
<1>25. CASE RoverBacks
  BY <1>25 DEF RoverBacks
<1>26. CASE MotorsAreReserved
  BY <1>26 DEF MotorsAreReserved, Told
<1>27. CASE Executes
  BY <1>27 DEF Executes
<1>28. CASE SupervisionStops
  BY <1>28 DEF SupervisionStops
<1>29. CASE PublishMotors
  BY <1>29 DEF PublishMotors
<1>30. CASE PublishHeading
  BY <1>30 DEF PublishHeading
<1>31. CASE StoreFallsBack
  BY <1>31 DEF StoreFallsBack
<1>32. CASE UNCHANGED vars
  BY <1>32 DEF vars
<1> HIDE DEF Reaching, Settled, Stilled, Clean, BeforeHalt, OnTheWay, MoveOnTheWay,
     TurnOnTheWay, Target, CompletedMeansReached, TypeOK, WorkerType, RoverType, StoreType,
     CommandType, RestType, PoseType
<1> QED
  BY <1>1, <1>2, <1>3, <1>4, <1>5, <1>6, <1>7, <1>8, <1>9, <1>10, <1>11, <1>12, <1>13, <1>14,
     <1>15, <1>16, <1>17, <1>18, <1>19, <1>20, <1>21, <1>22, <1>23, <1>24, <1>25, <1>26, <1>27,
     <1>28, <1>29, <1>30, <1>31, <1>32
  DEF Next, RestContinues, Navigates

\* A navigation reported COMPLETED went the whole way although every reading may be old,
\* unless it began with an old one, was stopped, or its readings were put back or taken
\* by another thread: recoveries, obstacles and refused motions do not count, and angles
\* wrap.
THEOREM CompletedIsReached == Spec => []CompletedMeansReached
<1>1. Init => Stilled /\ Settled /\ Reaching
  BY DEF Init, Stilled, Settled, Reaching, Clean, BeforeHalt, CompletedMeansReached
<1>2. Reaching => CompletedMeansReached
  BY DEF Reaching
<1> QED
  BY <1>1, <1>2, TypeInit, TypeNext, StilledNext, SettledNext, ReachingNext, PTL DEF Spec
=============================================================================
