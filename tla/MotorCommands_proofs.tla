----------------------- MODULE MotorCommands_proofs ------------------------
(***************************************************************************)
(* Proofs about MotorCommands, for every set of motors and callers, every  *)
(* choice of requests and every bound.                                     *)
(***************************************************************************)
EXTENDS MotorCommands, FiniteSetTheorems, TLAPS

USE DEF None, Native, Executors, Evaluators

-----------------------------------------------------------------------------
(* Well-formedness *)

Given == 1..sequence

CallersOK ==
  \A c \in Callers :
    /\ caller[c].pc # "idle" => /\ caller[c].motor \in Motors
                                /\ caller[c].request \in Requests
    /\ caller[c].pc = "number" => caller[c].request \in CommandActions
    /\ caller[c].pc \in {"put", "create", "publish", "inline"} => caller[c].id \in Given

CommandsOK == \A i \in Given : command[i].motor \in Motors

ExecOK == \A e \in Executors : exec[e].pc # "idle" => exec[e].id \in Given

QueuesOK == \A m \in Motors : queue[m] \subseteq Given

(* The calls that will create a command fit below the bound. *)
Budget == sequence + Cardinality(AboutToNumber) <= MaxCommands

WellFormed ==
  TypeOK /\ CallersOK /\ CommandsOK /\ ExecOK /\ QueuesOK /\ Budget

-----------------------------------------------------------------------------
\* The callers that will still create a command are finitely many.
LEMMA AboutToNumberFinite ==
  IsFiniteSet(AboutToNumber) /\ Cardinality(AboutToNumber) \in Nat
<1>1. AboutToNumber \in SUBSET Callers
  BY DEF AboutToNumber
<1> QED  BY <1>1, FS_Subset, FS_CardinalityType, ConstantsAssumption

(* The budget survives a step that starts no call and gives no id. *)
LEMMA BudgetKept ==
  ASSUME Budget, sequence' = sequence, AboutToNumber' \subseteq AboutToNumber,
         sequence \in Nat
  PROVE  Budget'
<1>1. Cardinality(AboutToNumber') <= Cardinality(AboutToNumber)
  BY AboutToNumberFinite, FS_Subset, AboutToNumber' \in SUBSET AboutToNumber
<1>2. Cardinality(AboutToNumber') \in Nat
  BY AboutToNumberFinite, FS_Subset, FS_CardinalityType,
     AboutToNumber' \in SUBSET AboutToNumber
<1> QED  BY <1>1, <1>2, AboutToNumberFinite, ConstantsAssumption DEF Budget

\* A step that leaves the callers alone keeps the budget.
LEMMA BudgetSameCallers ==
  ASSUME Budget, sequence' = sequence, caller' = caller, sequence \in Nat
  PROVE  Budget'
BY BudgetKept DEF AboutToNumber

\* A stop, whether it raises or not, keeps the types of the motors.
LEMMA StopMotorType ==
  ASSUME NEW m, TypeOK, StopMotor(m)
  PROVE  /\ drive' \in [Motors -> Ids \cup {None, Native}]
         /\ faults' \in 0..MaxFaults
BY ConstantsAssumption DEF TypeOK, StopMotor

\* Finishing an entry keeps the types of the entries.
LEMMA FinishEntryType ==
  ASSUME NEW m, TypeOK, FinishEntry(m)
  PROVE  /\ active' \in [Motors -> Ids \cup {None}]
         /\ stranded' \in SUBSET Ids
BY DEF TypeOK, FinishEntry

\* WellFormed holds at first.
LEMMA WellFormedInit == Init => WellFormed
<1> SUFFICES ASSUME Init PROVE WellFormed
  OBVIOUS
<1>1. TypeOK
  BY ConstantsAssumption
  DEF Init, TypeOK, Ids, CallRecords, CommandRecords, ExecRecords,
      VerdictRecords, NoCommand, NoCall, NoExec, NoVerdict
<1>2. CallersOK /\ CommandsOK /\ ExecOK /\ QueuesOK
  BY DEF Init, CallersOK, CommandsOK, ExecOK, QueuesOK, Given, NoCall, NoExec
<1>3. AboutToNumber = {}
  BY DEF Init, AboutToNumber, NoCall
<1>4. Budget
  BY <1>3, FS_EmptySet, ConstantsAssumption DEF Init, Budget
<1> QED  BY <1>1, <1>2, <1>4 DEF WellFormed

-----------------------------------------------------------------------------
(* The calling threads *)

\* A call begins only while the budget has room for its command.
LEMMA BeginWellFormed ==
  ASSUME WellFormed, NEW c \in Callers, NEW m \in Motors, NEW r \in Requests,
         NEW p \in Priorities, Begin(c, m, r, p)
  PROVE  WellFormed'
<1> USE DEF WellFormed, Begin, history
<1>1. Settled \in SUBSET Ids
  BY ConstantsAssumption DEF Settled, TypeOK, Ids
<1>2. TypeOK'
  BY <1>1 DEF TypeOK, CallRecords
<1>3. CallersOK' /\ CommandsOK' /\ ExecOK' /\ QueuesOK'
  BY DEF TypeOK, CallRecords, CallersOK, CommandsOK, ExecOK, QueuesOK, Given
<1>4. Budget'
  <2>1. CASE r \in CommandActions
    <3>1. c \notin AboutToNumber
      BY DEF AboutToNumber
    <3>2. AboutToNumber' = AboutToNumber \cup {c}
      BY <2>1, <3>1 DEF AboutToNumber, TypeOK
    <3>3. Cardinality(AboutToNumber') = Cardinality(AboutToNumber) + 1
      BY <3>1, <3>2, AboutToNumberFinite, FS_AddElement
    <3> QED  BY <2>1, <3>3, AboutToNumberFinite, ConstantsAssumption
             DEF Budget, TypeOK, Ids
  <2>2. CASE r \notin CommandActions
    <3>1. AboutToNumber' \subseteq AboutToNumber
      BY <2>2 DEF AboutToNumber, TypeOK
    <3> QED  BY <3>1, BudgetKept, ConstantsAssumption DEF TypeOK, Ids
  <2> QED  BY <2>1, <2>2
<1> QED  BY <1>2, <1>3, <1>4

\* The command that gets an id was in the budget, so its id is one there is.
LEMMA NumberWellFormed ==
  ASSUME WellFormed, NEW c \in Callers, Number(c)
  PROVE  WellFormed'
<1> USE DEF WellFormed, Number, history, NextId
<1>1. c \in AboutToNumber
  BY DEF AboutToNumber, CallersOK
<1>2. AboutToNumber' = AboutToNumber \ {c}
  BY DEF AboutToNumber, TypeOK
<1>3. Cardinality(AboutToNumber') = Cardinality(AboutToNumber) - 1
  BY <1>1, <1>2, AboutToNumberFinite, FS_RemoveElement
<1>4. Cardinality(AboutToNumber) \in Nat \ {0}
  BY <1>1, AboutToNumberFinite, FS_EmptySet
<1>5. sequence \in Nat /\ sequence + 1 \in Ids
  BY <1>4, ConstantsAssumption DEF Budget, TypeOK, Ids
<1>6. Budget'
  BY <1>3, <1>4, <1>5, ConstantsAssumption DEF Budget
<1>7. TypeOK'
  <2>1. caller' \in [Callers -> CallRecords]
    <3>1. caller \in [Callers -> CallRecords]
      BY DEF TypeOK
    <3>2. caller[c] \in CallRecords
      BY <3>1
    <3>3. [caller[c] EXCEPT !.pc = "put", !.id = NextId] \in CallRecords
      BY <1>5, <3>2 DEF CallRecords
    <3>4. caller' = [caller EXCEPT ![c] =
                       [caller[c] EXCEPT !.pc = "put", !.id = NextId]]
      BY <3>1, <3>2 DEF CallRecords
    <3> QED  BY <3>1, <3>3, <3>4
  <2>2. command' \in [Ids -> CommandRecords]
    BY <1>5 DEF TypeOK, CallRecords, CommandRecords, CallersOK
  <2> QED  BY <1>5, <2>1, <2>2 DEF TypeOK
<1>8. CallersOK' /\ CommandsOK' /\ ExecOK' /\ QueuesOK'
  BY <1>5 DEF TypeOK, CallRecords, CommandRecords, CallersOK, CommandsOK, ExecOK,
              QueuesOK, Given, Ids
<1> QED  BY <1>6, <1>7, <1>8

(* The steps a call moves on to with the id it has or without one. *)
CallSteps == {"halt", "number", "create", "publish", "inline", "finish", "reserve"}

(* A call that moves on to another step keeps its record. *)
LEMMA CallerMoves ==
  ASSUME WellFormed, NEW c \in Callers, caller[c].pc # "idle",
         NEW step \in CallSteps,
         caller' = [caller EXCEPT ![c].pc = step],
         step = "number" => caller[c].request \in CommandActions,
         step \in {"number", "halt"} => caller[c].pc \in {"cancel", "halt"},
         step \in {"create", "publish", "inline"} =>
           caller[c].pc \in {"put", "create", "publish"},
         sequence' = sequence
  PROVE  /\ caller' \in [Callers -> CallRecords]
         /\ CallersOK'
         /\ Budget'
<1> USE DEF WellFormed, CallSteps
<1>1. sequence \in Nat
  BY ConstantsAssumption DEF TypeOK, Ids
<1>2. caller' \in [Callers -> CallRecords]
  <2>1. caller \in [Callers -> CallRecords]
    BY DEF TypeOK
  <2>2. caller[c] \in CallRecords
    BY <2>1
  <2>3. [caller[c] EXCEPT !.pc = step] \in CallRecords
    BY <2>2 DEF CallRecords
  <2>4. caller' = [caller EXCEPT ![c] = [caller[c] EXCEPT !.pc = step]]
    BY <2>1, <2>2 DEF CallRecords
  <2> QED  BY <2>1, <2>3, <2>4
<1>3. CallersOK'
  BY DEF TypeOK, CallRecords, CallersOK, Given
<1>4. AboutToNumber' \subseteq AboutToNumber
  BY DEF TypeOK, CallRecords, AboutToNumber
<1> QED  BY <1>1, <1>2, <1>3, <1>4, BudgetKept

\* A call that returns frees its share of the budget.
LEMMA CallerReturns ==
  ASSUME WellFormed, NEW c \in Callers,
         caller' = [caller EXCEPT ![c] = NoCall], sequence' = sequence
  PROVE  /\ caller' \in [Callers -> CallRecords]
         /\ CallersOK'
         /\ Budget'
<1> USE DEF WellFormed, NoCall
<1>1. sequence \in Nat
  BY ConstantsAssumption DEF TypeOK, Ids
<1>2. caller' \in [Callers -> CallRecords]
  BY DEF TypeOK, CallRecords
<1>3. CallersOK'
  BY DEF TypeOK, CallersOK, Given
<1>4. AboutToNumber' \subseteq AboutToNumber
  BY DEF TypeOK, AboutToNumber
<1> QED  BY <1>1, <1>2, <1>3, <1>4, BudgetKept

\* Hence every step of a caller keeps WellFormed.
LEMMA CallerWellFormed ==
  ASSUME WellFormed, NEW c \in Callers, CallerStep(c)
  PROVE  WellFormed'
<1> USE DEF WellFormed, history
<1>1. CASE Number(c)
  BY <1>1, NumberWellFormed
<1>2. ASSUME UNCHANGED <<sequence, command, queue, exec>>
      PROVE  CommandsOK' /\ ExecOK' /\ QueuesOK'
  BY <1>2 DEF CommandsOK, ExecOK, QueuesOK, Given
<1>3. CASE Cancel(c)
  <2>1. /\ caller' \in [Callers -> CallRecords]
        /\ CallersOK'
        /\ Budget'
    <3>1. CASE caller[c].request = "STOP"
      BY <1>3, <3>1, CallerMoves, "number" \in CallSteps
      DEF Cancel, CallSteps, CommandActions
    <3>2. CASE caller[c].request # "STOP"
      BY <1>3, <3>2, CallerMoves, "halt" \in CallSteps
      DEF Cancel, CallSteps
    <3> QED  BY <3>1, <3>2
  <2>2. cancelled' \in SUBSET Ids
    BY <1>3 DEF Cancel, Doomed, TypeOK, CallersOK
  <2> QED  BY <1>2, <1>3, <2>1, <2>2 DEF Cancel, TypeOK
<1>4. CASE Halt(c)
  <2>1. /\ caller' \in [Callers -> CallRecords]
        /\ CallersOK'
        /\ Budget'
    <3>1. CASE caller' = [caller EXCEPT ![c].pc = "number"]
               /\ caller[c].request \in CommandActions
      BY <1>4, <3>1, CallerMoves, "number" \in CallSteps
      DEF Halt, CallSteps
    <3>2. CASE caller' = [caller EXCEPT ![c].pc = "reserve"]
      BY <1>4, <3>2, CallerMoves, "reserve" \in CallSteps
      DEF Halt, CallSteps
    <3>3. CASE caller' = [caller EXCEPT ![c] = NoCall]
      BY <1>4, <3>3, CallerReturns DEF Halt
    <3>4. CASE caller' = [caller EXCEPT ![c].pc = "finish"]
      BY <1>4, <3>4, CallerMoves, "finish" \in CallSteps
      DEF Halt, CallSteps
    <3> QED  BY <1>4, <3>1, <3>2, <3>3, <3>4 DEF Halt
  <2>2. drive' \in [Motors -> Ids \cup {None, Native}] /\ faults' \in 0..MaxFaults
    BY <1>4, StopMotorType DEF Halt
  <2> QED  BY <1>2, <1>4, <2>1, <2>2 DEF Halt, TypeOK
<1>5. CASE Create(c)
  <2>1. /\ caller' \in [Callers -> CallRecords]
        /\ CallersOK'
        /\ Budget'
    BY <1>5, CallerMoves, "publish" \in CallSteps
    DEF Create, CallSteps
  <2>2. registry' \in [Ids -> {"NONE", "QUEUED", "COMPLETED", "DISPATCHED", "FAILED"}]
    BY <1>5 DEF Create, TypeOK
  <2> QED  BY <1>2, <1>5, <2>1, <2>2 DEF Create, TypeOK
<1>6. CASE Publish(c)
  <2>1. /\ caller' \in [Callers -> CallRecords]
        /\ CallersOK'
        /\ Budget'
    <3>1. CASE phase = "dead"
      <4>1. caller' = [caller EXCEPT ![c].pc = "inline"]
        BY <1>6, <3>1 DEF Publish, TypeOK, CallRecords
      <4> QED  BY <1>6, <4>1, CallerMoves,
                  "inline" \in CallSteps
               DEF Publish, CallSteps
    <3>2. CASE phase # "dead"
      BY <1>6, <3>2, CallerReturns DEF Publish
    <3> QED  BY <3>1, <3>2
  <2> QED  BY <1>2, <1>6, <2>1 DEF Publish, TypeOK
<1>7. CASE Drained(c)
  BY <1>2, <1>7, CallerReturns DEF Drained, TypeOK
<1>8. CASE Reserve(c)
  <2>1. reserved' \in SUBSET Motors
    BY <1>8 DEF Reserve, TypeOK, CallersOK
  <2> QED  BY <1>2, <1>8, <2>1, CallerReturns DEF Reserve, TypeOK
<1>9. CASE Put(c)
  <2>1. /\ caller' \in [Callers -> CallRecords]
        /\ CallersOK'
        /\ Budget'
    BY <1>9, CallerMoves, "create" \in CallSteps
    DEF Put, CallSteps
  <2>2. caller[c].motor \in Motors /\ caller[c].id \in Given /\ Given \subseteq Ids
    BY <1>9, ConstantsAssumption DEF Put, CallersOK, TypeOK, Given, Ids
  <2>3. /\ queue' \in [Motors -> SUBSET Ids] /\ tracked' \in [Motors -> SUBSET Ids]
        /\ QueuesOK'
    BY <1>9, <2>2 DEF Put, TypeOK, QueuesOK, Given
  <2>4. CommandsOK' /\ ExecOK'
    BY <1>9 DEF Put, CommandsOK, ExecOK, Given
  <2> QED  BY <1>9, <2>1, <2>3, <2>4 DEF Put, TypeOK
<1>10. CASE FinishCall(c)
  <2>1. active' \in [Motors -> Ids \cup {None}] /\ stranded' \in SUBSET Ids
    BY <1>10, FinishEntryType DEF FinishCall
  <2> QED  BY <1>2, <1>10, <2>1, CallerReturns DEF FinishCall, TypeOK
<1> QED  BY <1>1, <1>3, <1>4, <1>5, <1>6, <1>7, <1>8, <1>9, <1>10 DEF CallerStep

-----------------------------------------------------------------------------
(* The executors *)

\* The ids given are ids.
LEMMA GivenIds ==
  ASSUME TypeOK
  PROVE  Given \subseteq Ids
BY ConstantsAssumption DEF TypeOK, Given, Ids

(* An executor that moves on to another step keeps its command. *)
LEMMA ExecMoves ==
  ASSUME TypeOK, NEW e \in Executors,
         NEW p \in {"register", "record", "remove"},
         NEW r \in {"NONE", "COMPLETED", "DISPATCHED", "FAILED"},
         exec' = [exec EXCEPT ![e] = [exec[e] EXCEPT !.pc = p, !.result = r]]
  PROVE  /\ exec' \in [Executors -> ExecRecords]
         /\ exec'[e].pc = p /\ exec'[e].id = exec[e].id
         /\ \A f \in Executors \ {e} : exec'[f] = exec[f]
<1>1. exec \in [Executors -> ExecRecords]
  BY DEF TypeOK
<1>2. exec[e] \in ExecRecords
  BY <1>1
<1>3. [exec[e] EXCEPT !.pc = p, !.result = r] \in ExecRecords
  BY <1>2 DEF ExecRecords
<1> QED  BY <1>1, <1>2, <1>3 DEF ExecRecords

\* Going to a step changes the step of one executor only.
LEMMA ExecStepMoves ==
  ASSUME TypeOK, NEW e \in Executors,
         NEW p \in {"register", "record", "remove"},
         exec' = [exec EXCEPT ![e].pc = p]
  PROVE  /\ exec' \in [Executors -> ExecRecords]
         /\ exec'[e].pc = p /\ exec'[e].id = exec[e].id
         /\ \A f \in Executors \ {e} : exec'[f] = exec[f]
<1>1. exec \in [Executors -> ExecRecords]
  BY DEF TypeOK
<1>2. exec[e] \in ExecRecords
  BY <1>1
<1>3. [exec[e] EXCEPT !.pc = p] \in ExecRecords
  BY <1>2 DEF ExecRecords
<1> QED  BY <1>1, <1>2, <1>3 DEF ExecRecords

\* The hardware call leads to the registration or to the record.
LEMMA ExecuteMoves ==
  ASSUME TypeOK, NEW e \in Executors, Execute(e)
  PROVE  /\ exec' \in [Executors -> ExecRecords]
         /\ exec'[e].pc \in {"register", "record"}
         /\ exec'[e].id = exec[e].id
         /\ \A f \in Executors \ {e} : exec'[f] = exec[f]
<1>1. PICK p \in {"register", "record"}, r \in {"COMPLETED", "DISPATCHED", "FAILED"} :
        exec' = [exec EXCEPT ![e] = [exec[e] EXCEPT !.pc = p, !.result = r]]
  BY DEF Execute
<1> QED  BY <1>1, ExecMoves

(* A step that gives no id and changes no call only has to keep the types,  *)
(* the ids being executed and the queues in order.                          *)
LEMMA OtherWellFormed ==
  ASSUME WellFormed, UNCHANGED <<sequence, command, caller>>,
         TypeOK', ExecOK', QueuesOK'
  PROVE  WellFormed'
<1> USE DEF WellFormed
<1>1. sequence \in Nat
  BY ConstantsAssumption DEF TypeOK, Ids
<1>2. CallersOK' /\ CommandsOK'
  BY DEF CallersOK, CommandsOK, Given
<1>3. Budget'
  BY <1>1, BudgetSameCallers
<1> QED  BY <1>2, <1>3

\* A command that is taken was given.
LEMMA TakeWellFormed ==
  ASSUME WellFormed, NEW e \in Executors, Take(e)
  PROVE  WellFormed'
<1> USE DEF WellFormed, history
<1> DEFINE m == ServedMotor(e)
<1>1. m \in Motors
  BY DEF Take, MayTake, ServedMotor, CallersOK
<1>2. PICK i \in queue[m] :
        /\ queue' = [queue EXCEPT ![m] = @ \ {i}]
        /\ IF i \in cancelled
           THEN /\ tracked' = [tracked EXCEPT ![m] = Untracked(m, i)]
                /\ UNCHANGED exec
           ELSE /\ exec' = [exec EXCEPT ![e] =
                             [pc |-> "execute", id |-> i, result |-> "NONE"]]
                /\ UNCHANGED tracked
  BY DEF Take
<1>3. i \in Given /\ i \in Ids
  BY <1>1, <1>2 DEF QueuesOK, TypeOK
<1>4. queue' \in [Motors -> SUBSET Ids] /\ QueuesOK'
  BY <1>1, <1>2 DEF TypeOK, QueuesOK, Given, Take
<1>5. tracked' \in [Motors -> SUBSET Ids]
  BY <1>1, <1>2 DEF TypeOK, Untracked
<1>6. exec' \in [Executors -> ExecRecords]
  <2>1. [pc |-> "execute", id |-> i, result |-> "NONE"] \in ExecRecords
    BY <1>3 DEF ExecRecords
  <2> QED  BY <1>2, <2>1 DEF TypeOK
<1>7. ExecOK'
  BY <1>2, <1>3 DEF ExecOK, TypeOK, Given, Take
<1>8. TypeOK'
  BY <1>4, <1>5, <1>6 DEF TypeOK, Take
<1> QED  BY <1>4, <1>7, <1>8, OtherWellFormed DEF Take

\* Its hardware call keeps WellFormed.
LEMMA ExecuteWellFormed ==
  ASSUME WellFormed, NEW e \in Executors, Execute(e)
  PROVE  WellFormed'
<1> USE DEF WellFormed, history
<1> DEFINE i == exec[e].id
<1>1. i \in Given /\ i \in Ids
  BY GivenIds DEF Execute, ExecOK
<1>5. exec' \in [Executors -> ExecRecords]
  BY ExecuteMoves
<1>6. ExecOK'
  BY <1>1, ExecuteMoves DEF ExecOK, Given, Execute
<1>7. /\ drive' \in [Motors -> Ids \cup {None, Native}]
      /\ ran' \in SUBSET Ids
      /\ faults' \in 0..MaxFaults
  BY <1>1, ConstantsAssumption DEF Execute, TypeOK, Effect
<1>8. QueuesOK'
  BY DEF QueuesOK, Execute, Given
<1>9. TypeOK'
  BY <1>5, <1>7 DEF TypeOK, Execute
<1> QED  BY <1>6, <1>8, <1>9, OtherWellFormed DEF Execute

\* So does its registration.
LEMMA RegisterWellFormed ==
  ASSUME WellFormed, NEW e \in Executors, Register(e)
  PROVE  WellFormed'
<1> USE DEF WellFormed, history
<1>1. exec[e].id \in Ids
  BY GivenIds DEF Register, ExecOK
<1>2. exec' \in [Executors -> ExecRecords]
  BY ExecStepMoves DEF Register
<1>3. ExecOK' /\ QueuesOK'
  BY DEF ExecOK, QueuesOK, Given, Register, TypeOK
<1>4. active' \in [Motors -> Ids \cup {None}]
  BY <1>1 DEF Register, NewEntry, TypeOK
<1>5. TypeOK'
  BY <1>2, <1>4 DEF TypeOK, Register
<1> QED  BY <1>3, <1>5, OtherWellFormed DEF Register

\* So does the record of its status.
LEMMA RecordWellFormed ==
  ASSUME WellFormed, NEW e \in Executors, Record(e)
  PROVE  WellFormed'
<1> USE DEF WellFormed, history
<1>1. exec[e].id \in Ids
  BY GivenIds DEF Record, ExecOK
<1>2. exec' \in [Executors -> ExecRecords]
  BY ExecStepMoves DEF Record
<1>3. ExecOK' /\ QueuesOK'
  BY DEF ExecOK, QueuesOK, Given, Record, TypeOK
<1>4. registry' \in [Ids -> {"NONE", "QUEUED", "COMPLETED", "DISPATCHED", "FAILED"}]
  <2>1. exec[e].result \in {"NONE", "COMPLETED", "DISPATCHED", "FAILED"}
    BY DEF TypeOK, ExecRecords
  <2> QED  BY <1>1, <2>1 DEF Record, TypeOK
<1>5. TypeOK'
  BY <1>2, <1>4 DEF TypeOK, Record
<1> QED  BY <1>3, <1>5, OtherWellFormed DEF Record

\* So does its removal from the tracked commands.
LEMMA RemoveWellFormed ==
  ASSUME WellFormed, NEW e \in Executors, Remove(e)
  PROVE  WellFormed'
<1> USE DEF WellFormed, history
<1>1. exec' \in [Executors -> ExecRecords]
  BY DEF Remove, TypeOK, ExecRecords, NoExec
<1>2. ExecOK' /\ QueuesOK'
  BY DEF ExecOK, QueuesOK, Given, Remove, TypeOK, NoExec
<1>3. tracked' \in [Motors -> SUBSET Ids]
  BY DEF Remove, Untracked, TypeOK, ExecOK, CommandsOK
<1>4. TypeOK'
  BY <1>1, <1>3 DEF TypeOK, Remove
<1> QED  BY <1>2, <1>4, OtherWellFormed DEF Remove

\* Hence every step of an executor keeps WellFormed.
LEMMA ExecutorWellFormed ==
  ASSUME WellFormed, NEW e \in Executors, ExecutorStep(e)
  PROVE  WellFormed'
BY TakeWellFormed, ExecuteWellFormed, RegisterWellFormed, RecordWellFormed,
   RemoveWellFormed DEF ExecutorStep

-----------------------------------------------------------------------------
(* The threads that supervise, stop and shut down *)

\* Watchdog, monitor cycle, sweeps and native operations keep WellFormed.
LEMMA SupervisionWellFormed ==
  ASSUME WellFormed,
         \/ \E t \in Evaluators : EvaluatorStep(t)
         \/ \E m \in Motors : SweepStep(m) \/ GuardStep(m) \/ MotionEnds(m)
  PROVE  WellFormed'
<1> USE DEF WellFormed, history
<1>1. ASSUME UNCHANGED <<sequence, command, caller, exec, queue>>, TypeOK'
      PROVE  WellFormed'
  BY <1>1, OtherWellFormed DEF ExecOK, QueuesOK, Given
<1>2. ASSUME NEW t \in Evaluators, EvaluatorStep(t)
      PROVE  WellFormed'
  <2>1. ASSUME NEW m \in Motors, WatchdogExpires(t, m)
        PROVE  WellFormed'
    BY <1>1, <2>1 DEF WatchdogExpires, TypeOK, VerdictRecords
  <2>2. ASSUME NEW m \in Motors, Inspect(m)
        PROVE  WellFormed'
    BY <1>1, <2>2 DEF Inspect, TypeOK, VerdictRecords
  <2>3. CASE EvaluatorStops(t)
    <3>1. evaluator' \in [Evaluators -> VerdictRecords]
      BY <2>3 DEF EvaluatorStops, TypeOK, VerdictRecords
    <3>2. drive' \in [Motors -> Ids \cup {None, Native}] /\ faults' \in 0..MaxFaults
      BY <2>3, StopMotorType DEF EvaluatorStops
    <3> QED  BY <1>1, <2>3, <3>1, <3>2 DEF EvaluatorStops, TypeOK
  <2>4. CASE EvaluatorFinishes(t)
    <3>1. evaluator' \in [Evaluators -> VerdictRecords]
      BY <2>4 DEF EvaluatorFinishes, TypeOK, VerdictRecords, NoVerdict
    <3> QED  BY <1>1, <2>4, <3>1, FinishEntryType DEF EvaluatorFinishes, TypeOK
  <2> QED  BY <1>2, <2>1, <2>2, <2>3, <2>4 DEF EvaluatorStep
<1>3. ASSUME NEW m \in Motors, SweepStep(m)
      PROVE  WellFormed'
  <2>1. CASE SweepCancel(m)
    BY <1>1, <2>1 DEF SweepCancel, Doomed, TypeOK
  <2>2. CASE SweepStop(m)
    BY <1>1, <2>2, StopMotorType DEF SweepStop, TypeOK
  <2>3. CASE SweepFinish(m)
    BY <1>1, <2>3, FinishEntryType DEF SweepFinish, TypeOK
  <2> QED  BY <1>3, <2>1, <2>2, <2>3 DEF SweepStep
<1>4. ASSUME NEW m \in Motors, GuardStep(m)
      PROVE  WellFormed'
  <2>1. CASE NativeRuns(m)
    BY <1>1, <2>1 DEF NativeRuns, TypeOK
  <2>2. CASE NativeStops(m)
    BY <1>1, <2>2, StopMotorType DEF NativeStops, TypeOK
  <2>3. CASE Release(m)
    BY <1>1, <2>3 DEF Release, TypeOK
  <2> QED  BY <1>4, <2>1, <2>2, <2>3 DEF GuardStep
<1>5. ASSUME NEW m \in Motors, MotionEnds(m)
      PROVE  WellFormed'
  BY <1>1, <1>5 DEF MotionEnds, TypeOK
<1> QED  BY <1>2, <1>3, <1>4, <1>5

\* So does the shutdown.
LEMMA ShutdownWellFormed ==
  ASSUME WellFormed, Prepare \/ ShutdownStep
  PROVE  WellFormed'
<1> USE DEF WellFormed, history
<1>1. UNCHANGED <<sequence, command, caller, exec, queue>>
  BY DEF Prepare, ShutdownStep, Prepared, Finalize, Joined, Finalized, Shutdown
<1>2. TypeOK'
  BY DEF Prepare, ShutdownStep, Prepared, Finalize, Joined, Finalized, Shutdown,
         AllMotors, TypeOK
<1> QED  BY <1>1, <1>2, OtherWellFormed DEF ExecOK, QueuesOK, Given

\* Hence every step keeps WellFormed.
LEMMA WellFormedNext ==
  ASSUME WellFormed, [Next]_vars
  PROVE  WellFormed'
<1>1. CASE UNCHANGED vars
  BY <1>1, BudgetSameCallers, ConstantsAssumption
  DEF WellFormed, vars, history, TypeOK, CallersOK, CommandsOK, ExecOK, QueuesOK,
      Given, Ids
<1>2. CASE Next
  BY <1>2, BeginWellFormed, CallerWellFormed, ExecutorWellFormed,
     SupervisionWellFormed, ShutdownWellFormed DEF Next
<1> QED  BY <1>1, <1>2

(* Type correctness: in particular the ids that the callers are given stay  *)
(* in range, however their calls interleave.                                *)
THEOREM TypeCorrect == Spec => []TypeOK
<1>1. Spec => []WellFormed
  BY WellFormedInit, WellFormedNext, PTL DEF Spec
<1> QED  BY <1>1, PTL DEF WellFormed

-----------------------------------------------------------------------------
(* The scheduler's structures agree *)

RanOK == ran \subseteq Given

(* A command that has its id and is not queued yet is nowhere but in its    *)
(* call.                                                                    *)
PendingOK ==
  \A c \in Callers : caller[c].pc = "put" =>
    /\ command[caller[c].id].motor = caller[c].motor
    /\ caller[c].id \notin ran
    /\ \A m \in Motors : caller[c].id \notin tracked[m]
    /\ \A d \in Callers \ {c} : caller[d].pc = "put" => caller[d].id # caller[c].id

Consistent == WellFormed /\ RanOK /\ PendingOK /\ SchedulerConsistent

SchedulerVars == <<sequence, command, queue, tracked, exec, ran>>

\* Nothing is queued or tracked at first.
LEMMA ConsistentInit == Init => Consistent
<1> SUFFICES ASSUME Init PROVE Consistent
  OBVIOUS
<1>1. \A e \in Executors : exec[e].pc = "idle"
  BY DEF Init, NoExec
<1>2. \A m \in Motors : Executing(m) = {}
  BY <1>1 DEF Executing
<1>3. /\ \A m \in Motors : tracked[m] = {} /\ queue[m] = {}
      /\ ran = {}
  BY DEF Init
<1>4. SchedulerConsistent
  BY <1>1, <1>2, <1>3 DEF SchedulerConsistent
<1>5. PendingOK
  BY DEF Init, PendingOK, NoCall
<1> QED  BY <1>3, <1>4, <1>5, WellFormedInit DEF Consistent, RanOK

\* A step that leaves the scheduler and the calls about to enqueue alone keeps it
\* consistent.
LEMMA ConsistentFrame ==
  ASSUME Consistent, UNCHANGED SchedulerVars,
         \A c \in Callers : caller'[c].pc = "put" => caller'[c] = caller[c]
  PROVE  RanOK' /\ PendingOK' /\ SchedulerConsistent'
<1>1. RanOK' /\ SchedulerConsistent'
  BY DEF Consistent, SchedulerVars, RanOK, Given, SchedulerConsistent, Executing
<1>2. PendingOK'
  BY DEF Consistent, SchedulerVars, PendingOK
<1> QED  BY <1>1, <1>2

\* A caller that goes on keeps what it knew and its motor.
LEMMA CallerFields ==
  ASSUME TypeOK, NEW c \in Callers, NEW step,
         caller' = [caller EXCEPT ![c].pc = step]
  PROVE  /\ caller'[c].pc = step
         /\ caller'[c].known = caller[c].known
         /\ caller'[c].motor = caller[c].motor
         /\ \A d \in Callers \ {c} : caller'[d] = caller[d]
<1>1. caller \in [Callers -> CallRecords]
  BY DEF TypeOK
<1>2. caller[c] \in CallRecords
  BY <1>1
<1> QED  BY <1>1, <1>2 DEF CallRecords

\* A new id is in none of the structures, and no other call has it.
LEMMA NumberFresh ==
  ASSUME Consistent, NEW c \in Callers, Number(c)
  PROVE  /\ sequence \in Nat /\ sequence' = sequence + 1
         /\ sequence + 1 \in Ids /\ sequence + 1 \notin Given
         /\ Given' = Given \cup {sequence + 1}
         /\ \A j \in Given : command'[j] = command[j]
         /\ command'[sequence + 1] =
              [motor |-> caller[c].motor, action |-> caller[c].request,
               priority |-> caller[c].priority, known |-> caller[c].known]
         /\ command'[sequence + 1].motor = caller[c].motor
         /\ command'[sequence + 1].known = caller[c].known
         /\ caller'[c].pc = "put" /\ caller'[c].id = sequence + 1
         /\ caller'[c].motor = caller[c].motor /\ caller'[c].known = caller[c].known
         /\ \A d \in Callers \ {c} : caller'[d] = caller[d]
         /\ caller[c].pc = "number" /\ caller[c].motor \in Motors
<1> USE DEF Consistent, WellFormed, NextId
<1>1. WellFormed'
  BY CallerWellFormed DEF CallerStep
<1>2. sequence \in Nat /\ sequence' = sequence + 1
  BY ConstantsAssumption DEF TypeOK, Ids, Number
<1>3. sequence + 1 \in Ids
  BY <1>1, <1>2 DEF TypeOK
<1>4. sequence + 1 \notin Given /\ Given' = Given \cup {sequence + 1}
  BY <1>2 DEF Given
<1>5. \A j \in Given : command'[j] = command[j]
  BY <1>3, <1>4, GivenIds DEF Number, TypeOK
<1>6. command'[sequence + 1] =
        [motor |-> caller[c].motor, action |-> caller[c].request,
         priority |-> caller[c].priority, known |-> caller[c].known]
  BY <1>3 DEF Number, TypeOK
<1>7. /\ caller'[c].pc = "put" /\ caller'[c].id = sequence + 1
      /\ caller'[c].motor = caller[c].motor /\ caller'[c].known = caller[c].known
      /\ \A d \in Callers \ {c} : caller'[d] = caller[d]
  <2>1. caller \in [Callers -> CallRecords]
    BY DEF TypeOK
  <2>2. caller[c] \in CallRecords
    BY <2>1
  <2> QED  BY <2>1, <2>2 DEF CallRecords, Number
<1>8. caller[c].pc = "number" /\ caller[c].motor \in Motors
  BY DEF Number, CallersOK
<1>9. /\ command'[sequence + 1].motor = caller[c].motor
      /\ command'[sequence + 1].known = caller[c].known
  BY <1>6
<1> QED  BY <1>2, <1>3, <1>4, <1>5, <1>6, <1>7, <1>8, <1>9

\* A command that gets its id is neither queued, nor executed, nor has it run.
LEMMA NumberConsistent ==
  ASSUME Consistent, NEW c \in Callers, Number(c)
  PROVE  RanOK' /\ PendingOK' /\ SchedulerConsistent'
<1> DEFINE i == sequence + 1
<1>1. /\ sequence \in Nat /\ sequence' = i /\ i \in Ids /\ i \notin Given
      /\ Given' = Given \cup {i} /\ \A j \in Given : command'[j] = command[j]
      /\ command'[i].motor = caller[c].motor
      /\ caller'[c].pc = "put" /\ caller'[c].id = i /\ caller'[c].motor = caller[c].motor
      /\ \A d \in Callers \ {c} : caller'[d] = caller[d]
  BY NumberFresh
<1> USE DEF Consistent
<1>2. UNCHANGED <<queue, tracked, exec, ran>>
  BY DEF Number, history
<1>3. RanOK'
  BY <1>1, <1>2 DEF RanOK
<1>4. \A m \in Motors : Executing(m)' = Executing(m)
  <2> SUFFICES ASSUME NEW m \in Motors, NEW j \in Ids, NEW e \in Executors,
                      exec[e].pc # "idle", exec[e].id = j
               PROVE  command'[j].motor = m <=> command[j].motor = m
    BY <1>2 DEF Executing
  <2> QED  BY <1>1 DEF WellFormed, ExecOK
<1>5. \A m \in Motors : tracked[m] \subseteq Given
  BY DEF SchedulerConsistent, WellFormed, QueuesOK, ExecOK, Executing
<1>6. PendingOK'
  <2> SUFFICES ASSUME NEW d \in Callers, caller'[d].pc = "put"
               PROVE  /\ command'[caller'[d].id].motor = caller'[d].motor
                      /\ caller'[d].id \notin ran
                      /\ \A m \in Motors : caller'[d].id \notin tracked[m]
                      /\ \A f \in Callers \ {d} :
                           caller'[f].pc = "put" => caller'[f].id # caller'[d].id
    BY <1>2 DEF PendingOK
  <2>1. \A f \in Callers \ {c} : caller[f].pc = "put" => caller[f].id \in Given
    BY DEF WellFormed, CallersOK
  <2>2. CASE d = c
    BY <1>1, <1>5, <2>1, <2>2 DEF RanOK
  <2>3. CASE d # c
    BY <1>1, <2>1, <2>3 DEF PendingOK
  <2> QED  BY <2>2, <2>3
<1>7. ASSUME NEW m \in Motors, NEW j \in queue[m]
      PROVE  command'[j].motor = m /\ j <= sequence'
  BY <1>1 DEF SchedulerConsistent, WellFormed, QueuesOK, Given
<1> QED  BY <1>2, <1>3, <1>4, <1>6, <1>7 DEF SchedulerConsistent

\* A command that is put was nowhere else.
LEMMA PutConsistent ==
  ASSUME Consistent, NEW c \in Callers, Put(c)
  PROVE  RanOK' /\ PendingOK' /\ SchedulerConsistent'
<1> USE DEF Consistent
<1>1. PICK i \in Given : /\ i = caller[c].id /\ i \in Ids /\ i <= sequence
                         /\ command[i].motor = caller[c].motor
  BY GivenIds, ConstantsAssumption
  DEF Put, WellFormed, CallersOK, PendingOK, Given, TypeOK, Ids
<1>2. PICK n \in Motors : n = caller[c].motor
  BY DEF Put, WellFormed, CallersOK
<1>3. /\ i \notin ran /\ \A m \in Motors : i \notin tracked[m]
      /\ \A d \in Callers \ {c} : caller[d].pc = "put" => caller[d].id # i
  BY <1>1 DEF Put, PendingOK
<1>4. UNCHANGED <<sequence, command, exec, ran>>
  BY DEF Put, history
<1>5. \A m \in Motors :
        /\ queue'[m] = queue[m] \cup (IF m = n THEN {i} ELSE {})
        /\ tracked'[m] = tracked[m] \cup (IF m = n THEN {i} ELSE {})
  BY <1>1, <1>2 DEF Put, WellFormed, TypeOK
<1>6. /\ caller'[c].pc = "create"
      /\ \A d \in Callers \ {c} : caller'[d] = caller[d]
  BY CallerFields DEF Put, WellFormed
<1>7. \A m \in Motors : Executing(m)' = Executing(m) /\ i \notin Executing(m)
  BY <1>3, <1>4 DEF Executing, SchedulerConsistent
<1>8. PendingOK'
  BY <1>2, <1>3, <1>4, <1>5, <1>6 DEF PendingOK
<1>9. ASSUME NEW m \in Motors
      PROVE  /\ tracked'[m] = queue'[m] \cup Executing(m)'
             /\ queue'[m] \cap (Executing(m)' \cup ran') = {}
             /\ \A j \in queue'[m] : command'[j].motor = m /\ j <= sequence'
  <2>1. /\ tracked[m] = queue[m] \cup Executing(m)
        /\ queue[m] \cap (Executing(m) \cup ran) = {}
        /\ \A j \in queue[m] : command[j].motor = m /\ j <= sequence
    BY DEF SchedulerConsistent
  <2> QED  BY <1>1, <1>2, <1>3, <1>4, <1>5, <1>7, <2>1
<1>10. RanOK'
  BY <1>4 DEF RanOK, Given
<1> QED  BY <1>4, <1>8, <1>9, <1>10 DEF SchedulerConsistent

\* A step that only takes commands out, or runs one, keeps what waits for its queue.
LEMMA PendingExecutor ==
  ASSUME Consistent, NEW e \in Executors, ExecutorStep(e)
  PROVE  PendingOK'
<1> USE DEF Consistent, history
<1>1. UNCHANGED <<command, caller>>
  BY DEF ExecutorStep, Take, Execute, Register, Record, Remove
<1>2. ASSUME NEW m \in Motors
      PROVE  tracked'[m] \subseteq tracked[m]
  BY DEF ExecutorStep, Take, Execute, Register, Record, Remove, Untracked, WellFormed,
         TypeOK
<1>3. \/ ran' = ran
      \/ ran' = ran \cup {exec[e].id} /\ exec[e].pc = "execute"
  BY DEF ExecutorStep, Take, Execute, Register, Record, Remove
<1>4. ASSUME exec[e].pc = "execute", NEW c \in Callers, caller[c].pc = "put"
      PROVE  caller[c].id # exec[e].id
  <2>1. PICK m \in Motors : exec[e].id \in Executing(m)
    BY <1>4, GivenIds DEF Executing, WellFormed, ExecOK, CommandsOK
  <2> QED  BY <1>4, <2>1 DEF PendingOK, SchedulerConsistent
<1> QED  BY <1>1, <1>2, <1>3, <1>4 DEF PendingOK

\* A command that is taken leaves the queue and stays tracked by one executor.
LEMMA TakeConsistent ==
  ASSUME Consistent, NEW e \in Executors, Take(e)
  PROVE  RanOK' /\ SchedulerConsistent'
<1> USE DEF Consistent, history
<1>1. PICK m \in Motors : m = ServedMotor(e)
  BY DEF Take, MayTake, ServedMotor, WellFormed, CallersOK
<1>2. PICK i \in queue[m] :
        /\ queue' = [queue EXCEPT ![m] = @ \ {i}]
        /\ IF i \in cancelled
           THEN /\ tracked' = [tracked EXCEPT ![m] = Untracked(m, i)]
                /\ UNCHANGED exec
           ELSE /\ exec' = [exec EXCEPT ![e] =
                             [pc |-> "execute", id |-> i, result |-> "NONE"]]
                /\ UNCHANGED tracked
  BY <1>1 DEF Take
<1>3. i \in Ids /\ command[i].motor = m /\ i \notin ran
  BY <1>1, <1>2 DEF WellFormed, TypeOK, SchedulerConsistent
<1>4. \A f \in Executors : exec[f].pc # "idle" => exec[f].id # i
  BY <1>1, <1>2, <1>3 DEF SchedulerConsistent, Executing
<1>5. /\ queue'[m] = queue[m] \ {i}
      /\ \A n \in Motors \ {m} : queue'[n] = queue[n]
  BY <1>1, <1>2 DEF WellFormed, TypeOK
<1>6. UNCHANGED <<sequence, command, ran>>
  BY DEF Take
<1>7. CASE i \in cancelled
  <2>1. /\ tracked'[m] = tracked[m] \ {i}
        /\ \A n \in Motors \ {m} : tracked'[n] = tracked[n]
        /\ exec' = exec
    BY <1>1, <1>2, <1>7 DEF WellFormed, TypeOK, Untracked
  <2>2. \A n \in Motors : Executing(n)' = Executing(n) /\ i \notin Executing(n)
    BY <1>4, <1>6, <2>1 DEF Executing
  <2> QED  BY <1>5, <1>6, <2>1, <2>2 DEF SchedulerConsistent, RanOK, Given
<1>8. CASE i \notin cancelled
  <2>1. /\ tracked' = tracked
        /\ exec'[e].pc = "execute" /\ exec'[e].id = i
        /\ \A f \in Executors \ {e} : exec'[f] = exec[f]
        /\ exec[e].pc = "idle"
    BY <1>2, <1>8 DEF WellFormed, TypeOK, Take
  <2>2. Executing(m)' = Executing(m) \cup {i}
    BY <1>3, <1>6, <2>1 DEF Executing
  <2>3. \A n \in Motors \ {m} : Executing(n)' = Executing(n)
    BY <1>3, <1>6, <2>1 DEF Executing
  <2>4. \A f, g \in Executors :
          exec'[f].pc # "idle" /\ exec'[g].pc # "idle" /\ exec'[f].id = exec'[g].id
            => f = g
    <3> SUFFICES ASSUME NEW f \in Executors, NEW g \in Executors,
                        exec'[f].pc # "idle", exec'[g].pc # "idle",
                        exec'[f].id = exec'[g].id
                 PROVE  f = g
      OBVIOUS
    <3> QED  BY <1>4, <2>1 DEF SchedulerConsistent
  <2>5. \A f \in Executors : exec'[f].pc = "execute" => exec'[f].id \notin ran'
    BY <1>3, <1>6, <2>1 DEF SchedulerConsistent
  <2> QED  BY <1>2, <1>3, <1>5, <1>6, <2>1, <2>2, <2>3, <2>4, <2>5
           DEF SchedulerConsistent, RanOK, Given
<1> QED  BY <1>7, <1>8

\* It runs once.
LEMMA ExecuteConsistent ==
  ASSUME Consistent, NEW e \in Executors, Execute(e)
  PROVE  RanOK' /\ SchedulerConsistent'
<1> USE DEF Consistent, history
<1>1. PICK i \in Ids : /\ i = exec[e].id
                       /\ i \in Given
                       /\ ran' \in {ran, ran \cup {i}}
  BY GivenIds DEF Execute, WellFormed, ExecOK
<1>2. /\ exec'[e].pc \in {"register", "record"} /\ exec'[e].id = i
      /\ \A f \in Executors \ {e} : exec'[f] = exec[f]
      /\ exec[e].pc = "execute"
  BY <1>1, ExecuteMoves DEF WellFormed, Execute
<1>3. UNCHANGED <<sequence, command, queue, tracked>>
  BY DEF Execute
<1>4. \A m \in Motors : Executing(m)' = Executing(m)
  BY <1>1, <1>2, <1>3 DEF Executing
<1>5. \A m \in Motors : i \notin queue[m]
  BY <1>1, <1>2 DEF SchedulerConsistent, Executing
<1>6. \A f, g \in Executors :
        exec'[f].pc # "idle" /\ exec'[g].pc # "idle" /\ exec'[f].id = exec'[g].id
          => f = g
  BY <1>1, <1>2 DEF SchedulerConsistent
<1>7. \A f \in Executors : exec'[f].pc = "execute" => exec'[f].id \notin ran'
  BY <1>1, <1>2 DEF SchedulerConsistent
<1>8. ASSUME NEW m \in Motors
      PROVE  /\ tracked'[m] = queue'[m] \cup Executing(m)'
             /\ queue'[m] \cap (Executing(m)' \cup ran') = {}
             /\ \A j \in queue'[m] : command'[j].motor = m /\ j <= sequence'
  BY <1>1, <1>3, <1>4, <1>5 DEF SchedulerConsistent
<1>9. RanOK'
  BY <1>1, <1>3 DEF RanOK, Given
<1> QED  BY <1>6, <1>7, <1>8, <1>9 DEF SchedulerConsistent

\* Registration and record leave the scheduler alone.
LEMMA RegisterRecordConsistent ==
  ASSUME Consistent, NEW e \in Executors, Register(e) \/ Record(e)
  PROVE  RanOK' /\ SchedulerConsistent'
<1> USE DEF Consistent, history
<1>1. /\ exec'[e].pc \in {"record", "remove"} /\ exec'[e].id = exec[e].id
      /\ \A f \in Executors \ {e} : exec'[f] = exec[f]
      /\ exec[e].pc # "idle"
  BY ExecStepMoves DEF WellFormed, Register, Record
<1>2. UNCHANGED <<sequence, command, queue, tracked, ran>>
  BY DEF Register, Record
<1>3. \A m \in Motors : Executing(m)' = Executing(m)
  BY <1>1, <1>2 DEF Executing
<1>4. \A f, g \in Executors :
        exec'[f].pc # "idle" /\ exec'[g].pc # "idle" /\ exec'[f].id = exec'[g].id
          => f = g
  BY <1>1 DEF SchedulerConsistent
<1> QED  BY <1>1, <1>2, <1>3, <1>4 DEF SchedulerConsistent, RanOK, Given

\* The removal ends the tracking of the executor's own command.
LEMMA RemoveConsistent ==
  ASSUME Consistent, NEW e \in Executors, Remove(e)
  PROVE  RanOK' /\ SchedulerConsistent'
<1> USE DEF Consistent, history
<1>1. PICK i \in Ids : i = exec[e].id /\ i \in Given
  BY GivenIds DEF Remove, WellFormed, ExecOK
<1>2. PICK m \in Motors : m = command[i].motor
  BY <1>1 DEF WellFormed, CommandsOK
<1>3. /\ exec'[e].pc = "idle" /\ exec[e].pc # "idle"
      /\ \A f \in Executors \ {e} : exec'[f] = exec[f]
  BY DEF Remove, NoExec, WellFormed, TypeOK
<1>4. UNCHANGED <<sequence, command, queue, ran>>
  BY DEF Remove
<1>5. /\ tracked'[m] = tracked[m] \ {i}
      /\ \A n \in Motors \ {m} : tracked'[n] = tracked[n]
  BY <1>1, <1>2 DEF Remove, WellFormed, TypeOK, Untracked
<1>6. \A f \in Executors \ {e} : exec[f].pc # "idle" => exec[f].id # i
  BY <1>1, <1>3 DEF SchedulerConsistent
<1>7. Executing(m)' = Executing(m) \ {i}
  BY <1>1, <1>3, <1>4, <1>6 DEF Executing
<1>8. \A n \in Motors \ {m} : Executing(n)' = Executing(n)
  BY <1>1, <1>2, <1>3, <1>4, <1>6 DEF Executing
<1>9. i \in Executing(m)
  BY <1>1, <1>2, <1>3 DEF Executing
<1>10. \A f, g \in Executors :
         exec'[f].pc # "idle" /\ exec'[g].pc # "idle" /\ exec'[f].id = exec'[g].id
           => f = g
  BY <1>3 DEF SchedulerConsistent
<1>11. ASSUME NEW n \in Motors
       PROVE  /\ tracked'[n] = queue'[n] \cup Executing(n)'
              /\ queue'[n] \cap (Executing(n)' \cup ran') = {}
              /\ \A j \in queue'[n] : command'[j].motor = n /\ j <= sequence'
  <2>1. /\ tracked[n] = queue[n] \cup Executing(n)
        /\ queue[n] \cap (Executing(n) \cup ran) = {}
        /\ \A j \in queue[n] : command[j].motor = n /\ j <= sequence
    BY DEF SchedulerConsistent
  <2> QED  BY <1>4, <1>5, <1>7, <1>8, <1>9, <2>1
<1>12. \A f \in Executors : exec'[f].pc = "execute" => exec'[f].id \notin ran'
  BY <1>3, <1>4 DEF SchedulerConsistent
<1>13. RanOK'
  BY <1>4 DEF RanOK, Given
<1> QED  BY <1>10, <1>11, <1>12, <1>13 DEF SchedulerConsistent

(* Every step but those of enqueue and of the executors leaves the          *)
(* scheduler's structures alone.                                            *)
LEMMA OtherSteps ==
  ASSUME [Next]_vars,
         \A c \in Callers : ~Number(c) /\ ~Put(c), \A e \in Executors : ~ExecutorStep(e)
  PROVE  UNCHANGED SchedulerVars
<1> USE DEF SchedulerVars, history
<1>1. CASE UNCHANGED vars
  BY <1>1 DEF vars
<1>2. ASSUME NEW c \in Callers, NEW m \in Motors, NEW r \in Requests,
             NEW p \in Priorities, Begin(c, m, r, p)
      PROVE  UNCHANGED SchedulerVars
  BY <1>2 DEF Begin
<1>3. ASSUME NEW c \in Callers, CallerStep(c)
      PROVE  UNCHANGED SchedulerVars
  BY <1>3 DEF CallerStep, Cancel, Halt, Create, Publish, Drained, FinishCall, Reserve
<1>4. ASSUME NEW t \in Evaluators, EvaluatorStep(t)
      PROVE  UNCHANGED SchedulerVars
  BY <1>4 DEF EvaluatorStep, WatchdogExpires, Inspect, EvaluatorStops,
              EvaluatorFinishes
<1>5. ASSUME NEW m \in Motors, SweepStep(m) \/ GuardStep(m) \/ MotionEnds(m)
      PROVE  UNCHANGED SchedulerVars
  BY <1>5 DEF SweepStep, SweepCancel, SweepStop, SweepFinish, GuardStep,
              NativeRuns, NativeStops, Release, MotionEnds
<1>6. CASE Prepare \/ ShutdownStep
  BY <1>6 DEF Prepare, ShutdownStep, Prepared, Finalize, Joined, Finalized,
              Shutdown
<1> QED  BY <1>1, <1>2, <1>3, <1>4, <1>5, <1>6 DEF Next

\* Nor do they bring a call to its enqueue.
LEMMA OtherCalls ==
  ASSUME TypeOK, [Next]_vars, \A c \in Callers : ~Number(c)
  PROVE  \A c \in Callers : caller'[c].pc = "put" => caller'[c] = caller[c]
<1> USE DEF history
<1>1. ASSUME NEW c \in Callers,
             \/ CallerStep(c)
             \/ \E m \in Motors, r \in Requests, p \in Priorities : Begin(c, m, r, p)
      PROVE  caller'[c].pc # "put" /\ \A d \in Callers \ {c} : caller'[d] = caller[d]
  <2>1. caller \in [Callers -> CallRecords]
    BY DEF TypeOK
  <2>2. caller[c] \in CallRecords
    BY <2>1
  <2>3. CASE \E step \in CallSteps : caller' = [caller EXCEPT ![c].pc = step]
    BY <2>1, <2>2, <2>3 DEF CallRecords, CallSteps
  <2>4. CASE caller' = [caller EXCEPT ![c] = NoCall]
    BY <2>1, <2>4 DEF NoCall
  <2>5. CASE Publish(c)
    BY <2>1, <2>2, <2>5 DEF Publish, NoCall, CallRecords
  <2>6. CASE \E m \in Motors, r \in Requests, p \in Priorities : Begin(c, m, r, p)
    BY <2>1, <2>6 DEF Begin
  <2> QED  BY <1>1, <2>3, <2>4, <2>5, <2>6
           DEF CallerStep, Cancel, Halt, Put, Create, Drained, FinishCall, Reserve, CallSteps
<1>2. CASE UNCHANGED caller
  BY <1>2
<1>3. ASSUME NEW t \in Evaluators, EvaluatorStep(t)
      PROVE  UNCHANGED caller
  BY <1>3 DEF EvaluatorStep, WatchdogExpires, Inspect, EvaluatorStops,
              EvaluatorFinishes
<1>4. ASSUME NEW m \in Motors, SweepStep(m) \/ GuardStep(m) \/ MotionEnds(m)
      PROVE  UNCHANGED caller
  BY <1>4 DEF SweepStep, SweepCancel, SweepStop, SweepFinish, GuardStep,
              NativeRuns, NativeStops, Release, MotionEnds
<1>5. CASE Prepare \/ ShutdownStep
  BY <1>2, <1>5 DEF Prepare, ShutdownStep, Prepared, Finalize, Joined, Finalized,
              Shutdown
<1>6. ASSUME NEW e \in Executors, ExecutorStep(e)
      PROVE  UNCHANGED caller
  BY <1>6 DEF ExecutorStep, Take, Execute, Register, Record, Remove
<1>7. CASE UNCHANGED vars
  BY <1>2, <1>7 DEF vars
<1> QED  BY <1>1, <1>2, <1>3, <1>4, <1>5, <1>6, <1>7 DEF Next

\* Hence every step keeps the scheduler consistent.
LEMMA ConsistentNext ==
  ASSUME Consistent, [Next]_vars
  PROVE  Consistent'
<1>1. WellFormed'
  BY WellFormedNext DEF Consistent
<1>2. RanOK' /\ PendingOK' /\ SchedulerConsistent'
  <2>1. ASSUME NEW c \in Callers, Number(c) \/ Put(c)
        PROVE  RanOK' /\ PendingOK' /\ SchedulerConsistent'
    BY <2>1, NumberConsistent, PutConsistent
  <2>2. ASSUME NEW e \in Executors, ExecutorStep(e)
        PROVE  RanOK' /\ PendingOK' /\ SchedulerConsistent'
    <3>1. RanOK' /\ SchedulerConsistent'
      BY <2>2, TakeConsistent, ExecuteConsistent, RegisterRecordConsistent,
         RemoveConsistent DEF ExecutorStep
    <3> QED  BY <2>2, <3>1, PendingExecutor
  <2>3. TypeOK
    BY DEF Consistent, WellFormed
  <2>4. CASE /\ \A c \in Callers : ~Number(c) /\ ~Put(c)
             /\ \A e \in Executors : ~ExecutorStep(e)
    BY <2>3, <2>4, OtherSteps, OtherCalls, ConsistentFrame
  <2> QED  BY <2>1, <2>2, <2>4
<1> QED  BY <1>1, <1>2 DEF Consistent

(* A command is tracked exactly while it waits or is executed, one thread   *)
(* executes it, and it runs at most once.                                   *)
THEOREM SchedulerCorrect == Spec => []SchedulerConsistent
<1>1. Spec => []Consistent
  BY ConsistentInit, ConsistentNext, PTL DEF Spec
<1> QED  BY <1>1, PTL DEF Consistent

-----------------------------------------------------------------------------
(* Preemption: a command is not overtaken by those it follows *)

(* Callers execute commands only once the monitor is dead; until then the   *)
(* worker of a motor is alone.                                              *)
OneWorker ==
  /\ \A c \in Callers : caller[c].pc = "inline" => phase = "dead"
  /\ phase # "dead" =>
       \A e \in Executors : exec[e].pc # "idle" => command[exec[e].id].motor = e

KnownOK ==
  /\ \A c \in Callers : caller[c].pc # "idle" => caller[c].known \subseteq Given
  /\ \A j \in Given : \A i \in command[j].known : i \in Given /\ i < j

(* From the cancellation on, the commands that a call follows are cancelled *)
(* if they still wait.                                                      *)
CallsPreempt ==
  \A c \in Callers : caller[c].pc \in {"halt", "number"} =>
    caller[c].known \cap queue[caller[c].motor] \subseteq cancelled

CommandsPreempt ==
  \A j \in Given : command[j].known \cap queue[command[j].motor] \subseteq cancelled

(* A call about to enqueue has not returned: nobody knows its command.      *)
PendingUnknown ==
  \A c \in Callers : caller[c].pc = "put" =>
    /\ \A d \in Callers : caller[d].pc # "idle" => caller[c].id \notin caller[d].known
    /\ \A j \in Given : caller[c].id \notin command[j].known

NotOvertaken ==
  phase # "dead" =>
    \A s \in ran, e \in Executors :
      exec[e].pc = "execute" /\ command[s].motor = command[exec[e].id].motor
        => exec[e].id \notin command[s].known

Order ==
  OneWorker /\ KnownOK /\ PendingUnknown /\ CallsPreempt /\ CommandsPreempt /\ NotOvertaken

Ordered == Consistent /\ Order

\* No command was given at first.
LEMMA OrderedInit == Init => Ordered
<1> SUFFICES ASSUME Init PROVE Ordered
  OBVIOUS
<1>1. /\ \A e \in Executors : exec[e].pc = "idle"
      /\ \A c \in Callers : caller[c].pc = "idle"
      /\ Given = {}
      /\ ran = {}
  BY DEF Init, NoExec, NoCall, Given
<1> QED  BY <1>1, ConsistentInit
         DEF Ordered, Order, OneWorker, KnownOK, PendingUnknown, CallsPreempt,
             CommandsPreempt, NotOvertaken

(* Steps that leave the calls and the scheduler alone may cancel, and may   *)
(* bring the monitor to its end.                                            *)
LEMMA SupervisionOrder ==
  ASSUME Ordered, UNCHANGED <<SchedulerVars, caller>>,
         cancelled \subseteq cancelled', phase = "dead" => phase' = "dead"
  PROVE  Order'
<1> USE DEF Ordered, Order, SchedulerVars
<1>1. OneWorker'
  BY DEF OneWorker
<1>2. KnownOK' /\ PendingUnknown'
  BY DEF KnownOK, PendingUnknown, Given
<1>3. CallsPreempt' /\ CommandsPreempt'
  BY DEF CallsPreempt, CommandsPreempt, Given
<1>4. NotOvertaken'
  BY DEF NotOvertaken
<1> QED  BY <1>1, <1>2, <1>3, <1>4

(* A call that starts, goes on or returns. *)
LEMMA CallOrder ==
  ASSUME Ordered, NEW c \in Callers, UNCHANGED <<SchedulerVars, phase>>,
         cancelled \subseteq cancelled',
         \A d \in Callers \ {c} : caller'[d] = caller[d],
         caller'[c].pc # "idle" => caller'[c].known \subseteq Given,
         caller'[c].pc = "inline" => phase = "dead",
         caller'[c].pc # "put",
         \A d \in Callers : caller[d].pc = "put" /\ caller'[c].pc # "idle" =>
           caller[d].id \notin caller'[c].known,
         caller'[c].pc \in {"halt", "number"} =>
           caller'[c].known \cap queue[caller'[c].motor] \subseteq cancelled'
  PROVE  Order'
<1> USE DEF Ordered, Order, SchedulerVars
<1>1. OneWorker'
  BY DEF OneWorker
<1>2. KnownOK' /\ PendingUnknown'
  BY DEF KnownOK, PendingUnknown, Given
<1>3. CallsPreempt' /\ CommandsPreempt'
  BY DEF CallsPreempt, CommandsPreempt, Given
<1>4. NotOvertaken'
  BY DEF NotOvertaken
<1> QED  BY <1>1, <1>2, <1>3, <1>4

\* A call that begins knows the commands whose calls have returned, and has cancelled
\* none of them yet.
LEMMA BeginOrder ==
  ASSUME Ordered, NEW c \in Callers, NEW m \in Motors, NEW r \in Requests,
         NEW p \in Priorities, Begin(c, m, r, p)
  PROVE  Order'
<1>1. /\ caller'[c].pc = "cancel" /\ caller'[c].known = Settled
      /\ \A d \in Callers \ {c} : caller'[d] = caller[d]
  BY DEF Begin, Ordered, Consistent, WellFormed, TypeOK
<1>2. /\ Settled \subseteq Given
      /\ \A d \in Callers : caller[d].id \notin Settled
  BY DEF Settled, Given
<1>3. UNCHANGED <<SchedulerVars, phase, cancelled>>
  BY DEF Begin, SchedulerVars, history
<1> QED  BY <1>1, <1>2, <1>3, CallOrder

\* Its cancel makes sure that none of it will run, unless it is being executed.
LEMMA CancelOrder ==
  ASSUME Ordered, NEW c \in Callers, Cancel(c)
  PROVE  Order'
<1> USE DEF Ordered, Order, Consistent, WellFormed
<1>1. /\ caller'[c].pc \in {"halt", "number"}
      /\ caller'[c].known = caller[c].known
      /\ caller'[c].motor = caller[c].motor
      /\ \A d \in Callers \ {c} : caller'[d] = caller[d]
  <2>1. PICK step \in {"halt", "number"} : caller' = [caller EXCEPT ![c].pc = step]
    BY DEF Cancel
  <2> QED  BY <2>1, CallerFields
<1>2. caller[c].motor \in Motors /\ caller[c].known \subseteq Given
  BY DEF Cancel, CallersOK, KnownOK
<1>3. queue[caller[c].motor] \subseteq cancelled'
  BY <1>2 DEF Cancel, Doomed, SchedulerConsistent
<1>4. UNCHANGED <<SchedulerVars, phase>> /\ cancelled \subseteq cancelled'
  BY DEF Cancel, SchedulerVars, history
<1>5. \A d \in Callers : caller[d].pc = "put" => caller[d].id \notin caller[c].known
  BY DEF Cancel, PendingUnknown
<1> QED  BY <1>1, <1>2, <1>3, <1>4, <1>5, CallOrder

\* The other steps of a call put nothing into a queue.
LEMMA CallStepOrder ==
  ASSUME Ordered, NEW c \in Callers,
         Halt(c) \/ Create(c) \/ Publish(c) \/ Drained(c) \/ FinishCall(c) \/ Reserve(c)
  PROVE  Order'
<1> USE DEF Ordered, Order, Consistent, WellFormed
<1>1. UNCHANGED <<SchedulerVars, phase, cancelled>>
  BY DEF Halt, Create, Publish, Drained, FinishCall, Reserve, SchedulerVars, history
<1>2. /\ caller[c].pc # "idle" /\ caller[c].known \subseteq Given
      /\ \A d \in Callers : caller[d].pc = "put" => caller[d].id \notin caller[c].known
  BY DEF Halt, Create, Publish, Drained, FinishCall, Reserve, KnownOK, PendingUnknown
<1>3. CASE caller' = [caller EXCEPT ![c] = NoCall]
  <2>1. /\ caller'[c].pc = "idle"
        /\ \A d \in Callers \ {c} : caller'[d] = caller[d]
    BY <1>3 DEF NoCall, TypeOK
  <2> QED  BY <1>1, <2>1, CallOrder
<1>4. CASE caller' = [caller EXCEPT ![c].pc = "number"] /\ caller[c].pc = "halt"
  <2>1. caller[c].known \cap queue[caller[c].motor] \subseteq cancelled
    BY <1>4 DEF CallsPreempt
  <2> QED  BY <1>1, <1>2, <1>4, <2>1, CallerFields, CallOrder
<1>5. CASE caller' = [caller EXCEPT ![c].pc = "inline"] /\ phase = "dead"
  <2>1. /\ caller'[c].pc = "inline" /\ caller'[c].known = caller[c].known
        /\ \A d \in Callers \ {c} : caller'[d] = caller[d]
    BY <1>5, CallerFields
  <2> QED  BY <1>1, <1>2, <1>5, <2>1, CallOrder
<1>6. CASE \E step \in {"reserve", "publish", "finish"} :
             caller' = [caller EXCEPT ![c].pc = step]
  BY <1>1, <1>2, <1>6, CallerFields, CallOrder
<1>7. CASE Publish(c) /\ phase = "dead"
  <2>1. caller' = [caller EXCEPT ![c] = [caller[c] EXCEPT !.pc = "inline"]]
    BY <1>7 DEF Publish
  <2>2. caller' = [caller EXCEPT ![c].pc = "inline"]
    BY <2>1
  <2> QED  BY <1>5, <1>7, <2>2
<1> QED  BY <1>3, <1>4, <1>6, <1>7 DEF Halt, Create, Publish, Drained, FinishCall, Reserve

\* The command takes over what its call knew, all of which is cancelled or over.
LEMMA NumberOrder ==
  ASSUME Ordered, NEW c \in Callers, Number(c)
  PROVE  Order'
<1> USE DEF Ordered
<1> DEFINE i == sequence + 1
<1>1. /\ sequence \in Nat /\ sequence' = i /\ i \in Ids
      /\ i \notin Given /\ Given' = Given \cup {i}
      /\ \A j \in Given : command'[j] = command[j]
      /\ command'[i].motor = caller[c].motor /\ command'[i].known = caller[c].known
      /\ caller'[c].pc = "put" /\ caller'[c].id = i /\ caller'[c].known = caller[c].known
      /\ \A d \in Callers \ {c} : caller'[d] = caller[d]
      /\ caller[c].pc = "number"
  BY NumberFresh
<1> USE DEF Order, Consistent, WellFormed
<1>2. UNCHANGED <<queue, exec, ran, cancelled, phase>>
  BY DEF Number, history
<1>3. caller[c].known \subseteq Given
  BY <1>1 DEF KnownOK
<1>4. OneWorker'
  <2>1. \A d \in Callers : caller'[d].pc = "inline" => phase' = "dead"
    BY <1>1, <1>2 DEF OneWorker
  <2>2. ASSUME phase' # "dead", NEW e \in Executors, exec'[e].pc # "idle"
        PROVE  command'[exec'[e].id].motor = e
    BY <1>1, <1>2, <2>2 DEF OneWorker, ExecOK
  <2> QED  BY <2>1, <2>2 DEF OneWorker
<1>5. KnownOK'
  <2>1. \A d \in Callers : caller'[d].pc # "idle" => caller'[d].known \subseteq Given'
    BY <1>1, <1>3 DEF KnownOK
  <2>2. \A j \in Given', k \in Given : k \in command'[j].known => k < j
    BY <1>1, <1>3 DEF KnownOK, Given
  <2>3. \A j \in Given' : command'[j].known \subseteq Given
    BY <1>1, <1>3 DEF KnownOK
  <2> QED  BY <1>1, <2>1, <2>2, <2>3 DEF KnownOK
<1>6. PendingUnknown'
  <2>1. ASSUME NEW d \in Callers, caller'[d].pc = "put",
               NEW f \in Callers, caller'[f].pc # "idle"
        PROVE  caller'[d].id \notin caller'[f].known
    <3>1. caller'[f].known = caller[f].known /\ caller[f].pc # "idle"
      BY <1>1, <2>1
    <3>2. caller[f].known \subseteq Given
      BY <3>1 DEF KnownOK
    <3>3. CASE d = c
      BY <1>1, <3>1, <3>2, <3>3
    <3>4. CASE d # c
      BY <1>1, <2>1, <3>1, <3>4 DEF PendingUnknown
    <3> QED  BY <3>3, <3>4
  <2>2. ASSUME NEW d \in Callers, caller'[d].pc = "put", NEW j \in Given'
        PROVE  caller'[d].id \notin command'[j].known
    <3>1. command'[j].known \subseteq Given
      BY <1>1, <1>3 DEF KnownOK
    <3>2. CASE d = c
      BY <1>1, <3>1, <3>2
    <3>3. CASE d # c
      BY <1>1, <2>2, <3>3 DEF PendingUnknown
    <3> QED  BY <3>2, <3>3
  <2> QED  BY <2>1, <2>2 DEF PendingUnknown
<1>7. CallsPreempt'
  BY <1>1, <1>2 DEF CallsPreempt
<1>8. CommandsPreempt'
  <2>1. caller[c].known \cap queue[caller[c].motor] \subseteq cancelled
    BY <1>1 DEF CallsPreempt
  <2> QED  BY <1>1, <1>2, <2>1 DEF CommandsPreempt
<1>9. NotOvertaken'
  BY <1>1, <1>2 DEF NotOvertaken, ExecOK, RanOK
<1> QED  BY <1>4, <1>5, <1>6, <1>7, <1>8, <1>9

\* Nobody knows the command that is put.
LEMMA PutOrder ==
  ASSUME Ordered, NEW c \in Callers, Put(c)
  PROVE  Order'
<1> USE DEF Ordered, Order, Consistent, WellFormed
<1>1. PICK m \in Motors : m = caller[c].motor
  BY DEF Put, CallersOK
<1>2. PICK i : i = caller[c].id
  OBVIOUS
<1>3. /\ queue'[m] = queue[m] \cup {i}
      /\ \A n \in Motors \ {m} : queue'[n] = queue[n]
  BY <1>1, <1>2 DEF Put, TypeOK
<1>4. UNCHANGED <<sequence, command, exec, ran, cancelled, phase>>
  BY DEF Put, history
<1>5. /\ caller'[c].pc = "create" /\ caller'[c].known = caller[c].known
      /\ \A d \in Callers \ {c} : caller'[d] = caller[d]
      /\ caller[c].pc = "put"
  BY CallerFields DEF Put
<1>6. OneWorker' /\ NotOvertaken'
  BY <1>4, <1>5 DEF OneWorker, NotOvertaken
<1>7. KnownOK' /\ PendingUnknown'
  BY <1>4, <1>5 DEF KnownOK, PendingUnknown, Given
<1>8. CallsPreempt'
  <2> SUFFICES ASSUME NEW d \in Callers, caller'[d].pc \in {"halt", "number"},
                      NEW k \in caller'[d].known, k \in queue'[caller'[d].motor]
               PROVE  k \in cancelled'
    BY DEF CallsPreempt
  <2>1. d # c /\ caller'[d] = caller[d] /\ caller[d].motor \in Motors
    BY <1>5 DEF CallersOK
  <2>2. k # i
    BY <1>2, <1>5, <2>1 DEF PendingUnknown
  <2>3. k \in queue[caller[d].motor]
    BY <1>3, <2>1, <2>2
  <2> QED  BY <1>4, <2>1, <2>3 DEF CallsPreempt
<1>9. CommandsPreempt'
  <2> SUFFICES ASSUME NEW j \in Given, NEW k \in command[j].known,
                      k \in queue'[command[j].motor]
               PROVE  k \in cancelled
    BY <1>4 DEF CommandsPreempt, Given
  <2>1. k # i /\ command[j].motor \in Motors
    BY <1>2, <1>5 DEF PendingUnknown, CommandsOK
  <2>2. k \in queue[command[j].motor]
    BY <1>3, <2>1
  <2> QED  BY <2>2 DEF CommandsPreempt
<1> QED  BY <1>6, <1>7, <1>8, <1>9

\* A command is taken only by an executor that holds no other.
LEMMA TakeOrder ==
  ASSUME Ordered, NEW e \in Executors, Take(e)
  PROVE  Order'
<1> USE DEF Ordered, Order, Consistent, WellFormed, history
<1>1. PICK m \in Motors : m = ServedMotor(e)
  BY DEF Take, MayTake, ServedMotor, CallersOK
<1>2. PICK i \in queue[m] :
        /\ queue' = [queue EXCEPT ![m] = @ \ {i}]
        /\ IF i \in cancelled
           THEN UNCHANGED exec
           ELSE exec' = [exec EXCEPT ![e] =
                           [pc |-> "execute", id |-> i, result |-> "NONE"]]
  BY <1>1 DEF Take
<1>3. UNCHANGED <<sequence, command, cancelled, caller, phase, ran>>
  BY DEF Take
<1>4. i \in Given /\ command[i].motor = m
  BY <1>1, <1>2 DEF SchedulerConsistent, QueuesOK
<1>5. \A n \in Motors : queue'[n] \subseteq queue[n]
  BY <1>1, <1>2 DEF TypeOK
<1>6. \/ exec' = exec
      \/ /\ exec'[e].pc = "execute" /\ exec'[e].id = i
         /\ \A f \in Executors \ {e} : exec'[f] = exec[f]
         /\ i \notin cancelled
  BY <1>2 DEF TypeOK
<1>7. OneWorker'
  <2>1. phase # "dead" => m = e
    BY <1>1 DEF Take, MayTake, ServedMotor, OneWorker
  <2> QED  BY <1>3, <1>4, <1>6, <2>1 DEF OneWorker
<1>8. KnownOK' /\ PendingUnknown'
  BY <1>3 DEF KnownOK, PendingUnknown, Given
<1>9. CallsPreempt'
  BY <1>3, <1>5 DEF CallsPreempt, CallersOK
<1>10. CommandsPreempt'
  BY <1>3, <1>5 DEF CommandsPreempt, CommandsOK, Given
<1>11. NotOvertaken'
  <2>1. CASE exec' = exec
    BY <1>3, <2>1 DEF NotOvertaken
  <2>2. CASE exec' # exec
    <3> SUFFICES ASSUME phase # "dead", NEW s \in ran, NEW f \in Executors,
                        exec'[f].pc = "execute",
                        command[s].motor = command[exec'[f].id].motor,
                        exec'[f].id \in command[s].known
                 PROVE  FALSE
      BY <1>3 DEF NotOvertaken
    <3>1. CASE f # e
      BY <1>6, <2>2, <3>1 DEF NotOvertaken
    <3>2. CASE f = e
      <4>1. i \in queue[command[s].motor] /\ i \in command[s].known
        BY <1>2, <1>4, <1>6, <2>2, <3>2
      <4> QED  BY <1>6, <2>2, <4>1 DEF CommandsPreempt, RanOK
    <3> QED  BY <3>1, <3>2
  <2> QED  BY <2>1, <2>2
<1> QED  BY <1>7, <1>8, <1>9, <1>10, <1>11

(* While the monitor lives, an executor that is past its hardware call was  *)
(* alone on its motor when it ran.                                          *)
LEMMA ExecuteOrder ==
  ASSUME Ordered, NEW e \in Executors, Execute(e)
  PROVE  Order'
<1> USE DEF Ordered, Order, Consistent, WellFormed, history
<1>1. PICK i \in Ids : /\ i = exec[e].id
                       /\ i \in Given
                       /\ ran' \in {ran, ran \cup {i}}
  BY GivenIds DEF Execute, ExecOK
<1>2. /\ exec'[e].pc \in {"register", "record"} /\ exec'[e].id = i
      /\ \A f \in Executors \ {e} : exec'[f] = exec[f]
      /\ exec[e].pc = "execute"
  BY <1>1, ExecuteMoves DEF Execute
<1>3. UNCHANGED <<sequence, command, queue, cancelled, caller, phase>>
  BY DEF Execute
<1>4. OneWorker'
  BY <1>1, <1>2, <1>3 DEF OneWorker
<1>5. KnownOK' /\ PendingUnknown' /\ CallsPreempt' /\ CommandsPreempt'
  BY <1>3 DEF KnownOK, PendingUnknown, CallsPreempt, CommandsPreempt, Given
<1>6. NotOvertaken'
  <2> SUFFICES ASSUME phase # "dead", NEW s \in ran', NEW f \in Executors,
                      exec'[f].pc = "execute",
                      command[s].motor = command[exec'[f].id].motor,
                      exec'[f].id \in command[s].known
               PROVE  FALSE
    BY <1>3 DEF NotOvertaken
  <2>1. f # e /\ exec'[f] = exec[f]
    BY <1>2
  <2>2. CASE s \in ran
    BY <2>1, <2>2 DEF NotOvertaken
  <2>3. CASE s = i
    BY <1>1, <1>2, <2>1, <2>3 DEF OneWorker
  <2> QED  BY <1>1, <2>2, <2>3
<1> QED  BY <1>4, <1>5, <1>6

\* Hence every step of an executor keeps the order.
LEMMA ExecutorOrder ==
  ASSUME Ordered, NEW e \in Executors, ExecutorStep(e)
  PROVE  Order'
<1> USE DEF Ordered, Order, Consistent, WellFormed, history
<1>1. CASE Register(e) \/ Record(e) \/ Remove(e)
  <2>1. /\ exec'[e].pc \in {"record", "remove", "idle"}
        /\ exec'[e].pc # "idle" => exec'[e].id = exec[e].id
        /\ \A f \in Executors \ {e} : exec'[f] = exec[f]
        /\ exec[e].pc # "idle"
    <3>1. CASE Register(e) \/ Record(e)
      BY <3>1, ExecStepMoves DEF Register, Record
    <3>2. CASE Remove(e)
      BY <3>2 DEF Remove, NoExec, TypeOK
    <3> QED  BY <1>1, <3>1, <3>2
  <2>2. UNCHANGED <<sequence, command, queue, cancelled, caller, phase, ran>>
    BY <1>1 DEF Register, Record, Remove
  <2>3. OneWorker'
    BY <2>1, <2>2 DEF OneWorker
  <2>4. KnownOK' /\ PendingUnknown' /\ CallsPreempt' /\ CommandsPreempt'
    BY <2>2 DEF KnownOK, PendingUnknown, CallsPreempt, CommandsPreempt, Given
  <2>5. NotOvertaken'
    BY <2>1, <2>2 DEF NotOvertaken
  <2> QED  BY <2>3, <2>4, <2>5
<1> QED  BY <1>1, TakeOrder, ExecuteOrder DEF ExecutorStep

(* What the other threads do to the calls, the scheduler and the phase. *)
LEMMA SupervisionFrame ==
  ASSUME TypeOK,
         \/ \E t \in Evaluators : EvaluatorStep(t)
         \/ \E m \in Motors : SweepStep(m) \/ GuardStep(m) \/ MotionEnds(m)
         \/ Prepare \/ ShutdownStep
         \/ UNCHANGED vars
  PROVE  /\ UNCHANGED <<SchedulerVars, caller>>
         /\ cancelled \subseteq cancelled'
         /\ phase = "dead" => phase' = "dead"
<1> USE DEF SchedulerVars, history
<1>1. CASE UNCHANGED vars
  BY <1>1 DEF vars
<1>2. ASSUME NEW t \in Evaluators, EvaluatorStep(t)
      PROVE  UNCHANGED <<SchedulerVars, caller, cancelled, phase>>
  BY <1>2 DEF EvaluatorStep, WatchdogExpires, Inspect, EvaluatorStops,
              EvaluatorFinishes
<1>3. ASSUME NEW m \in Motors, SweepStep(m) \/ GuardStep(m) \/ MotionEnds(m)
      PROVE  /\ UNCHANGED <<SchedulerVars, caller, phase>>
             /\ cancelled \subseteq cancelled'
  BY <1>3 DEF SweepStep, SweepCancel, SweepStop, SweepFinish, GuardStep,
              NativeRuns, NativeStops, Release, MotionEnds
<1>4. CASE Prepare \/ ShutdownStep
  BY <1>4 DEF Prepare, ShutdownStep, Prepared, Finalize, Joined, Finalized,
              Shutdown
<1> QED  BY <1>1, <1>2, <1>3, <1>4

\* Hence every step keeps Ordered.
LEMMA OrderedNext ==
  ASSUME Ordered, [Next]_vars
  PROVE  Ordered'
<1>1. Consistent'
  BY ConsistentNext DEF Ordered
<1>2. ASSUME NEW c \in Callers, CallerStep(c)
      PROVE  Order'
  BY <1>2, CancelOrder, NumberOrder, PutOrder, CallStepOrder DEF CallerStep
<1>3. Order'
  BY <1>2, BeginOrder, ExecutorOrder, SupervisionFrame, SupervisionOrder
  DEF Next, Ordered, Consistent, WellFormed
<1> QED  BY <1>1, <1>3 DEF Ordered

(* Once a command has run, no command that its call followed runs any more, *)
(* while the monitor lives.                                                 *)
THEOREM NothingOvertakes == Spec => NoOvertaking
<1> DEFINE Step == \A i \in ran' \ ran, s \in ran :
              command[s].motor = command[i].motor /\ i \in command[s].known
                => phase = "dead"
<1>1. ASSUME Ordered, [Next]_vars
      PROVE  [Step]_vars
  <2> SUFFICES ASSUME NEW i \in ran' \ ran, NEW s \in ran,
                      command[s].motor = command[i].motor, i \in command[s].known,
                      phase # "dead"
               PROVE  FALSE
    OBVIOUS
  <2>1. PICK e \in Executors : Execute(e)
    <3>1. ASSUME NEW e \in Executors, Take(e) \/ Register(e) \/ Record(e) \/ Remove(e)
          PROVE  ran' = ran
      BY <3>1 DEF Take, Register, Record, Remove, history
    <3>2. ASSUME NEW c \in Callers, Number(c) \/ Put(c)
          PROVE  ran' = ran
      BY <3>2 DEF Number, Put, history
    <3> QED  BY <1>1, <3>1, <3>2, OtherSteps DEF ExecutorStep, SchedulerVars
  <2>2. exec[e].pc = "execute" /\ exec[e].id = i
    BY <2>1 DEF Execute
  <2> QED  BY <1>1, <2>2 DEF Ordered, Order, NotOvertaken
<1>2. Spec => []Ordered
  BY OrderedInit, OrderedNext, PTL DEF Spec
<1> QED  BY <1>1, <1>2, PTL DEF Spec, NoOvertaking

-----------------------------------------------------------------------------
(* Supervision: what a command leaves moving has its entry *)

(* Between its hardware call and its registration a worker is the only one  *)
(* that sets its motor in motion.                                           *)
RegisterOK ==
  phase # "dead" =>
    \A e \in Executors : exec[e].pc = "register" =>
      drive[command[exec[e].id].motor] \in {None, Native, exec[e].id}

(* A command drives the motor it is for. *)
DrivesOwn ==
  phase # "dead" =>
    \A m \in Motors : drive[m] \in Ids => drive[m] \in Given /\ command[drive[m]].motor = m

Motion == RegisterOK /\ DrivesOwn /\ MotionIsSupervised

(* A step that starts no command: it may stop a motor or run a native       *)
(* operation, and an entry it finishes while its motor moves is stranded.   *)
Loses ==
  /\ \A m \in Motors : drive'[m] \in {drive[m], None, Native}
  /\ \A m \in Motors :
       \/ active'[m] = active[m]
       \/ drive'[m] = active[m] => drive'[m] \in {None, Native} \cup stranded'
  /\ stranded \subseteq stranded'
  /\ phase = "dead" => phase' = "dead"

\* A step that starts no command, and records what it strands, keeps Motion.
LEMMA LosesMotion ==
  ASSUME Ordered, Motion, Loses, exec' = exec,
         Given \subseteq Given',
         \A i \in Given : command'[i].motor = command[i].motor
  PROVE  Motion'
<1>1. \A e \in Executors : exec[e].pc = "register" =>
        command'[exec[e].id].motor = command[exec[e].id].motor
        /\ command[exec[e].id].motor \in Motors
  BY DEF Ordered, Consistent, WellFormed, ExecOK, CommandsOK
<1>2. RegisterOK'
  BY <1>1 DEF RegisterOK, Motion, Loses
<1>3. MotionIsSupervised'
  BY DEF MotionIsSupervised, Motion, Loses
<1>4. DrivesOwn'
  BY DEF DrivesOwn, Motion, Loses, Ids
<1> QED  BY <1>2, <1>3, <1>4 DEF Motion

\* A stop begins no motion.
LEMMA StopMotorLoses ==
  ASSUME TypeOK, NEW m, StopMotor(m)
  PROVE  \A n \in Motors : drive'[n] \in {drive[n], None}
BY DEF TypeOK, StopMotor

\* An entry that is removed while its motor moves is recorded as stranded.
LEMMA FinishEntryLoses ==
  ASSUME TypeOK, NEW m, FinishEntry(m), drive' = drive
  PROVE  /\ stranded \subseteq stranded'
         /\ \A n \in Motors :
              \/ active'[n] = active[n]
              \/ drive'[n] = active[n] => drive'[n] \in {None, Native} \cup stranded'
<1> SUFFICES ASSUME NEW n \in Motors, active'[n] # active[n], drive[n] = active[n]
             PROVE  drive[n] \in {None, Native} \cup stranded'
  BY DEF FinishEntry
<1>1. n = m
  BY DEF TypeOK, FinishEntry
<1> QED  BY <1>1 DEF TypeOK, FinishEntry

\* The steps of callers start no command.
LEMMA CallerLoses ==
  ASSUME TypeOK, NEW c \in Callers,
         \/ CallerStep(c)
         \/ \E m \in Motors, r \in Requests, p \in Priorities : Begin(c, m, r, p)
  PROVE  /\ Loses /\ exec' = exec
         /\ Given \subseteq Given'
         /\ \A i \in Given : command'[i].motor = command[i].motor
<1> USE DEF history
<1>1. CASE Number(c)
  <2>1. sequence \in Nat /\ command \in [Ids -> CommandRecords]
    BY ConstantsAssumption DEF TypeOK, Ids
  <2>2. \A i \in Given : command'[i] = command[i]
    BY <1>1, <2>1, GivenIds DEF Number, NextId, Given
  <2>3. Given \subseteq Given'
    BY <1>1, <2>1 DEF Number, NextId, Given
  <2> QED  BY <1>1, <2>2, <2>3 DEF Number, Loses
<1>2. CASE Halt(c)
  BY <1>2, StopMotorLoses DEF Halt, Loses, Given
<1>3. CASE FinishCall(c)
  BY <1>3, FinishEntryLoses DEF FinishCall, Loses, Given
<1>4. CASE ~Number(c) /\ ~Halt(c) /\ ~FinishCall(c)
  BY <1>4 DEF CallerStep, Begin, Cancel, Put, Create, Publish, Drained, Reserve, Loses,
                   Given
<1> QED  BY <1>1, <1>2, <1>3, <1>4

\* Nor do those of supervision and shutdown.
LEMMA OthersLose ==
  ASSUME TypeOK,
         \/ \E t \in Evaluators : EvaluatorStep(t)
         \/ \E m \in Motors : SweepStep(m) \/ GuardStep(m) \/ MotionEnds(m)
         \/ Prepare \/ ShutdownStep
         \/ UNCHANGED vars
  PROVE  Loses
<1> USE DEF history
<1>0. phase = "dead" => phase' = "dead"
  BY SupervisionFrame
<1>1. ASSUME NEW t \in Evaluators, EvaluatorStops(t)
      PROVE  Loses
  BY <1>0, <1>1, StopMotorLoses DEF EvaluatorStops, Loses
<1>2. ASSUME NEW t \in Evaluators, EvaluatorFinishes(t)
      PROVE  Loses
  BY <1>0, <1>2, FinishEntryLoses DEF EvaluatorFinishes, Loses
<1>3. ASSUME NEW m \in Motors, SweepStop(m) \/ NativeStops(m)
      PROVE  Loses
  BY <1>0, <1>3, StopMotorLoses DEF SweepStop, NativeStops, Loses
<1>4. ASSUME NEW m \in Motors, SweepFinish(m)
      PROVE  Loses
  BY <1>0, <1>4, FinishEntryLoses DEF SweepFinish, Loses
<1>5. ASSUME NEW m \in Motors, NativeRuns(m) \/ MotionEnds(m)
      PROVE  Loses
  BY <1>0, <1>5 DEF NativeRuns, MotionEnds, Loses, TypeOK
<1>6. ASSUME UNCHANGED <<drive, active, stranded>>
      PROVE  Loses
  BY <1>0, <1>6 DEF Loses
<1>7. ASSUME NEW t \in Evaluators,
             (\E m \in Motors : WatchdogExpires(t, m) \/ Inspect(m))
      PROVE  UNCHANGED <<drive, active, stranded>>
  BY <1>7 DEF WatchdogExpires, Inspect
<1>8. ASSUME NEW m \in Motors, SweepCancel(m) \/ Release(m)
      PROVE  UNCHANGED <<drive, active, stranded>>
  BY <1>8 DEF SweepCancel, Release
<1>9. CASE Prepare \/ ShutdownStep
  BY <1>6, <1>9 DEF Prepare, ShutdownStep, Prepared, Finalize, Joined, Finalized, Shutdown
<1>10. CASE UNCHANGED vars
  BY <1>6, <1>10 DEF vars
<1> QED  BY <1>1, <1>2, <1>3, <1>4, <1>5, <1>6, <1>7, <1>8, <1>9, <1>10
         DEF EvaluatorStep, SweepStep, GuardStep

\* A motion begins with the command that is about to be registered.
LEMMA ExecutorMotion ==
  ASSUME Ordered, Motion, NEW e \in Executors, ExecutorStep(e)
  PROVE  Motion'
<1> USE DEF history
<1>0. TypeOK /\ (phase # "dead" => \A f \in Executors : exec[f].pc # "idle" =>
                                     command[exec[f].id].motor = f)
  BY DEF Ordered, Order, OneWorker, Consistent, WellFormed
<1>1. DrivesOwn'
  <2>1. /\ sequence' = sequence /\ command' = command /\ phase' = phase
        /\ \/ drive' = drive
           \/ /\ exec[e].id \in Given
              /\ \E d \in {None, exec[e].id} :
                   drive' = [drive EXCEPT ![command[exec[e].id].motor] = d]
    BY DEF ExecutorStep, Take, Execute, Effect, Register, Record, Remove,
           Ordered, Consistent, WellFormed, ExecOK
  <2> QED  BY <1>0, <2>1 DEF DrivesOwn, Motion, TypeOK, Given, Ids
<1>2. CASE Take(e) \/ Record(e) \/ Remove(e)
  <2>1. /\ UNCHANGED <<drive, active, stranded, command, phase>>
        /\ exec'[e].pc # "register" /\ exec[e].pc # "register"
        /\ \A f \in Executors \ {e} : exec'[f] = exec[f]
    <3>1. CASE Take(e)
      BY <1>0, <3>1 DEF Take, TypeOK
    <3>2. CASE Record(e)
      BY <1>0, <3>2, ExecStepMoves DEF Record
    <3>3. CASE Remove(e)
      BY <1>0, <3>3 DEF Remove, NoExec, TypeOK
    <3> QED  BY <1>2, <3>1, <3>2, <3>3
  <2>2. RegisterOK'
    BY <2>1 DEF RegisterOK, Motion
  <2>3. MotionIsSupervised'
    BY <2>1 DEF MotionIsSupervised, Motion
  <2> QED  BY <1>1, <2>2, <2>3 DEF Motion
<1>3. CASE Execute(e) /\ phase # "dead"
  <2>1. /\ exec'[e].pc \in {"register", "record"} /\ exec'[e].id = exec[e].id
        /\ \A f \in Executors \ {e} : exec'[f] = exec[f]
        /\ exec[e].pc = "execute" /\ command[exec[e].id].motor = e
        /\ UNCHANGED <<active, stranded, command, phase>>
    BY <1>0, <1>3, ExecuteMoves DEF Execute
  <2>2. /\ \A m \in Motors : m # e => drive'[m] = drive[m]
        /\ \/ drive' = drive /\ exec'[e].pc = "record"
           \/ drive'[e] = None /\ exec'[e].pc = "record"
           \/ drive'[e] = exec[e].id /\ exec'[e].pc = "register"
    <3>1. CASE /\ drive' = [drive EXCEPT ![e] = Effect(exec[e].id)]
               /\ exec' = IF Effect(exec[e].id) = None
                          THEN [exec EXCEPT ![e] = [exec[e] EXCEPT !.pc = "record",
                                                       !.result = "COMPLETED"]]
                          ELSE [exec EXCEPT ![e] = [exec[e] EXCEPT !.pc = "register",
                                                       !.result = "DISPATCHED"]]
      <4>1. Effect(exec[e].id) \in {None, exec[e].id} /\ exec[e] \in ExecRecords
        BY <1>0 DEF Effect, TypeOK
      <4>2. IF Effect(exec[e].id) = None THEN exec'[e].pc = "record" ELSE exec'[e].pc = "register"
        BY <1>0, <3>1, <4>1 DEF TypeOK, ExecRecords
      <4>3. drive'[e] = Effect(exec[e].id) /\ \A m \in Motors : m # e => drive'[m] = drive[m]
        BY <1>0, <2>1, <3>1 DEF TypeOK, Ordered, Consistent, WellFormed, ExecOK, CommandsOK
      <4> QED  BY <4>1, <4>2, <4>3
    <3>2. CASE /\ drive' = drive
               /\ exec' = [exec EXCEPT ![e] = [exec[e] EXCEPT !.pc = "record",
                                                 !.result = "FAILED"]]
      BY <1>0, <3>2 DEF TypeOK, ExecRecords
    <3> QED  BY <1>3, <2>1, <3>1, <3>2 DEF Execute
  <2>3. RegisterOK'
    <3> SUFFICES ASSUME NEW f \in Executors, exec'[f].pc = "register"
                 PROVE  drive'[command[exec'[f].id].motor] \in {None, Native, exec'[f].id}
      BY <2>1 DEF RegisterOK
    <3>1. CASE f = e
      BY <2>1, <2>2, <3>1
    <3>2. CASE f # e
      <4>1. exec'[f] = exec[f] /\ command[exec[f].id].motor = f
        BY <1>0, <1>3, <2>1, <3>2
      <4>2. f \in Motors
        BY <4>1 DEF Ordered, Consistent, WellFormed, ExecOK, CommandsOK
      <4> QED  BY <1>3, <2>2, <3>2, <4>1, <4>2 DEF RegisterOK, Motion
    <3> QED  BY <3>1, <3>2
  <2>4. MotionIsSupervised'
    BY <1>3, <2>1, <2>2 DEF MotionIsSupervised, Motion
  <2> QED  BY <1>1, <2>3, <2>4 DEF Motion
<1>4. CASE Register(e) /\ phase # "dead"
  <2>1. /\ exec'[e].pc = "record" /\ exec[e].pc = "register"
        /\ \A f \in Executors \ {e} : exec'[f] = exec[f]
        /\ UNCHANGED <<drive, stranded, command, phase>>
    BY <1>0, <1>4, ExecStepMoves DEF Register
  <2>2. command[exec[e].id].motor = e /\ e \in Motors
    BY <1>0, <1>4, <2>1 DEF Ordered, Consistent, WellFormed, ExecOK, CommandsOK
  <2>3. active'[e] = exec[e].id /\ \A m \in Motors : m # e => active'[m] = active[m]
    BY <1>0, <1>4, <2>2 DEF Register, NewEntry, TypeOK
  <2>4. drive[e] \in {None, Native, exec[e].id}
    BY <1>4, <2>1, <2>2 DEF RegisterOK, Motion
  <2>5. RegisterOK'
    BY <2>1 DEF RegisterOK, Motion
  <2>6. MotionIsSupervised'
    <3> SUFFICES ASSUME NEW m \in Motors
                 PROVE  \/ drive[m] \in {None, Native} \cup stranded \cup {active'[m]}
                        \/ \E f \in Executors : exec'[f].pc = "register" /\ exec'[f].id = drive[m]
      BY <2>1 DEF MotionIsSupervised
    <3>1. CASE m = e
      BY <2>3, <2>4, <3>1
    <3>2. CASE m # e /\ drive[m] # exec[e].id
      BY <1>4, <2>1, <2>3, <3>2 DEF MotionIsSupervised, Motion
    <3>3. CASE m # e /\ drive[m] = exec[e].id
      <4>1. exec[e].id \in Ids /\ drive[m] \in Ids
        BY <1>0, <2>1, <3>3, GivenIds DEF Ordered, Consistent, WellFormed, ExecOK
      <4> QED  BY <1>4, <2>2, <3>3, <4>1 DEF DrivesOwn, Motion
    <3> QED  BY <3>1, <3>2, <3>3
  <2> QED  BY <1>1, <2>5, <2>6 DEF Motion
<1>5. CASE phase = "dead"
  <2>1. phase' = "dead"
    BY <1>5 DEF ExecutorStep, Take, Execute, Register, Record, Remove
  <2> QED  BY <2>1 DEF Motion, RegisterOK, DrivesOwn, MotionIsSupervised
<1> QED  BY <1>2, <1>3, <1>4, <1>5 DEF ExecutorStep

(* While the monitor lives, what a command leaves moving has its own entry  *)
(* in _active_commands, or will have it, or lost it to an evaluator.        *)
THEOREM SupervisedMotion == Spec => []MotionIsSupervised
<1>1. Init => Motion
  BY DEF Init, Motion, RegisterOK, DrivesOwn, MotionIsSupervised, NoExec, Ids
<1>2. ASSUME Ordered, Motion, [Next]_vars
      PROVE  Motion'
  <2>0. TypeOK
    BY <1>2 DEF Ordered, Consistent, WellFormed
  <2>1. ASSUME NEW c \in Callers,
               \/ CallerStep(c)
               \/ \E m \in Motors, r \in Requests, p \in Priorities : Begin(c, m, r, p)
        PROVE  Motion'
    BY <1>2, <2>0, <2>1, CallerLoses, LosesMotion
  <2>2. ASSUME NEW e \in Executors, ExecutorStep(e)
        PROVE  Motion'
    BY <1>2, <2>2, ExecutorMotion
  <2>3. ASSUME \/ \E t \in Evaluators : EvaluatorStep(t)
               \/ \E m \in Motors : SweepStep(m) \/ GuardStep(m) \/ MotionEnds(m)
               \/ Prepare \/ ShutdownStep
               \/ UNCHANGED vars
        PROVE  Motion'
    <3>1. Loses /\ UNCHANGED SchedulerVars
      BY <2>0, <2>3, OthersLose, SupervisionFrame
    <3> QED  BY <1>2, <3>1, LosesMotion DEF SchedulerVars, Given
  <2> QED  BY <1>2, <2>1, <2>2, <2>3 DEF Next
<1>3. Motion => MotionIsSupervised
  BY DEF Motion
<1> QED  BY <1>1, <1>2, <1>3, OrderedInit, OrderedNext, PTL DEF Spec

-----------------------------------------------------------------------------
(* Shutdown: the second sweep leaves no command in motion *)

(* Callers execute commands themselves once the monitor thread is dead;     *)
(* before, every command runs on the worker of its motor, and the workers   *)
(* have ended when on_finalize sweeps.                                      *)
WorkersEnded == phase = "finalizing" => \A m \in Motors : exec[m].pc = "idle"

(* A motor that sweep has stopped is not set in motion by a command again.  *)
SweptStands ==
  phase = "finalizing" /\ faults = 0 =>
    \A m \in Motors : sweep[m] \in {"finish", "done"} => drive[m] \notin Ids

Closing == Ordered /\ WorkersEnded /\ SweptStands

\* The shutdown has not begun at first.
LEMMA ClosingInit == Init => Closing
BY OrderedInit DEF Init, Closing, WorkersEnded, SweptStands

(* Nothing is executed while on_finalize sweeps. *)
LEMMA NoneExecutes ==
  ASSUME Closing, phase = "finalizing", NEW e \in Executors
  PROVE  exec[e].pc = "idle"
<1>1. exec[e].pc # "idle" => e \in Motors
  BY DEF Closing, Ordered, Order, OneWorker, Consistent, WellFormed, ExecOK,
         CommandsOK
<1> QED  BY <1>1 DEF Closing, WorkersEnded

(* Of the executors' steps none but a caller's Take is possible then, and   *)
(* that one moves no motor.                                                 *)
LEMMA ExecutorClosing ==
  ASSUME Closing, NEW e \in Executors, ExecutorStep(e)
  PROVE  WorkersEnded' /\ SweptStands'
<1> USE DEF history
<1>1. phase' = phase
  BY DEF ExecutorStep, Take, Execute, Register, Record, Remove
<1>2. CASE phase = "finalizing"
  <2>1. exec[e].pc = "idle"
    BY <1>2, NoneExecutes
  <2>2. Take(e)
    BY <2>1 DEF ExecutorStep, Execute, Register, Record, Remove
  <2>3. e \in Callers /\ e \notin Motors
    BY <1>2, <2>2, ConstantsAssumption DEF Take, MayTake, Supervised
  <2>4. \A m \in Motors : exec'[m] = exec[m]
    BY <2>2, <2>3 DEF Take, Closing, Ordered, Consistent, WellFormed, TypeOK
  <2>5. UNCHANGED <<drive, faults, sweep>>
    BY <2>2 DEF Take
  <2> QED  BY <1>1, <2>4, <2>5 DEF Closing, WorkersEnded, SweptStands
<1>3. CASE phase # "finalizing"
  BY <1>1, <1>3 DEF WorkersEnded, SweptStands
<1> QED  BY <1>2, <1>3

(* A step that starts no command, counts faults up at most and leaves the   *)
(* sweep and the phase alone disturbs neither.                              *)
LEMMA LosesClosing ==
  ASSUME Closing, Loses, UNCHANGED <<exec, phase, sweep>>,
         faults' = 0 => faults = 0
  PROVE  WorkersEnded' /\ SweptStands'
<1>1. WorkersEnded'
  BY DEF Closing, WorkersEnded
<1>2. SweptStands'
  BY DEF Closing, SweptStands, Loses, Ids
<1> QED  BY <1>1, <1>2

\* A stop that did not raise stopped the motor.
LEMMA StopMotorFaults ==
  ASSUME TypeOK, NEW m \in Motors, StopMotor(m)
  PROVE  faults' = 0 => faults = 0 /\ drive' = [drive EXCEPT ![m] = None]
BY ConstantsAssumption DEF TypeOK, StopMotor

\* A step of the last sweep leaves its motor still.
LEMMA SweepClosing ==
  ASSUME Closing, NEW m \in Motors, SweepStep(m)
  PROVE  WorkersEnded' /\ SweptStands'
<1> USE DEF history
<1>0. TypeOK
  BY DEF Closing, Ordered, Consistent, WellFormed
<1>1. WorkersEnded'
  BY DEF SweepStep, SweepCancel, SweepStop, SweepFinish, Closing, WorkersEnded
<1>2. CASE SweepCancel(m) \/ SweepFinish(m)
  <2>1. UNCHANGED <<drive, faults, phase>>
    BY <1>2 DEF SweepCancel, SweepFinish
  <2>2. \A n \in Motors : sweep'[n] \in {"finish", "done"}
                           => sweep[n] \in {"finish", "done"}
    <3>1. sweep \in [Motors -> {"cancel", "halt", "finish", "done"}]
      BY <1>0 DEF TypeOK
    <3>2. CASE sweep' = [sweep EXCEPT ![m] = "halt"]
      BY <3>1, <3>2
    <3>3. CASE sweep' = [sweep EXCEPT ![m] = "done"] /\ sweep[m] = "finish"
      BY <3>1, <3>3
    <3> QED  BY <1>2, <3>2, <3>3 DEF SweepCancel, SweepFinish
  <2> QED  BY <1>1, <2>1, <2>2 DEF Closing, SweptStands
<1>3. CASE SweepStop(m)
  <2>1. faults' = 0 => faults = 0 /\ drive' = [drive EXCEPT ![m] = None]
    BY <1>0, <1>3, StopMotorFaults DEF SweepStop
  <2>2. phase' = phase /\ \A n \in Motors \ {m} : sweep'[n] = sweep[n]
    BY <1>0, <1>3 DEF SweepStop, TypeOK
  <2>3. faults' = 0 => /\ drive'[m] = None
                       /\ \A n \in Motors \ {m} : drive'[n] = drive[n]
    BY <1>0, <2>1 DEF TypeOK
  <2>4. None \notin Ids
    BY DEF Ids
  <2> QED  BY <1>1, <2>1, <2>2, <2>3, <2>4 DEF Closing, SweptStands
<1> QED  BY <1>1, <1>2, <1>3 DEF SweepStep

\* A step of the shutdown does what Closing says is done from then on.
LEMMA ShutdownClosing ==
  ASSUME Closing, JoinMayTimeOut = FALSE, Prepare \/ ShutdownStep
  PROVE  WorkersEnded' /\ SweptStands'
<1>1. CASE Joined
  <2>1. /\ exec' = exec /\ \A m \in Motors : exec[m].pc = "idle"
        /\ \A m \in Motors : sweep'[m] = "cancel"
    BY <1>1 DEF Joined, Shutdown, ThreadsIdle, AllMotors
  <2> QED  BY <2>1 DEF WorkersEnded, SweptStands
<1>2. CASE Prepare \/ Prepared \/ Finalize \/ Finalized
  <2>1. phase' # "finalizing"
    BY <1>2 DEF Prepare, Prepared, Finalize, Finalized, Shutdown
  <2> QED  BY <2>1 DEF WorkersEnded, SweptStands
<1> QED  BY <1>1, <1>2 DEF ShutdownStep

\* Hence every step keeps Closing.
LEMMA ClosingNext ==
  ASSUME Closing, JoinMayTimeOut = FALSE, [Next]_vars
  PROVE  Closing'
<1> USE DEF history
<1>0. TypeOK /\ Ordered'
  BY OrderedNext DEF Closing, Ordered, Consistent, WellFormed
<1>1. ASSUME NEW c \in Callers,
             \/ CallerStep(c)
             \/ \E m \in Motors, r \in Requests, p \in Priorities : Begin(c, m, r, p)
      PROVE  WorkersEnded' /\ SweptStands'
  <2>1. Loses /\ exec' = exec
    BY <1>0, <1>1, CallerLoses
  <2>2. UNCHANGED <<phase, sweep>>
    BY <1>1 DEF CallerStep, Begin, Cancel, Halt, Number, Put, Create, Publish, Drained,
                FinishCall, Reserve
  <2>3. faults' = 0 => faults = 0
    <3>1. CASE Halt(c)
      BY <1>0, <3>1, ConstantsAssumption DEF Halt, StopMotor, TypeOK
    <3>2. CASE ~Halt(c)
      BY <1>1, <3>2 DEF CallerStep, Begin, Cancel, Number, Put, Create, Publish, Drained,
                        FinishCall, Reserve
    <3> QED  BY <3>1, <3>2
  <2> QED  BY <2>1, <2>2, <2>3, LosesClosing
<1>2. ASSUME NEW t \in Evaluators, EvaluatorStep(t)
      PROVE  WorkersEnded' /\ SweptStands'
  <2>1. Loses
    BY <1>0, <1>2, OthersLose
  <2>2. UNCHANGED <<exec, phase, sweep>>
    BY <1>2 DEF EvaluatorStep, WatchdogExpires, Inspect, EvaluatorStops,
                EvaluatorFinishes
  <2>3. faults' = 0 => faults = 0
    <3>1. CASE EvaluatorStops(t)
      BY <1>0, <3>1, ConstantsAssumption DEF EvaluatorStops, StopMotor, TypeOK
    <3>2. CASE ~EvaluatorStops(t)
      BY <1>2, <3>2 DEF EvaluatorStep, WatchdogExpires, Inspect, EvaluatorFinishes
    <3> QED  BY <3>1, <3>2
  <2> QED  BY <2>1, <2>2, <2>3, LosesClosing
<1>3. ASSUME NEW m \in Motors, GuardStep(m) \/ MotionEnds(m)
      PROVE  WorkersEnded' /\ SweptStands'
  <2>1. Loses
    BY <1>0, <1>3, OthersLose
  <2>2. UNCHANGED <<exec, phase, sweep>>
    BY <1>3 DEF GuardStep, NativeRuns, NativeStops, Release, MotionEnds
  <2>3. faults' = 0 => faults = 0
    BY <1>0, <1>3, StopMotorFaults
    DEF GuardStep, NativeRuns, NativeStops, Release, MotionEnds
  <2> QED  BY <2>1, <2>2, <2>3, LosesClosing
<1>4. ASSUME UNCHANGED vars
      PROVE  WorkersEnded' /\ SweptStands'
  <2>1. UNCHANGED <<exec, phase, sweep, drive, faults>>
    BY <1>4 DEF vars
  <2> QED  BY <2>1 DEF Closing, WorkersEnded, SweptStands
<1>5. WorkersEnded' /\ SweptStands'
  <2>1. ASSUME NEW e \in Executors, ExecutorStep(e)
        PROVE  WorkersEnded' /\ SweptStands'
    BY <2>1, ExecutorClosing
  <2>2. ASSUME NEW m \in Motors, SweepStep(m)
        PROVE  WorkersEnded' /\ SweptStands'
    BY <2>2, SweepClosing
  <2>3. CASE Prepare \/ ShutdownStep
    BY <2>3, ShutdownClosing
  <2> QED  BY <1>1, <1>2, <1>3, <1>4, <2>1, <2>2, <2>3 DEF Next
<1> QED  BY <1>0, <1>5 DEF Closing

(* When on_finalize ends no command drives a motor, provided that no call   *)
(* of a driver has raised (a stop that raises stops nothing) and that every *)
(* worker ends within the 0.5 s join of its stop: otherwise a worker that   *)
(* sleeps until start_at may start its motor after the sweep.               *)
THEOREM FinalizeStops ==
  ASSUME JoinMayTimeOut = FALSE
  PROVE  Spec => StoppedAtFinalize
<1> DEFINE Step == phase # "dead" /\ phase' = "dead" /\ faults = 0
                     => \A m \in Motors : drive[m] \notin Ids
<1>1. ASSUME Closing, [Next]_vars
      PROVE  [Step]_vars
  <2> SUFFICES ASSUME phase # "dead", phase' = "dead", faults = 0
               PROVE  \A m \in Motors : drive[m] \notin Ids
    OBVIOUS
  <2> USE DEF history
  <2>1. ASSUME NEW c \in Callers,
               \/ CallerStep(c)
               \/ \E m \in Motors, r \in Requests, p \in Priorities : Begin(c, m, r, p)
        PROVE  phase' = phase
    BY <2>1 DEF CallerStep, Begin, Cancel, Halt, Number, Put, Create, Publish, Drained,
                FinishCall, Reserve
  <2>2. ASSUME NEW e \in Executors, ExecutorStep(e)
        PROVE  phase' = phase
    BY <2>2 DEF ExecutorStep, Take, Execute, Register, Record, Remove
  <2>3. ASSUME NEW t \in Evaluators, EvaluatorStep(t)
        PROVE  phase' = phase
    BY <2>3 DEF EvaluatorStep, WatchdogExpires, Inspect, EvaluatorStops,
                EvaluatorFinishes
  <2>4. ASSUME NEW m \in Motors, SweepStep(m) \/ GuardStep(m) \/ MotionEnds(m)
        PROVE  phase' = phase
    BY <2>4 DEF SweepStep, SweepCancel, SweepStop, SweepFinish, GuardStep,
                NativeRuns, NativeStops, Release, MotionEnds
  <2>5. Prepare \/ ShutdownStep
    BY <1>1, <2>1, <2>2, <2>3, <2>4 DEF Next, vars
  <2>6. Finalized
    BY <2>5 DEF ShutdownStep, Prepare, Prepared, Finalize, Joined, Shutdown
  <2>7. phase = "finalizing" /\ \A m \in Motors : sweep[m] = "done"
    BY <2>6 DEF Finalized, Shutdown, AllMotors
  <2> QED  BY <1>1, <2>7 DEF Closing, SweptStands
<1>2. Spec => []Closing
  BY ClosingInit, ClosingNext, PTL DEF Spec
<1> QED  BY <1>1, <1>2, PTL DEF Spec, StoppedAtFinalize
=============================================================================
