--------------------------- MODULE MotorCommands ---------------------------
(***************************************************************************)
(* The command path of MotorMonitor (infrastructure/monitoring and         *)
(* infrastructure/motor): the calling threads that enqueue commands, one   *)
(* worker thread per motor, the safety watchdog, the monitor cycle, and    *)
(* the shutdown that stops them.                                           *)
(*                                                                         *)
(* Callers are the REST thread (the HTTP server is single threaded) and    *)
(* the drive navigation thread.  Each step below is one critical section   *)
(* or one hardware call of the code; everything between two of them may    *)
(* interleave with the other threads.                                      *)
(*                                                                         *)
(* Time is abstracted: a deadline may pass at any moment after it is set.  *)
(* The snapshots published to MotorStateStore are not represented: no      *)
(* thread of this path takes a decision from them.                         *)
(***************************************************************************)
EXTENDS Integers, FiniteSets

CONSTANTS
  Motors,          \* configured motor codes
  Callers,         \* threads that call the monitor
  Rest,            \* the caller that serves REST requests
  Requests,        \* the operations the callers may ask for
  Priorities,      \* the priorities they may give
  MaxCommands,     \* bound: commands ever created
  MaxFaults,       \* bound: hardware calls that raise
  MayShutDown,     \* whether the application may be shut down
  JoinMayTimeOut   \* whether a worker may outlive the 0.5 s join of its stop

CommandActions == {"STOP", "RESET", "RUN_TIMED", "RUN_FOREVER"}
RestRequests   == {"CANCEL", "GUARD", "STOP_ALL"}

ASSUME ConstantsAssumption ==
  /\ IsFiniteSet(Callers)
  /\ Motors \cap Callers = {}
  /\ Rest \in Callers
  /\ Requests \subseteq CommandActions \cup RestRequests
  /\ Priorities \subseteq Nat
  /\ MaxCommands \in Nat
  /\ MaxFaults \in Nat
  /\ MayShutDown \in BOOLEAN
  /\ JoinMayTimeOut \in BOOLEAN

Ids        == 1..MaxCommands
None       == 0          \* no command
Native     == -1         \* a guarded native operation drives the motor
Executors  == Motors \cup Callers
Evaluators == {"watchdog", "monitor"}

VARIABLES
  sequence,   \* scheduler._sequence: the last id given
  command,    \* id -> the command dictionary
  queue,      \* motor -> ids in its PriorityQueue
  tracked,    \* motor -> ids in scheduler._tracked
  cancelled,  \* ids whose "cancelled" flag is set
  registry,   \* id -> status in MotorCommandRegistry, "NONE" before create
  active,     \* motor -> id in _active_commands
  drive,      \* motor -> what drives it: a command, a native operation, nothing
  caller,     \* caller -> the call it is in
  exec,       \* executor -> the command it is executing
  evaluator,  \* evaluator -> the motor whose entry it decided to finish
  reserved,   \* motors in GuardedOperationRegistry._active_motor_codes
  phase,      \* lifecycle of the monitor
  sweep,      \* motor -> step of stop_all_motors
  faults,     \* hardware faults so far
  ran,        \* history: ids executed on the hardware
  stranded    \* history: ids in motion when their active entry was removed

vars == <<sequence, command, queue, tracked, cancelled, registry, active,
          drive, caller, exec, evaluator, reserved, phase, sweep, faults,
          ran, stranded>>

history == <<ran, stranded>>

-----------------------------------------------------------------------------
NoCommand == [motor |-> "none", action |-> "NONE", priority |-> 0, known |-> {}]
NoCall    == [pc |-> "idle", motor |-> "none", request |-> "NONE",
              priority |-> 0, id |-> None, known |-> {}]
NoExec    == [pc |-> "idle", id |-> None, result |-> "NONE"]
NoVerdict == [pc |-> "idle", motor |-> "none"]

Init ==
  /\ sequence  = 0
  /\ command   = [i \in Ids |-> NoCommand]
  /\ queue     = [m \in Motors |-> {}]
  /\ tracked   = [m \in Motors |-> {}]
  /\ cancelled = {}
  /\ registry  = [i \in Ids |-> "NONE"]
  /\ active    = [m \in Motors |-> None]
  /\ drive     = [m \in Motors |-> None]
  /\ caller    = [c \in Callers |-> NoCall]
  /\ exec      = [e \in Executors |-> NoExec]
  /\ evaluator = [t \in Evaluators |-> NoVerdict]
  /\ reserved  = {}
  /\ phase     = "up"
  /\ sweep     = [m \in Motors |-> "done"]
  /\ faults    = 0
  /\ ran       = {}
  /\ stranded  = {}

-----------------------------------------------------------------------------
(* The monitor, the watchdog and the workers run until on_finalize. *)
Supervised == phase \in {"up", "preparing", "prepared"}

(* Hardware *)

Continuous(i) == i \in Ids /\ command[i].action = "RUN_FOREVER"
Bounded(i)    == i \in Ids /\ command[i].action = "RUN_TIMED"

(* execute_stop: stops the motor, or the driver raises, the repository      *)
(* drops it and reports the error; no caller of the stop reads the report.  *)
StopMotor(m) ==
  \/ /\ drive' = [drive EXCEPT ![m] = None]
     /\ UNCHANGED faults
  \/ /\ faults < MaxFaults
     /\ faults' = faults + 1
     /\ UNCHANGED drive

(* A timed or positioned motion ends by itself. *)
MotionEnds(m) ==
  /\ Bounded(drive[m])
  /\ drive' = [drive EXCEPT ![m] = None]
  /\ UNCHANGED <<sequence, command, queue, tracked, cancelled, registry,
                 active, caller, exec, evaluator, reserved, phase, sweep,
                 faults, history>>

(* _finish_active_command pops the entry of the motor, whichever it is now. *)
FinishEntry(m) ==
  /\ active' = [active EXCEPT ![m] = None]
  /\ stranded' = stranded \cup (Ids \cap {active[m]} \cap {drive[m]})

-----------------------------------------------------------------------------
(* Calling threads: _enqueue_motor_command, cancel_motor_commands,          *)
(* MotorGuardedOperationManager.begin and the stop_all_motors of a REST     *)
(* request share the preemption steps.  The last is one call for each motor.*)

(* Commands whose enqueuing call has returned. *)
Settled == {i \in 1..sequence : \A c \in Callers : caller[c].id # i}

AboutToNumber == {c \in Callers : /\ caller[c].pc \in {"cancel", "halt", "number"}
                                  /\ caller[c].request \in CommandActions}

(* The call starts.  A reserved motor refuses a command or a reservation,   *)
(* but not a cancel or a stop; every command of these kinds preempts.       *)
Begin(c, m, r, p) ==
  /\ caller[c].pc = "idle"
  /\ r \in RestRequests => c = Rest
  /\ r \in CommandActions \cup {"GUARD"} => m \notin reserved
  /\ r \in CommandActions => sequence + Cardinality(AboutToNumber) < MaxCommands
  /\ caller' = [caller EXCEPT ![c] =
       [pc |-> "cancel", motor |-> m, request |-> r, priority |-> p,
        id |-> None, known |-> Settled]]
  /\ UNCHANGED <<sequence, command, queue, tracked, cancelled, registry,
                 active, drive, exec, evaluator, reserved, phase, sweep,
                 faults, history>>

(* scheduler.cancel marks everything still tracked for the motor. *)
DoomedNone(m) == {}                 \* mutant: preemption leaves the queue alone
Doomed(m) == tracked[m]

Cancel(c) ==
  /\ caller[c].pc = "cancel"
  /\ cancelled' = cancelled \cup Doomed(caller[c].motor)
  /\ caller' = [caller EXCEPT ![c].pc =
                  IF caller[c].request = "STOP" THEN "number" ELSE "halt"]
  /\ UNCHANGED <<sequence, command, queue, tracked, registry, active, drive,
                 exec, evaluator, reserved, phase, sweep, faults, history>>

(* Every preemption but STOP's also stops the running motion. *)
Halt(c) ==
  /\ caller[c].pc = "halt"
  /\ StopMotor(caller[c].motor)
  /\ \/ /\ caller[c].request \in CommandActions
        /\ caller' = [caller EXCEPT ![c].pc = "number"]
     \/ /\ caller[c].request = "STOP_ALL"
        /\ caller' = [caller EXCEPT ![c].pc = "finish"]
     \/ /\ caller[c].request = "GUARD"
        /\ caller' = [caller EXCEPT ![c].pc = "reserve"]
     \/ /\ caller[c].request = "CANCEL"
        /\ caller' = [caller EXCEPT ![c] = NoCall]
  /\ UNCHANGED <<sequence, command, queue, tracked, cancelled, registry,
                 active, exec, evaluator, reserved, phase, sweep, ran,
                 stranded>>

(* The command gets the next id; nobody sees it before it is queued.        *)
NextIdNotAdvanced == sequence       \* mutant: the counter is read before its step
NextId == sequence + 1

Number(c) ==
  /\ caller[c].pc = "number"
  /\ sequence' = NextId
  /\ command' = [command EXCEPT ![NextId] =
       [motor |-> caller[c].motor, action |-> caller[c].request,
        priority |-> caller[c].priority, known |-> caller[c].known]]
  /\ caller' = [caller EXCEPT ![c].pc = "put", ![c].id = NextId]
  /\ UNCHANGED <<queue, tracked, cancelled, registry, active, drive, exec,
                 evaluator, reserved, phase, sweep, faults, history>>

(* enqueue: tracked and queued under the scheduler's lock.                  *)
Put(c) ==
  /\ caller[c].pc = "put"
  /\ queue'   = [queue EXCEPT ![caller[c].motor] = @ \cup {caller[c].id}]
  /\ tracked' = [tracked EXCEPT ![caller[c].motor] = @ \cup {caller[c].id}]
  /\ caller'  = [caller EXCEPT ![c].pc = "create"]
  /\ UNCHANGED <<sequence, command, cancelled, registry, active, drive, exec,
                 evaluator, reserved, phase, sweep, faults, history>>

(* The record is created after the command is already in the queue. *)
Create(c) ==
  /\ caller[c].pc = "create"
  /\ registry' = [registry EXCEPT ![caller[c].id] = "QUEUED"]
  /\ caller' = [caller EXCEPT ![c].pc = "publish"]
  /\ UNCHANGED <<sequence, command, queue, tracked, cancelled, active, drive,
                 exec, evaluator, reserved, phase, sweep, faults, history>>

(* The call returns; once the monitor thread is dead it first drains the    *)
(* queue on the calling thread.                                             *)
Publish(c) ==
  /\ caller[c].pc = "publish"
  /\ caller' = [caller EXCEPT ![c] =
                  IF phase = "dead" THEN [@ EXCEPT !.pc = "inline"]
                                    ELSE NoCall]
  /\ UNCHANGED <<sequence, command, queue, tracked, cancelled, registry,
                 active, drive, exec, evaluator, reserved, phase, sweep,
                 faults, history>>

(* stop_all_motors has stopped the motor.                                   *)
FinishCall(c) ==
  /\ caller[c].pc = "finish"
  /\ FinishEntry(caller[c].motor)
  /\ caller' = [caller EXCEPT ![c] = NoCall]
  /\ UNCHANGED <<sequence, command, queue, tracked, cancelled, registry, drive,
                 exec, evaluator, reserved, phase, sweep, faults, ran>>

Drained(c) ==
  /\ caller[c].pc = "inline"
  /\ exec[c].pc = "idle"
  /\ queue[caller[c].motor] = {}
  /\ caller' = [caller EXCEPT ![c] = NoCall]
  /\ UNCHANGED <<sequence, command, queue, tracked, cancelled, registry,
                 active, drive, exec, evaluator, reserved, phase, sweep,
                 faults, history>>

-----------------------------------------------------------------------------
(* Guarded native operations on one motor: a release gives the motor back   *)
(* whatever it does.                                                        *)

Reserve(c) ==
  /\ caller[c].pc = "reserve"
  /\ reserved' = reserved \cup {caller[c].motor}
  /\ caller' = [caller EXCEPT ![c] = NoCall]
  /\ UNCHANGED <<sequence, command, queue, tracked, cancelled, registry,
                 active, drive, exec, evaluator, phase, sweep, faults, history>>

NativeRuns(m) ==
  /\ m \in reserved
  /\ drive' = [drive EXCEPT ![m] = Native]
  /\ UNCHANGED <<sequence, command, queue, tracked, cancelled, registry,
                 active, caller, exec, evaluator, reserved, phase, sweep,
                 faults, history>>

NativeStops(m) ==
  /\ m \in reserved
  /\ StopMotor(m)
  /\ UNCHANGED <<sequence, command, queue, tracked, cancelled, registry,
                 active, caller, exec, evaluator, reserved, phase, sweep,
                 history>>

Release(m) ==
  /\ m \in reserved
  /\ reserved' = reserved \ {m}
  /\ UNCHANGED <<sequence, command, queue, tracked, cancelled, registry,
                 active, drive, caller, exec, evaluator, phase, sweep, faults,
                 history>>

-----------------------------------------------------------------------------
(* Command execution, by the worker of the motor or inline by a caller *)

ServedMotor(e) == IF e \in Motors THEN e ELSE caller[e].motor

(* A worker takes commands until scheduler.stop sets its event, the last    *)
(* one perhaps just after: the monitor waits for that one in any case.      *)
MayTake(e) ==
  \/ e \in Motors /\ Supervised
  \/ e \in Callers /\ caller[e].pc = "inline"

(* Order of the PriorityQueue's (priority, id) tuples. *)
BeforeNoTie(i, j) ==                \* mutant: the id is left out of the tuple
  command[i].priority < command[j].priority

Before(i, j) ==
  \/ command[i].priority < command[j].priority
  \/ command[i].priority = command[j].priority /\ i < j

Tracked(m, i)   == tracked[m]       \* mutant: remove is forgotten
Untracked(m, i) == tracked[m] \ {i}

Take(e) ==
  LET m == ServedMotor(e) IN
  /\ MayTake(e)
  /\ exec[e].pc = "idle"
  /\ \E i \in queue[m] :
       /\ \A j \in queue[m] \ {i} : Before(i, j)
       /\ queue' = [queue EXCEPT ![m] = @ \ {i}]
       /\ IF i \in cancelled
          THEN /\ tracked' = [tracked EXCEPT ![m] = Untracked(m, i)]
               /\ UNCHANGED exec
          ELSE /\ exec' = [exec EXCEPT ![e] =
                             [pc |-> "execute", id |-> i, result |-> "NONE"]]
               /\ UNCHANGED tracked
  /\ UNCHANGED <<sequence, command, cancelled, registry, active, drive, caller,
                 evaluator, reserved, phase, sweep, faults, history>>

(* What a command of action a leaves the motor doing. *)
Effect(i) == IF command[i].action \in {"STOP", "RESET"} THEN None ELSE i

(* The hardware call, possibly long after the command was taken (start_at). *)
Execute(e) ==
  LET i == exec[e].id
      m == command[i].motor
  IN /\ exec[e].pc = "execute"
     /\ \/ /\ drive' = [drive EXCEPT ![m] = Effect(i)]
           /\ exec' = IF Effect(i) = None
                      THEN [exec EXCEPT ![e] = [@ EXCEPT !.pc = "record",
                                                  !.result = "COMPLETED"]]
                      ELSE [exec EXCEPT ![e] = [@ EXCEPT !.pc = "register",
                                                  !.result = "DISPATCHED"]]
           /\ ran' = ran \cup {i}
           /\ UNCHANGED faults
        \/ /\ faults < MaxFaults
           /\ faults' = faults + 1
           /\ exec' = [exec EXCEPT ![e] = [@ EXCEPT !.pc = "record",
                                             !.result = "FAILED"]]
           /\ UNCHANGED <<drive, ran>>
     /\ UNCHANGED <<sequence, command, queue, tracked, cancelled, registry,
                    active, caller, evaluator, reserved, phase, sweep,
                    stranded>>

(* _register_active_command replaces whatever entry the motor has. *)
KeptEntry(m, i) ==                  \* mutant: setdefault instead of assignment
  IF active[m] = None THEN i ELSE active[m]

NewEntry(m, i) == i

Register(e) ==
  LET i == exec[e].id IN
  /\ exec[e].pc = "register"
  /\ active' = [active EXCEPT ![command[i].motor] =
                                NewEntry(command[i].motor, i)]
  /\ exec' = [exec EXCEPT ![e].pc = "record"]
  /\ UNCHANGED <<sequence, command, queue, tracked, cancelled, registry, drive,
                 caller, evaluator, reserved, phase, sweep, faults, history>>

(* MotorCommandRegistry.update ignores an id it does not hold yet. *)
Record(e) ==
  LET i == exec[e].id IN
  /\ exec[e].pc = "record"
  /\ registry' = IF registry[i] = "NONE" THEN registry
                 ELSE [registry EXCEPT ![i] = exec[e].result]
  /\ exec' = [exec EXCEPT ![e].pc = "remove"]
  /\ UNCHANGED <<sequence, command, queue, tracked, cancelled, active, drive,
                 caller, evaluator, reserved, phase, sweep, faults, history>>

Remove(e) ==
  LET i == exec[e].id IN
  /\ exec[e].pc = "remove"
  /\ tracked' = [tracked EXCEPT ![command[i].motor] =
                    Untracked(command[i].motor, i)]
  /\ exec' = [exec EXCEPT ![e] = NoExec]
  /\ UNCHANGED <<sequence, command, queue, cancelled, registry, active, drive,
                 caller, evaluator, reserved, phase, sweep, faults, history>>

-----------------------------------------------------------------------------
(* Supervision: the watchdog thread and the monitor cycle *)

(* The entries the watchdog looks at. *)
WatchedMoving(m) ==                 \* mutant: entries of stopped motors are skipped
  Continuous(active[m]) /\ drive[m] = active[m]

Watched(m) == Continuous(active[m])

(* _evaluate_watchdog_deadlines copies an expired continuous entry; both    *)
(* threads run it.                                                          *)
WatchdogExpires(t, m) ==
  /\ Supervised
  /\ evaluator[t].pc = "idle"
  /\ Watched(m)
  /\ evaluator' = [evaluator EXCEPT ![t] =
                     [pc |-> "halt", motor |-> m]]
  /\ UNCHANGED <<sequence, command, queue, tracked, cancelled, registry,
                 active, drive, caller, exec, reserved, phase, sweep, faults,
                 history>>

(* _evaluate_active_commands: a stall, or the deadline of a bounded         *)
(* command, leads to a stop; a bounded command that no longer runs is done. *)
Inspect(m) ==
  /\ Supervised
  /\ evaluator["monitor"].pc = "idle"
  /\ active[m] # None
  /\ \E next \in {"halt", "finish"} :
       /\ next = "halt" => drive[m] # None \/ Bounded(active[m])
       /\ next = "finish" => Bounded(active[m]) /\ drive[m] = None
       /\ evaluator' = [evaluator EXCEPT !["monitor"] =
                          [pc |-> next, motor |-> m]]
  /\ UNCHANGED <<sequence, command, queue, tracked, cancelled, registry,
                 active, drive, caller, exec, reserved, phase, sweep, faults,
                 history>>

EvaluatorStops(t) ==
  /\ evaluator[t].pc = "halt"
  /\ StopMotor(evaluator[t].motor)
  /\ evaluator' = [evaluator EXCEPT ![t].pc = "finish"]
  /\ UNCHANGED <<sequence, command, queue, tracked, cancelled, registry,
                 active, caller, exec, reserved, phase, sweep, history>>

EvaluatorFinishes(t) ==
  /\ evaluator[t].pc = "finish"
  /\ FinishEntry(evaluator[t].motor)
  /\ evaluator' = [evaluator EXCEPT ![t] = NoVerdict]
  /\ UNCHANGED <<sequence, command, queue, tracked, cancelled, registry, drive,
                 caller, exec, reserved, phase, sweep, faults, ran>>

-----------------------------------------------------------------------------
(* Shutdown: prepare_for_shutdown, then on_finalize on the monitor thread *)

Shutdown(from, to, guard, next) ==
  /\ phase = from
  /\ guard
  /\ phase' = to
  /\ sweep' = next
  /\ UNCHANGED <<sequence, command, queue, tracked, cancelled, registry,
                 active, drive, caller, exec, evaluator, reserved, faults,
                 history>>

AllMotors(step) == [m \in Motors |-> step]

Prepare == MayShutDown /\ Shutdown("up", "preparing", TRUE, AllMotors("cancel"))

Prepared == Shutdown("preparing", "prepared", sweep = AllMotors("done"), sweep)

(* The monitor loop ends between two cycles, or by an exception in one. *)
Finalize ==
  \/ Shutdown("prepared", "joining", evaluator["monitor"].pc = "idle", sweep)
  \/ /\ MayShutDown
     /\ Shutdown("up", "joining", evaluator["monitor"].pc = "idle", sweep)

ThreadsIgnored == TRUE              \* mutant: the workers are not joined
ThreadsIdle == /\ \A m \in Motors : exec[m].pc = "idle"
               /\ evaluator["watchdog"].pc = "idle"

Joined == Shutdown("joining", "finalizing", ThreadsIdle \/ JoinMayTimeOut,
                   AllMotors("cancel"))

Finalized == Shutdown("finalizing", "dead", sweep = AllMotors("done"), sweep)

(* stop_all_motors on one motor: cancel the queue, stop, finish the entry. *)
SweepCancel(m) ==
  /\ sweep[m] = "cancel"
  /\ cancelled' = cancelled \cup Doomed(m)
  /\ sweep' = [sweep EXCEPT ![m] = "halt"]
  /\ UNCHANGED <<sequence, command, queue, tracked, registry, active, drive,
                 caller, exec, evaluator, reserved, phase, faults, history>>

SweepStop(m) ==
  /\ sweep[m] = "halt"
  /\ StopMotor(m)
  /\ sweep' = [sweep EXCEPT ![m] = "finish"]
  /\ UNCHANGED <<sequence, command, queue, tracked, cancelled, registry,
                 active, caller, exec, evaluator, reserved, phase, history>>

SweepFinish(m) ==
  /\ sweep[m] = "finish"
  /\ FinishEntry(m)
  /\ sweep' = [sweep EXCEPT ![m] = "done"]
  /\ UNCHANGED <<sequence, command, queue, tracked, cancelled, registry, drive,
                 caller, exec, evaluator, reserved, phase, faults, ran>>

-----------------------------------------------------------------------------
CallerStep(c) == \/ Cancel(c) \/ Halt(c) \/ Number(c) \/ Put(c) \/ Create(c)
                 \/ Publish(c) \/ Drained(c) \/ FinishCall(c) \/ Reserve(c)

ExecutorStep(e) == Take(e) \/ Execute(e) \/ Register(e) \/ Record(e) \/ Remove(e)

EvaluatorStep(t) ==
  \/ \E m \in Motors : WatchdogExpires(t, m)
  \/ t = "monitor" /\ \E m \in Motors : Inspect(m)
  \/ EvaluatorStops(t)
  \/ EvaluatorFinishes(t)

SweepStep(m) == SweepCancel(m) \/ SweepStop(m) \/ SweepFinish(m)

ShutdownStep == Prepared \/ Finalize \/ Joined \/ Finalized

GuardStep(m) == NativeRuns(m) \/ NativeStops(m) \/ Release(m)

Next ==
  \/ \E c \in Callers, m \in Motors, r \in Requests, p \in Priorities :
       Begin(c, m, r, p)
  \/ \E c \in Callers : CallerStep(c)
  \/ \E e \in Executors : ExecutorStep(e)
  \/ \E t \in Evaluators : EvaluatorStep(t)
  \/ \E m \in Motors : SweepStep(m)
  \/ \E m \in Motors : GuardStep(m)
  \/ \E m \in Motors : MotionEnds(m)
  \/ Prepare
  \/ ShutdownStep

Spec == Init /\ [][Next]_vars

(* Threads that are running keep running; what callers ask for, native      *)
(* operations and the request to shut down are not fair.                    *)
Fairness ==
  /\ \A c \in Callers : WF_vars(CallerStep(c))
  /\ \A e \in Executors : WF_vars(ExecutorStep(e))
  /\ \A t \in Evaluators : WF_vars(EvaluatorStep(t))

FairSpec == Spec /\ Fairness

-----------------------------------------------------------------------------
(* Properties *)

CallRecords == [pc : {"idle", "cancel", "halt", "number", "put", "create",
                      "publish", "inline", "finish", "reserve"},
                motor : Motors \cup {"none"}, request : Requests \cup {"NONE"},
                priority : Priorities \cup {0}, id : Ids \cup {None},
                known : SUBSET Ids]

CommandRecords == [motor : Motors \cup {"none"},
                   action : CommandActions \cup {"NONE"},
                   priority : Priorities \cup {0}, known : SUBSET Ids]

ExecRecords == [pc : {"idle", "execute", "register", "record", "remove"},
                id : Ids \cup {None},
                result : {"NONE", "COMPLETED", "DISPATCHED", "FAILED"}]

VerdictRecords == [pc : {"idle", "halt", "finish"},
                   motor : Motors \cup {"none"}]

(* The variables keep their types; in particular no id exceeds those given. *)
TypeOK ==
  /\ sequence \in Ids \cup {None}
  /\ command \in [Ids -> CommandRecords]
  /\ queue \in [Motors -> SUBSET Ids]
  /\ tracked \in [Motors -> SUBSET Ids]
  /\ cancelled \in SUBSET Ids
  /\ registry \in [Ids -> {"NONE", "QUEUED", "COMPLETED", "DISPATCHED",
                           "FAILED"}]
  /\ active \in [Motors -> Ids \cup {None}]
  /\ drive \in [Motors -> Ids \cup {None, Native}]
  /\ caller \in [Callers -> CallRecords]
  /\ exec \in [Executors -> ExecRecords]
  /\ evaluator \in [Evaluators -> VerdictRecords]
  /\ reserved \in SUBSET Motors
  /\ phase \in {"up", "preparing", "prepared", "joining", "finalizing", "dead"}
  /\ sweep \in [Motors -> {"cancel", "halt", "finish", "done"}]
  /\ faults \in 0..MaxFaults
  /\ ran \in SUBSET Ids
  /\ stranded \in SUBSET Ids

Executing(m) == {i \in Ids : /\ command[i].motor = m
                            /\ \E e \in Executors : exec[e].pc # "idle"
                                                    /\ exec[e].id = i}

(* _tracked and the queues describe the same commands: a command is tracked *)
(* exactly while it waits in the queue of its motor or is being executed,   *)
(* by one thread only, and it has not run yet while it waits.  (enqueue,    *)
(* get, _execute_and_release and remove, on two threads once a caller       *)
(* drains the queue inline.)                                                *)
SchedulerConsistent ==
  /\ \A m \in Motors :
       /\ tracked[m] = queue[m] \cup Executing(m)
       /\ queue[m] \cap (Executing(m) \cup ran) = {}
       /\ \A i \in queue[m] : command[i].motor = m /\ i <= sequence
  /\ \A e, f \in Executors :
       exec[e].pc # "idle" /\ exec[f].pc # "idle" /\ exec[e].id = exec[f].id
         => e = f
  /\ \A e \in Executors : exec[e].pc = "execute" => exec[e].id \notin ran

(* A command is never overtaken by one it follows: once a command has run,  *)
(* no command of the motor whose call had returned before its own call      *)
(* began runs any more.  A stop is thus final for what was asked before it, *)
(* whatever the priorities (preemption of the queue, one worker a motor).   *)
NoOvertaking ==
  [][\A i \in ran' \ ran, s \in ran :
       command[s].motor = command[i].motor /\ i \in command[s].known
         => phase = "dead"]_vars

(* Whatever a command leaves moving is supervised through its own entry of  *)
(* _active_commands, from the registration on, unless that entry was        *)
(* finished while the motor moved.                                          *)
MotionIsSupervised ==
  phase # "dead" =>
    \A m \in Motors :
      \/ drive[m] \in {None, Native} \cup stranded \cup {active[m]}
      \/ \E e \in Executors : exec[e].pc = "register" /\ exec[e].id = drive[m]

(* When on_finalize ends, no command drives a motor: what the workers were  *)
(* still executing during the shutdown was stopped by the second sweep.     *)
StoppedAtFinalize ==
  [][phase # "dead" /\ phase' = "dead" /\ faults = 0
       => \A m \in Motors : drive[m] \notin Ids]_vars

(* A queued command is executed or discarded, while the workers run. *)
QueuedCommandSettles ==
  \A m \in Motors, i \in Ids :
    i \in queue[m] ~> i \notin tracked[m] \/ ~Supervised

(* The watchdog ends every continuous entry, while it runs. *)
ContinuousEntryClears ==
  \A m \in Motors, i \in Ids :
    active[m] = i /\ Continuous(i) ~> active[m] # i \/ ~Supervised

(* A continuous motion ends when its watchdog expires. *)
ContinuousMotionStops ==
  \A m \in Motors, i \in Ids :
    drive[m] = i /\ Continuous(i) ~> drive[m] # i

=============================================================================
