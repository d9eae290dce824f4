----------------------------- MODULE MCThreads -----------------------------
(***************************************************************************)
(* What the threads of the process bring to an end, for TLC: the threads   *)
(* that start and stop the application, and in other behaviours the        *)
(* threads of the command path while the application is up.                *)
(***************************************************************************)
EXTENDS MCAppLifecycle

VARIABLES
  scenario,    \* "lifecycle" or "commands", for the whole behaviour
  sequence, command, queue, tracked, cancelled, registry, active, drive, caller, exec,
  evaluator, reserved, phase, sweep, faults, ran, stranded

command_vars == <<sequence, command, queue, tracked, cancelled, registry, active, drive,
                  caller, exec, evaluator, reserved, phase, sweep, faults, ran, stranded>>

Commands == INSTANCE MotorCommands WITH
  Motors <- {"left"}, Callers <- {"rest", "navigation"}, Rest <- "rest",
  Requests <- {"RESET", "RUN_FOREVER"}, Priorities <- {5}, MaxCommands <- 2,
  MaxFaults <- 1, MayShutDown <- FALSE, JoinMayTimeOut <- FALSE

ThreadsInit ==
  /\ scenario \in {"lifecycle", "commands"}
  /\ Init /\ Commands!Init

ThreadsNext ==
  /\ UNCHANGED scenario
  /\ \/ scenario = "lifecycle" /\ Next /\ UNCHANGED command_vars
     \/ scenario = "commands" /\ Commands!Next /\ UNCHANGED vars

\* The fairness of the two modules.
ThreadsSpec ==
  /\ ThreadsInit /\ [][ThreadsNext]_<<scenario, vars, command_vars>>
  /\ WF_vars(scenario = "lifecycle" /\ MainStep)
  /\ WF_vars(scenario = "lifecycle" /\ Handles)
  /\ \A t \in Threads : WF_vars(scenario = "lifecycle" /\ StopStep(t))
  /\ \A m \in MonitorSet : WF_vars(scenario = "lifecycle" /\ Notifies(m))
  /\ \A c \in {"rest", "navigation"} :
       WF_command_vars(scenario = "commands" /\ Commands!CallerStep(c))
  /\ \A e \in Commands!Executors :
       WF_command_vars(scenario = "commands" /\ Commands!ExecutorStep(e))
  /\ \A t \in Commands!Evaluators :
       WF_command_vars(scenario = "commands" /\ Commands!EvaluatorStep(t))

\* MotorCommands: a queued command is executed or discarded.
QueuedCommandSettles == Commands!QueuedCommandSettles

\* MotorCommands: the watchdog ends every continuous entry.
ContinuousEntryClears == Commands!ContinuousEntryClears
=============================================================================
