--------------------------- MODULE MCMotorSafety ---------------------------
(* Three instances of MotorCommands for TLC, side by side in one run: in    *)
(* one the callers preempt each other, in the others they start motions     *)
(* while the application shuts down: a continuous one beside guarded        *)
(* operations, or timed ones that REST stops all at once.                   *)
EXTENDS MCMotorCommands

VARIABLE scenario    \* which instance runs, for the whole behaviour

SafetyRequests   == PreemptingRequests \cup GuardedForever \cup StoppedTimed
SafetyPriorities == OnePriority \cup TwoPriorities

Preempting == INSTANCE MotorCommands WITH
  Requests <- PreemptingRequests, Priorities <- TwoPriorities, MayShutDown <- FALSE
ClosingForever == INSTANCE MotorCommands WITH
  Requests <- GuardedForever, Priorities <- OnePriority, MayShutDown <- TRUE, MaxCommands <- 1
ClosingTimed == INSTANCE MotorCommands WITH
  Requests <- StoppedTimed, Priorities <- OnePriority, MayShutDown <- TRUE

EitherInit == scenario \in {"preemption", "closing forever", "closing timed"} /\ Init

EitherNext ==
  /\ UNCHANGED scenario
  /\ \/ scenario = "preemption" /\ Preempting!Next
     \/ scenario = "closing forever" /\ ClosingForever!Next
     \/ scenario = "closing timed" /\ ClosingTimed!Next

EitherSpec == EitherInit /\ [][EitherNext]_<<scenario, vars>>
=============================================================================
