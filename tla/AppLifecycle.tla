---------------------------- MODULE AppLifecycle ----------------------------
(***************************************************************************)
(* The life of the process: RoverApplication.start and stop, the claims of *)
(* ThreadingApplicationConcurrency, the REST server's own start and stop,  *)
(* the monitor threads (MonitorBase) and main.py with its signal handler.  *)
(*                                                                         *)
(* stop runs in the main thread, which comes to it when start is over, or  *)
(* in the one asynchronous thread that a claimed request creates.  Python  *)
(* runs signal handlers in the main thread, between two of its own steps:  *)
(* while `handler' is set the main thread does nothing else, and where     *)
(* that can matter (the lifecycle lock) its step is split in two.          *)
(***************************************************************************)
EXTENDS Integers, Sequences

CONSTANTS
  Monitors,    \* the registered monitors, in order
  Critical,    \* those whose failure stops the application
  Components,  \* the runtime components, in assembly order
  Early,       \* those with start_before_startup_checks
  MaxSignals   \* bound: SIGINT and SIGTERM received

MonitorSet   == {Monitors[k] : k \in DOMAIN Monitors}
ComponentSet == {Components[k] : k \in DOMAIN Components}

ASSUME ConstantsAssumption ==
  /\ Monitors \in Seq(MonitorSet)
  /\ Components \in Seq(ComponentSet)
  /\ Critical \subseteq MonitorSet
  /\ Early \subseteq ComponentSet
  /\ MaxSignals \in Nat

Threads == {"main", "async"}   \* threads that may run stop

VARIABLES
  main,       \* what the main thread does, and the next item of its loop
  handler,    \* whether it is inside the signal handler
  lock,       \* the thread holding _lifecycle_lock
  stopping,   \* thread -> where it is in stop, and the next item of its loop
  daemon,     \* whether the asynchronous thread dies with the main thread
  monitor,    \* monitor -> the state of its thread
  ready,      \* monitors whose initialization succeeded
  halted,     \* monitors whose stop event is set
  running,    \* components started and not stopped since
  server,     \* whether http_server is set
  quit,       \* the stop event of the REST server
  resources,  \* whether the managed resources are "open" or "closed"
  claims,     \* the flags of the concurrency port that are set
  signals     \* signals received

vars == <<main, handler, lock, stopping, daemon, monitor, ready, halted,
          running, server, quit, resources, claims, signals>>

(* claims contains "request" for _lifecycle_request_claimed, "restart" for  *)
(* _restart_requested, "stop" for _stop_requested and "completed" for the   *)
(* event _stop_completed.                                                   *)
Claims == {"request", "restart", "stop", "completed"}

Init ==
  /\ main      = [pc |-> "check", next |-> 1]
  /\ handler   = FALSE
  /\ lock      = "free"
  /\ stopping  = [t \in Threads |-> [pc |-> "none", next |-> 1]]
  /\ daemon    = FALSE
  /\ monitor   = [m \in MonitorSet |-> "new"]
  /\ ready     = {}
  /\ halted    = {}
  /\ running   = {}
  /\ server    = FALSE
  /\ quit      = FALSE
  /\ resources = "open"
  /\ claims    = {}
  /\ signals   = 0

-----------------------------------------------------------------------------
(* ThreadingApplicationConcurrency *)

(* The interpreter waits for a thread that is no daemon; execv does not. *)
Over ==
  \/ main.pc = "replaced"
  \/ main.pc = "ended" /\ (daemon \/ stopping["async"].pc \in {"none", "done"})

ClaimingNothing == claims
ClaimingStop == claims \cup {"stop"}

MayClaim == claims \cap {"request", "stop"} = {}

(* A claimed request creates the thread that runs stop. *)
Request(extra, isDaemon) ==
  IF MayClaim
  THEN /\ claims' = claims \cup {"request"} \cup extra
       /\ stopping' = [stopping EXCEPT !["async"].pc = "claim"]
       /\ daemon' = isDaemon
  ELSE UNCHANGED <<claims, stopping, daemon>>

(* Steps of the main thread that take the lifecycle lock: it first has it. *)
LockedPcs == {"check", "again", "blame", "served", "leave"}

MainLocks ==
  /\ ~handler /\ lock = "free"
  /\ main.pc \in LockedPcs
  /\ lock' = "main"
  /\ UNCHANGED <<main, handler, stopping, daemon, monitor, ready, halted,
                 running, server, quit, resources, claims, signals>>

MainAt(pc) ==
  /\ ~handler
  /\ main.pc = pc
  /\ IF pc \in LockedPcs THEN lock = "main" /\ lock' = "free" ELSE UNCHANGED lock

Goes(pc) == main' = [pc |-> pc, next |-> 1]

-----------------------------------------------------------------------------
(* RoverApplication.start *)

(* With early components they come before the preparation and the monitors. *)
CheckStop(pc) ==
  /\ MainAt(pc)
  /\ Goes(IF "stop" \in claims THEN "leave"
          ELSE IF pc = "check" /\ Early # {} THEN "early" ELSE "monitors")
  /\ UNCHANGED <<handler, stopping, daemon, monitor, ready, halted, running,
                 server, quit, resources, claims, signals>>

StartedAt(pc) == IF pc = "early" THEN Early ELSE ComponentSet \ Early

StartComponent(pc, after) ==
  LET k == main.next IN
  /\ MainAt(pc)
  /\ IF k \in DOMAIN Components
     THEN /\ running' = running \cup ({Components[k]} \cap StartedAt(pc))
          /\ main' = [main EXCEPT !.next = k + 1]
     ELSE Goes(after) /\ UNCHANGED running
  /\ UNCHANGED <<handler, stopping, daemon, monitor, ready, halted, server,
                 quit, resources, claims, signals>>

Prepare ==
  /\ MainAt("prepare")
  /\ Goes(IF Early # {} THEN "again" ELSE "late")
  /\ UNCHANGED <<handler, stopping, daemon, monitor, ready, halted, running,
                 server, quit, resources, claims, signals>>

StartMonitor ==
  LET k == main.next IN
  /\ MainAt("monitors")
  /\ IF k \in DOMAIN Monitors
     THEN /\ monitor' = [monitor EXCEPT ![Monitors[k]] = "starting"]
          /\ main' = [main EXCEPT !.next = k + 1]
     ELSE Goes("initialized") /\ UNCHANGED monitor
  /\ UNCHANGED <<handler, stopping, daemon, ready, halted, running, server,
                 quit, resources, claims, signals>>

(* A critical monitor that is not initialized, because it failed or because *)
(* five seconds passed, aborts the startup.                                 *)
AwaitMonitor ==
  LET k == main.next IN
  /\ MainAt("initialized")
  /\ IF k \in DOMAIN Monitors
     THEN IF Monitors[k] \in Critical \ ready
          THEN Goes("blame")
          ELSE main' = [main EXCEPT !.next = k + 1]
     ELSE Goes(IF Early # {} THEN "late" ELSE "prepare")
  /\ UNCHANGED <<handler, stopping, daemon, monitor, ready, halted, running,
                 server, quit, resources, claims, signals>>

(* _handle_monitor_failure, then ApplicationStartupError. *)
Blame ==
  /\ MainAt("blame")
  /\ Request({}, TRUE)
  /\ Goes("leave")
  /\ UNCHANGED <<handler, monitor, ready, halted, running, server, quit,
                 resources, signals>>

(* A component, or the port of the server, makes start raise. *)
StartRaises ==
  /\ \E pc \in {"early", "prepare", "late", "serve"} : MainAt(pc)
  /\ Goes("leave")
  /\ UNCHANGED <<handler, stopping, daemon, monitor, ready, halted, running,
                 server, quit, resources, claims, signals>>

(* RestApiServer.start: it clears the stop event and publishes the server. *)
Serve ==
  /\ MainAt("serve")
  /\ server' = TRUE
  /\ quit' = FALSE
  /\ Goes("serving")
  /\ UNCHANGED <<handler, stopping, daemon, monitor, ready, halted, running,
                 resources, claims, signals>>

(* The loop ends when the stop event is set, or by an error. *)
ServerEnds(error) ==
  /\ MainAt("serving")
  /\ quit \/ error
  /\ server' = FALSE
  /\ Goes("served")
  /\ UNCHANGED <<handler, stopping, daemon, monitor, ready, halted, running,
                 quit, resources, claims, signals>>

AfterServingNoWait == IF "restart" \in claims THEN "replaced" ELSE "leave"
AfterServing == IF "restart" \in claims THEN "await" ELSE "leave"

Served ==
  /\ MainAt("served")
  /\ Goes(AfterServing)
  /\ UNCHANGED <<handler, stopping, daemon, monitor, ready, halted, running,
                 server, quit, resources, claims, signals>>

(* wait_for_stop_completed(20) *)
Waits(pc, completed, timedOut) ==
  /\ MainAt(pc)
  /\ \/ "completed" \in claims /\ Goes(completed)
     \/ "completed" \notin claims /\ Goes(timedOut)
  /\ UNCHANGED <<handler, stopping, daemon, monitor, ready, halted, running,
                 server, quit, resources, claims, signals>>

(* main.py, in its finally: stop, or the wait for the thread that stops. *)
Leave ==
  /\ MainAt("leave")
  /\ IF "stop" \in claims
     THEN Goes("join") /\ UNCHANGED <<claims, stopping>>
     ELSE /\ claims' = ClaimingStop
          /\ stopping' = [stopping EXCEPT !["main"].pc = "server"]
          /\ Goes("stop")
  /\ UNCHANGED <<handler, daemon, monitor, ready, halted, running, server,
                 quit, resources, signals>>

Stopped ==
  /\ MainAt("stop")
  /\ stopping["main"].pc = "done"
  /\ Goes("ended")
  /\ UNCHANGED <<handler, stopping, daemon, monitor, ready, halted, running,
                 server, quit, resources, claims, signals>>

-----------------------------------------------------------------------------
(* RoverApplication.stop; prepare_for_shutdown of the motors is in          *)
(* MotorCommands.                                                           *)

StopAt(t, pc) ==
  /\ ~Over
  /\ t = "main" => ~handler
  /\ stopping[t].pc = pc

Then(t, pc) == stopping' = [stopping EXCEPT ![t] = [pc |-> pc, next |-> 1]]

ClaimStop ==
  /\ StopAt("async", "claim")
  /\ lock = "free"
  /\ IF "stop" \in claims
     THEN Then("async", "done") /\ UNCHANGED claims
     ELSE Then("async", "server") /\ claims' = ClaimingStop
  /\ UNCHANGED <<main, handler, lock, daemon, monitor, ready, halted, running,
                 server, quit, resources, signals>>

(* RestApiServer.stop: nothing, if the server has not been published. *)
QuitsKept == quit
QuitsServer == quit \/ server

StopServer(t) ==
  /\ StopAt(t, "server")
  /\ quit' = QuitsServer
  /\ stopping' = [stopping EXCEPT ![t] =
                    [pc |-> "components", next |-> Len(Components)]]
  /\ UNCHANGED <<main, handler, lock, daemon, monitor, ready, halted, running,
                 server, resources, claims, signals>>

(* In reverse order; a component that was not started is stopped as well. *)
StopComponent(t) ==
  LET k == stopping[t].next IN
  /\ StopAt(t, "components")
  /\ IF k >= 1
     THEN /\ running' = running \ {Components[k]}
          /\ stopping' = [stopping EXCEPT ![t].next = k - 1]
     ELSE Then(t, "monitors") /\ UNCHANGED running
  /\ UNCHANGED <<main, handler, lock, daemon, monitor, ready, halted, server,
                 quit, resources, claims, signals>>

ToldDaemons == MonitorSet \ Critical
Told == MonitorSet

StopMonitors(t) ==
  /\ StopAt(t, "monitors")
  /\ halted' = Told
  /\ Then(t, "resources")
  /\ UNCHANGED <<main, handler, lock, daemon, monitor, ready, running, server,
                 quit, resources, claims, signals>>

CloseResources(t) ==
  /\ StopAt(t, "resources")
  /\ resources' = "closed"
  /\ Then(t, "join")
  /\ UNCHANGED <<main, handler, lock, daemon, monitor, ready, halted, running,
                 server, quit, claims, signals>>

(* join: until the monitor is dead or five seconds passed; it raises for a  *)
(* thread that was never started, and the finally completes the stop.       *)
JoinMonitor(t) ==
  LET k == stopping[t].next IN
  /\ StopAt(t, "join")
  /\ IF k \in DOMAIN Monitors /\ monitor[Monitors[k]] # "new"
     THEN stopping' = [stopping EXCEPT ![t].next = k + 1]
     ELSE Then(t, "complete")
  /\ UNCHANGED <<main, handler, lock, daemon, monitor, ready, halted, running,
                 server, quit, resources, claims, signals>>

CompleteStop(t) ==
  /\ StopAt(t, "complete")
  /\ claims' = claims \cup {"completed"}
  /\ Then(t, "done")
  /\ UNCHANGED <<main, handler, lock, daemon, monitor, ready, halted, running,
                 server, quit, resources, signals>>

-----------------------------------------------------------------------------
(* MonitorBase.run *)

MonitorSteps(m, from, to) ==
  /\ ~Over
  /\ monitor[m] \in from
  /\ monitor' = [monitor EXCEPT ![m] = to]
  /\ UNCHANGED <<main, handler, lock, halted, running, server, quit, resources,
                 signals>>

Initializes(m) ==
  /\ MonitorSteps(m, {"starting"}, "running")
  /\ ready' = ready \cup {m}
  /\ UNCHANGED <<stopping, daemon, claims>>

(* on_initialize or on_cycle raises: the failure is published first ... *)
Fails(m) ==
  /\ MonitorSteps(m, {"starting", "running"}, "failing")
  /\ UNCHANGED <<ready, stopping, daemon, claims>>

(* ... then the application is told, then the monitor is finalized. *)
Notifies(m) ==
  /\ lock = "free"
  /\ MonitorSteps(m, {"failing"}, "dead")
  /\ IF m \in Critical THEN Request({}, TRUE) ELSE UNCHANGED <<stopping, daemon, claims>>
  /\ UNCHANGED ready

SeesStop(m) ==
  /\ m \in halted
  /\ MonitorSteps(m, {"running"}, "dead")
  /\ UNCHANGED <<ready, stopping, daemon, claims>>

-----------------------------------------------------------------------------
(* Requests from outside *)

(* POST shutdown or restart, handled in the loop of the main thread. *)
RestRequests(extra) ==
  /\ MainAt("serving")
  /\ lock = "free"
  /\ MayClaim
  /\ Request(extra, FALSE)
  /\ UNCHANGED <<main, handler, monitor, ready, halted, running, server, quit,
                 resources, signals>>

Signal ==
  /\ ~Over /\ ~handler
  /\ signals < MaxSignals
  /\ signals' = signals + 1
  /\ handler' = TRUE
  /\ UNCHANGED <<main, lock, stopping, daemon, monitor, ready, halted,
                 running, server, quit, resources, claims>>

(* request_shutdown takes the lifecycle lock, which is not reentrant. *)
Handles ==
  /\ ~Over /\ handler
  /\ lock = "free"
  /\ Request({}, FALSE)
  /\ handler' = FALSE
  /\ UNCHANGED <<main, lock, monitor, ready, halted, running, server, quit,
                 resources, signals>>

-----------------------------------------------------------------------------
StartStep ==
  \/ \E pc \in {"check", "again"} : CheckStop(pc)
  \/ StartComponent("early", "prepare") \/ StartComponent("late", "serve")
  \/ Prepare \/ StartMonitor \/ AwaitMonitor \/ Blame \/ Serve

LeaveStep ==
  \/ ServerEnds(FALSE) \/ Served \/ Leave \/ Stopped
  \/ Waits("await", "replaced", "leave") \/ Waits("join", "ended", "ended")

MainStep == MainLocks \/ StartStep \/ LeaveStep

StopStep(t) ==
  \/ t = "async" /\ ClaimStop
  \/ StopServer(t) \/ StopComponent(t) \/ StopMonitors(t)
  \/ CloseResources(t) \/ JoinMonitor(t) \/ CompleteStop(t)

MonitorStep(m) == Initializes(m) \/ Fails(m) \/ Notifies(m) \/ SeesStop(m)

Next ==
  \/ MainStep \/ StartRaises \/ ServerEnds(TRUE)
  \/ \E t \in Threads : StopStep(t)
  \/ \E m \in MonitorSet : MonitorStep(m)
  \/ \E extra \in {{}, {"restart"}} : RestRequests(extra)
  \/ Signal \/ Handles

Spec == Init /\ [][Next]_vars

(* The main thread and the thread that stops are scheduled, and a failing   *)
(* monitor tells.  Failures, requests and signals are not fair.             *)
FairSpec ==
  /\ Spec
  /\ WF_vars(MainStep) /\ WF_vars(Handles)
  /\ \A t \in Threads : WF_vars(StopStep(t))
  /\ \A m \in MonitorSet : WF_vars(Notifies(m))

-----------------------------------------------------------------------------
(* Properties *)

(* The types of the variables, and which flags imply which. *)
TypeOK ==
  /\ main \in [pc : {"check", "early", "prepare", "again", "monitors",
                    "initialized", "blame", "late", "serve", "serving",
                    "served", "await", "leave", "stop", "join", "ended",
                    "replaced"},
              next : 1..(Len(Monitors) + Len(Components) + 1)]
  /\ handler \in BOOLEAN /\ lock \in {"free", "main"}
  /\ stopping \in [Threads -> [pc : {"none", "claim", "server", "components",
                                    "monitors", "resources", "join",
                                    "complete", "done"},
                              next : 0..(Len(Monitors) + Len(Components) + 1)]]
  /\ daemon \in BOOLEAN
  /\ monitor \in [MonitorSet -> {"new", "starting", "running", "failing", "dead"}]
  /\ ready \subseteq MonitorSet /\ halted \subseteq MonitorSet
  /\ running \subseteq ComponentSet
  /\ server \in BOOLEAN /\ quit \in BOOLEAN
  /\ resources \in {"open", "closed"}
  /\ claims \subseteq Claims
  /\ "restart" \in claims => "request" \in claims
  /\ "completed" \in claims => "stop" \in claims
  /\ signals \in 0..MaxSignals

(* However the process ends (a failed startup, an error of the server, a    *)
(* request, a signal, a restart), all of stop was done before: no path      *)
(* leaves with monitors not told or resources open.  Only the daemon thread *)
(* of a critical failure may be cut off, if main waited 20 seconds for it.  *)
EndsStopped ==
  (Over /\ ~daemon) =>
    "completed" \in claims /\ resources = "closed" /\ halted = MonitorSet

(* A restart replaces the process only when nothing of the old one runs:    *)
(* components stopped, server closed, resources closed, monitors told.      *)
RestartIsClean ==
  main.pc = "replaced" =>
    running = {} /\ ~server /\ resources = "closed" /\ halted = MonitorSet

(* A request that is claimed while the server runs ends the process, unless *)
(* a signal blocks the main thread on its own lock.                         *)
Blocked == handler /\ lock = "main"

ServingShutsDown ==
  (main.pc = "serving" /\ "request" \in claims /\ "stop" \notin claims)
    ~> (Over \/ Blocked)

(* README.md: repeated read failures make the gyro monitor fail critically  *)
(* and trigger the normal controlled application shutdown.                  *)
RequestEndsProcess == "request" \in claims ~> Over
=============================================================================
