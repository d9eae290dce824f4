---------------------------- MODULE JoystickLink ----------------------------
(***************************************************************************)
(* EvdevJoystickAdapter.open and close under the loop of the joystick      *)
(* service: the search for the gamepad's evdev node, the passive wait, the *)
(* bluetoothctl process, and the thread that stops the service while any   *)
(* of this goes on.  The two threads share the cancel event, the process   *)
(* and the device.  What the session does is ManualDrive; which events it  *)
(* gets is JoystickEvents.                                                 *)
(***************************************************************************)

VARIABLES
  link,        \* where the joystick thread is
  closing,     \* the stopping thread: where it is, and whether it holds the process
  stopAsked,   \* _stop_event of the service
  cancelled,   \* _connection_cancel_event
  process,     \* bluetoothctl: "none", "running", "exited"
  registered,  \* whether _connection_process is set
  device,      \* whether self.device is set
  node,        \* whether evdev exposes the gamepad with its traction axes
  clock,       \* of the attempt: before its passive deadline, after it, after both
  fault,       \* the "bluetooth" fault of the status LED
  started,     \* whether start has run: before it prepare_start connects
  opened       \* whether _prepared_device_name is set

link_vars == <<link, closing, stopAsked, cancelled, process, registered, device, node, clock, fault,
              started, opened>>

Searching == {"look", "clear", "closeOld", "find", "passive", "spawn", "register", "send",
              "watch", "unregister", "final", "activate"}
Places    == Searching \cup {"loop", "prepare", "session", "failed", "cleanup", "free",
                             "close", "retry", "prepared", "never", "ended"}

TypeOK ==
  /\ link \in [pc : Places, next : {"none", "final", "activate", "failed"}]
  /\ closing \in [pc : {"idle", "cancel", "peek", "terminate", "close", "forget", "join", "done"},
                   holds : BOOLEAN]
  /\ stopAsked \in BOOLEAN /\ cancelled \in BOOLEAN /\ registered \in BOOLEAN
  /\ device \in BOOLEAN /\ node \in BOOLEAN /\ fault \in BOOLEAN
  /\ process \in {"none", "running", "exited"}
  /\ clock \in {"early", "late", "over"}
  /\ started \in BOOLEAN /\ opened \in BOOLEAN

Init ==
  /\ link = [pc |-> "loop", next |-> "none"]
  /\ closing = [pc |-> "idle", holds |-> FALSE]
  /\ stopAsked = FALSE /\ cancelled = FALSE
  /\ process = "none" /\ registered = FALSE
  /\ device = FALSE /\ node = FALSE
  /\ clock = "early"
  /\ fault = FALSE
  /\ started = FALSE /\ opened = FALSE

At(pc)   == link.pc = pc
Goes(pc) == link' = [link EXCEPT !.pc = pc]

-----------------------------------------------------------------------------
(* The joystick thread, and before it the main thread: prepare_start makes *)
(* the same attempts as _run, and stands at "prepared" when it returned.   *)

\* Where a stop leads that the loop of _run, or of prepare_start, has seen.
Leaves == IF started THEN "ended" ELSE "prepared"

\* The first pass of _run takes the connection that prepare_start has opened.
Loop ==
  /\ At("loop")
  /\ Goes(IF stopAsked THEN Leaves ELSE IF started /\ opened THEN "prepare" ELSE "look")
  /\ opened' = (opened /\ stopAsked)
  /\ UNCHANGED <<closing, stopAsked, cancelled, process, registered, device, node, clock,
                 fault, started>>

Look ==
  /\ At("look")
  /\ Goes("clear")
  /\ fault' = (fault \/ ~node)
  /\ UNCHANGED <<closing, stopAsked, cancelled, process, registered, device, node, clock,
                 started, opened>>

\* open begins by clearing the event: a close that came before is forgotten.
Clear ==
  /\ At("clear")
  /\ Goes("closeOld")
  /\ cancelled' = FALSE
  /\ UNCHANGED <<closing, stopAsked, process, registered, device, node, clock, fault,
                 started, opened>>

CloseOld ==
  /\ At("closeOld")
  /\ Goes("find")
  /\ device' = FALSE
  /\ UNCHANGED <<closing, stopAsked, cancelled, process, registered, node, clock, fault,
                 started, opened>>

\* Without automatic connection or an address the attempt fails here.
Find ==
  /\ At("find")
  /\ \/ Goes(IF node THEN "activate" ELSE "passive")
     \/ ~node /\ Goes("failed")
  /\ clock' = "early"
  /\ UNCHANGED <<closing, stopAsked, cancelled, process, registered, device, node, fault,
                 started, opened>>

\* The waiting loop looks at the event, then for the node, then at the deadline.
WaitForNode(pc, expired, otherwise) ==
  /\ At(pc)
  /\ \/ cancelled /\ Goes("failed")
     \/ ~cancelled /\ node /\ Goes("activate")
     \/ ~cancelled /\ ~node /\ expired /\ Goes(otherwise)
  /\ UNCHANGED <<closing, stopAsked, cancelled, process, registered, device, node, clock,
                 fault, started, opened>>

NoDeadline  == FALSE                     \* mutant: the attempt waits for an event only
AttemptOver == clock = "over"

Passive == WaitForNode("passive", clock # "early", "spawn")
Final   == WaitForNode("final", AttemptOver, "failed")

Spawn ==
  /\ At("spawn")
  /\ \/ process' = "running" /\ Goes("register")
     \/ UNCHANGED process /\ Goes("failed")
  /\ UNCHANGED <<closing, stopAsked, cancelled, registered, device, node, clock, fault,
                 started, opened>>

Register ==
  /\ At("register")
  /\ registered' = TRUE
  /\ Goes("send")
  /\ UNCHANGED <<closing, stopAsked, cancelled, process, device, node, clock, fault, started,
                 opened>>

\* The process may be gone before it has read the command.
Send ==
  /\ At("send")
  /\ \/ Goes("watch") /\ UNCHANGED process
     \/ process' = "none" /\ link' = [pc |-> "unregister", next |-> "failed"]
  /\ UNCHANGED <<closing, stopAsked, cancelled, registered, device, node, clock, fault,
                 started, opened>>

\* The wait ends by the event, by the node, by the exit of bluetoothctl (whose
\* exit code then counts, unless the node is there) or by the deadline.  After
\* the exit and the deadline the node is looked for once more.
Watch ==
  /\ At("watch")
  /\ \/ /\ cancelled
        /\ process' = "none"
        /\ link' = [pc |-> "unregister", next |-> "failed"]
     \/ /\ ~cancelled /\ node
        /\ process' = "none"
        /\ link' = [pc |-> "unregister", next |-> "activate"]
     \/ /\ ~cancelled /\ ~node /\ process # "running"
        /\ process' = "none"
        /\ \E next \in {"final", "failed", "activate"} :
             link' = [pc |-> "unregister", next |-> next]
     \/ /\ ~cancelled /\ ~node /\ process = "running" /\ AttemptOver
        /\ process' = "none"
        /\ \E next \in {"failed", "activate"} : link' = [pc |-> "unregister", next |-> next]
  /\ UNCHANGED <<closing, stopAsked, cancelled, registered, device, node, clock, fault,
                 started, opened>>

Unregister ==
  /\ At("unregister")
  /\ registered' = FALSE
  /\ link' = [pc |-> link.next, next |-> "none"]
  /\ UNCHANGED <<closing, stopAsked, cancelled, process, device, node, clock, fault, started,
                 opened>>

\* Nothing looks at the events between the node and the open device.
Activate ==
  /\ At("activate")
  /\ device' = TRUE
  /\ Goes("prepare")
  /\ UNCHANGED <<closing, stopAsked, cancelled, process, registered, node, clock, fault,
                 started, opened>>

\* prepare_start acquires the motors; _run waits for the heading and the neutral
\* axes besides.  Either may fail, because of the link or not.
Prepare ==
  /\ At("prepare")
  /\ \/ /\ started /\ device /\ node /\ ~stopAsked
        /\ Goes("session")
        /\ fault' = FALSE
        /\ UNCHANGED opened
     \/ ~started /\ Goes("prepared") /\ opened' = TRUE /\ UNCHANGED fault
     \/ Goes("failed") /\ UNCHANGED <<fault, opened>>
  /\ UNCHANGED <<closing, stopAsked, cancelled, process, registered, device, node, clock,
                 started>>

\* start clears _stop_event: a stop that came before it is forgotten, and only
\* what it closed stays closed.
Start ==
  /\ At("prepared")
  /\ Goes("loop")
  /\ stopAsked' = FALSE
  /\ started' = TRUE
  /\ UNCHANGED <<closing, cancelled, process, registered, device, node, clock, fault, opened>>

\* A stop that the application notices before start leaves the thread unborn.
NeverStarts ==
  /\ At("prepared") /\ stopAsked
  /\ Goes("never")
  /\ UNCHANGED <<closing, stopAsked, cancelled, process, registered, device, node, clock,
                 fault, started, opened>>

\* The session ends by itself when the application stops, and with an error
\* when the link is lost or the device was closed under it.
Session ==
  /\ At("session")
  /\ \/ stopAsked /\ Goes("cleanup")
     \/ (~node \/ ~device) /\ Goes("failed")
  /\ UNCHANGED <<closing, stopAsked, cancelled, process, registered, device, node, clock,
                 fault, started, opened>>

\* A failure is shown unless the application is being stopped; prepare_start
\* then returns without closing anything.
Failed ==
  /\ At("failed")
  /\ fault' = (fault \/ ~stopAsked)
  /\ Goes(IF stopAsked /\ ~started THEN "prepared" ELSE "cleanup")
  /\ UNCHANGED <<closing, stopAsked, cancelled, process, registered, device, node, clock,
                 started, opened>>

\* _cleanup_connection closes the adapter as the stopping thread does.
Cleanup ==
  /\ At("cleanup")
  /\ cancelled' = TRUE
  /\ Goes("close")
  /\ UNCHANGED <<closing, stopAsked, process, registered, device, node, clock, fault,
                 started, opened>>

LeavesDevice == device                   \* mutant: only the events are cleared
NoDevice     == FALSE

CloseDevice ==
  /\ At("close")
  /\ device' = NoDevice
  /\ Goes("retry")
  /\ UNCHANGED <<closing, stopAsked, cancelled, process, registered, node, clock, fault,
                 started, opened>>

Retry ==
  /\ At("retry")
  /\ Goes(IF stopAsked THEN Leaves ELSE "loop")
  /\ UNCHANGED <<closing, stopAsked, cancelled, process, registered, device, node, clock,
                 fault, started, opened>>

Joystick ==
  \/ Loop \/ Look \/ Clear \/ CloseOld \/ Find \/ Passive \/ Spawn \/ Register \/ Send \/ Watch
  \/ Unregister \/ Final \/ Activate \/ Prepare \/ Session \/ Failed \/ Cleanup \/ CloseDevice
  \/ Retry \/ Start \/ NeverStarts

-----------------------------------------------------------------------------
(* The thread that stops the service: stop, and close within it.           *)

Then(pc) == closing' = [closing EXCEPT !.pc = pc]

StopBegins ==
  /\ closing.pc = "idle"
  /\ stopAsked' = TRUE
  /\ Then("cancel")
  /\ UNCHANGED <<link, cancelled, process, registered, device, node, clock, fault, started,
                 opened>>

Cancel ==
  /\ closing.pc = "cancel"
  /\ cancelled' = TRUE
  /\ Then("peek")
  /\ UNCHANGED <<link, stopAsked, process, registered, device, node, clock, fault, started,
                 opened>>

PeekProcess ==
  /\ closing.pc = "peek"
  /\ closing' = [pc |-> "terminate", holds |-> registered]
  /\ UNCHANGED <<link, stopAsked, cancelled, process, registered, device, node, clock, fault,
                 started, opened>>

\* There is one process at a time: the one held is running or was collected.
TerminateHeld ==
  /\ closing.pc = "terminate"
  /\ process' = IF closing.holds /\ process = "running" THEN "exited" ELSE process
  /\ Then("close")
  /\ UNCHANGED <<link, stopAsked, cancelled, registered, device, node, clock, fault, started,
                 opened>>

CloseForStop ==
  /\ closing.pc = "close"
  /\ device' = FALSE
  /\ Then("forget")
  /\ UNCHANGED <<link, stopAsked, cancelled, process, registered, node, clock, fault,
                 started, opened>>

\* The motors were stopped and released before this (ManualDrive).
ForgetPrepared ==
  /\ closing.pc = "forget"
  /\ opened' = FALSE
  /\ Then("join")
  /\ UNCHANGED <<link, stopAsked, cancelled, process, registered, device, node, clock, fault,
                 started>>

\* The join gives up after two seconds; before start there is no thread to join.
Join ==
  /\ closing.pc = "join"
  /\ Then("done")
  /\ UNCHANGED <<link, stopAsked, cancelled, process, registered, device, node, clock, fault,
                 started, opened>>

Stopper == Cancel \/ PeekProcess \/ TerminateHeld \/ CloseForStop \/ ForgetPrepared \/ Join

-----------------------------------------------------------------------------
(* The gamepad, BlueZ and time.                                            *)

NodeChanges ==
  /\ node' = ~node
  /\ UNCHANGED <<link, closing, stopAsked, cancelled, process, registered, device, clock,
                 fault, started, opened>>

ProcessExits ==
  /\ process = "running"
  /\ process' = "exited"
  /\ UNCHANGED <<link, closing, stopAsked, cancelled, registered, device, node, clock, fault,
                 started, opened>>

TimePasses ==
  /\ link.pc \in Searching /\ clock # "over"
  /\ clock' = IF clock = "early" THEN "late" ELSE "over"
  /\ UNCHANGED <<link, closing, stopAsked, cancelled, process, registered, device, node,
                 fault, started, opened>>

-----------------------------------------------------------------------------
Next == Joystick \/ StopBegins \/ Stopper \/ NodeChanges \/ ProcessExits \/ TimePasses

Spec == Init /\ [][Next]_link_vars

\* Both threads keep running, and a wait with a deadline gets there.
Fairness == WF_link_vars(Joystick) /\ WF_link_vars(Stopper) /\ WF_link_vars(TimePasses)

FairSpec == Spec /\ Fairness

-----------------------------------------------------------------------------
(* Properties.                                                             *)

\* Between two attempts no bluetoothctl runs and no device is open.  When the
\* joystick thread has ended, wherever the stop found it, no bluetoothctl runs,
\* and a device is open only if the stopping thread is about to close it.  When
\* prepare_start has returned no bluetoothctl runs either; a device that it opened
\* after the stop had closed the adapter is closed by nobody.
NothingLeftBehind ==
  /\ link.pc \in {"retry", "prepared", "never", "ended"} => process # "running"
  /\ At("retry") => ~device
  /\ At("ended") /\ device => closing.pc \in {"cancel", "peek", "terminate", "close"}

\* A stop of the started service ends its thread: a lost cancellation costs the
\* time of an attempt, and no more.  (A stop that start forgets does not.)
StopEnds == (stopAsked /\ started) ~> At("ended")
=============================================================================
