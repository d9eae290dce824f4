--------------------------- MODULE MotorSnapshots ---------------------------
(***************************************************************************)
(* What MotorStateStore shows of one motor.  The threads that enqueue, the *)
(* worker, the monitor and the watchdog each take a copy of the snapshot,  *)
(* work, and store the copy back as a whole: the lock of the store covers  *)
(* the read and the write, and nothing in between.  The monitor refreshes  *)
(* the position only while no command is pending.  stop_all_motors and the *)
(* begin of a guarded operation cancel what is queued and leave it shown   *)
(* as pending.                                                             *)
(*                                                                         *)
(* Of a snapshot there are the pending command, the active one and the     *)
(* position; motions are bounded ones, which end by themselves.            *)
(***************************************************************************)
EXTENDS Integers, Sequences

CONSTANTS
  Callers,      \* threads that enqueue, cancel, stop or reserve
  Finishers,    \* threads that finish active commands: "monitor", "watchdog"
  MaxCommands,  \* bound: commands ever created
  MaxTravel     \* bound: positions the motor goes through

Ids      == 1..MaxCommands
None     == 0
\* The begin of a guarded operation, and stop_all_motors.
Abandoning == {"GUARD", "STOP_ALL"}
Requests   == {"MOVE", "STOP", "CANCEL", "BATCH", "REFUSED"} \cup Abandoning
Monitor  == "monitor"

VARIABLES
  shown,      \* the snapshot in the store
  motor,      \* the physical motor: its position, whether it runs
  sequence,   \* ids given so far
  kind,       \* id -> what the command asks for
  queue,      \* ids in the queue of the motor that are not cancelled
  active,     \* id in _active_commands
  caller,     \* caller -> the call it is in, with the copy it holds
  worker,     \* the execution the worker is in
  refresh,    \* the refresh the monitor is in, with the reading it took
  finisher,   \* finisher -> where it is, with its copy
  over,       \* history: commands executed or cancelled
  abandoned,  \* history: those cancelled by a request that leaves the pending command as it is
  stale,      \* history: the copies that are older than the last write
  revived     \* history: what an old copy put back that was over by then

snap_vars == <<shown, motor, sequence, kind, queue, active, caller, worker, refresh,
               finisher, over, abandoned, stale, revived>>

Snapshots == [pending : Ids \cup {None}, running : Ids \cup {None}, position : 0..MaxTravel]

\* load_initial_motors
Blank == [pending |-> None, running |-> None, position |-> 0]

Idle    == [pc |-> "idle", request |-> "NONE", id |-> None, copy |-> Blank, note |-> Blank]
Resting == [pc |-> "idle", id |-> None, copy |-> Blank]
Still   == [pc |-> "idle", reading |-> 0, copy |-> Blank]
Quiet   == [pc |-> "idle", copy |-> Blank]

\* A caller holds two copies: _preempt_motor_commands takes its own.
Copy(t) == <<t, "copy">>
Note(c) == <<c, "note">>
Copies  == {Copy(t) : t \in Callers \cup Finishers \cup {"worker", "refresh"}}
           \cup {Note(c) : c \in Callers}

TypeOK ==
  /\ shown \in Snapshots
  /\ motor \in [position : 0..MaxTravel, runs : BOOLEAN]
  /\ sequence \in 0..MaxCommands
  /\ kind \in [Ids -> {"NONE", "MOVE", "STOP"}]
  /\ queue \in Seq(Ids)
  /\ active \in Ids \cup {None}
  /\ caller \in [Callers ->
       [pc : {"idle", "preempt", "mark", "marked", "halt", "enqueue", "publish", "republish",
              "reread", "cleared", "refuse", "pop", "popped", "write"},
        request : Requests \cup {"NONE"}, id : Ids \cup {None}, copy : Snapshots,
        note : Snapshots]]
  /\ worker \in [pc : {"idle", "taken", "run", "register", "show", "publish"},
                 id : Ids \cup {None}, copy : Snapshots]
  /\ refresh \in [pc : {"idle", "read", "publish"}, reading : 0..MaxTravel, copy : Snapshots]
  /\ finisher \in [Finishers -> [pc : {"idle", "halt", "pop", "popped", "write"}, copy : Snapshots]]
  /\ over \subseteq Ids /\ abandoned \subseteq over
  /\ stale \subseteq Copies
  /\ revived \subseteq {"pending", "running"}

Init ==
  /\ shown = Blank
  /\ motor = [position |-> 0, runs |-> FALSE]
  /\ sequence = 0
  /\ kind = [i \in Ids |-> "NONE"]
  /\ queue = << >>
  /\ active = None
  /\ caller = [c \in Callers |-> Idle]
  /\ worker = Resting
  /\ refresh = Still
  /\ finisher = [f \in Finishers |-> Quiet]
  /\ over = {} /\ abandoned = {}
  /\ stale = Copies
  /\ revived = {}

\* get_motor: the copy is that of the moment, until the next write.
Takes(copy) == stale' = stale \ {copy} /\ UNCHANGED revived

\* What a snapshot shows that is over.
Outdated(snapshot) ==
  (IF snapshot.pending \in over THEN {"pending"} ELSE {}) \cup
  (IF snapshot.running # None /\ snapshot.running # active THEN {"running"} ELSE {})

\* update_motor: every other copy is old now.  What is over and stays shown was put
\* back by this copy, if it is an old one, or by an earlier one.
Store(copy, snapshot) ==
  /\ shown' = snapshot
  /\ stale' = Copies
  /\ revived' = Outdated(snapshot) \cap (IF copy \in stale THEN {"pending", "running"} ELSE revived)

KeepsRunning(copy) == copy            \* mutant: the finished command is shown as active
Finished(copy) == [copy EXCEPT !.running = None]

-----------------------------------------------------------------------------
(* A calling thread.                                                       *)

CallerAt(c, pc) == caller[c].pc = pc

Moves(c) == caller[c].request \in {"MOVE", "BATCH"}

\* The copy that is stored at the end is taken first (GUARD and STOP_ALL, which store none,
\* have no use for it).  A reserved motor or a value beyond its limits is answered with it.
Call(c) ==
  /\ CallerAt(c, "idle") /\ sequence < MaxCommands
  /\ \E r \in Requests :
       caller' = [caller EXCEPT ![c] =
         [Idle EXCEPT !.pc = IF r = "REFUSED" THEN "refuse" ELSE "preempt",
                      !.request = r, !.copy = shown]]
  /\ Takes(Copy(c))
  /\ UNCHANGED <<shown, motor, sequence, kind, queue, active, worker, refresh, finisher, over,
                 abandoned>>

Refuse(c) ==
  /\ CallerAt(c, "refuse")
  /\ Store(Copy(c), caller[c].copy)
  /\ caller' = [caller EXCEPT ![c] = Idle]
  /\ UNCHANGED <<motor, sequence, kind, queue, active, worker, refresh, finisher, over,
                 abandoned>>

\* _preempt_motor_commands: cancel what is tracked, which stops what the worker has
\* not begun; note it in the snapshot, by a copy of its own, which leaves the pending
\* command as it is; stop the motor.
Waiting == {queue[i] : i \in DOMAIN queue} \cup (IF worker.pc = "taken" THEN {worker.id} ELSE {})
Tracked == queue # << >> \/ worker.pc # "idle"

Preempt(c) ==
  /\ CallerAt(c, "preempt")
  /\ queue' = << >>
  /\ over' = over \cup Waiting
  /\ abandoned' = IF caller[c].request \in Abandoning THEN abandoned \cup Waiting ELSE abandoned
  /\ worker' = IF worker.pc = "taken" THEN Resting ELSE worker
  /\ caller' = [caller EXCEPT ![c].pc = IF Tracked THEN "mark" ELSE "halt"]
  /\ UNCHANGED <<shown, motor, sequence, kind, active, refresh, finisher, stale, revived>>

Mark(c) ==
  /\ CallerAt(c, "mark")
  /\ caller' = [caller EXCEPT ![c].pc = "marked", ![c].note = shown]
  /\ Takes(Note(c))
  /\ UNCHANGED <<shown, motor, sequence, kind, queue, active, worker, refresh, finisher, over,
                 abandoned>>

Marked(c) ==
  /\ CallerAt(c, "marked")
  /\ Store(Note(c), caller[c].note)
  /\ caller' = [caller EXCEPT ![c].pc = "halt", ![c].note = Blank]
  /\ UNCHANGED <<motor, sequence, kind, queue, active, worker, refresh, finisher, over,
                 abandoned>>

\* STOP leaves the motor to the worker.  A guarded operation has what it wants, and
\* stop_all_motors goes on to finish the active command, if there is one.
AfterHalt(request) ==
  CASE request = "CANCEL"   -> "reread"
    [] request = "GUARD"    -> "idle"
    [] request = "STOP_ALL" -> "pop"
    [] OTHER                -> "enqueue"

Halt(c) ==
  /\ CallerAt(c, "halt")
  /\ motor' = IF caller[c].request = "STOP" THEN motor ELSE [motor EXCEPT !.runs = FALSE]
  /\ caller' = [caller EXCEPT ![c].pc = AfterHalt(caller[c].request)]
  /\ UNCHANGED <<shown, sequence, kind, queue, active, worker, refresh, finisher, over, abandoned,
                 stale, revived>>

Enqueue(c) ==
  /\ CallerAt(c, "enqueue") /\ sequence < MaxCommands
  /\ sequence' = sequence + 1
  /\ kind' = [kind EXCEPT ![sequence'] = IF Moves(c) THEN "MOVE" ELSE "STOP"]
  /\ queue' = Append(queue, sequence')
  /\ caller' = [caller EXCEPT ![c].pc = "publish", ![c].id = sequence']
  /\ UNCHANGED <<shown, motor, active, worker, refresh, finisher, over, abandoned, stale, revived>>

Queued(c) == [caller[c].copy EXCEPT !.pending = caller[c].id]

\* The end of _enqueue_motor_command; a batch stores the same snapshot once more.
Publish(c) ==
  /\ CallerAt(c, "publish") \/ CallerAt(c, "republish")
  /\ Store(Copy(c), Queued(c))
  /\ caller' = IF caller[c].request = "BATCH" /\ CallerAt(c, "publish")
               THEN [caller EXCEPT ![c].pc = "republish"]
               ELSE [caller EXCEPT ![c] = Idle]
  /\ UNCHANGED <<motor, sequence, kind, queue, active, worker, refresh, finisher, over,
                 abandoned>>

\* cancel_motor_commands
Reread(c) ==
  /\ CallerAt(c, "reread")
  /\ caller' = [caller EXCEPT ![c].pc = "cleared", ![c].copy = shown]
  /\ Takes(Copy(c))
  /\ UNCHANGED <<shown, motor, sequence, kind, queue, active, worker, refresh, finisher, over,
                 abandoned>>

\* _finish_active_command for stop_all_motors, which finishes what is active, if anything.
StopAllPops(c) ==
  /\ CallerAt(c, "pop")
  /\ active' = None
  /\ caller' = [caller EXCEPT ![c].pc = "popped"]
  /\ UNCHANGED <<shown, motor, sequence, kind, queue, worker, refresh, finisher, over, abandoned,
                 stale, revived>>

StopAllLooks(c) ==
  /\ CallerAt(c, "popped")
  /\ caller' = [caller EXCEPT ![c].pc = "write", ![c].copy = shown]
  /\ Takes(Copy(c))
  /\ UNCHANGED <<shown, motor, sequence, kind, queue, active, worker, refresh, finisher, over,
                 abandoned>>

StopAllRecords(c) ==
  /\ CallerAt(c, "write")
  /\ Store(Copy(c), Finished(caller[c].copy))
  /\ caller' = [caller EXCEPT ![c] = Idle]
  /\ UNCHANGED <<motor, sequence, kind, queue, active, worker, refresh, finisher, over, abandoned>>

Withdrawn(copy) == [copy EXCEPT !.pending = None]

Withdraw(c) ==
  /\ CallerAt(c, "cleared")
  /\ Store(Copy(c), Withdrawn(caller[c].copy))
  /\ caller' = [caller EXCEPT ![c] = Idle]
  /\ UNCHANGED <<motor, sequence, kind, queue, active, worker, refresh, finisher, over,
                 abandoned>>

-----------------------------------------------------------------------------
(* The worker: _execute_queued_command.                                    *)

Take ==
  /\ worker.pc = "idle" /\ queue # << >>
  /\ worker' = [worker EXCEPT !.pc = "taken", !.id = Head(queue)]
  /\ queue' = Tail(queue)
  /\ UNCHANGED <<shown, motor, sequence, kind, active, caller, refresh, finisher, over, abandoned,
                 stale, revived>>

\* The flag of the command is read and then the snapshot, before the motor is driven.
Begins ==
  /\ worker.pc = "taken"
  /\ worker' = [worker EXCEPT !.pc = "run", !.copy = shown]
  /\ Takes(Copy("worker"))
  /\ UNCHANGED <<shown, motor, sequence, kind, queue, active, caller, refresh, finisher, over,
                 abandoned>>

\* A driver error may come before or after the motor moves; nothing is registered then.
Run ==
  /\ worker.pc = "run"
  /\ IF kind[worker.id] = "MOVE"
     THEN \/ motor' = [motor EXCEPT !.runs = TRUE] /\ worker' = [worker EXCEPT !.pc = "register"]
          \/ /\ motor' \in {motor, [motor EXCEPT !.runs = TRUE]}
             /\ worker' = [worker EXCEPT !.pc = "publish"]
     ELSE motor' = [motor EXCEPT !.runs = FALSE] /\ worker' = [worker EXCEPT !.pc = "publish"]
  /\ UNCHANGED <<shown, sequence, kind, queue, active, caller, refresh, finisher, over, abandoned,
                 stale, revived>>

\* The active entry is there before the snapshot says so.
Register ==
  /\ worker.pc = "register"
  /\ active' = worker.id
  /\ worker' = [worker EXCEPT !.pc = "show", !.copy.running = worker.id]
  /\ UNCHANGED <<shown, motor, sequence, kind, queue, caller, refresh, finisher, over, abandoned,
                 stale, revived>>

StaysPending(copy) == copy            \* mutant: what was executed is shown as pending
Executed(copy) == [copy EXCEPT !.pending = None]

Conclude ==
  /\ worker.pc \in {"show", "publish"}
  /\ Store(Copy("worker"), Executed(worker.copy))
  /\ over' = over \cup {worker.id}
  /\ worker' = Resting
  /\ UNCHANGED <<motor, sequence, kind, queue, active, caller, refresh, finisher, abandoned>>

-----------------------------------------------------------------------------
(* The monitor, and the watchdog.                                          *)

Read ==
  /\ refresh.pc = "idle" /\ finisher[Monitor].pc = "idle"
  /\ refresh' = [refresh EXCEPT !.pc = "read", !.reading = motor.position]
  /\ UNCHANGED <<shown, motor, sequence, kind, queue, active, caller, worker, finisher, over,
                 abandoned, stale, revived>>

Refreshes(current) == current.pending = None

\* _publish_snapshot: nothing is published over a pending command.
Compare ==
  /\ refresh.pc = "read"
  /\ refresh' = IF Refreshes(shown) THEN [refresh EXCEPT !.pc = "publish", !.copy = shown]
                ELSE Still
  /\ IF Refreshes(shown) THEN Takes(Copy("refresh")) ELSE UNCHANGED <<stale, revived>>
  /\ UNCHANGED <<shown, motor, sequence, kind, queue, active, caller, worker, finisher, over,
                 abandoned>>

Refresh ==
  /\ refresh.pc = "publish"
  /\ Store(Copy("refresh"), [refresh.copy EXCEPT !.position = refresh.reading])
  /\ refresh' = Still
  /\ UNCHANGED <<motor, sequence, kind, queue, active, caller, worker, finisher, over, abandoned>>

\* A stall, a deadline or a regular end, which needs no stop, is seen in a copy of the
\* entries: what is stopped and removed then may be another command, or none.
Finish(f) ==
  /\ finisher[f].pc = "idle" /\ (f = Monitor => refresh.pc = "idle")
  /\ active # None
  /\ \/ finisher' = [finisher EXCEPT ![f].pc = "halt"]
     \/ ~motor.runs /\ finisher' = [finisher EXCEPT ![f].pc = "pop"]
  /\ UNCHANGED <<shown, motor, sequence, kind, queue, active, caller, worker, refresh, over,
                 abandoned, stale, revived>>

HaltExpired(f) ==
  /\ finisher[f].pc = "halt"
  /\ motor' = [motor EXCEPT !.runs = FALSE]
  /\ finisher' = [finisher EXCEPT ![f].pc = "pop"]
  /\ UNCHANGED <<shown, sequence, kind, queue, active, caller, worker, refresh, over, abandoned,
                 stale, revived>>

\* _finish_active_command: pop, whatever is there; then look and record.
Pop(f) ==
  /\ finisher[f].pc = "pop"
  /\ active' = None
  /\ finisher' = [finisher EXCEPT ![f].pc = "popped"]
  /\ UNCHANGED <<shown, motor, sequence, kind, queue, caller, worker, refresh, over, abandoned,
                 stale, revived>>

Look(f) ==
  /\ finisher[f].pc = "popped"
  /\ finisher' = [finisher EXCEPT ![f] = [pc |-> "write", copy |-> shown]]
  /\ Takes(Copy(f))
  /\ UNCHANGED <<shown, motor, sequence, kind, queue, active, caller, worker, refresh, over,
                 abandoned>>

Record(f) ==
  /\ finisher[f].pc = "write"
  /\ Store(Copy(f), Finished(finisher[f].copy))
  /\ finisher' = [finisher EXCEPT ![f] = Quiet]
  /\ UNCHANGED <<motor, sequence, kind, queue, active, caller, worker, refresh, over,
                 abandoned>>

-----------------------------------------------------------------------------
(* The motor.                                                              *)

MotorTurns ==
  /\ motor.runs /\ motor.position < MaxTravel
  /\ motor' \in {[motor EXCEPT !.position = @ + 1],
                 [position |-> motor.position + 1, runs |-> FALSE]}
  /\ UNCHANGED <<shown, sequence, kind, queue, active, caller, worker, refresh, finisher, over,
                 abandoned, stale, revived>>

-----------------------------------------------------------------------------
CallerStep(c) ==
  \/ Refuse(c) \/ Preempt(c) \/ Mark(c) \/ Marked(c) \/ Halt(c) \/ Enqueue(c) \/ Publish(c)
  \/ Reread(c) \/ Withdraw(c) \/ StopAllPops(c) \/ StopAllLooks(c) \/ StopAllRecords(c)

WorkerStep      == Take \/ Begins \/ Run \/ Register \/ Conclude
MonitorStep     == Read \/ Compare \/ Refresh
FinisherGoesOn(f) == HaltExpired(f) \/ Pop(f) \/ Look(f) \/ Record(f)
FinisherStep(f) == Finish(f) \/ FinisherGoesOn(f)

Next ==
  \/ \E c \in Callers : Call(c) \/ CallerStep(c)
  \/ WorkerStep
  \/ MonitorStep
  \/ \E f \in Finishers : FinisherStep(f)
  \/ MotorTurns

Spec == Init /\ [][Next]_snap_vars

\* Every thread goes on; the monitor does both halves of its cycle.
Fairness ==
  /\ \A c \in Callers : WF_snap_vars(CallerStep(c))
  /\ WF_snap_vars(WorkerStep)
  /\ SF_snap_vars(Read) /\ WF_snap_vars(Compare \/ Refresh)
  /\ \A f \in Finishers : SF_snap_vars(Finish(f)) /\ WF_snap_vars(FinisherGoesOn(f))

FairSpec == Spec /\ Fairness

-----------------------------------------------------------------------------
(* Properties.                                                             *)

\* A call that goes on to clear or replace the pending command (the next to be shown may
\* be abandoned by then), and whoever will take a finished command out of the snapshot.
Rewrites(c) ==
  /\ caller[c].request \notin Abandoning
  /\ \/ caller[c].pc \in {"mark", "marked", "halt", "enqueue", "reread", "cleared"}
     \/ CallerAt(c, "publish") /\ caller[c].id \notin over \ abandoned
Clears ==
  \/ \E f \in Finishers : finisher[f].pc \in {"popped", "write"}
  \/ \E c \in Callers : caller[c].pc \in {"popped", "write"}
  \/ worker.pc = "show"

\* A command that is over is shown as pending, or one that is not active as active,
\* only while a thread is on its way to correct it, or because an old copy put it back,
\* or, pending, because it was cancelled by stop_all_motors or for a guarded operation.
OutdatedIsOwed ==
  /\ shown.pending \in over \ abandoned => "pending" \in revived \/ \E c \in Callers : Rewrites(c)
  /\ shown.running \notin {None, active} => "running" \in revived \/ Clears

CallsEnd == <>[](\A c \in Callers : caller[c].pc = "idle")

ShowsTheMotor ==
  /\ shown.running = None
  /\ shown.position = motor.position \/ shown.pending \in abandoned

\* Once the commands are through, the store comes to show that nothing is active, and
\* where the motor stands unless a cancelled command stays pending, or an old copy put
\* back a command that was over.
SnapshotSettles == CallsEnd => <>[](ShowsTheMotor \/ revived # {})
=============================================================================
