-------------------------- MODULE DriverRepository --------------------------
(***************************************************************************)
(* Ev3MotorDriverRepository for one motor: the cached driver, its error    *)
(* and its retry metadata, which the motors do not share.  Callers execute *)
(* commands (MotorCommandExecutor in the monitored mode, the adapter of    *)
(* the LOCAL manual mode); readers refresh the published state.  What the  *)
(* code does under the lock is one step; so is one call of the library.    *)
(*                                                                         *)
(* A driver of the library keeps the device it found when it was created:  *)
(* when the motor is plugged in again it is another device, and the calls  *)
(* of the old driver raise.  A driver is therefore identified by the       *)
(* number of the plugging it belongs to.                                   *)
(***************************************************************************)
EXTENDS Integers

CONSTANTS
  Callers,      \* threads that execute commands
  Readers,      \* threads that read the motor
  ConnectedOnly, \* whether stops skip a motor without a driver, as in LOCAL
  MaxAttempts,  \* max_retry_attempts; Unlimited for None
  MaxPluggings, \* bound: how often the motor is plugged in
  MaxFaults     \* bound: calls of a good driver that raise

Unlimited == 0
None      == 0
Threads   == Callers \cup Readers

VARIABLES
  driver,     \* _motors: None, or the plugging its driver belongs to
  error,      \* _errors: whether there is one
  attempts,   \* _retry_state: attempts since the last connection
  waiting,    \* _retry_state: next_retry_at lies ahead
  plug,       \* the motor: how often it was plugged in, and whether it is now
  turning,    \* whether the motor turns
  client,     \* thread -> where it is, and the driver it holds
  published,  \* what the last read motor reported
  hiccups     \* calls that raised although the driver was good

driver_vars == <<driver, error, attempts, waiting, plug, turning, client, published, hiccups>>

Idle == [pc |-> "idle", operation |-> "NONE", holds |-> None]

Operations == {"NONE", "RUN", "STOP", "READ", "LIMIT"}
Places     == {"idle", "stop", "configure", "set", "call", "native", "settle", "drop", "report",
               "connect", "sample", "absent"}
Lifecycles == {"UNKNOWN", "CONNECTED", "DISCONNECTED", "RETRYING", "FAILED"}

TypeOK ==
  /\ driver \in 0..MaxPluggings
  /\ error \in BOOLEAN
  /\ attempts \in Nat
  /\ waiting \in BOOLEAN
  /\ plug \in [number : 1..MaxPluggings, plugged : BOOLEAN]
  /\ turning \in BOOLEAN
  /\ client \in [Threads -> [pc : Places, operation : Operations, holds : 0..MaxPluggings]]
  /\ published \in Lifecycles
  /\ hiccups \in 0..MaxFaults

Init ==
  /\ driver = None
  /\ error = FALSE
  /\ attempts = 0
  /\ waiting = FALSE
  /\ plug = [number |-> 1, plugged |-> TRUE]
  /\ turning = FALSE
  /\ client = [t \in Threads |-> Idle]
  /\ published = "UNKNOWN"
  /\ hiccups = 0

At(t, pc)   == client[t].pc = pc
Goes(t, pc) == client' = [client EXCEPT ![t].pc = pc]
Returns(t)  == client' = [client EXCEPT ![t] = Idle]

Works(d) == plug.plugged /\ d = plug.number

\* A call of a good driver may raise, too.
Raises(d) ==
  \/ ~Works(d) /\ UNCHANGED hiccups
  \/ Works(d) /\ hiccups < MaxFaults /\ hiccups' = hiccups + 1

-----------------------------------------------------------------------------
(* Connecting.                                                             *)

Exhausted == MaxAttempts # Unlimited /\ attempts >= MaxAttempts
CanRetryOnce == ~Exhausted /\ attempts = 0   \* mutant: only while next_retry_at is None
CanRetry     == ~Exhausted /\ ~waiting

\* Bound: without a maximum nothing depends on the attempts but whether there
\* was one.
NextAttempts == IF MaxAttempts = Unlimited THEN 1
                ELSE IF Exhausted THEN attempts ELSE attempts + 1

Connected ==
  /\ driver' = plug.number /\ error' = FALSE
  /\ attempts' = 0 /\ waiting' = FALSE

\* A failed attempt removes whatever driver is there.
NotConnected ==
  /\ driver' = None /\ error' = TRUE
  /\ attempts' = NextAttempts /\ waiting' = TRUE

\* connect_motor, once it may try: the thread goes on with a driver or without.
Connect(t, with, without) ==
  \/ /\ plug.plugged
     /\ Connected
     /\ client' = [client EXCEPT ![t].pc = with, ![t].holds = plug.number]
     /\ UNCHANGED hiccups
  \/ /\ Raises(plug.number)
     /\ NotConnected
     /\ client' = [client EXCEPT ![t] = IF without = "idle" THEN Idle ELSE [@ EXCEPT !.pc = without]]

-----------------------------------------------------------------------------
(* Commands.  A motion is configured before it is started, and each of the *)
(* two calls gets the driver anew.                                         *)

Begin(t, operation) ==
  /\ At(t, "idle")
  /\ client' = [client EXCEPT ![t] =
       [pc |-> IF operation = "RUN" THEN "configure"
               ELSE IF ConnectedOnly THEN "stop" ELSE "call",
        operation |-> operation, holds |-> None]]
  /\ UNCHANGED <<driver, error, attempts, waiting, plug, turning, published, hiccups>>

\* The LOCAL adapter does not stop a motor that has no driver.
StopIfConnected(t) ==
  /\ At(t, "stop")
  /\ IF driver = None THEN Returns(t) ELSE Goes(t, "call")
  /\ UNCHANGED <<driver, error, attempts, waiting, plug, turning, published, hiccups>>

\* ensure_connected_motor: the cached driver, or an attempt that heeds nothing.
Ensure(t) ==
  /\ client[t].pc \in {"configure", "call"}
  /\ LET next == IF At(t, "configure") THEN "set" ELSE "native" IN
     IF driver # None
     THEN /\ client' = [client EXCEPT ![t].pc = next, ![t].holds = driver]
          /\ UNCHANGED <<driver, error, attempts, waiting, hiccups>>
     ELSE Connect(t, next, "idle")
  /\ UNCHANGED <<plug, turning, published>>

Configure(t) ==
  /\ At(t, "set")
  /\ \/ /\ Works(client[t].holds)
        /\ Goes(t, "settle")
        /\ UNCHANGED hiccups
     \/ Raises(client[t].holds) /\ Goes(t, "drop")
  /\ UNCHANGED <<driver, error, attempts, waiting, plug, turning, published>>

Native(t) ==
  /\ At(t, "native")
  /\ \/ /\ Works(client[t].holds)
        /\ turning' = (client[t].operation = "RUN")
        /\ client' = [client EXCEPT ![t].pc = "settle",
                                    ![t].operation = IF @ = "RUN" THEN "NONE" ELSE @]
        /\ UNCHANGED hiccups
     \/ Raises(client[t].holds) /\ Goes(t, "drop") /\ UNCHANGED turning
  /\ UNCHANGED <<driver, error, attempts, waiting, plug, published>>

\* The error is cleared; a configured motion is started next.
Settle(t) ==
  /\ At(t, "settle")
  /\ error' = FALSE
  /\ IF client[t].operation = "RUN" THEN Goes(t, "call") ELSE Returns(t)
  /\ UNCHANGED <<driver, attempts, waiting, plug, turning, published, hiccups>>

\* A call that raised drops the cached driver, whichever it is by now.
Drop(t) ==
  /\ At(t, "drop")
  /\ driver' = None
  /\ Goes(t, "report")
  /\ UNCHANGED <<error, attempts, waiting, plug, turning, published, hiccups>>

ReportNothing(t) == UNCHANGED error         \* mutant: the error is not kept
KeepError(t) == error' = TRUE

Report(t) ==
  /\ At(t, "report")
  /\ KeepError(t)
  /\ Returns(t)
  /\ UNCHANGED <<driver, attempts, waiting, plug, turning, published, hiccups>>

-----------------------------------------------------------------------------
(* Reading.                                                                *)

\* read_motor and get_motor_max_speed look at the cache without the lock.
Peek(t, operation) ==
  /\ At(t, "idle")
  /\ client' = [client EXCEPT ![t] =
       [pc |-> IF driver = None THEN "connect" ELSE "sample",
        operation |-> operation, holds |-> driver]]
  /\ UNCHANGED <<driver, error, attempts, waiting, plug, turning, published, hiccups>>

ConnectToRead(t) ==
  /\ At(t, "connect")
  /\ IF CanRetry THEN Connect(t, "sample", "absent")
     ELSE /\ Goes(t, "absent")
          /\ UNCHANGED <<driver, error, attempts, waiting, hiccups>>
  /\ UNCHANGED <<plug, turning, published>>

\* _safe_get swallows what a driver raises: a motor with a driver is CONNECTED.
Sample(t) ==
  /\ At(t, "sample")
  /\ IF client[t].operation = "READ"
     THEN error' = FALSE /\ published' = "CONNECTED"
     ELSE UNCHANGED <<error, published>>
  /\ Returns(t)
  /\ UNCHANGED <<driver, attempts, waiting, plug, turning, hiccups>>

Absent(t) ==
  /\ At(t, "absent")
  /\ published' = IF client[t].operation # "READ" THEN published
                  ELSE IF Exhausted THEN "FAILED"
                  ELSE IF MaxAttempts # Unlimited /\ attempts > 0 THEN "RETRYING"
                  ELSE "DISCONNECTED"
  /\ Returns(t)
  /\ UNCHANGED <<driver, error, attempts, waiting, plug, turning, hiccups>>

-----------------------------------------------------------------------------
(* The motor and the clock.                                                *)

Unplug ==
  /\ plug.plugged
  /\ plug' = [plug EXCEPT !.plugged = FALSE]
  /\ turning' = FALSE
  /\ UNCHANGED <<driver, error, attempts, waiting, client, published, hiccups>>

PlugIn ==
  /\ ~plug.plugged /\ plug.number < MaxPluggings
  /\ plug' = [number |-> plug.number + 1, plugged |-> TRUE]
  /\ UNCHANGED <<driver, error, attempts, waiting, turning, client, published, hiccups>>

RetryDue ==
  /\ waiting
  /\ waiting' = FALSE
  /\ UNCHANGED <<driver, error, attempts, plug, turning, client, published, hiccups>>

-----------------------------------------------------------------------------
Executes(t) == StopIfConnected(t) \/ Ensure(t) \/ Configure(t) \/ Native(t)
               \/ Settle(t) \/ Drop(t) \/ Report(t)
Looks(t)    == ConnectToRead(t) \/ Sample(t) \/ Absent(t)

Next ==
  \/ \E t \in Callers, operation \in {"RUN", "STOP"} : Begin(t, operation)
  \/ \E t \in Callers : Executes(t) \/ Peek(t, "LIMIT")
  \/ \E t \in Readers : Peek(t, "READ")
  \/ \E t \in Threads : Looks(t)
  \/ Unplug \/ PlugIn \/ RetryDue

Spec == Init /\ [][Next]_driver_vars

\* Calls that were begun go on, the monitor reads for ever, and time passes.
Fairness ==
  /\ \A t \in Callers : WF_driver_vars(Executes(t) \/ Looks(t))
  /\ \A t \in Readers : WF_driver_vars(Peek(t, "READ") \/ Looks(t))
  /\ WF_driver_vars(RetryDue)

FairSpec == Spec /\ Fairness

-----------------------------------------------------------------------------
(* Properties.                                                             *)

\* A motor that turns can be stopped or is known to be in trouble: it has a
\* driver of its own, or an error is kept, or the call that ran into it is not
\* over.  For one caller, as in LOCAL, where the service's lock makes it one.
TurningIsReachable ==
  turning => driver = plug.number \/ error \/ \E t \in Callers : client[t].pc \in {"drop", "report"}

\* A cached driver has the whole budget of attempts before it: whoever connected
\* it, a reader, a forced command or both, no earlier failure is held against it.
BudgetIsWhole == driver # None => attempts = 0 /\ ~waiting

\* A motor that stays plugged in and has no driver gets one by reading alone,
\* unless the attempts are used up.
Reconnects == driver = None ~> driver # None \/ ~plug.plugged \/ Exhausted
=============================================================================
