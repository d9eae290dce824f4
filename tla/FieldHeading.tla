---------------------------- MODULE FieldHeading ----------------------------
(***************************************************************************)
(* The heading of FIELD-centric driving: GyroHeadingMonitor reads the gyro *)
(* into HeadingStateStore, HeadingStateQueryAdapter gives a sample while   *)
(* it is young, and FieldHeadingReferenceService relates it to the zero    *)
(* the operator chose.  The monitor, the joystick thread and the screens   *)
(* meet in the store and in the zero, each under a lock of its own.        *)
(*                                                                         *)
(* Angles are counted in steps of the turn, ages in ticks of a clock: a    *)
(* tick is longer than a query and than one read of the gyro.              *)
(***************************************************************************)
EXTENDS Integers

CONSTANTS
  Queriers,     \* threads that ask for the heading or set the zero
  Turn,         \* angles of a full turn; even
  MaxAge,       \* max_age_seconds, in ticks
  MaxFailures,  \* max_consecutive_failures
  AngleBound    \* bound: how far the rover turns from where it began

VARIABLES
  past,      \* ticks ago -> the angle the gyro would have shown
  gyro,      \* whether reads of the gyro succeed
  monitor,   \* the monitor thread: where it is, the angle it read
  failures,  \* _consecutive_failures
  sample,    \* the snapshot in the store
  zero,      \* _zero_reference_deg
  query,     \* thread -> where it is, what it asks for, the heading it got
  answer     \* thread -> the heading its last call returned, if any

heading_vars == <<past, gyro, monitor, failures, sample, zero, query, answer>>

Angles == -AngleBound..AngleBound
Ago    == 0..MaxAge
Half   == Turn \div 2

\* The interval [-180, 180) of _normalize_angle; the remainder is never negative.
Normalized(a) == ((a + Half) % Turn) - Half

Nothing == [given |-> FALSE, heading |-> 0]

TypeOK ==
  /\ past \in [Ago -> Angles]
  /\ gyro \in BOOLEAN
  /\ monitor \in [pc : {"open", "cycle", "publish", "mark", "ended"}, read : Angles, opened : BOOLEAN]
  /\ failures \in 0..MaxFailures
  /\ sample \in [available : BOOLEAN, heading : Angles, age : 0..MaxAge + 1]
  /\ zero \in Angles
  /\ query \in [Queriers -> [pc : {"idle", "get", "set"}, heading : Angles]]
  /\ answer \in [Queriers -> [given : BOOLEAN, heading : (-Half)..(Half - 1)]]

\* reset_on_start makes the angle at the opening 0.
Init ==
  /\ past = [n \in Ago |-> 0]
  /\ gyro \in BOOLEAN
  /\ monitor = [pc |-> "open", read |-> 0, opened |-> FALSE]
  /\ failures = 0
  /\ sample = [available |-> FALSE, heading |-> 0, age |-> MaxAge + 1]
  /\ zero = 0
  /\ query = [t \in Queriers |-> [pc |-> "idle", heading |-> 0]]
  /\ answer = [t \in Queriers |-> Nothing]

-----------------------------------------------------------------------------
(* The monitor.                                                            *)

\* The sensor is tried again until the connection timeout, which ends the
\* monitor; then the first sample is read like any other.
Open ==
  /\ monitor.pc = "open"
  /\ \/ gyro /\ monitor' = [monitor EXCEPT !.pc = "cycle"]
     \/ ~gyro /\ monitor' = [monitor EXCEPT !.pc = "ended"]
  /\ UNCHANGED <<past, gyro, failures, sample, zero, query, answer>>

\* The sample is stamped when it is published, after the read.
Read ==
  /\ monitor.pc = "cycle"
  /\ monitor' = IF gyro THEN [monitor EXCEPT !.pc = "publish", !.read = past[0]]
                ELSE [monitor EXCEPT !.pc = "mark"]
  /\ UNCHANGED <<past, gyro, failures, sample, zero, query, answer>>

Publish ==
  /\ monitor.pc = "publish"
  /\ sample' = [available |-> TRUE, heading |-> monitor.read, age |-> 0]
  /\ failures' = 0
  /\ monitor' = [pc |-> "cycle", read |-> 0, opened |-> TRUE]
  /\ UNCHANGED <<past, gyro, zero, query, answer>>

StaysAvailable(s) == [s EXCEPT !.age = 0]                \* mutant: only the error is noted
Unavailable(s) == [s EXCEPT !.available = FALSE, !.age = 0]

\* The heading stays in the store, with a new time.  The first sample must
\* succeed; later ones may fail until they have done so too often in a row.
Mark ==
  /\ monitor.pc = "mark"
  /\ sample' = Unavailable(sample)
  /\ failures' = IF monitor.opened THEN failures + 1 ELSE failures
  /\ monitor' = [monitor EXCEPT !.pc = IF ~monitor.opened \/ failures' = MaxFailures
                                       THEN "ended" ELSE "cycle"]
  /\ UNCHANGED <<past, gyro, zero, query, answer>>

-----------------------------------------------------------------------------
(* Queries.                                                                *)

Fresh(s) == s.available /\ s.age <= MaxAge

\* get_heading_deg and set_current_heading_as_zero begin alike.
Ask(t, aim) ==
  /\ query[t].pc = "idle"
  /\ IF Fresh(sample)
     THEN query' = [query EXCEPT ![t] = [pc |-> aim, heading |-> sample.heading]]
     ELSE UNCHANGED query
  /\ answer' = [answer EXCEPT ![t] = Nothing]
  /\ UNCHANGED <<past, gyro, monitor, failures, sample, zero>>

Answer(t) ==
  /\ query[t].pc = "get"
  /\ answer' = [answer EXCEPT ![t] =
       [given |-> TRUE, heading |-> Normalized(query[t].heading - zero)]]
  /\ query' = [query EXCEPT ![t] = [pc |-> "idle", heading |-> 0]]
  /\ UNCHANGED <<past, gyro, monitor, failures, sample, zero>>

SetZero(t) ==
  /\ query[t].pc = "set"
  /\ zero' = query[t].heading
  /\ query' = [query EXCEPT ![t] = [pc |-> "idle", heading |-> 0]]
  /\ UNCHANGED <<past, gyro, monitor, failures, sample, answer>>

-----------------------------------------------------------------------------
(* The rover, the gyro and the clock.                                      *)

Tick ==
  /\ monitor.pc \notin {"publish", "mark"} /\ \A t \in Queriers : query[t].pc = "idle"
  /\ \E a \in Angles :
       /\ a - past[0] \in -1..1
       /\ past' = [n \in Ago |-> IF n = 0 THEN a ELSE past[n - 1]]
  /\ sample' = [sample EXCEPT !.age = IF @ > MaxAge THEN @ ELSE @ + 1]
  /\ UNCHANGED <<gyro, monitor, failures, zero, query, answer>>

GyroChanges ==
  /\ gyro' = ~gyro
  /\ UNCHANGED <<past, monitor, failures, sample, zero, query, answer>>

-----------------------------------------------------------------------------
Next ==
  \/ Open \/ Read \/ Publish \/ Mark
  \/ \E t \in Queriers : Ask(t, "get") \/ Ask(t, "set") \/ Answer(t) \/ SetZero(t)
  \/ Tick \/ GyroChanges

Spec == Init /\ [][Next]_heading_vars

-----------------------------------------------------------------------------
(* Properties.                                                             *)

\* A heading that is returned is one the rover had no longer than MaxAge ago,
\* relative to the zero of the moment: whatever failed meanwhile, whoever set the
\* zero, and however far the gyro has counted beyond a turn.
AnswersAreTrue ==
  [][\A t \in Queriers : answer'[t] # answer[t] /\ answer'[t].given =>
       \E n \in Ago : answer'[t].heading = Normalized(past[n] - zero)]_heading_vars
=============================================================================
