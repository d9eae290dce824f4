------------------------------ MODULE StatusLed ------------------------------
(***************************************************************************)
(* Ev3StatusLedAdapter.  In the monitored mode a thread polls the motors;  *)
(* in LOCAL + MANUAL nothing is polled, and the joystick thread reports    *)
(* the faults.  The faults are changed, the color resolved and the color   *)
(* applied in three sections of the lock, and the motors are read outside. *)
(***************************************************************************)
EXTENDS Integers

CONSTANTS
  Polls,          \* whether there is a motor query port, and so the poller
  Reporters,      \* threads that set and clear faults
  ModeColor,      \* the color of the operation mode without faults
  MaxWriteErrors  \* bound: writes to the LEDs that fail

Poller  == "poller"
Threads == Reporters \cup (IF Polls THEN {Poller} ELSE {})
Sources == {"motor", "bluetooth"}
Colors  == {"GREEN", "YELLOW", "RED"}

VARIABLES
  faults,      \* _faults
  lastColor,   \* _last_color; "NONE" at first
  led,         \* what the channels of the brick show
  motorsFail,  \* whether a motor has an evidenced failure
  setter,      \* thread -> where it is, the color it resolved, whether forced
  writeErrors  \* writes that failed

led_vars == <<faults, lastColor, led, motorsFail, setter, writeErrors>>

Off      == [green |-> "off", red |-> "off"]
Resting  == [pc |-> "idle", color |-> "NONE", force |-> FALSE]
Channels == [green : {"off", "on"}, red : {"off", "dim", "on"}]

TypeOK ==
  /\ faults \subseteq Sources
  /\ lastColor \in Colors \cup {"NONE"}
  /\ led \in Channels
  /\ motorsFail \in BOOLEAN
  /\ setter \in [Threads -> [pc : {"idle", "seen", "resolve", "apply"},
                             color : Colors \cup {"NONE", "FAULT", "FINE"}, force : BOOLEAN]]
  /\ writeErrors \in 0..MaxWriteErrors

Init ==
  /\ faults = {}
  /\ lastColor = "NONE"
  /\ led = Off
  /\ motorsFail \in BOOLEAN
  /\ setter = [t \in Threads |-> [Resting EXCEPT !.pc = "resolve"]]   \* prepare_start
  /\ writeErrors = 0

\* Yellow is green with a weak red.
Looks(color) ==
  [green |-> IF color = "RED" THEN "off" ELSE "on",
   red   |-> IF color = "RED" THEN "on" ELSE IF color = "YELLOW" THEN "dim" ELSE "off"]

DueColor == IF faults # {} THEN "RED" ELSE ModeColor

At(t, pc) == setter[t].pc = pc

-----------------------------------------------------------------------------
(* Faults.                                                                 *)

\* set_fault, and clear_faults, which forces the refresh.
Report(t) ==
  /\ At(t, "idle")
  /\ \/ /\ \E f \in Sources : faults' \in {faults \cup {f}, faults \ {f}}
        /\ setter' = [setter EXCEPT ![t].pc = "resolve"]
     \/ /\ faults' = {}
        /\ setter' = [setter EXCEPT ![t].pc = "resolve", ![t].force = TRUE]
  /\ UNCHANGED <<lastColor, led, motorsFail, writeErrors>>

\* read_all_motors, outside the lock; an exception counts as a failure.
ReadMotors ==
  /\ Polls /\ At(Poller, "idle")
  /\ setter' = [setter EXCEPT ![Poller].pc = "seen",
                              ![Poller].color = IF motorsFail THEN "FAULT" ELSE "FINE"]
  /\ UNCHANGED <<faults, lastColor, led, motorsFail, writeErrors>>

RefreshOnChange(recovered, changed) ==     \* mutant: refreshes when the fault changes
  IF changed THEN "resolve" ELSE "idle"
AfterReading(recovered, changed) == "resolve"

\* A recovery is shown by force; the poll refreshes in any case.
JudgeMotors ==
  /\ Polls /\ At(Poller, "seen")
  /\ LET failing   == setter[Poller].color = "FAULT"
         recovered == ~failing /\ "motor" \in faults
         changed   == failing # ("motor" \in faults)
     IN  /\ faults' = IF failing THEN faults \cup {"motor"} ELSE faults \ {"motor"}
         /\ setter' = [setter EXCEPT ![Poller] =
              [pc |-> AfterReading(recovered, changed), color |-> "NONE", force |-> recovered]]
  /\ UNCHANGED <<lastColor, led, motorsFail, writeErrors>>

-----------------------------------------------------------------------------
(* refresh: resolve, then apply.                                           *)

Resolve(t) ==
  /\ At(t, "resolve")
  /\ setter' = [setter EXCEPT ![t].pc = "apply", ![t].color = DueColor]
  /\ UNCHANGED <<faults, lastColor, led, motorsFail, writeErrors>>

\* Green and red are switched off, and the channels of the color on: a write
\* that fails leaves what was written before it.
Interrupted(color) ==
  {led, [led EXCEPT !.green = "off"], Off} \cup
  (IF color = "YELLOW" THEN {Looks("GREEN")} ELSE {})

\* What a forced refresh does is repeated, as refresh() follows it in the poll.
Apply(t) ==
  /\ At(t, "apply")
  /\ LET color == setter[t].color
         again == t = Poller /\ setter[t].force IN
     /\ setter' = [setter EXCEPT ![t] = IF again THEN [Resting EXCEPT !.pc = "resolve"] ELSE Resting]
     /\ \/ /\ color = lastColor /\ ~setter[t].force
           /\ UNCHANGED <<lastColor, led, writeErrors>>
        \/ /\ color # lastColor \/ setter[t].force
           /\ led' = Looks(color) /\ lastColor' = color
           /\ UNCHANGED writeErrors
        \/ /\ color # lastColor \/ setter[t].force
           /\ writeErrors < MaxWriteErrors /\ writeErrors' = writeErrors + 1
           /\ led' \in Interrupted(color)
           /\ UNCHANGED lastColor
  /\ UNCHANGED <<faults, motorsFail>>

-----------------------------------------------------------------------------
MotorsChange ==
  /\ Polls
  /\ motorsFail' = ~motorsFail
  /\ UNCHANGED <<faults, lastColor, led, setter, writeErrors>>

Next ==
  \/ \E t \in Reporters : Report(t)
  \/ ReadMotors \/ JudgeMotors
  \/ \E t \in Threads : Resolve(t) \/ Apply(t)
  \/ MotorsChange

Spec == Init /\ [][Next]_led_vars

\* The poller runs for ever, and a report that was begun ends.
Fairness ==
  /\ WF_led_vars(ReadMotors \/ JudgeMotors)
  /\ \A t \in Threads : WF_led_vars(Resolve(t) \/ Apply(t))

FairSpec == Spec /\ Fairness

-----------------------------------------------------------------------------
(* Properties.                                                             *)

\* A color that was applied and cached is not written again when a later write of
\* another color has failed half way; without a poll nothing is written again.
Concealed == writeErrors > 0 /\ (Polls => lastColor = DueColor)

\* When the faults settle the brick comes to show them for good: the poll makes
\* up for a write that failed, unless the cache conceals it.
ShowsFaults ==
  \A color \in Colors : <>[](DueColor = color) => <>[](led = Looks(color) \/ Concealed)
=============================================================================
