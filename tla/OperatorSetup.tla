---------------------------- MODULE OperatorSetup ----------------------------
(***************************************************************************)
(* The selection of the operation mode at startup: the loop of             *)
(* prepare_rover_runtime over the Command/Control screen and the           *)
(* Front/Drive/Mode screen, and OperationModeService, which keeps the      *)
(* LOCAL parameters beside the mode in force.  A press of a button is one  *)
(* step, with its drawing and its release.                                 *)
(***************************************************************************)
EXTENDS Integers, Sequences, SequencesExt

VARIABLES
  screen,   \* "command", "drive", or how the selection ended
  cursor,   \* the option the cursor is at
  choice,   \* the parameters the screen works on
  local,    \* _local_control, _local_front, _local_drive, ...
  mode,     \* the RoverOperationMode in force
  drawn     \* screen -> the artwork last drawn on it

setup_vars == <<screen, cursor, choice, local, mode, drawn>>

NA == "NONE"
Parameters ==
  [control : {"MANUAL", "AUTOMATIC"}, front : {"NOSE", "TAIL"}, drive : {"DIFFERENTIAL", "MECANUM"},
   centric : {"CHASSIS", "FIELD"}, differential_mode : {"R-BOGIE", "DUOWHELL"}]
Buttons == {"up", "down", "left", "right", "enter", "backspace"}
Toggles == {"left", "right", "enter"}

Other(a, b, value) == IF value = a THEN b ELSE a

\* RoverOperationMode: what is not applicable is None.
REMOTE == [command |-> "REMOTE", control |-> NA, front |-> NA, drive |-> NA,
           centric |-> NA, differential_mode |-> NA]

LOCALMode(p) ==
  [command |-> "LOCAL", control |-> p.control, front |-> p.front, drive |-> p.drive,
   centric |-> IF p.drive = "MECANUM" THEN p.centric ELSE NA,
   differential_mode |-> IF p.drive = "MECANUM" THEN NA ELSE p.differential_mode]

Defaults == [control |-> "MANUAL", front |-> "NOSE", drive |-> "DIFFERENTIAL",
             centric |-> "CHASSIS", differential_mode |-> "R-BOGIE"]

\* What a parameter of the mode is, or was when it last applied.
Or(value, default) == IF value = NA THEN default ELSE value

-----------------------------------------------------------------------------
(* Options and artwork.                                                    *)

Options(s, c) ==
  IF s = "drive" THEN <<"front", "drive", "detail", "confirm">>
  ELSE IF c.command = "REMOTE" THEN <<"command", "confirm">>
  ELSE <<"command", "control", "confirm">>

Index(options, option) == CHOOSE k \in DOMAIN options : options[k] = option

\* _previous_option and _next_option go round.
Moved(s, c, option, step) ==
  LET options == Options(s, c)
  IN  options[((Index(options, option) - 1 + step) % Len(options)) + 1]

\* _background_key
Artwork(s, c) ==
  IF s = "command" THEN <<c.command, IF c.command = "REMOTE" THEN NA ELSE c.control>>
  ELSE <<c.front, c.drive, IF c.drive = "MECANUM" THEN c.centric ELSE NA,
         IF c.drive = "MECANUM" THEN NA ELSE c.differential_mode>>

\* What a screen is opened with.
Opened(m, l) ==
  [command |-> m.command, control |-> Or(m.control, l.control), front |-> Or(m.front, l.front),
   drive |-> Or(m.drive, l.drive), centric |-> Or(m.centric, l.centric),
   differential_mode |-> Or(m.differential_mode, l.differential_mode)]

Toggled(c, option) ==
  CASE option = "command" -> [c EXCEPT !.command = Other("LOCAL", "REMOTE", @)]
    [] option = "control" -> [c EXCEPT !.control = Other("MANUAL", "AUTOMATIC", @)]
    [] option = "front"   -> [c EXCEPT !.front = Other("NOSE", "TAIL", @)]
    [] option = "drive"   -> [c EXCEPT !.drive = Other("DIFFERENTIAL", "MECANUM", @)]
    [] option = "detail"  ->
         IF c.drive = "MECANUM" THEN [c EXCEPT !.centric = Other("CHASSIS", "FIELD", @)]
         ELSE [c EXCEPT !.differential_mode = Other("R-BOGIE", "DUOWHELL", @)]

TypeOK ==
  /\ screen \in {"command", "drive", "assembled", "cancelled", "failed"}
  /\ cursor \in {"command", "control", "front", "drive", "detail", "confirm"}
  /\ local \in Parameters
  /\ mode \in {REMOTE} \cup {LOCALMode(p) : p \in Parameters}
  /\ screen \in {"command", "drive"} => cursor \in ToSet(Options(screen, choice))

Init ==
  /\ screen = "command"
  /\ cursor = "confirm"
  /\ local = Defaults
  /\ mode = LOCALMode(Defaults)
  /\ choice = Opened(mode, local)
  /\ drawn = [command |-> Artwork("command", choice), drive |-> << >>]

-----------------------------------------------------------------------------
(* A press of a button.                                                    *)

\* A screen draws itself when it opens, with the cursor at confirm.
Open(s, m, l) ==
  /\ screen' = s
  /\ cursor' = "confirm"
  /\ choice' = Opened(m, l)
  /\ drawn' = [drawn EXCEPT ![s] = Artwork(s, choice')]

Move(s, button) ==
  /\ button \in {"up", "down"}
  /\ screen = s
  /\ cursor' = Moved(s, choice, cursor, IF button = "up" THEN -1 ELSE 1)
  /\ drawn' = [drawn EXCEPT ![s] = Artwork(s, choice)]
  /\ UNCHANGED <<screen, choice, local, mode>>

Toggle(s, button) ==
  /\ button \in Toggles /\ cursor # "confirm"
  /\ screen = s
  /\ choice' = Toggled(choice, cursor)
  /\ drawn' = [drawn EXCEPT ![s] = Artwork(s, choice')]
  /\ UNCHANGED <<screen, cursor, local, mode>>

\* set_command_control: REMOTE leaves the local parameters as they were.  Without
\* the library of the brick a screen confirms what it was opened with.
ConfirmCommand(button) ==
  /\ button = "enter" /\ cursor = "confirm"
  /\ screen = "command"
  /\ local' = IF choice.command = "REMOTE" THEN local ELSE [local EXCEPT !.control = choice.control]
  /\ mode' = IF choice.command = "REMOTE" THEN REMOTE ELSE LOCALMode(local')
  /\ IF choice.command = "REMOTE"
     THEN screen' = "assembled" /\ UNCHANGED <<cursor, choice, drawn>>
     ELSE Open("drive", mode', local')

KeepsCentric(l, c) ==                       \* mutant: the detail of MECANUM is not stored
  [l EXCEPT !.front = c.front, !.drive = c.drive,
            !.differential_mode = IF c.drive = "MECANUM" THEN @ ELSE c.differential_mode]

\* set_local_drive: only the detail that applies is stored.
Stored(l, c) ==
  [l EXCEPT !.front = c.front, !.drive = c.drive,
            !.centric = IF c.drive = "MECANUM" THEN c.centric ELSE @,
            !.differential_mode = IF c.drive = "MECANUM" THEN @ ELSE c.differential_mode]

ConfirmDrive(button) ==
  /\ button = "enter" /\ cursor = "confirm"
  /\ screen = "drive"
  /\ local' = Stored(local, choice)
  /\ mode' = LOCALMode(local')
  /\ screen' = "assembled"
  /\ UNCHANGED <<cursor, choice, drawn>>

\* Back from the drive screen forgets what was changed on it.
Back(button) ==
  /\ button = "left" /\ cursor = "confirm"
  /\ screen = "drive"
  /\ Open("command", mode, local)
  /\ UNCHANGED <<local, mode>>

Cancel(s, button) ==
  /\ button = "backspace"
  /\ screen = s
  /\ screen' = "cancelled"
  /\ UNCHANGED <<cursor, choice, local, mode, drawn>>

\* A screen that cannot be shown raises, and the startup with it.
Fail(s) ==
  /\ screen = s
  /\ screen' = "failed"
  /\ UNCHANGED <<cursor, choice, local, mode, drawn>>

Next ==
  \E button \in Buttons :
    \/ \E s \in {"command", "drive"} :
         Move(s, button) \/ Toggle(s, button) \/ Cancel(s, button) \/ Fail(s)
    \/ ConfirmCommand(button) \/ ConfirmDrive(button) \/ Back(button)

Spec == Init /\ [][Next]_setup_vars

-----------------------------------------------------------------------------
(* Properties.                                                             *)

\* The application is assembled for what the operator saw: the mode in force is
\* the one of the artwork last drawn on each screen that was passed, however
\* often the operator went back and forth, and through REMOTE.
ModeIsAsShown ==
  screen = "assembled" =>
    /\ drawn.command = Artwork("command", mode)
    /\ mode.command = "LOCAL" => drawn.drive = Artwork("drive", mode)
=============================================================================
