--------------------------- MODULE OperationStatus ---------------------------
(***************************************************************************)
(* Ev3OperationStatusAdapter: the screen that the joystick thread switches *)
(* between the start-up messages, the Bluetooth error and the status pages,*)
(* the thread that refreshes the values of the page, the thread that turns *)
(* the pages, and the buzzer of the Bluetooth error, which starts and ends *)
(* outside the lock of the display.  The state at first is that after      *)
(* start, which runs before there is a joystick thread.                    *)
(***************************************************************************)
EXTENDS Integers

CONSTANTS
  LastPage,       \* the status pages are 0..LastPage
  MaxDrawErrors   \* bound: drawings that fail on the display

Pages   == 0..LastPage
Startup == -1    \* Initialization Status
Error   == -2    \* Bluetooth Error

VARIABLES
  startup,    \* _startup_active
  error,      \* _bluetooth_error_active
  page,       \* _status_screen
  shown,      \* what the display shows
  undrawn,    \* history: the last drawing failed
  call,       \* the joystick thread: the call it is in
  owed,       \* start_alert of that call
  held,       \* whether _bluetooth_alert_sound is set
  sounds,     \* whether the thread of the buzzer runs
  refresher,  \* the refresh thread, with the page whose values it reads
  pressed,    \* the page button that is held down
  latched,    \* _navigation_press_latched
  phase,      \* of the application
  outlived,   \* history: the join of the joystick thread timed out
  drawErrors  \* drawings that failed

status_vars == <<startup, error, page, shown, undrawn, call, owed, held, sounds, refresher,
                 pressed, latched, phase, outlived, drawErrors>>

TypeOK ==
  /\ startup \in BOOLEAN /\ error \in BOOLEAN /\ undrawn \in BOOLEAN /\ owed \in BOOLEAN
  /\ held \in BOOLEAN /\ sounds \in BOOLEAN /\ latched \in BOOLEAN /\ outlived \in BOOLEAN
  /\ page \in Pages
  /\ shown \in {Startup, Error} \cup Pages
  /\ call \in {"none", "idle", "opened", "lost", "begin", "connected", "ended"}
  /\ refresher \in [reads : BOOLEAN, page : Pages]
  /\ pressed \in {"none", "left", "right"}
  /\ phase \in {"running", "stopping", "stopped"}
  /\ drawErrors \in 0..MaxDrawErrors

\* _draw_current_screen_locked
Due == IF startup THEN Startup ELSE IF error THEN Error ELSE page

\* The start-up messages are for LOCAL + MANUAL, which alone has a joystick.
Init ==
  /\ startup \in BOOLEAN
  /\ error = FALSE
  /\ page = 0
  /\ shown = Due
  /\ undrawn = FALSE
  /\ call = IF startup THEN "idle" ELSE "none"
  /\ owed = FALSE /\ held = FALSE /\ sounds = FALSE
  /\ refresher = [reads |-> FALSE, page |-> 0]
  /\ pressed = "none" /\ latched = FALSE
  /\ phase = "running"
  /\ outlived = FALSE
  /\ drawErrors = 0

\* A drawing comes last in its section of the lock: what failed has set the flags.
Drawn    == shown' = Due' /\ undrawn' = FALSE /\ UNCHANGED drawErrors
NotDrawn == /\ drawErrors < MaxDrawErrors /\ drawErrors' = drawErrors + 1
            /\ undrawn' = TRUE /\ UNCHANGED shown

buzzer == <<owed, held, sounds>>
pages  == <<refresher, pressed, latched>>

-----------------------------------------------------------------------------
(* The joystick thread.                                                    *)

\* show_startup_progress, and show_startup_error, which adds a tone.
ShowStartup ==
  /\ call \in {"idle", "opened"}
  /\ startup' = TRUE /\ error' = FALSE
  /\ UNCHANGED page
  /\ Drawn \/ NotDrawn
  /\ call' \in {"opened", "idle"}
  /\ UNCHANGED <<buzzer, pages, phase, outlived>>

\* show_joystick_connection_error.  When the drawing fails no alert is started, and
\* the next error finds the flag set.
ShowError ==
  /\ call \in {"idle", "opened"}
  /\ startup' = FALSE /\ error' = TRUE
  /\ UNCHANGED page
  /\ \/ Drawn /\ owed' = ~error /\ call' = "lost"
     \/ NotDrawn /\ call' = "idle" /\ UNCHANGED owed
  /\ UNCHANGED <<held, sounds, pages, phase, outlived>>

StartAlert ==
  /\ call = "lost"
  /\ call' = IF owed /\ ~held THEN "begin" ELSE "idle"
  /\ owed' = FALSE
  /\ UNCHANGED <<startup, error, page, shown, undrawn, held, sounds, pages, phase, outlived,
                 drawErrors>>

\* _try_start_alert gives nothing without a sound device; else its thread runs
\* before the adapter holds it.
BeginAlert ==
  /\ call = "begin"
  /\ \/ ~sounds /\ sounds' = TRUE /\ UNCHANGED <<call, held>>
     \/ held' = sounds /\ call' = "idle" /\ UNCHANGED sounds
  /\ UNCHANGED <<startup, error, page, shown, undrawn, owed, pages, phase, outlived, drawErrors>>

StopAlert == held' = FALSE /\ sounds' = (sounds /\ ~held)

\* show_joystick_connected, which opening and its start-up messages precede.
SilenceForConnection ==
  /\ call = "opened"
  /\ StopAlert
  /\ call' = "connected"
  /\ UNCHANGED <<startup, error, page, shown, undrawn, owed, pages, phase, outlived, drawErrors>>

ShowConnected ==
  /\ call = "connected"
  /\ startup' = FALSE /\ error' = FALSE
  /\ UNCHANGED page
  /\ Drawn \/ NotDrawn
  /\ call' = "idle"
  /\ UNCHANGED <<buzzer, pages, phase, outlived>>

JoystickEnds ==
  /\ phase # "running" /\ call \in {"idle", "opened"}
  /\ call' = "ended"
  /\ UNCHANGED <<startup, error, page, shown, undrawn, buzzer, pages, phase, outlived, drawErrors>>

-----------------------------------------------------------------------------
(* The refresh thread.                                                     *)

Normal == ~startup /\ ~error

ReadValues ==
  /\ phase # "stopped" /\ ~refresher.reads
  /\ Normal
  /\ refresher' = [reads |-> TRUE, page |-> page]
  /\ UNCHANGED <<startup, error, page, shown, undrawn, call, buzzer, pressed, latched, phase,
                 outlived, drawErrors>>

NormalIsEnough == Normal                       \* mutant: the page is not compared
StillCurrent   == Normal /\ page = refresher.page

Paint ==
  /\ refresher.reads
  /\ refresher' = [refresher EXCEPT !.reads = FALSE]
  /\ \/ ~StillCurrent /\ UNCHANGED <<shown, undrawn, drawErrors>>
     \/ /\ StillCurrent
        /\ \/ shown' = refresher.page /\ undrawn' = FALSE /\ UNCHANGED drawErrors
           \/ NotDrawn
  /\ UNCHANGED <<startup, error, page, call, buzzer, pressed, latched, phase, outlived>>

-----------------------------------------------------------------------------
(* The navigation thread.                                                  *)

Button ==
  /\ pressed' \in {"none", "left", "right"} \ {pressed}
  /\ UNCHANGED <<startup, error, page, shown, undrawn, call, buzzer, refresher, latched, phase,
                 outlived, drawErrors>>

Adjacent == (page + (IF pressed = "left" THEN LastPage ELSE 1)) % (LastPage + 1)

\* A press counts once, and not while a message is shown.
PollButtons ==
  /\ phase # "stopped"
  /\ latched' = (pressed # "none")
  /\ IF latched' /\ ~latched /\ Normal
     THEN page' = Adjacent /\ UNCHANGED <<startup, error>> /\ (Drawn \/ NotDrawn)
     ELSE UNCHANGED <<startup, error, page, shown, undrawn, drawErrors>>
  /\ UNCHANGED <<call, buzzer, refresher, pressed, phase, outlived>>

-----------------------------------------------------------------------------
(* The end, and the sound device.                                          *)

\* The joystick service stops before the screen does.
StopJoystick ==
  /\ phase = "running"
  /\ phase' = "stopping"
  /\ UNCHANGED <<startup, error, page, shown, undrawn, call, buzzer, pages, outlived, drawErrors>>

\* stop; a refresh under way may still paint when its join has timed out.
StopScreen ==
  /\ phase = "stopping"
  /\ StopAlert
  /\ phase' = "stopped"
  /\ outlived' = (call \notin {"none", "ended"})
  /\ UNCHANGED <<startup, error, page, shown, undrawn, call, owed, pages, drawErrors>>

SoundFails ==
  /\ sounds /\ held
  /\ sounds' = FALSE
  /\ UNCHANGED <<startup, error, page, shown, undrawn, call, owed, held, pages, phase, outlived,
                 drawErrors>>

-----------------------------------------------------------------------------
Next ==
  \/ ShowStartup \/ ShowError \/ StartAlert \/ BeginAlert
  \/ SilenceForConnection \/ ShowConnected \/ JoystickEnds
  \/ ReadValues \/ Paint
  \/ Button \/ PollButtons
  \/ StopJoystick \/ StopScreen \/ SoundFails

Spec == Init /\ [][Next]_status_vars

-----------------------------------------------------------------------------
(* Properties.                                                             *)

\* The display shows the message or the page that is due, whatever the three threads
\* read and paint, unless the last drawing failed.  The buzzer is silent on the status
\* pages and after the end, unless the joystick thread outlived the stop.
ScreenIsTrue ==
  /\ shown = Due \/ undrawn
  /\ sounds => ~Normal \/ outlived
  /\ phase = "stopped" => ~sounds \/ outlived
=============================================================================
