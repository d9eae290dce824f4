--------------------------- MODULE Devices_proofs ---------------------------
(***************************************************************************)
(* Proofs about the devices of MCDevices, for every value of its constants *)
(* that DevicesAssumption admits.  The safety properties are proved of the *)
(* specification of each device; at the end the devices side by side are   *)
(* shown to run those specifications, and so to keep all the properties.   *)
(***************************************************************************)
EXTENDS MCDevices, Sequences, SequenceTheorems, FiniteSetTheorems, TLAPS

-----------------------------------------------------------------------------
(* JoystickLink                                                            *)

\* The process lives within the attempt that started it.
ProcessIsWatched == process = "running" => link.pc \in {"register", "send", "watch"}

\* Where the stopping thread has the device still to close.
ClosesYet == {"cancel", "peek", "terminate", "close"}

\* The device is open from the end of an attempt to the cleanup at most.  One that
\* prepare_start has opened is still open when a stop keeps the thread from using it:
\* the stopping thread has then to close it yet.
DeviceIsUsed ==
  /\ link.pc = "retry" => ~device_
  /\ ((link.pc = "loop" /\ started /\ stopAsked) \/ link.pc = "ended") /\ device_
       => closing.pc \in ClosesYet

\* When the wait for bluetoothctl is over it is known where the attempt goes on.
NextIsKnown == link.pc = "unregister" => link.next \in {"final", "activate", "failed"}

LinkInv == Link!TypeOK /\ ProcessIsWatched /\ DeviceIsUsed /\ NextIsKnown

LinkRecords ==
  [pc : Link!Places, next : {"none", "final", "activate", "failed"}]

\* At first nobody connects, no process runs and no device is open.
LEMMA LinkInit == Link!Init => LinkInv
<1> SUFFICES ASSUME Link!Init PROVE LinkInv
  OBVIOUS
<1>1. link \in LinkRecords /\ link.pc = "loop"
  BY DEF Link!Init, LinkRecords, Link!Places
<1>2. Link!TypeOK
  BY <1>1 DEF Link!Init, Link!TypeOK, LinkRecords
<1> QED  BY <1>1, <1>2 DEF Link!Init, LinkInv, ProcessIsWatched, DeviceIsUsed, NextIsKnown

\* Going to a step keeps the record of the connecting thread in its type.
LEMMA LinkGoes ==
  ASSUME Link!TypeOK, NEW pc \in Link!Places, Link!Goes(pc)
  PROVE  link' \in LinkRecords /\ link'.pc = pc
BY DEF Link!Goes, Link!TypeOK, LinkRecords

\* A step of the joystick thread that leaves the process and the device alone.
LEMMA LinkMoves ==
  ASSUME LinkInv, NEW pc \in Link!Places \ {"unregister"}, Link!Goes(pc),
         pc # "retry", pc = "loop" => link.pc = "retry",
         pc = "ended" => link.pc = "retry" \/ (link.pc = "loop" /\ started /\ stopAsked),
         process = "running" => pc \in {"register", "send", "watch"},
         cancelled' \in BOOLEAN, registered' \in BOOLEAN, opened' \in BOOLEAN,
         fault' \in BOOLEAN, clock' \in {"early", "late", "over"},
         UNCHANGED <<closing, stopAsked, process, device_, node, started>>
  PROVE  LinkInv'
<1>1. link' \in LinkRecords /\ link'.pc = pc
  BY LinkGoes DEF LinkInv
<1>2. Link!TypeOK'
  BY <1>1 DEF LinkInv, Link!TypeOK, LinkRecords
<1>3. ProcessIsWatched' /\ DeviceIsUsed' /\ NextIsKnown'
  BY <1>1 DEF LinkInv, ProcessIsWatched, DeviceIsUsed, NextIsKnown
<1> QED  BY <1>2, <1>3 DEF LinkInv

\* A step of the joystick thread that opens or closes the device, or starts the process.
LEMMA LinkArrives ==
  ASSUME LinkInv, link' \in LinkRecords, link'.pc # "unregister",
         link'.pc \in {"loop", "retry", "ended"} => device_' = FALSE,
         process' = "running" => link'.pc \in {"register", "send", "watch"},
         process' \in {"none", "running", "exited"}, device_' \in BOOLEAN,
         cancelled' \in BOOLEAN, registered' \in BOOLEAN,
         UNCHANGED <<closing, stopAsked, node, clock, fault, started, opened>>
  PROVE  LinkInv'
<1>1. Link!TypeOK'
  BY DEF LinkInv, Link!TypeOK, LinkRecords
<1>2. ProcessIsWatched' /\ DeviceIsUsed' /\ NextIsKnown'
  BY DEF ProcessIsWatched, DeviceIsUsed, NextIsKnown
<1> QED  BY <1>1, <1>2 DEF LinkInv

\* A step of another thread moves neither the joystick thread nor the device open.
LEMMA LinkOthers ==
  ASSUME LinkInv, link' = link,
         Link!TypeOK', process' = process \/ process' = "exited",
         device_' = device_ \/ device_' = FALSE,
         device_' => (closing.pc \in ClosesYet => closing'.pc \in ClosesYet),
         started' = started, stopAsked' = stopAsked \/ closing'.pc \in ClosesYet
  PROVE  LinkInv'
BY DEF LinkInv, ProcessIsWatched, DeviceIsUsed, NextIsKnown

\* Each step of the joystick thread, from the evdev search to its end, keeps LinkInv.
LEMMA LinkJoystick ==
  ASSUME LinkInv, Link!Joystick
  PROVE  LinkInv'
<1> USE DEF Link!At
<1>0. Link!TypeOK
  BY DEF LinkInv
<1>p. \A pc \in {"loop", "look", "clear", "closeOld", "find", "passive", "spawn", "register",
                 "send", "watch", "final", "activate", "prepare", "session", "failed", "cleanup",
                 "close", "retry", "prepared", "never", "ended"} : pc \in Link!Places \ {"unregister"}
  BY DEF Link!Places, Link!Searching
<1>r. process = "running" => link.pc \in {"register", "send", "watch"}
  BY DEF LinkInv, ProcessIsWatched
<1>1. CASE Link!Loop
  <2>1. PICK pc \in {"ended", "prepared", "prepare", "look"} :
          Link!Goes(pc) /\ (pc = "ended" => started /\ stopAsked)
    BY <1>0, <1>1 DEF Link!Loop, Link!Leaves, Link!TypeOK
  <2>2. opened' \in BOOLEAN
    BY <1>0, <1>1 DEF Link!Loop, Link!TypeOK
  <2> QED  BY <1>0, <1>1, <1>p, <1>r, <2>1, <2>2, LinkMoves DEF Link!Loop, Link!TypeOK
<1>2. CASE Link!Look
  BY <1>0, <1>2, <1>p, <1>r, LinkMoves DEF Link!Look, Link!TypeOK
<1>3. CASE Link!Clear
  BY <1>0, <1>3, <1>p, <1>r, LinkMoves DEF Link!Clear, Link!TypeOK
<1>4. CASE Link!CloseOld
  <2>1. link' \in LinkRecords /\ link'.pc = "find"
    BY <1>0, <1>4, <1>p, LinkGoes DEF Link!CloseOld
  <2>2. /\ process \in {"none", "running", "exited"} /\ process # "running"
        /\ cancelled \in BOOLEAN /\ registered \in BOOLEAN
    BY <1>0, <1>4, <1>r DEF Link!CloseOld, Link!TypeOK
  <2> QED  BY <1>4, <2>1, <2>2, LinkArrives DEF Link!CloseOld
<1>5. CASE Link!Find
  <2>1. PICK pc \in {"activate", "passive", "failed"} : Link!Goes(pc)
    BY <1>5 DEF Link!Find
  <2> QED  BY <1>0, <1>5, <1>p, <1>r, <2>1, LinkMoves DEF Link!Find, Link!TypeOK
<1>6. CASE Link!Passive \/ Link!Final
  <2>1. PICK pc \in {"activate", "spawn", "failed"} : Link!Goes(pc)
    BY <1>6 DEF Link!Passive, Link!Final, Link!WaitForNode
  <2> QED  BY <1>0, <1>6, <1>p, <1>r, <2>1, LinkMoves
           DEF Link!Passive, Link!Final, Link!WaitForNode, Link!TypeOK
<1>7. CASE Link!Spawn
  <2>1. CASE process' = "running" /\ Link!Goes("register")
    <3>1. link' \in LinkRecords /\ link'.pc = "register"
      BY <1>0, <1>p, <2>1, LinkGoes
    <3>2. device_ \in BOOLEAN /\ cancelled \in BOOLEAN /\ registered \in BOOLEAN
      BY <1>0 DEF Link!TypeOK
    <3> QED  BY <1>7, <2>1, <3>1, <3>2, LinkArrives DEF Link!Spawn
  <2>2. CASE UNCHANGED process /\ Link!Goes("failed")
    BY <1>0, <1>7, <1>p, <1>r, <2>2, LinkMoves DEF Link!Spawn, Link!TypeOK
  <2> QED  BY <1>7, <2>1, <2>2 DEF Link!Spawn
<1>8. CASE Link!Register
  BY <1>0, <1>8, <1>p, <1>r, LinkMoves DEF Link!Register, Link!TypeOK
<1>9. CASE Link!Send \/ Link!Watch
  <2>1. CASE Link!Goes("watch") /\ UNCHANGED process
    BY <1>0, <1>9, <1>p, <1>r, <2>1, LinkMoves DEF Link!Send, Link!Watch, Link!TypeOK
  <2>2. ASSUME process' = "none", NEW next \in {"final", "failed", "activate"},
               link' = [pc |-> "unregister", next |-> next]
        PROVE  LinkInv'
    <3>1. link' \in LinkRecords
      BY <2>2 DEF LinkRecords, Link!Places, Link!Searching
    <3>2. UNCHANGED <<closing, stopAsked, cancelled, registered, device_, node, clock, fault,
                      started, opened>>
      BY <1>9 DEF Link!Send, Link!Watch
    <3>3. Link!TypeOK'
      BY <1>0, <2>2, <3>1, <3>2 DEF Link!TypeOK, LinkRecords
    <3>4. link'.pc = "unregister" /\ link'.next \in {"final", "activate", "failed"}
      BY <2>2
    <3> QED  BY <2>2, <3>3, <3>4 DEF LinkInv, ProcessIsWatched, DeviceIsUsed, NextIsKnown
  <2> QED  BY <1>9, <2>1, <2>2 DEF Link!Send, Link!Watch
<1>10. CASE Link!Unregister
  <2>1. /\ link'.pc \in {"final", "activate", "failed"}
        /\ link' \in LinkRecords
    <3>1. link.next \in {"final", "activate", "failed"}
      BY <1>10 DEF Link!Unregister, LinkInv, NextIsKnown
    <3> QED  BY <1>10, <3>1 DEF Link!Unregister, LinkRecords, Link!Places, Link!Searching
  <2>2. /\ process \in {"none", "running", "exited"} /\ process # "running"
        /\ device_ \in BOOLEAN /\ cancelled \in BOOLEAN
    BY <1>0, <1>10, <1>r DEF Link!Unregister, Link!TypeOK
  <2> QED  BY <1>10, <2>1, <2>2, LinkArrives DEF Link!Unregister
<1>11. CASE Link!Activate
  <2>1. link' \in LinkRecords /\ link'.pc = "prepare"
    BY <1>0, <1>11, <1>p, LinkGoes DEF Link!Activate
  <2>2. /\ process \in {"none", "running", "exited"} /\ process # "running"
        /\ cancelled \in BOOLEAN /\ registered \in BOOLEAN
    BY <1>0, <1>11, <1>r DEF Link!Activate, Link!TypeOK
  <2> QED  BY <1>11, <2>1, <2>2, LinkArrives DEF Link!Activate
<1>12. CASE Link!Prepare
  <2>1. PICK pc \in {"session", "prepared", "failed"} : Link!Goes(pc)
    BY <1>12 DEF Link!Prepare
  <2>2. opened' \in BOOLEAN
    BY <1>0, <1>12 DEF Link!Prepare, Link!TypeOK
  <2> QED  BY <1>0, <1>12, <1>p, <1>r, <2>1, <2>2, LinkMoves DEF Link!Prepare, Link!TypeOK
<1>13. CASE Link!Session
  <2>1. PICK pc \in {"cleanup", "failed"} : Link!Goes(pc)
    BY <1>13 DEF Link!Session
  <2> QED  BY <1>0, <1>13, <1>p, <1>r, <2>1, LinkMoves DEF Link!Session, Link!TypeOK
<1>14. CASE Link!Failed \/ Link!Cleanup
  <2>1. PICK pc \in {"prepared", "cleanup", "close"} : Link!Goes(pc)
    BY <1>14 DEF Link!Failed, Link!Cleanup
  <2>2. /\ fault' \in BOOLEAN /\ cancelled' \in BOOLEAN
        /\ registered' \in BOOLEAN /\ opened' \in BOOLEAN /\ clock' \in {"early", "late", "over"}
        /\ link.pc \in {"failed", "cleanup"}
        /\ UNCHANGED <<closing, stopAsked, process, device_, node, started>>
    BY <1>0, <1>14 DEF Link!Failed, Link!Cleanup, Link!TypeOK
  <2> QED  BY <1>p, <1>r, <2>1, <2>2, LinkMoves
<1>15. CASE Link!CloseDevice
  <2>1. link' \in LinkRecords /\ link'.pc = "retry"
    BY <1>0, <1>15, <1>p, LinkGoes DEF Link!CloseDevice
  <2>2. /\ process \in {"none", "running", "exited"} /\ process # "running"
        /\ cancelled \in BOOLEAN /\ registered \in BOOLEAN
    BY <1>0, <1>15, <1>r DEF Link!CloseDevice, Link!TypeOK
  <2> QED  BY <1>15, <2>1, <2>2, LinkArrives DEF Link!CloseDevice, Link!NoDevice
<1>16. CASE Link!Retry
  <2>1. PICK pc \in {"ended", "prepared", "loop"} : Link!Goes(pc)
    BY <1>16 DEF Link!Retry, Link!Leaves
  <2> QED  BY <1>0, <1>16, <1>p, <1>r, <2>1, LinkMoves DEF Link!Retry, Link!TypeOK
<1>17. CASE Link!Start
  <2>1. link' \in LinkRecords /\ link'.pc = "loop"
    BY <1>0, <1>17, <1>p, LinkGoes DEF Link!Start
  <2>2. Link!TypeOK'
    BY <1>0, <1>17, <2>1 DEF Link!Start, Link!TypeOK, LinkRecords
  <2>3. stopAsked' = FALSE /\ process' # "running"
    BY <1>17, <1>r DEF Link!Start
  <2>4. ProcessIsWatched' /\ DeviceIsUsed' /\ NextIsKnown'
    BY <2>1, <2>3 DEF ProcessIsWatched, DeviceIsUsed, NextIsKnown
  <2> QED  BY <2>2, <2>4 DEF LinkInv
<1>18. CASE Link!NeverStarts
  BY <1>0, <1>18, <1>p, <1>r, LinkMoves DEF Link!NeverStarts, Link!TypeOK
<1> QED  BY <1>1, <1>2, <1>3, <1>4, <1>5, <1>6, <1>7, <1>8, <1>9, <1>10, <1>11, <1>12, <1>13,
            <1>14, <1>15, <1>16, <1>17, <1>18 DEF Link!Joystick

\* So does each step of the stopping thread, of the environment and of the clock.
LEMMA LinkNext ==
  ASSUME LinkInv, [Link!Next]_Link!link_vars
  PROVE  LinkInv'
<1>0. Link!TypeOK
  BY DEF LinkInv
<1>1. CASE Link!StopBegins \/ Link!Stopper
  <2>1. Link!TypeOK'
    <3>1. closing' \in [pc : {"idle", "cancel", "peek", "terminate", "close", "forget",
                               "join", "done"}, holds : BOOLEAN]
      BY <1>0, <1>1
      DEF Link!StopBegins, Link!Stopper, Link!Cancel, Link!PeekProcess, Link!TerminateHeld,
          Link!CloseForStop, Link!ForgetPrepared, Link!Join, Link!Then, Link!TypeOK
    <3>2. process' \in {"none", "running", "exited"} /\ device_' \in BOOLEAN
      BY <1>0, <1>1
      DEF Link!StopBegins, Link!Stopper, Link!Cancel, Link!PeekProcess, Link!TerminateHeld,
          Link!CloseForStop, Link!ForgetPrepared, Link!Join, Link!TypeOK
    <3>3. /\ stopAsked' \in BOOLEAN /\ cancelled' \in BOOLEAN
          /\ opened' \in BOOLEAN
          /\ UNCHANGED <<link, registered, node, clock, fault, started>>
      BY <1>0, <1>1
      DEF Link!StopBegins, Link!Stopper, Link!Cancel, Link!PeekProcess, Link!TerminateHeld,
          Link!CloseForStop, Link!ForgetPrepared, Link!Join, Link!TypeOK
    <3> QED  BY <1>0, <3>1, <3>2, <3>3 DEF Link!TypeOK
  <2>2. /\ device_' => (closing.pc \in ClosesYet => closing'.pc \in ClosesYet)
        /\ stopAsked' = stopAsked \/ closing'.pc \in ClosesYet
        /\ device_' = device_ \/ device_' = FALSE
    BY <1>0, <1>1
    DEF Link!StopBegins, Link!Stopper, Link!Cancel, Link!PeekProcess, Link!TerminateHeld,
        Link!CloseForStop, Link!ForgetPrepared, Link!Join, Link!Then, Link!TypeOK, ClosesYet
  <2>3. link' = link /\ started' = started /\ (process' = process \/ process' = "exited")
    BY <1>1
    DEF Link!StopBegins, Link!Stopper, Link!Cancel, Link!PeekProcess, Link!TerminateHeld,
        Link!CloseForStop, Link!ForgetPrepared, Link!Join
  <2> QED  BY <2>1, <2>2, <2>3, LinkOthers
<1>2. CASE Link!NodeChanges \/ Link!ProcessExits \/ Link!TimePasses
  <2>1. Link!TypeOK'
    <3>1. CASE Link!NodeChanges
      BY <1>0, <3>1 DEF Link!NodeChanges, Link!TypeOK
    <3>2. CASE Link!ProcessExits
      BY <1>0, <3>2 DEF Link!ProcessExits, Link!TypeOK
    <3>3. CASE Link!TimePasses
      BY <1>0, <3>3 DEF Link!TimePasses, Link!TypeOK
    <3> QED  BY <1>2, <3>1, <3>2, <3>3
  <2> QED  BY <1>2, <2>1, LinkOthers DEF Link!NodeChanges, Link!ProcessExits, Link!TimePasses
<1>3. CASE UNCHANGED Link!link_vars
  BY <1>3 DEF Link!link_vars, LinkInv, Link!TypeOK, ProcessIsWatched, DeviceIsUsed, NextIsKnown
<1> QED  BY <1>1, <1>2, <1>3, LinkJoystick DEF Link!Next

\* When an attempt is over, or the joystick thread has ended, no bluetoothctl runs
\* and no device is open that the stopping thread will not close, wherever the stop, a
\* lost node or a deadline found it.
THEOREM LinkLeavesNothing == Link!Spec => []NothingLeftBehind
<1>1. LinkInv => NothingLeftBehind
  BY DEF LinkInv, ProcessIsWatched, DeviceIsUsed, ClosesYet, NothingLeftBehind,
         Link!NothingLeftBehind, Link!At
<1> QED  BY <1>1, LinkInit, LinkNext, PTL DEF Link!Spec

-----------------------------------------------------------------------------
(* OperatorSetup                                                           *)

Choices ==
  [command : {"LOCAL", "REMOTE"}, control : {"MANUAL", "AUTOMATIC"}, front : {"NOSE", "TAIL"},
   drive : {"DIFFERENTIAL", "MECANUM"}, centric : {"CHASSIS", "FIELD"},
   differential_mode : {"R-BOGIE", "DUOWHELL"}]

Screens == {"command", "drive"}

\* The artwork of an open screen is that of the parameters it works on.
DrawnIsChoice == screen \in Screens => drawn[screen] = Setup!Artwork(screen, choice)

\* On the drive screen the mode is LOCAL with the stored parameters, as it was
\* confirmed on the command screen before.
DriveFollowsCommand ==
  screen = "drive" =>
    mode = Setup!LOCALMode(local) /\ drawn["command"] = <<"LOCAL", local.control>>

SetupInv ==
  /\ Setup!TypeOK /\ choice \in Choices /\ DOMAIN drawn = Screens
  /\ DrawnIsChoice /\ DriveFollowsCommand /\ ModeIsAsShown

\* Every screen has options, the confirmation among them.
LEMMA OptionsLength ==
  ASSUME NEW s, NEW c
  PROVE  /\ Len(Setup!Options(s, c)) \in {2, 3, 4}
         /\ DOMAIN Setup!Options(s, c) = 1..Len(Setup!Options(s, c))
         /\ "confirm" \in Setup!ToSet(Setup!Options(s, c))
<1>1. CASE s = "drive"
  <2>1. Setup!Options(s, c) = <<"front", "drive", "detail", "confirm">>
    BY <1>1 DEF Setup!Options
  <2> QED  BY <2>1 DEF Setup!ToSet
<1>2. CASE s # "drive" /\ c.command = "REMOTE"
  <2>1. Setup!Options(s, c) = <<"command", "confirm">>
    BY <1>2 DEF Setup!Options
  <2> QED  BY <2>1 DEF Setup!ToSet
<1>3. CASE s # "drive" /\ c.command # "REMOTE"
  <2>1. Setup!Options(s, c) = <<"command", "control", "confirm">>
    BY <1>3 DEF Setup!Options
  <2> QED  BY <2>1 DEF Setup!ToSet
<1> QED  BY <1>1, <1>2, <1>3

\* Moving the cursor, around either end, leads to an option.
LEMMA MovedIsOption ==
  ASSUME NEW s, NEW c, NEW option \in Setup!ToSet(Setup!Options(s, c)), NEW step \in {-1, 1}
  PROVE  Setup!Moved(s, c, option, step) \in Setup!ToSet(Setup!Options(s, c))
<1> DEFINE options == Setup!Options(s, c)
           n == Len(options)
           i == Setup!Index(options, option)
<1>1. n \in {2, 3, 4} /\ DOMAIN options = 1..n
  BY OptionsLength
<1>2. i \in 1..n
  BY <1>1 DEF Setup!Index, Setup!ToSet
<1>3. ((i - 1 + step) % n) + 1 \in 1..n
  <2> HIDE DEF i, n
  <2> QED  BY <1>1, <1>2
<1> QED  BY <1>1, <1>3 DEF Setup!Moved, Setup!ToSet

\* The options of a screen are among the six cursors.
LEMMA OptionsAreCursors ==
  ASSUME NEW s, NEW c
  PROVE  /\ Setup!ToSet(Setup!Options(s, c)) \subseteq
              {"command", "control", "front", "drive", "detail", "confirm"}
         /\ s = "drive" => Setup!ToSet(Setup!Options(s, c)) \subseteq
                             {"front", "drive", "detail", "confirm"}
         /\ s = "command" => Setup!ToSet(Setup!Options(s, c)) \subseteq
                             {"command", "control", "confirm"}
<1>1. CASE s = "drive"
  <2>1. Setup!Options(s, c) = <<"front", "drive", "detail", "confirm">>
    BY <1>1 DEF Setup!Options
  <2> QED  BY <1>1, <2>1 DEF Setup!ToSet
<1>2. CASE s # "drive" /\ c.command = "REMOTE"
  <2>1. Setup!Options(s, c) = <<"command", "confirm">>
    BY <1>2 DEF Setup!Options
  <2> QED  BY <1>2, <2>1 DEF Setup!ToSet
<1>3. CASE s # "drive" /\ c.command # "REMOTE"
  <2>1. Setup!Options(s, c) = <<"command", "control", "confirm">>
    BY <1>3 DEF Setup!Options
  <2> QED  BY <1>3, <2>1 DEF Setup!ToSet
<1> QED  BY <1>1, <1>2, <1>3

\* What a screen opens with, for any mode in force, is a choice.
LEMMA OpenedChoice ==
  ASSUME NEW m \in {Setup!REMOTE} \cup {Setup!LOCALMode(p) : p \in Setup!Parameters},
         NEW l \in Setup!Parameters
  PROVE  Setup!Opened(m, l) \in Choices
<1>1. CASE m = Setup!REMOTE
  BY <1>1 DEF Setup!REMOTE, Setup!Opened, Setup!Or, Setup!NA, Setup!Parameters, Choices
<1>2. ASSUME NEW p \in Setup!Parameters, m = Setup!LOCALMode(p)
      PROVE  Setup!Opened(m, l) \in Choices
  BY <1>2 DEF Setup!LOCALMode, Setup!Opened, Setup!Or, Setup!NA, Setup!Parameters, Choices
<1> QED  BY <1>1, <1>2

\* A toggle keeps the options of the screen that had the cursor.
LEMMA ToggledChoice ==
  ASSUME NEW c \in Choices, NEW s \in Screens,
         NEW option \in Setup!ToSet(Setup!Options(s, c)), option # "confirm"
  PROVE  /\ Setup!Toggled(c, option) \in Choices
         /\ option \in Setup!ToSet(Setup!Options(s, Setup!Toggled(c, option)))
<1>1. option \in {"command", "control", "front", "drive", "detail"}
  BY OptionsAreCursors
<1>2. Setup!Toggled(c, option) \in Choices
  BY <1>1 DEF Setup!Toggled, Setup!Other, Choices
<1>3. CASE s = "drive"
  BY <1>2, <1>3 DEF Setup!Options
<1>4. CASE s = "command" /\ option = "command"
  <2>1. /\ <<"command", "confirm">>[1] = "command"
        /\ <<"command", "control", "confirm">>[1] = "command"
    OBVIOUS
  <2> QED  BY <1>2, <1>4, <2>1 DEF Setup!Options, Setup!ToSet
<1>5. CASE s = "command" /\ option = "control"
  <2>1. c.command # "REMOTE"
    BY <1>5 DEF Setup!Options, Setup!ToSet
  <2>2. Setup!Toggled(c, option).command = c.command
    BY <1>5 DEF Setup!Toggled, Choices
  <2> QED  BY <1>2, <1>5, <2>1, <2>2 DEF Setup!Options
<1>6. s = "command" => option \in {"command", "control"}
  BY OptionsAreCursors
<1> QED  BY <1>2, <1>3, <1>4, <1>5, <1>6 DEF Screens

\* The defaults of LOCAL are a mode that can be chosen.
LEMMA DefaultsType ==
  /\ Setup!Defaults \in Setup!Parameters
  /\ Setup!LOCALMode(Setup!Defaults) \in {Setup!LOCALMode(p) : p \in Setup!Parameters}
BY DEF Setup!Defaults, Setup!Parameters

\* The first screen is drawn as it is opened.
LEMMA SetupInit == Setup!Init => SetupInv
<1> SUFFICES ASSUME Setup!Init PROVE SetupInv
  OBVIOUS
<1>1. choice \in Choices
  BY DefaultsType, OpenedChoice DEF Setup!Init
<1>2. Setup!TypeOK
  BY DefaultsType, OptionsLength DEF Setup!Init, Setup!TypeOK
<1>3. DOMAIN drawn = Screens /\ drawn["command"] = Setup!Artwork("command", choice)
  BY DEF Setup!Init, Screens
<1>4. screen = "command"
  BY DEF Setup!Init
<1> QED  BY <1>1, <1>2, <1>3, <1>4
         DEF SetupInv, DrawnIsChoice, DriveFollowsCommand, ModeIsAsShown, Setup!ModeIsAsShown

\* A press that stays on its screen and changes no stored parameter.
LEMMA SetupStays ==
  ASSUME SetupInv, NEW s \in Screens, screen = s, screen' = s,
         choice' \in Choices, cursor' \in Setup!ToSet(Setup!Options(s, choice')),
         drawn' = [drawn EXCEPT ![s] = Setup!Artwork(s, choice')],
         UNCHANGED <<local, mode>>
  PROVE  SetupInv'
<1>1. drawn'[s] = Setup!Artwork(s, choice') /\ DOMAIN drawn' = Screens
      /\ (s = "drive" => drawn'["command"] = drawn["command"])
  BY DEF SetupInv, Screens
<1>2. Setup!TypeOK'
  BY OptionsAreCursors DEF SetupInv, Setup!TypeOK, Screens
<1>3. DrawnIsChoice' /\ DriveFollowsCommand' /\ ModeIsAsShown'
  BY <1>1 DEF SetupInv, DrawnIsChoice, DriveFollowsCommand, ModeIsAsShown, Setup!ModeIsAsShown,
              Screens
<1> QED  BY <1>1, <1>2, <1>3 DEF SetupInv

\* A move of the cursor redraws what it chose.
LEMMA MoveSetup ==
  ASSUME SetupInv, NEW s \in Screens, NEW button \in Setup!Buttons,
         Setup!Move(s, button) \/ Setup!Toggle(s, button)
  PROVE  SetupInv'
<1>0. cursor \in Setup!ToSet(Setup!Options(s, choice)) /\ choice \in Choices
  BY DEF SetupInv, Setup!TypeOK, Setup!Move, Setup!Toggle, Screens
<1>1. CASE Setup!Move(s, button)
  <2>1. choice' = choice
    BY <1>1 DEF Setup!Move
  <2>2. cursor' \in Setup!ToSet(Setup!Options(s, choice))
    <3>1. PICK step \in {-1, 1} : cursor' = Setup!Moved(s, choice, cursor, step)
      BY <1>1 DEF Setup!Move
    <3> QED  BY <1>0, <3>1, MovedIsOption
  <2> QED  BY <1>0, <1>1, <2>1, <2>2, SetupStays DEF Setup!Move
<1>2. CASE Setup!Toggle(s, button)
  <2>1. cursor # "confirm" /\ cursor' = cursor /\ choice' = Setup!Toggled(choice, cursor)
    BY <1>2 DEF Setup!Toggle
  <2>2. choice' \in Choices /\ cursor' \in Setup!ToSet(Setup!Options(s, choice'))
    BY <1>0, <2>1, ToggledChoice
  <2> QED  BY <1>2, <2>2, SetupStays DEF Setup!Toggle
<1> QED  BY <1>1, <1>2

\* Opening a screen for a mode and parameters of their types.
LEMMA OpenSetup ==
  ASSUME SetupInv, NEW s \in Screens,
         mode' \in {Setup!REMOTE} \cup {Setup!LOCALMode(p) : p \in Setup!Parameters},
         local' \in Setup!Parameters, Setup!Open(s, mode', local')
  PROVE  /\ Setup!TypeOK' /\ choice' \in Choices /\ DOMAIN drawn' = Screens
         /\ DrawnIsChoice' /\ ModeIsAsShown' /\ screen' = s
         /\ s = "drive" => drawn'["command"] = drawn["command"]
<1>1. screen' = s /\ cursor' = "confirm" /\ choice' \in Choices
  BY OpenedChoice DEF Setup!Open
<1>2. /\ drawn'[s] = Setup!Artwork(s, choice') /\ DOMAIN drawn' = Screens
      /\ s = "drive" => drawn'["command"] = drawn["command"]
  BY DEF Setup!Open, SetupInv, Screens
<1>3. Setup!TypeOK'
  BY <1>1, OptionsLength DEF Setup!TypeOK, Screens
<1>4. DrawnIsChoice' /\ ModeIsAsShown'
  BY <1>1, <1>2 DEF DrawnIsChoice, ModeIsAsShown, Setup!ModeIsAsShown, Screens
<1> QED  BY <1>1, <1>2, <1>3, <1>4

\* Confirming the command screen opens the drive screen or ends the setup.
LEMMA CommandSetup ==
  ASSUME SetupInv, NEW button \in Setup!Buttons, Setup!ConfirmCommand(button)
  PROVE  SetupInv'
<1>0. choice \in Choices /\ local \in Setup!Parameters /\ screen = "command"
  BY DEF SetupInv, Setup!TypeOK, Setup!ConfirmCommand
<1>1. drawn["command"] = <<choice.command, IF choice.command = "REMOTE" THEN "NONE"
                                           ELSE choice.control>>
  BY <1>0 DEF SetupInv, DrawnIsChoice, Setup!Artwork, Setup!NA, Screens
<1>2. CASE choice.command = "REMOTE"
  <2>1. /\ local' = local /\ mode' = Setup!REMOTE /\ screen' = "assembled"
        /\ UNCHANGED <<cursor, choice, drawn>>
    BY <1>2 DEF Setup!ConfirmCommand
  <2>2. Setup!TypeOK'
    BY <2>1 DEF SetupInv, Setup!TypeOK
  <2>3. ModeIsAsShown'
    BY <1>1, <1>2, <2>1
    DEF ModeIsAsShown, Setup!ModeIsAsShown, Setup!Artwork, Setup!REMOTE, Setup!NA
  <2> QED  BY <2>1, <2>2, <2>3 DEF SetupInv, DrawnIsChoice, DriveFollowsCommand, Screens
<1>3. CASE choice.command # "REMOTE"
  <2>1. /\ local' = [local EXCEPT !.control = choice.control]
        /\ mode' = Setup!LOCALMode(local') /\ Setup!Open("drive", mode', local')
    BY <1>3 DEF Setup!ConfirmCommand
  <2>2. local' \in Setup!Parameters /\ local'.control = choice.control
    BY <1>0, <2>1 DEF Setup!Parameters, Choices
  <2>3. choice.command = "LOCAL"
    BY <1>0, <1>3 DEF Choices
  <2>4. /\ Setup!TypeOK' /\ choice' \in Choices /\ DOMAIN drawn' = Screens
        /\ DrawnIsChoice' /\ ModeIsAsShown' /\ screen' = "drive"
        /\ drawn'["command"] = drawn["command"]
    BY <2>1, <2>2, OpenSetup DEF Screens
  <2> QED  BY <1>1, <2>1, <2>2, <2>3, <2>4 DEF SetupInv, DriveFollowsCommand
<1> QED  BY <1>2, <1>3

\* Confirming the drive screen puts the mode in force that both artworks show.
LEMMA DriveSetup ==
  ASSUME SetupInv, NEW button \in Setup!Buttons, Setup!ConfirmDrive(button)
  PROVE  SetupInv'
<1>0. /\ choice \in Choices /\ local \in Setup!Parameters /\ screen = "drive"
      /\ screen' = "assembled" /\ UNCHANGED <<cursor, choice, drawn>>
      /\ local' = Setup!Stored(local, choice) /\ mode' = Setup!LOCALMode(local')
  BY DEF SetupInv, Setup!TypeOK, Setup!ConfirmDrive
<1>1. /\ local' \in Setup!Parameters /\ local'.control = local.control
      /\ local'.front = choice.front /\ local'.drive = choice.drive
      /\ choice.drive = "MECANUM" => local'.centric = choice.centric
      /\ choice.drive # "MECANUM" => local'.differential_mode = choice.differential_mode
  BY <1>0 DEF Setup!Stored, Setup!Parameters, Choices
<1>2. Setup!TypeOK'
  BY <1>0, <1>1 DEF SetupInv, Setup!TypeOK
<1>3. drawn["command"] = Setup!Artwork("command", mode')
  BY <1>0, <1>1 DEF SetupInv, DriveFollowsCommand, Setup!Artwork, Setup!LOCALMode, Setup!NA
<1>4. drawn["drive"] = Setup!Artwork("drive", mode')
  BY <1>0, <1>1 DEF SetupInv, DrawnIsChoice, Setup!Artwork, Setup!LOCALMode, Setup!NA, Screens
<1> QED  BY <1>0, <1>2, <1>3, <1>4
         DEF SetupInv, DrawnIsChoice, DriveFollowsCommand, ModeIsAsShown, Setup!ModeIsAsShown,
             Screens

\* Every press keeps SetupInv.
LEMMA SetupNext ==
  ASSUME SetupInv, [Setup!Next]_Setup!setup_vars
  PROVE  SetupInv'
<1>1. ASSUME NEW button \in Setup!Buttons, Setup!Back(button)
      PROVE  SetupInv'
  <2>1. /\ mode' = mode /\ local' = local /\ Setup!Open("command", mode', local')
        /\ mode \in {Setup!REMOTE} \cup {Setup!LOCALMode(p) : p \in Setup!Parameters}
        /\ local \in Setup!Parameters
    BY <1>1 DEF Setup!Back, SetupInv, Setup!TypeOK
  <2>2. /\ Setup!TypeOK' /\ choice' \in Choices /\ DOMAIN drawn' = Screens
        /\ DrawnIsChoice' /\ ModeIsAsShown' /\ screen' = "command"
    BY <2>1, OpenSetup DEF Screens
  <2> QED  BY <2>2 DEF SetupInv, DriveFollowsCommand
<1>2. ASSUME NEW s \in Screens, NEW button \in Setup!Buttons,
             Setup!Cancel(s, button) \/ Setup!Fail(s)
      PROVE  SetupInv'
  <2>1. screen' \in {"cancelled", "failed"} /\ UNCHANGED <<cursor, choice, local, mode, drawn>>
    BY <1>2 DEF Setup!Cancel, Setup!Fail
  <2> QED  BY <2>1 DEF SetupInv, Setup!TypeOK, DrawnIsChoice, DriveFollowsCommand, ModeIsAsShown,
                       Setup!ModeIsAsShown, Screens
<1>3. CASE UNCHANGED Setup!setup_vars
  BY <1>3 DEF Setup!setup_vars, SetupInv, Setup!TypeOK, DrawnIsChoice, DriveFollowsCommand,
              ModeIsAsShown, Setup!ModeIsAsShown
<1> QED  BY <1>1, <1>2, <1>3, MoveSetup, CommandSetup, DriveSetup DEF Setup!Next, Screens

\* Hence it always holds.
LEMMA SetupInvariant == Setup!Spec => []SetupInv
BY SetupInit, SetupNext, PTL DEF Setup!Spec

\* The application is assembled for the mode the operator saw on the screens that
\* were passed, after any presses.
THEOREM AssembledAsShown == Setup!Spec => []ModeIsAsShown
<1>1. SetupInv => ModeIsAsShown
  BY DEF SetupInv
<1> QED  BY <1>1, SetupInvariant, PTL

-----------------------------------------------------------------------------
(* OperationStatus, for any number of status pages and of failed drawings  *)

\* An alert is started only while the Bluetooth error is on the screen.
AlertIsDue == call \in {"lost", "begin"} => bluetooth = TRUE /\ startup = FALSE

\* The adapter holds the buzzer that sounds, but for the moment in which it begins.
SoundIsHeld == sounds => held \/ call = "begin" \/ outlived

\* The buzzer is silenced before the screen of the connection is shown.
SilentIfConnected == call = "connected" => ~sounds \/ outlived

SilentOnPages == sounds => ~Screen!Normal \/ outlived

\* After the end only a joystick thread that outlived its join goes on.
EndIsKnown ==
  /\ phase # "stopped" => outlived = FALSE
  /\ phase = "stopped" /\ call \notin {"none", "ended"} => outlived
  /\ phase = "stopped" => ~sounds \/ outlived

BuzzerInv == AlertIsDue /\ SoundIsHeld /\ SilentIfConnected /\ SilentOnPages /\ EndIsKnown

ShowsDue == display = Screen!Due \/ undrawn

ScreenInv == Screen!TypeOK /\ ShowsDue /\ BuzzerInv

\* What is due is a screen there is.
LEMMA DueIsShown ==
  ASSUME Screen!TypeOK
  PROVE  Screen!Due \in {Screen!Startup, Screen!Error} \cup Screen!Pages
BY DEF Screen!TypeOK, Screen!Due

\* At first the display shows what is due and the buzzer is silent.
LEMMA ScreenInit ==
  ASSUME Screen!Init
  PROVE  ScreenInv
<1>1. 0 \in Screen!Pages /\ 0 \in 0..MaxDrawErrors
  BY DevicesAssumption DEF DevicesAssumption, Screen!Pages
<1>2. display = Screen!Due /\ Screen!Due \in {Screen!Startup, Screen!Error} \cup Screen!Pages
  BY <1>1 DEF Screen!Init, Screen!Due
<1>3. Screen!TypeOK
  BY <1>1, <1>2 DEF Screen!Init, Screen!TypeOK
<1>4. BuzzerInv
  BY DEF Screen!Init, BuzzerInv, AlertIsDue, SoundIsHeld, SilentIfConnected, SilentOnPages,
         EndIsKnown
<1> QED  BY <1>2, <1>3, <1>4 DEF ScreenInv, ShowsDue

\* A drawing comes last: it shows what the flags demand by then, or is noted as failed.
LEMMA DrawingShowsDue ==
  ASSUME Screen!TypeOK, Screen!Drawn \/ Screen!NotDrawn,
         startup' \in BOOLEAN, bluetooth' \in BOOLEAN, page' \in Screen!Pages
  PROVE  /\ ShowsDue'
         /\ display' \in {Screen!Startup, Screen!Error} \cup Screen!Pages
         /\ undrawn' \in BOOLEAN /\ drawErrors' \in 0..MaxDrawErrors
<1>1. CASE Screen!Drawn
  <2>1. Screen!Due' \in {Screen!Startup, Screen!Error} \cup Screen!Pages
    BY DEF Screen!Due
  <2> QED  BY <1>1, <2>1 DEF Screen!Drawn, ShowsDue, Screen!TypeOK
<1>2. CASE Screen!NotDrawn
  <2>1. drawErrors' \in 0..MaxDrawErrors
    BY <1>2, DevicesAssumption DEF Screen!NotDrawn, Screen!TypeOK, DevicesAssumption
  <2> QED  BY <1>2, <2>1 DEF Screen!NotDrawn, ShowsDue, Screen!TypeOK
<1> QED  BY <1>1, <1>2

\* A step that draws nothing and leaves the flags and the page alone.
LEMMA SameShowsDue ==
  ASSUME ShowsDue, UNCHANGED <<startup, bluetooth, page, display, undrawn>>
  PROVE  ShowsDue'
BY DEF ShowsDue, Screen!Due

\* The page beside a page, around either end, is a page.
LEMMA AdjacentIsPage ==
  ASSUME Screen!TypeOK
  PROVE  Screen!Adjacent \in Screen!Pages
<1>1. page \in 0..LastPage
  BY DEF Screen!TypeOK, Screen!Pages
<1>2. \A n \in Nat : n % (LastPage + 1) \in 0..LastPage
  BY DevicesAssumption DEF DevicesAssumption
<1>3. page + LastPage \in Nat /\ page + 1 \in Nat
  BY <1>1, DevicesAssumption DEF DevicesAssumption
<1> QED  BY <1>2, <1>3 DEF Screen!Adjacent, Screen!Pages

\* Every step keeps the types of the screen and leaves on the display what is then due.
LEMMA ScreenShown ==
  ASSUME Screen!TypeOK, ShowsDue, [Screen!Next]_Screen!status_vars
  PROVE  Screen!TypeOK' /\ ShowsDue'
<1>1. CASE Screen!ShowStartup \/ Screen!ShowError \/ Screen!ShowConnected
  <2>1. /\ startup' \in BOOLEAN /\ bluetooth' \in BOOLEAN /\ page' = page
        /\ Screen!Drawn \/ Screen!NotDrawn
        /\ call' \in {"opened", "idle", "lost"} /\ owed' \in BOOLEAN
        /\ UNCHANGED <<held, sounds, refresher, pressed, latched, phase, outlived>>
    BY <1>1 DEF Screen!ShowStartup, Screen!ShowError, Screen!ShowConnected, Screen!TypeOK,
                Screen!buzzer, Screen!pages
  <2>2. page' \in Screen!Pages
    BY <2>1 DEF Screen!TypeOK
  <2> QED  BY <2>1, <2>2, DrawingShowsDue DEF Screen!TypeOK
<1>2. CASE Screen!StartAlert \/ Screen!BeginAlert \/ Screen!SilenceForConnection
           \/ Screen!JoystickEnds
  <2>1. /\ UNCHANGED <<startup, bluetooth, page, display, undrawn, refresher, pressed, latched,
                       phase, outlived, drawErrors>>
        /\ call' \in {"begin", "idle", "connected", "ended"}
        /\ owed' \in BOOLEAN /\ held' \in BOOLEAN /\ sounds' \in BOOLEAN
    BY <1>2 DEF Screen!StartAlert, Screen!BeginAlert, Screen!SilenceForConnection,
                Screen!JoystickEnds, Screen!StopAlert, Screen!TypeOK, Screen!buzzer, Screen!pages
  <2> QED  BY <2>1, SameShowsDue DEF Screen!TypeOK
<1>3. CASE Screen!ReadValues \/ Screen!Button
  <2>1. /\ UNCHANGED <<startup, bluetooth, page, display, undrawn, call, owed, held, sounds,
                       latched, phase, outlived, drawErrors>>
        /\ refresher' = refresher \/ refresher' = [reads |-> TRUE, page |-> page]
        /\ pressed' \in {"none", "left", "right"}
    BY <1>3 DEF Screen!ReadValues, Screen!Button, Screen!TypeOK, Screen!buzzer
  <2>2. refresher' \in [reads : BOOLEAN, page : Screen!Pages]
    <3>1. refresher \in [reads : BOOLEAN, page : Screen!Pages] /\ page \in Screen!Pages
      BY DEF Screen!TypeOK
    <3>2. [reads |-> TRUE, page |-> page] \in [reads : BOOLEAN, page : Screen!Pages]
      BY <3>1
    <3> QED  BY <2>1, <3>1, <3>2
  <2> QED  BY <2>1, <2>2, SameShowsDue DEF Screen!TypeOK
<1>4. CASE Screen!Paint
  <2>1. /\ UNCHANGED <<startup, bluetooth, page, call, owed, held, sounds, pressed, latched, phase,
                       outlived>>
        /\ refresher' \in [reads : BOOLEAN, page : Screen!Pages]
        /\ refresher.page \in Screen!Pages
    BY <1>4 DEF Screen!Paint, Screen!TypeOK, Screen!buzzer
  <2>2. CASE UNCHANGED <<display, undrawn, drawErrors>>
    BY <2>1, <2>2, SameShowsDue DEF Screen!TypeOK
  <2>3. CASE /\ Screen!StillCurrent /\ display' = refresher.page /\ undrawn' = FALSE
             /\ UNCHANGED drawErrors
    <3>1. display' = Screen!Due'
      BY <2>1, <2>3 DEF Screen!StillCurrent, Screen!Normal, Screen!Due
    <3>2. display' \in {Screen!Startup, Screen!Error} \cup Screen!Pages /\ undrawn' \in BOOLEAN
      BY <2>1, <2>3
    <3>3. ShowsDue'
      BY <3>1 DEF ShowsDue
    <3>4. Screen!TypeOK'
      BY <2>1, <2>3, <3>2 DEF Screen!TypeOK
    <3> QED  BY <3>3, <3>4
  <2>4. CASE Screen!NotDrawn
    <3>1. page' \in Screen!Pages /\ startup' \in BOOLEAN /\ bluetooth' \in BOOLEAN
      BY <2>1 DEF Screen!TypeOK
    <3> QED  BY <2>1, <2>4, <3>1, DrawingShowsDue DEF Screen!TypeOK
  <2> QED  BY <1>4, <2>2, <2>3, <2>4 DEF Screen!Paint
<1>5. CASE Screen!PollButtons
  <2>1. /\ UNCHANGED <<startup, bluetooth, call, owed, held, sounds, refresher, pressed, phase,
                       outlived>>
        /\ latched' \in BOOLEAN
    BY <1>5 DEF Screen!PollButtons, Screen!TypeOK, Screen!buzzer
  <2>2. CASE UNCHANGED <<page, display, undrawn, drawErrors>>
    BY <2>1, <2>2, SameShowsDue DEF Screen!TypeOK
  <2>3. CASE page' = Screen!Adjacent /\ (Screen!Drawn \/ Screen!NotDrawn)
    <3>1. page' \in Screen!Pages /\ startup' \in BOOLEAN /\ bluetooth' \in BOOLEAN
      BY <2>1, <2>3, AdjacentIsPage DEF Screen!TypeOK
    <3> QED  BY <2>1, <2>3, <3>1, DrawingShowsDue DEF Screen!TypeOK
  <2> QED  BY <1>5, <2>2, <2>3 DEF Screen!PollButtons
<1>6. CASE Screen!StopJoystick \/ Screen!StopScreen \/ Screen!SoundFails
  <2>1. /\ UNCHANGED <<startup, bluetooth, page, display, undrawn, call, owed, refresher, pressed,
                       latched, drawErrors>>
        /\ phase' \in {"running", "stopping", "stopped"}
        /\ held' \in BOOLEAN /\ sounds' \in BOOLEAN /\ outlived' \in BOOLEAN
    BY <1>6 DEF Screen!StopJoystick, Screen!StopScreen, Screen!SoundFails, Screen!StopAlert,
                Screen!TypeOK, Screen!buzzer, Screen!pages
  <2> QED  BY <2>1, SameShowsDue DEF Screen!TypeOK
<1>7. CASE UNCHANGED Screen!status_vars
  BY <1>7, SameShowsDue DEF Screen!status_vars, Screen!TypeOK
<1> QED  BY <1>1, <1>2, <1>3, <1>4, <1>5, <1>6, <1>7 DEF Screen!Next

\* Every step keeps what BuzzerInv says of the alert.
LEMMA BuzzerNext ==
  ASSUME Screen!TypeOK, BuzzerInv, [Screen!Next]_Screen!status_vars
  PROVE  BuzzerInv'
<1> USE DEF BuzzerInv, AlertIsDue, SoundIsHeld, SilentIfConnected, SilentOnPages, EndIsKnown,
            Screen!Normal, Screen!buzzer, Screen!pages
<1>1. CASE Screen!ShowStartup
  BY <1>1 DEF Screen!ShowStartup
<1>2. CASE Screen!ShowError
  BY <1>2 DEF Screen!ShowError
<1>3. CASE Screen!StartAlert
  BY <1>3 DEF Screen!StartAlert
<1>4. CASE Screen!BeginAlert
  BY <1>4 DEF Screen!BeginAlert, Screen!TypeOK
<1>5. CASE Screen!SilenceForConnection
  BY <1>5 DEF Screen!SilenceForConnection, Screen!StopAlert, Screen!TypeOK
<1>6. CASE Screen!ShowConnected
  BY <1>6 DEF Screen!ShowConnected
<1>7. CASE Screen!JoystickEnds
  BY <1>7 DEF Screen!JoystickEnds
<1>8. CASE Screen!ReadValues \/ Screen!Paint \/ Screen!Button \/ Screen!PollButtons
           \/ UNCHANGED Screen!status_vars
  <2>1. UNCHANGED <<startup, bluetooth, call, held, sounds, phase, outlived>>
    BY <1>8 DEF Screen!ReadValues, Screen!Paint, Screen!Button, Screen!PollButtons,
                Screen!status_vars
  <2> QED  BY <2>1
<1>9. CASE Screen!StopJoystick
  BY <1>9 DEF Screen!StopJoystick
<1>10. CASE Screen!StopScreen
  BY <1>10 DEF Screen!StopScreen, Screen!StopAlert, Screen!TypeOK
<1>11. CASE Screen!SoundFails
  BY <1>11 DEF Screen!SoundFails
<1> QED  BY <1>1, <1>2, <1>3, <1>4, <1>5, <1>6, <1>7, <1>8, <1>9, <1>10, <1>11 DEF Screen!Next

\* Hence ScreenInv always holds.
LEMMA ScreenInvariant == Screen!Spec => []ScreenInv
<1>1. ScreenInv /\ [Screen!Next]_Screen!status_vars => ScreenInv'
  BY ScreenShown, BuzzerNext DEF ScreenInv
<1> QED  BY ScreenInit, <1>1, PTL DEF Screen!Spec

\* The display shows what is due unless its last drawing failed, and the buzzer is
\* silent on the status pages and after the end, unless the joystick thread outlived
\* its join: for any interleaving of the three threads, any pages and any failures.
THEOREM ScreensAreTrue == Screen!Spec => []ScreenIsTrue
<1>1. ScreenInv => ScreenIsTrue
  BY DEF ScreenInv, ShowsDue, BuzzerInv, SilentOnPages, EndIsKnown, ScreenIsTrue,
         Screen!ScreenIsTrue
<1> QED  BY ScreenInvariant, <1>1, PTL

-----------------------------------------------------------------------------
(* JoystickEvents                                                          *)

\* The events of one source, an axis or the key, wait in the order in which they came.
SameSource(e, f) == e.type = f.type /\ e.code = f.code

Ordered(s) == \A j, k \in DOMAIN s : j < k /\ SameSource(s[j], s[k]) => s[j].value < s[k].value

Before(S, T) == \A e \in S, f \in T : SameSource(e, f) => e.value < f.value

Set(s) == Events!ToSet(s)

\* The events, their sources and their values.
LEMMA EventValues ==
  ASSUME NEW e \in Events!Events
  PROVE  /\ e.value \in Nat
         /\ e.type = "axis" => e.code \in Axes /\ e.value \in 0..MaxMoves /\ e = Events!AxisEvent(e.code, e.value)
         /\ e.type # "axis" => /\ e.type = "key" /\ e.code = "stop" /\ e.value \in 1..MaxPresses
                                /\ e = Events!KeyEvent(e.value)
BY DevicesAssumption DEF DevicesAssumption, Events!Events, Events!AxisEvent, Events!KeyEvent

\* A line ordered by source stays so when an event newer than all of its source comes
\* last.
LEMMA AppendEvents ==
  ASSUME NEW s \in Seq(Events!Events), NEW e \in Events!Events
  PROVE  /\ Append(s, e) \in Seq(Events!Events)
         /\ Len(Append(s, e)) = Len(s) + 1 /\ Len(s) \in Nat
         /\ DOMAIN Append(s, e) = 1..Len(s) + 1
         /\ \A j \in 1..Len(s) : Append(s, e)[j] = s[j]
         /\ Append(s, e)[Len(s) + 1] = e
         /\ Set(Append(s, e)) = Set(s) \cup {e}
         /\ Ordered(s) /\ Before(Set(s), {e}) => Ordered(Append(s, e))
<1>1. /\ Append(s, e) \in Seq(Events!Events)
      /\ Len(Append(s, e)) = Len(s) + 1 /\ Len(s) \in Nat
      /\ DOMAIN Append(s, e) = 1..Len(s) + 1
      /\ \A j \in 1..Len(s) : Append(s, e)[j] = s[j]
      /\ Append(s, e)[Len(s) + 1] = e
  BY LenProperties, AppendProperties
<1>2. DOMAIN s = 1..Len(s)
  BY LenProperties
<1>3. Set(Append(s, e)) = Set(s) \cup {e}
  BY <1>1, <1>2 DEF Set, Events!ToSet
<1>4. ASSUME Ordered(s), Before(Set(s), {e}) PROVE Ordered(Append(s, e))
  <2> SUFFICES ASSUME NEW j \in 1..Len(s) + 1, NEW k \in 1..Len(s) + 1, j < k,
                      SameSource(Append(s, e)[j], Append(s, e)[k])
               PROVE  Append(s, e)[j].value < Append(s, e)[k].value
    BY <1>1 DEF Ordered
  <2>1. j \in DOMAIN s /\ Append(s, e)[j] = s[j] /\ s[j] \in Set(s)
    BY <1>1, <1>2 DEF Set, Events!ToSet
  <2>2. CASE k = Len(s) + 1
    BY <1>1, <1>4, <2>1, <2>2 DEF Before
  <2>3. CASE k # Len(s) + 1
    BY <1>1, <1>2, <1>4, <2>1, <2>3 DEF Ordered
  <2> QED  BY <2>2, <2>3
<1> QED  BY <1>1, <1>3, <1>4

\* One event is a line in order.
LEMMA OneEvent ==
  ASSUME NEW e \in Events!Events
  PROVE  /\ <<e>> \in Seq(Events!Events) /\ Len(<<e>>) = 1 /\ Set(<<e>>) = {e} /\ Ordered(<<e>>)
BY DEF Ordered, Set, Events!ToSet

\* So is none.
LEMMA NoEvents ==
  /\ << >> \in Seq(Events!Events) /\ Len(<< >>) = 0 /\ Set(<< >>) = {} /\ Ordered(<< >>)
BY DEF Ordered, Set, Events!ToSet

\* An increasing choice of the places of a sequence keeps the order.
LEMMA ChosenEvents ==
  ASSUME NEW s \in Seq(Events!Events), NEW t \in Seq(Events!Events),
         NEW at \in [1..Len(t) -> 1..Len(s)],
         \A j \in 1..Len(t) : t[j] = s[at[j]],
         \A j, k \in 1..Len(t) : j < k => at[j] < at[k]
  PROVE  /\ Set(t) \subseteq Set(s)
         /\ Ordered(s) => Ordered(t)
<1>1. DOMAIN s = 1..Len(s) /\ DOMAIN t = 1..Len(t)
  BY LenProperties
<1> QED  BY <1>1 DEF Set, Events!ToSet, Ordered

\* The first event of a line in order is older than the rest of its source, which stay in
\* order.
LEMMA TailEvents ==
  ASSUME NEW s \in Seq(Events!Events), s # << >>
  PROVE  /\ Head(s) \in Events!Events
         /\ Tail(s) \in Seq(Events!Events) /\ Len(Tail(s)) = Len(s) - 1
         /\ Set(s) = {Head(s)} \cup Set(Tail(s))
         /\ Ordered(s) => Ordered(Tail(s)) /\ Before({Head(s)}, Set(Tail(s)))
<1>1. /\ Head(s) \in Events!Events /\ Head(s) = s[1]
      /\ Tail(s) \in Seq(Events!Events) /\ Len(Tail(s)) = Len(s) - 1
      /\ \A j \in 1..Len(s) - 1 : Tail(s)[j] = s[j + 1]
  BY HeadTailProperties
<1>2. Len(s) \in Nat \ {0} /\ DOMAIN s = 1..Len(s) /\ DOMAIN Tail(s) = 1..Len(s) - 1
  BY <1>1, LenProperties, EmptySeq
<1>3. Set(s) = {Head(s)} \cup Set(Tail(s))
  <2>1. \A j \in 1..Len(s) : j = 1 \/ (j - 1 \in 1..Len(s) - 1 /\ s[j] = Tail(s)[j - 1])
    BY <1>1, <1>2
  <2>2. \A j \in 1..Len(s) - 1 : j + 1 \in 1..Len(s)
    BY <1>2
  <2>3. 1 \in 1..Len(s)
    BY <1>2
  <2>4. ASSUME NEW j \in 1..Len(s) PROVE s[j] \in {Head(s)} \cup Set(Tail(s))
    <3>1. CASE j = 1
      BY <1>1, <3>1
    <3>2. CASE j # 1
      BY <1>2, <2>1, <3>2 DEF Set, Events!ToSet
    <3> QED  BY <3>1, <3>2
  <2>5. \A e \in Set(Tail(s)) : e \in Set(s)
    BY <1>1, <1>2, <2>2 DEF Set, Events!ToSet
  <2>6. Head(s) \in Set(s)
    BY <1>1, <1>2, <2>3 DEF Set, Events!ToSet
  <2> QED  BY <1>2, <2>4, <2>5, <2>6 DEF Set, Events!ToSet
<1>4. ASSUME Ordered(s) PROVE Ordered(Tail(s)) /\ Before({Head(s)}, Set(Tail(s)))
  <2>1. \A j \in 1..Len(s) - 1 : j + 1 \in 1..Len(s) /\ 1 < j + 1 /\ 1 \in 1..Len(s)
    BY <1>2
  <2>2. Before({Head(s)}, Set(Tail(s)))
    BY <1>1, <1>2, <1>4, <2>1 DEF Set, Events!ToSet, Ordered, Before
  <2>3. \A j, k \in 1..Len(s) - 1 : j < k => j + 1 < k + 1
    BY <1>2
  <2>4. Ordered(Tail(s))
    BY <1>1, <1>2, <1>4, <2>1, <2>3 DEF Ordered
  <2> QED  BY <2>2, <2>4
<1> QED  BY <1>1, <1>3, <1>4

\* A read divides a line into a part that is taken and one that stays: nothing is lost,
\* both are in order, the first is the older.
LEMMA SplitEvents ==
  ASSUME NEW s \in Seq(Events!Events), NEW n \in Nat
  PROVE  /\ Events!Upto(n, s) \in Seq(Events!Events) /\ Len(Events!Upto(n, s)) <= n
         /\ Events!Beyond(n, s) \in Seq(Events!Events) /\ Len(Events!Beyond(n, s)) <= Len(s)
         /\ Set(s) = Set(Events!Upto(n, s)) \cup Set(Events!Beyond(n, s))
         /\ Ordered(s) => /\ Ordered(Events!Upto(n, s)) /\ Ordered(Events!Beyond(n, s))
                          /\ Before(Set(Events!Upto(n, s)), Set(Events!Beyond(n, s)))
<1> DEFINE m == IF Len(s) < n THEN Len(s) ELSE n
           u == Events!Upto(n, s)
           b == Events!Beyond(n, s)
<1>1. Len(s) \in Nat /\ DOMAIN s = 1..Len(s) /\ \A j \in 1..Len(s) : s[j] \in Events!Events
  BY LenProperties, ElementOfSeq
<1>2. m \in Nat /\ m <= n /\ m <= Len(s)
  BY <1>1
<1>3. /\ u \in Seq(Events!Events) /\ Len(u) = m
      /\ \A j \in 1..m : u[j] = s[j]
  <2>1. u = SubSeq(s, 1, m)
    BY DEF Events!Upto
  <2>2. \A j \in 1..m : s[j] \in Events!Events
    BY <1>1, <1>2
  <2> HIDE DEF m, u
  <2> QED  BY <1>2, <2>1, <2>2, SubSeqProperties
<1>4. /\ b \in Seq(Events!Events) /\ Len(b) = Len(s) - m
      /\ \A j \in 1..Len(s) - m : b[j] = s[j + m]
  <2>1. b = SubSeq(s, n + 1, Len(s))
    BY DEF Events!Beyond
  <2>2. \A j \in n + 1 .. Len(s) : s[j] \in Events!Events
    BY <1>1
  <2>3. /\ b \in Seq(Events!Events) /\ Len(b) = IF n + 1 <= Len(s) THEN Len(s) - (n + 1) + 1 ELSE 0
        /\ \A j \in 1..(Len(s) - (n + 1) + 1) : b[j] = s[(n + 1) + j - 1]
    <3>1. n + 1 \in Int /\ Len(s) \in Int
      BY <1>1
    <3> HIDE DEF b
    <3> QED  BY <2>1, <2>2, <3>1, SubSeqProperties
  <2> HIDE DEF b
  <2>4. CASE Len(s) < n
    <3>1. m = Len(s)
      BY <2>4
    <3> HIDE DEF m
    <3>2. Len(s) - m = 0 /\ ~(n + 1 <= Len(s))
      <4>1. \A l, k \in Nat : l < k => ~(k + 1 <= l) /\ l - l = 0
        OBVIOUS
      <4> QED  BY <1>1, <2>4, <3>1, <4>1
    <3>3. Len(b) = 0 /\ b \in Seq(Events!Events)
      <4>1. b \in Seq(Events!Events) /\ Len(b) = IF n + 1 <= Len(s) THEN Len(s) - (n + 1) + 1 ELSE 0
        BY ONLY <2>3
      <4> QED  BY ONLY <4>1, <3>2
    <3>4. 1..(Len(s) - m) = {}
      BY <3>2
    <3>5. \A j \in 1..(Len(s) - m) : b[j] = s[j + m]
      BY <3>4
    <3> QED  BY <3>2, <3>3, <3>5
  <2>5. CASE ~(Len(s) < n)
    <3>1. m = n
      BY <2>5
    <3> HIDE DEF m
    <3>2. Len(b) = Len(s) - m
      <4>1. Len(b) = IF n + 1 <= Len(s) THEN Len(s) - (n + 1) + 1 ELSE 0
        BY <2>3
      <4>2. (n + 1 <= Len(s) /\ Len(s) - (n + 1) + 1 = Len(s) - n) \/ (~(n + 1 <= Len(s)) /\ 0 = Len(s) - n)
        <5>1. \A l, k \in Nat : ~(l < k) => (k + 1 <= l /\ l - (k + 1) + 1 = l - k) \/ (~(k + 1 <= l) /\ 0 = l - k)
          OBVIOUS
        <5> QED  BY <1>1, <2>5, <5>1
      <4> QED  BY <3>1, <4>1, <4>2
    <3>3. \A j \in 1..Len(s) - m : j \in 1..(Len(s) - (n + 1) + 1) /\ (n + 1) + j - 1 = j + m
      BY <1>1, <2>5, <3>1
    <3> QED  BY <2>3, <3>2, <3>3
  <2> QED  BY <2>4, <2>5
<1> HIDE DEF m, u, b
<1>5. DOMAIN u = 1..m /\ DOMAIN b = 1..Len(s) - m
  BY <1>3, <1>4, LenProperties
<1>6. Set(s) = Set(u) \cup Set(b)
  <2>1. \A j \in 1..Len(s) : j \in 1..m \/ (j - m \in 1..Len(s) - m /\ (j - m) + m = j)
    BY <1>1, <1>2
  <2>2. \A j \in 1..Len(s) - m : j + m \in 1..Len(s)
    BY <1>1, <1>2
  <2>3. \A j \in 1..m : j \in 1..Len(s)
    BY <1>1, <1>2
  <2>4. \A e \in Set(s) : e \in Set(u) \cup Set(b)
    BY <1>1, <1>3, <1>4, <1>5, <2>1 DEF Set, Events!ToSet
  <2>5. \A e \in Set(u) : e \in Set(s)
    BY <1>1, <1>3, <1>5, <2>3 DEF Set, Events!ToSet
  <2>6. \A e \in Set(b) : e \in Set(s)
    BY <1>1, <1>4, <1>5, <2>2 DEF Set, Events!ToSet
  <2> QED  BY <2>4, <2>5, <2>6
<1>7. ASSUME Ordered(s) PROVE Ordered(u) /\ Ordered(b) /\ Before(Set(u), Set(b))
  <2>1. \A j \in 1..m, k \in 1..Len(s) - m : j < k + m /\ j \in 1..Len(s) /\ k + m \in 1..Len(s)
    BY <1>1, <1>2
  <2>2. Before(Set(u), Set(b))
    BY <1>1, <1>3, <1>4, <1>5, <1>7, <2>1 DEF Set, Events!ToSet, Ordered, Before
  <2>3. Ordered(u)
    <3>1. \A j \in 1..m : j \in 1..Len(s)
      BY <1>1, <1>2
    <3> QED  BY <1>1, <1>3, <1>5, <1>7, <3>1 DEF Ordered
  <2>4. Ordered(b)
    <3>1. \A j, k \in 1..Len(s) - m : /\ j + m \in 1..Len(s) /\ k + m \in 1..Len(s)
                                      /\ j < k => j + m < k + m
      BY <1>1, <1>2
    <3> QED  BY <1>1, <1>4, <1>5, <1>7, <3>1 DEF Ordered
  <2> QED  BY <2>2, <2>3, <2>4
<1>8. Len(u) <= n /\ Len(b) <= Len(s)
  BY <1>1, <1>2, <1>3, <1>4
<1> QED  BY <1>3, <1>4, <1>6, <1>7, <1>8 DEF u, b

\* Removing an event from a line loses that event only and keeps the order.
LEMMA RemoveEvent ==
  ASSUME NEW s \in Seq(Events!Events), NEW k \in DOMAIN s
  PROVE  /\ Events!RemoveAt(s, k) \in Seq(Events!Events)
         /\ Len(Events!RemoveAt(s, k)) = Len(s) - 1
         /\ s[k] \in Events!Events
         /\ \A j \in 1..Len(s) - 1 :
              Events!RemoveAt(s, k)[j] = IF j < k THEN s[j] ELSE s[j + 1]
         /\ Set(s) = {s[k]} \cup Set(Events!RemoveAt(s, k))
         /\ Ordered(s) => /\ Ordered(Events!RemoveAt(s, k))
                          /\ k = 1 => Before({s[k]}, Set(Events!RemoveAt(s, k)))
<1> DEFINE t == Events!RemoveAt(s, k)
<1>1. Len(s) \in Nat /\ DOMAIN s = 1..Len(s) /\ \A j \in 1..Len(s) : s[j] \in Events!Events
  BY LenProperties, ElementOfSeq
<1>2. k \in 1..Len(s)
  BY <1>1
<1>3. /\ t \in Seq(Events!Events) /\ Len(t) = Len(s) - 1
      /\ \A j \in 1..Len(s) - 1 : t[j] = IF j < k THEN s[j] ELSE s[j + 1]
  <2> DEFINE u == SubSeq(s, 1, k - 1)
             b == SubSeq(s, k + 1, Len(s))
  <2>1. u \in Seq(Events!Events) /\ Len(u) = k - 1 /\ \A j \in 1..k - 1 : u[j] = s[j]
    <3>1. \A j \in 1..k - 1 : s[j] \in Events!Events
      BY <1>1, <1>2
    <3>2. 1 \in Int /\ k - 1 \in Int
      BY <1>2
    <3> QED  BY <1>2, <3>1, <3>2, SubSeqProperties
  <2>2. b \in Seq(Events!Events) /\ Len(b) = Len(s) - k /\ \A j \in 1..Len(s) - k : b[j] = s[k + j]
    <3>1. \A j \in k + 1 .. Len(s) : s[j] \in Events!Events
      BY <1>1, <1>2
    <3>2. k + 1 \in Int /\ Len(s) \in Int
      BY <1>1, <1>2
    <3>3. /\ b \in Seq(Events!Events) /\ Len(b) = IF k + 1 <= Len(s) THEN Len(s) - (k + 1) + 1 ELSE 0
          /\ \A j \in 1..(Len(s) - (k + 1) + 1) : b[j] = s[(k + 1) + j - 1]
      BY <3>1, <3>2, SubSeqProperties
    <3> HIDE DEF b
    <3>4. Len(b) = Len(s) - k
      BY <1>1, <1>2, <3>3
    <3>5. \A j \in 1..Len(s) - k : j \in 1..(Len(s) - (k + 1) + 1) /\ (k + 1) + j - 1 = k + j
      BY <1>1, <1>2
    <3> QED  BY <3>3, <3>4, <3>5
  <2>3. t = u \o b
    BY DEF Events!RemoveAt
  <2> HIDE DEF u, b, t
  <2>4. /\ t \in Seq(Events!Events) /\ Len(t) = Len(u) + Len(b)
        /\ \A j \in 1..Len(u) + Len(b) : t[j] = IF j <= Len(u) THEN u[j] ELSE b[j - Len(u)]
    BY <2>1, <2>2, <2>3, ConcatProperties
  <2>5. Len(t) = Len(s) - 1
    BY <1>1, <1>2, <2>1, <2>2, <2>4
  <2>6. ASSUME NEW j \in 1..Len(s) - 1 PROVE t[j] = IF j < k THEN s[j] ELSE s[j + 1]
    <3>1. j \in 1..Len(u) + Len(b)
      BY <1>1, <1>2, <2>1, <2>2
    <3>2. CASE j < k
      <4>1. j <= Len(u) /\ j \in 1..k - 1
        BY <1>2, <2>1, <3>2
      <4> QED  BY <2>1, <2>4, <3>1, <3>2, <4>1
    <3>3. CASE ~(j < k)
      <4>1. ~(j <= Len(u)) /\ j - Len(u) \in 1..Len(s) - k /\ k + (j - Len(u)) = j + 1
        BY <1>1, <1>2, <2>1, <3>3
      <4> QED  BY <2>2, <2>4, <3>1, <3>3, <4>1
    <3> QED  BY <3>2, <3>3
  <2> QED  BY <2>4, <2>5, <2>6
<1> HIDE DEF t
<1>4. DOMAIN t = 1..Len(s) - 1
  BY <1>3, LenProperties
<1>5. Set(s) = {s[k]} \cup Set(t)
  <2>1. \A j \in 1..Len(s) : j = k \/ (j < k /\ j \in 1..Len(s) - 1 /\ s[j] = t[j])
                               \/ (j - 1 \in 1..Len(s) - 1 /\ s[j] = t[j - 1])
    BY <1>1, <1>2, <1>3
  <2>2. \A j \in 1..Len(s) - 1 : j \in 1..Len(s) /\ j + 1 \in 1..Len(s) /\ t[j] \in {s[j], s[j + 1]}
    BY <1>1, <1>2, <1>3
  <2>3. \A e \in Set(s) : e \in {s[k]} \cup Set(t)
    BY <1>1, <1>2, <1>4, <2>1 DEF Set, Events!ToSet
  <2>4. \A e \in Set(t) : e \in Set(s)
    BY <1>1, <1>4, <2>2 DEF Set, Events!ToSet
  <2>5. s[k] \in Set(s)
    BY DEF Set, Events!ToSet
  <2> QED  BY <2>3, <2>4, <2>5
<1>6. ASSUME Ordered(s) PROVE Ordered(t) /\ (k = 1 => Before({s[k]}, Set(t)))
  <2> DEFINE at == [j \in 1..Len(s) - 1 |-> IF j < k THEN j ELSE j + 1]
  <2>1. /\ \A j \in 1..Len(s) - 1 : at[j] \in 1..Len(s) /\ t[j] = s[at[j]]
        /\ \A i, j \in 1..Len(s) - 1 : i < j => at[i] < at[j]
        /\ k = 1 => \A j \in 1..Len(s) - 1 : k < at[j]
    BY <1>1, <1>2, <1>3
  <2> HIDE DEF at
  <2>2. Ordered(t)
    BY <1>1, <1>4, <1>6, <2>1 DEF Ordered
  <2>3. k = 1 => Before({s[k]}, Set(t))
    BY <1>1, <1>4, <1>2, <1>6, <2>1 DEF Ordered, Before, Set, Events!ToSet
  <2> QED  BY <2>2, <2>3
<1> QED  BY <1>1, <1>2, <1>3, <1>5, <1>6 DEF t

\* The events between the kernel and the service, in the order in which they came.
Lined ==
  /\ Ordered(buffer) /\ Ordered(taken) /\ Ordered(kernel)
  /\ Before(Set(buffer), Set(taken)) /\ Before(Set(buffer), Set(kernel))
  /\ Before(Set(taken), Set(kernel))

\* No event tells of what has not happened.
Happened ==
  \A e \in Events!Waiting : e.value <= IF e.type = "axis" THEN position[e.code] ELSE presses

\* Where events of an axis wait, the newest is among them.
HasNewest(S, a) == (\E e \in S : Events!IsOf(a, e)) => Events!AxisEvent(a, position[a]) \in S

KernelIsNew == \A a \in Axes : HasNewest(Set(kernel), a)

SessionIsTrue ==
  drain.pc \notin {"starting", "discard", "snapshot"} =>
    \A a \in Axes \ dropped : HasNewest(Events!Waiting, a)

\* So it is with what the batch says of the axes; once it is applied the memory says
\* the same.
LatestCatchesUp ==
  drain.pc \notin {"starting", "discard", "snapshot"} =>
    \A a \in Axes \ dropped :
      a \notin discarded /\ (\A e \in Events!Waiting : ~Events!IsOf(a, e)) => latest[a] = position[a]

Applied == drain.pc # "deliver" => memory = latest

DrainWorks ==
  /\ drain.pc # "append" => taken = << >>
  /\ drain.pc \in {"discard", "snapshot"} => buffer = << >>
  /\ drain.pc = "read" => drain.reads < MaxBatches

DeliveredFirst == \A n \in Set(delivered) : \A e \in Events!Waiting : e.type = "key" => n < e.value

EventsInv ==
  /\ Events!TypeOK /\ Lined /\ Happened /\ KernelIsNew /\ SessionIsTrue /\ LatestCatchesUp
  /\ Applied /\ DrainWorks /\ DeliveredFirst /\ Events!PressesAreKept

Drains ==
  [pc : {"starting", "discard", "snapshot", "idle", "read", "append", "more", "deliver"},
   reads : 0..MaxBatches, handed : 0..EventLimit, press : BOOLEAN]

\* Going to a step begins a new count of reads and keeps the record in its type.
LEMMA DrainGoes ==
  ASSUME NEW pc \in {"starting", "discard", "snapshot", "idle", "read", "deliver"}, Events!Goes(pc)
  PROVE  drain' \in Drains /\ drain'.pc = pc /\ drain'.reads < MaxBatches
<1>1. 0 \in 0..MaxBatches /\ 0 \in 0..EventLimit /\ 0 < MaxBatches
  BY DevicesAssumption DEF DevicesAssumption
<1>2. drain' = [pc |-> pc, reads |-> 0, handed |-> 0, press |-> FALSE]
  BY DEF Events!Goes
<1> QED  BY <1>1, <1>2 DEF Drains

\* The presses of two sets of events are those of the one and of the other.
LEMMA PressesUnion ==
  ASSUME NEW S, NEW T
  PROVE  Events!PressesIn(S \cup T) = Events!PressesIn(S) \cup Events!PressesIn(T)
BY DEF Events!PressesIn

\* What waits is in the kernel, just read, or in the buffer.
LEMMA WaitingSets ==
  /\ Events!Waiting = Set(kernel) \cup Set(taken) \cup Set(buffer)
  /\ Events!Waiting' = Set(kernel') \cup Set(taken') \cup Set(buffer')
BY DEF Events!Waiting, Set

\* The members of a line are its events.
LEMMA SetMember ==
  ASSUME NEW s \in Seq(Events!Events)
  PROVE  Set(s) \subseteq Events!Events
<1>1. DOMAIN s = 1..Len(s) /\ \A j \in 1..Len(s) : s[j] \in Events!Events
  BY LenProperties, ElementOfSeq
<1> QED  BY <1>1 DEF Set, Events!ToSet

\* A step of the thread that moves no event.
LEMMA DrainMoves ==
  ASSUME EventsInv, drain' \in Drains,
         UNCHANGED <<position, presses, kernel, taken, buffer, latest, memory, delivered,
                     dropped, discarded, forgotten>>,
         drain'.pc \in {"starting", "discard", "snapshot"} \/ drain.pc \notin {"starting", "discard", "snapshot"},
         drain.pc = "deliver" => drain'.pc = "deliver",
         drain'.pc # "append" => taken = << >>,
         drain'.pc \in {"discard", "snapshot"} => buffer = << >>,
         drain'.pc = "read" => drain'.reads < MaxBatches
  PROVE  EventsInv'
<1>1. Events!TypeOK'
  BY DEF EventsInv, Events!TypeOK, Drains
<1>2. Events!Waiting' = Events!Waiting
  BY DEF Events!Waiting
<1>3. Lined' /\ Happened' /\ KernelIsNew' /\ DeliveredFirst'
  BY <1>2 DEF EventsInv, Lined, Happened, KernelIsNew, HasNewest, DeliveredFirst
<1>4. SessionIsTrue' /\ DrainWorks'
  BY <1>2 DEF EventsInv, SessionIsTrue, HasNewest, DrainWorks
<1>5. LatestCatchesUp' /\ Applied' /\ Events!PressesAreKept'
  BY <1>2 DEF EventsInv, LatestCatchesUp, Applied, Events!PressesAreKept
<1> QED  BY <1>1, <1>3, <1>4, <1>5 DEF EventsInv

\* What the queue does to the line.
LEMMA QueueLine ==
  ASSUME EventsInv, NEW e \in Events!Events, Events!Queue(e), UNCHANGED <<taken, buffer, drain>>,
         \A f \in Events!Waiting : SameSource(f, e) => f.value < e.value
  PROVE  /\ kernel' \in Seq(Events!Events) /\ Len(kernel') <= QueueSize
         /\ Lined' /\ DrainWorks' /\ e \in Set(kernel')
         /\ dropped' \subseteq Axes /\ dropped \subseteq dropped'
         /\ \/ Set(kernel') = Set(kernel) \cup {e} /\ UNCHANGED <<dropped, forgotten>>
            \/ /\ Set(kernel') = {e}
               /\ \A a \in Axes \ dropped' : \A f \in Set(kernel) : ~Events!IsOf(a, f)
               /\ forgotten' = forgotten \cup Events!PressesIn(Set(kernel))
<1>0. kernel \in Seq(Events!Events) /\ Len(kernel) <= QueueSize /\ QueueSize \in Nat \ {0}
      /\ dropped \subseteq Axes /\ Len(kernel) \in Nat
  BY DevicesAssumption, LenProperties DEF EventsInv, Events!TypeOK, DevicesAssumption
<1>1. /\ kernel' \in Seq(Events!Events) /\ Len(kernel') <= QueueSize
      /\ dropped' \subseteq Axes /\ dropped \subseteq dropped' /\ Ordered(kernel')
      /\ e \in Set(kernel') /\ Set(kernel') \subseteq Set(kernel) \cup {e}
      /\ \/ Set(kernel') = Set(kernel) \cup {e} /\ UNCHANGED <<dropped, forgotten>>
         \/ /\ Set(kernel') = {e}
            /\ \A a \in Axes \ dropped' : \A f \in Set(kernel) : ~Events!IsOf(a, f)
            /\ forgotten' = forgotten \cup Events!PressesIn(Set(kernel))
  <2>1. CASE Len(kernel) < QueueSize
    <3>1. kernel' = Append(kernel, e) /\ UNCHANGED <<dropped, forgotten>>
      BY <2>1 DEF Events!Queue
    <3>2. Before(Set(kernel), {e})
      BY DEF Before, Events!Waiting, Set
    <3>3. Ordered(kernel)
      BY DEF EventsInv, Lined
    <3> QED  BY <1>0, <2>1, <3>1, <3>2, <3>3, AppendEvents
  <2>2. CASE ~(Len(kernel) < QueueSize)
    <3>1. /\ kernel' = <<e>>
          /\ dropped' = dropped \cup {a \in Axes : \E f \in Set(kernel) : Events!IsOf(a, f)}
          /\ forgotten' = forgotten \cup Events!PressesIn(Set(kernel))
      BY <2>2 DEF Events!Queue, Set
    <3>2. 1 <= QueueSize
      BY <1>0
    <3> QED  BY <1>0, <3>1, <3>2, OneEvent
  <2> QED  BY <2>1, <2>2
<1>2. Lined'
  <2>1. Before(Set(buffer), Set(kernel')) /\ Before(Set(taken), Set(kernel'))
    BY <1>1 DEF EventsInv, Lined, Before, Events!Waiting, Set
  <2> QED  BY <1>1, <2>1 DEF EventsInv, Lined
<1>3. DrainWorks'
  BY DEF EventsInv, DrainWorks
<1> QED  BY <1>1, <1>2, <1>3

\* An event that is queued adds its press to those that wait or are forgotten, and an
\* overflow loses none of them.
LEMMA QueuePresses ==
  ASSUME NEW e, UNCHANGED <<taken, buffer>>,
         \/ Set(kernel') = Set(kernel) \cup {e} /\ UNCHANGED forgotten
         \/ Set(kernel') = {e} /\ forgotten' = forgotten \cup Events!PressesIn(Set(kernel))
  PROVE  Events!PressesIn(Events!Waiting') \cup forgotten'
           = Events!PressesIn(Events!Waiting) \cup Events!PressesIn({e}) \cup forgotten
<1> DEFINE P(S) == Events!PressesIn(S)
<1>u. \A S, T, U : P(S \cup T \cup U) = P(S) \cup P(T) \cup P(U)
  BY DEF Events!PressesIn
<1>1. P(Events!Waiting) = P(Set(kernel)) \cup P(Set(taken)) \cup P(Set(buffer))
  BY <1>u, WaitingSets
<1>2. P(Events!Waiting') = P(Set(kernel')) \cup P(Set(taken)) \cup P(Set(buffer))
  BY <1>u, WaitingSets
<1>3. P(Set(kernel) \cup {e}) = P(Set(kernel)) \cup P({e})
  BY PressesUnion
<1> HIDE DEF P
<1>4. P(Events!Waiting') \cup forgotten' = P(Events!Waiting) \cup P({e}) \cup forgotten
  <2>1. CASE Set(kernel') = Set(kernel) \cup {e} /\ UNCHANGED forgotten
    BY <1>1, <1>2, <1>3, <2>1
  <2>2. CASE Set(kernel') = {e} /\ forgotten' = forgotten \cup P(Set(kernel))
    BY <1>1, <1>2, <2>2
  <2> QED  BY <2>1, <2>2 DEF P
<1> QED  BY <1>4 DEF P

\* A move of an axis: its event is the newest, in the queue or, after an overflow, alone
\* in it.
LEMMA MoveEvents ==
  ASSUME EventsInv, NEW a \in Axes, Events!Move(a)
  PROVE  EventsInv'
<1> DEFINE e == Events!AxisEvent(a, position[a] + 1)
<1>0. /\ position \in [Axes -> 0..MaxMoves] /\ position[a] \in 0..MaxMoves /\ MaxMoves \in Nat
      /\ position' = [position EXCEPT ![a] = position[a] + 1] /\ position[a] + 1 \in 0..MaxMoves
      /\ \A b \in Axes : position[b] \in 0..MaxMoves
      /\ UNCHANGED <<presses, taken, buffer, drain, latest, memory, delivered, discarded>>
  <2>1. /\ position \in [Axes -> 0..MaxMoves] /\ MaxMoves \in Nat
        /\ \A b \in Axes : position[b] \in 0..MaxMoves
    BY DevicesAssumption DEF EventsInv, Events!TypeOK, DevicesAssumption
  <2>2. /\ position[a] < MaxMoves /\ position' = [position EXCEPT ![a] = position[a] + 1]
        /\ UNCHANGED <<presses, taken, buffer, drain, latest, memory, delivered, discarded>>
    BY DEF Events!Move
  <2>3. position[a] + 1 \in 0..MaxMoves
    <3>1. position[a] \in 0..MaxMoves
      BY <2>1
    <3> QED  BY ONLY <2>1, <2>2, <3>1
  <2> QED  BY <2>1, <2>2, <2>3
<1>1. e \in Events!Events
  BY <1>0 DEF Events!Events
<1>e. e.type = "axis" /\ e.code = a /\ e.value = position[a] + 1
  BY DEF Events!AxisEvent
<1>2. Events!Queue(e) /\ UNCHANGED <<taken, buffer, drain>>
  BY DEF Events!Move
<1>w. Events!Waiting \subseteq Events!Events
  BY SetMember, WaitingSets DEF EventsInv, Events!TypeOK
<1>3. \A f \in Events!Waiting : SameSource(f, e) => f.value < e.value
  <2> SUFFICES ASSUME NEW f \in Events!Waiting, SameSource(f, e) PROVE f.value < e.value
    OBVIOUS
  <2>1. f.type = "axis" /\ f.code = a /\ f.value \in Nat
    BY <1>e, <1>w, EventValues DEF SameSource
  <2>2. f.value <= position[a]
    BY <2>1 DEF EventsInv, Happened
  <2> QED  BY <1>0, <1>e, <2>1, <2>2
<1> HIDE DEF e
<1>4. /\ kernel' \in Seq(Events!Events) /\ Len(kernel') <= QueueSize
      /\ Lined' /\ DrainWorks' /\ e \in Set(kernel')
      /\ dropped' \subseteq Axes /\ dropped \subseteq dropped'
      /\ \/ Set(kernel') = Set(kernel) \cup {e} /\ UNCHANGED <<dropped, forgotten>>
         \/ /\ Set(kernel') = {e}
            /\ \A b \in Axes \ dropped' : \A f \in Set(kernel) : ~Events!IsOf(b, f)
            /\ forgotten' = forgotten \cup Events!PressesIn(Set(kernel))
  BY <1>1, <1>2, <1>3, QueueLine
<1>p. /\ position' \in [Axes -> 0..MaxMoves] /\ position'[a] = position[a] + 1
      /\ \A b \in Axes : b # a => position'[b] = position[b]
      /\ \A b \in Axes : position[b] <= position'[b]
  BY <1>0
<1>n. Events!AxisEvent(a, position'[a]) = e
  BY <1>p DEF e
<1>5. Events!Waiting' \subseteq Events!Waiting \cup {e} /\ e \in Events!Waiting'
  BY <1>0, <1>4, WaitingSets
<1>6. forgotten' \subseteq 1..MaxPresses
  <2>1. Events!PressesIn(Set(kernel)) \subseteq 1..MaxPresses
    <3>1. Set(kernel) \subseteq Events!Events
      BY SetMember DEF EventsInv, Events!TypeOK
    <3> QED  BY <3>1, EventValues DEF Events!PressesIn
  <2> QED  BY <1>4, <2>1 DEF EventsInv, Events!TypeOK
<1>7. Events!TypeOK'
  BY <1>0, <1>4, <1>6, <1>p DEF EventsInv, Events!TypeOK
<1>8. Happened'
  <2> SUFFICES ASSUME NEW f \in Events!Waiting'
               PROVE  f.value <= IF f.type = "axis" THEN position'[f.code] ELSE presses'
    BY DEF Happened
  <2>1. CASE f = e
    BY <1>0, <1>e, <1>p, <2>1
  <2>2. CASE f \in Events!Waiting
    <3>1. f.value \in Nat /\ (f.type = "axis" => f.code \in Axes)
      BY <1>w, <2>2, EventValues
    <3>2. f.value <= IF f.type = "axis" THEN position[f.code] ELSE presses
      BY <2>2 DEF EventsInv, Happened
    <3>3. CASE f.type = "axis"
      <4>1. f.value <= position[f.code] /\ position[f.code] <= position'[f.code]
        BY <1>p, <3>1, <3>2, <3>3
      <4>2. position[f.code] \in Nat /\ position'[f.code] \in Nat
        BY <1>0, <1>p, <3>1, <3>3
      <4> QED  BY <3>1, <3>3, <4>1, <4>2
    <3>4. CASE f.type # "axis"
      BY <1>0, <3>2, <3>4
    <3> QED  BY <3>3, <3>4
  <2> QED  BY <1>5, <2>1, <2>2
<1>9. KernelIsNew'
  <2> SUFFICES ASSUME NEW b \in Axes, NEW f \in Set(kernel'), Events!IsOf(b, f)
               PROVE  Events!AxisEvent(b, position'[b]) \in Set(kernel')
    BY DEF KernelIsNew, HasNewest
  <2>1. CASE b = a
    BY <1>4, <1>n, <2>1
  <2>2. CASE b # a
    <3>1. f # e /\ f \in Set(kernel)
      BY <1>4, <1>e, <2>2 DEF Events!IsOf
    <3>2. Events!AxisEvent(b, position[b]) \in Set(kernel)
      BY <3>1 DEF EventsInv, KernelIsNew, HasNewest
    <3> QED  BY <1>4, <1>p, <2>2, <3>1, <3>2
  <2> QED  BY <2>1, <2>2
<1>10. SessionIsTrue' /\ LatestCatchesUp'
  <2> SUFFICES ASSUME drain.pc \notin {"starting", "discard", "snapshot"}, NEW b \in Axes \ dropped'
               PROVE  /\ HasNewest(Events!Waiting, b)'
                      /\ b \notin discarded /\ (\A f \in Events!Waiting' : ~Events!IsOf(b, f))
                           => latest[b] = position'[b]
    BY <1>0 DEF SessionIsTrue, LatestCatchesUp
  <2>1. CASE b = a
    <3>1. Events!IsOf(b, e)
      BY <1>e, <2>1 DEF Events!IsOf
    <3> QED  BY <1>5, <1>n, <2>1, <3>1 DEF HasNewest
  <2>2. CASE b # a
    <3>1. b \in Axes \ dropped /\ ~Events!IsOf(b, e)
      BY <1>4, <1>e, <2>2 DEF Events!IsOf
    <3>2. \A f : Events!IsOf(b, f) => (f \in Events!Waiting' <=> f \in Events!Waiting)
      BY <1>0, <1>4, <3>1, WaitingSets
    <3>3. Events!IsOf(b, Events!AxisEvent(b, position[b]))
      BY DEF Events!IsOf, Events!AxisEvent
    <3>4. position'[b] = position[b]
      BY <1>0, <1>p, <2>2
    <3>5. HasNewest(Events!Waiting, b)
      BY <3>1 DEF EventsInv, SessionIsTrue
    <3>6. b \notin discarded /\ (\A f \in Events!Waiting : ~Events!IsOf(b, f))
            => latest[b] = position[b]
      BY <3>1 DEF EventsInv, LatestCatchesUp
    <3> QED  BY <3>2, <3>3, <3>4, <3>5, <3>6 DEF HasNewest
  <2> QED  BY <2>1, <2>2
<1>a. Applied'
  BY <1>0 DEF EventsInv, Applied
<1>11. DeliveredFirst' /\ Events!PressesAreKept'
  <2>1. e.type # "key"
    BY <1>e
  <2>2. Events!PressesIn({e}) = {}
    BY <2>1 DEF Events!PressesIn
  <2>3. DeliveredFirst'
    BY <1>0, <1>5, <2>1 DEF EventsInv, DeliveredFirst
  <2>4. Events!PressesIn(Events!Waiting') \cup forgotten' = Events!PressesIn(Events!Waiting) \cup forgotten
    BY <1>0, <1>4, <2>2, QueuePresses
  <2>5. Events!PressesIn(Events!Waiting') \subseteq Events!PressesIn(Events!Waiting)
    BY <1>5, <2>1 DEF Events!PressesIn
  <2>6. Events!PressesAreKept
    BY DEF EventsInv
  <2> QED  BY <1>0, <2>3, <2>4, <2>5, <2>6 DEF Events!PressesAreKept
<1> QED  BY <1>4, <1>7, <1>8, <1>9, <1>10, <1>a, <1>11 DEF EventsInv

\* A press: it is newer than all that were delivered or wait.
LEMMA PressEvents ==
  ASSUME EventsInv, Events!Press
  PROVE  EventsInv'
<1> DEFINE e == Events!KeyEvent(presses + 1)
<1>0. /\ presses \in Nat /\ presses' = presses + 1 /\ presses' \in 0..MaxPresses
      /\ presses + 1 \in 1..MaxPresses /\ MaxPresses \in Nat
      /\ UNCHANGED <<position, taken, buffer, drain, latest, memory, delivered, discarded>>
  BY DevicesAssumption DEF EventsInv, Events!TypeOK, Events!Press, DevicesAssumption
<1>1. e \in Events!Events
  BY <1>0 DEF Events!Events
<1>e. e.type = "key" /\ e.value = presses + 1
  BY DEF Events!KeyEvent
<1>2. Events!Queue(e) /\ UNCHANGED <<taken, buffer, drain>>
  BY DEF Events!Press
<1>w. Events!Waiting \subseteq Events!Events
  BY SetMember, WaitingSets DEF EventsInv, Events!TypeOK
<1>k. \A f \in Events!Waiting : f.type = "key" => f.value \in Nat /\ f.value <= presses
  BY <1>w, EventValues DEF EventsInv, Happened
<1>3. \A f \in Events!Waiting : SameSource(f, e) => f.value < e.value
  BY <1>0, <1>e, <1>k DEF SameSource
<1> HIDE DEF e
<1>4. /\ kernel' \in Seq(Events!Events) /\ Len(kernel') <= QueueSize
      /\ Lined' /\ DrainWorks' /\ e \in Set(kernel')
      /\ dropped' \subseteq Axes /\ dropped \subseteq dropped'
      /\ \/ Set(kernel') = Set(kernel) \cup {e} /\ UNCHANGED <<dropped, forgotten>>
         \/ /\ Set(kernel') = {e}
            /\ \A b \in Axes \ dropped' : \A f \in Set(kernel) : ~Events!IsOf(b, f)
            /\ forgotten' = forgotten \cup Events!PressesIn(Set(kernel))
  BY <1>1, <1>2, <1>3, QueueLine
<1>5. Events!Waiting' \subseteq Events!Waiting \cup {e} /\ e \in Events!Waiting'
  BY <1>0, <1>4, WaitingSets
<1>6. forgotten' \subseteq 1..MaxPresses
  <2>1. Events!PressesIn(Set(kernel)) \subseteq 1..MaxPresses
    <3>1. Set(kernel) \subseteq Events!Events
      BY SetMember DEF EventsInv, Events!TypeOK
    <3> QED  BY <3>1, EventValues DEF Events!PressesIn
  <2> QED  BY <1>4, <2>1 DEF EventsInv, Events!TypeOK
<1>7. Events!TypeOK'
  BY <1>0, <1>4, <1>6 DEF EventsInv, Events!TypeOK
<1>8. Happened'
  <2> SUFFICES ASSUME NEW f \in Events!Waiting'
               PROVE  f.value <= IF f.type = "axis" THEN position'[f.code] ELSE presses'
    BY DEF Happened
  <2>1. CASE f = e
    BY <1>0, <1>e, <2>1
  <2>2. CASE f \in Events!Waiting /\ f.type = "axis"
    BY <1>0, <2>2 DEF EventsInv, Happened
  <2>3. CASE f \in Events!Waiting /\ f.type # "axis"
    <3>1. f.type = "key"
      BY <1>w, <2>3, EventValues
    <3> QED  BY <1>0, <1>k, <2>3, <3>1
  <2> QED  BY <1>5, <2>1, <2>2, <2>3
<1>o. \A b \in Axes : ~Events!IsOf(b, e)
  BY <1>e DEF Events!IsOf
<1>9. KernelIsNew'
  <2> SUFFICES ASSUME NEW b \in Axes, NEW f \in Set(kernel'), Events!IsOf(b, f)
               PROVE  Events!AxisEvent(b, position[b]) \in Set(kernel')
    BY <1>0 DEF KernelIsNew, HasNewest
  <2>1. f # e /\ f \in Set(kernel)
    BY <1>4, <1>o
  <2>2. Events!AxisEvent(b, position[b]) \in Set(kernel)
    BY <2>1 DEF EventsInv, KernelIsNew, HasNewest
  <2> QED  BY <1>4, <2>1, <2>2
<1>10. SessionIsTrue' /\ LatestCatchesUp'
  <2> SUFFICES ASSUME drain.pc \notin {"starting", "discard", "snapshot"}, NEW b \in Axes \ dropped'
               PROVE  /\ HasNewest(Events!Waiting, b)'
                      /\ b \notin discarded /\ (\A f \in Events!Waiting' : ~Events!IsOf(b, f))
                           => latest[b] = position'[b]
    BY <1>0 DEF SessionIsTrue, LatestCatchesUp
  <2>1. b \in Axes \ dropped /\ ~Events!IsOf(b, e)
    BY <1>4, <1>o
  <2>2. \A f : Events!IsOf(b, f) => (f \in Events!Waiting' <=> f \in Events!Waiting)
    BY <1>0, <1>4, <2>1, WaitingSets
  <2>3. Events!IsOf(b, Events!AxisEvent(b, position[b]))
    BY DEF Events!IsOf, Events!AxisEvent
  <2>4. HasNewest(Events!Waiting, b)
    BY <2>1 DEF EventsInv, SessionIsTrue
  <2>5. b \notin discarded /\ (\A f \in Events!Waiting : ~Events!IsOf(b, f))
            => latest[b] = position[b]
    BY <2>1 DEF EventsInv, LatestCatchesUp
  <2> QED  BY <1>0, <2>2, <2>3, <2>4, <2>5 DEF HasNewest
<1>a. Applied'
  BY <1>0 DEF EventsInv, Applied
<1>11. DeliveredFirst' /\ Events!PressesAreKept'
  <2>1. Events!PressesIn({e}) = {presses'}
    BY <1>0, <1>e DEF Events!PressesIn
  <2>2. 1..presses' = (1..presses) \cup {presses'}
    BY <1>0
  <2>3. Set(delivered) \subseteq 1..presses
    BY DEF EventsInv, Events!PressesAreKept, Set
  <2>4. DeliveredFirst'
    BY <1>0, <1>5, <1>e, <2>3 DEF EventsInv, DeliveredFirst
  <2>5. Events!PressesIn(Events!Waiting') \cup forgotten'
          = Events!PressesIn(Events!Waiting) \cup {presses'} \cup forgotten
    BY <1>0, <1>4, <2>1, QueuePresses
  <2>6. Events!PressesIn(Events!Waiting') \subseteq Events!PressesIn(Events!Waiting) \cup {presses'}
    BY <1>0, <1>5, <1>e DEF Events!PressesIn
  <2>7. Events!PressesAreKept
    BY DEF EventsInv
  <2>8. 1..presses' = Set(delivered) \cup Events!PressesIn(Events!Waiting') \cup forgotten'
    BY <2>2, <2>5, <2>7 DEF Events!PressesAreKept, Set
  <2>9. Set(delivered) \cap Events!PressesIn(Events!Waiting') = {}
    BY <1>0, <2>3, <2>6, <2>7 DEF Events!PressesAreKept, Set
  <2> QED  BY <1>0, <2>4, <2>7, <2>8, <2>9 DEF Events!PressesAreKept, Set
<1> QED  BY <1>4, <1>7, <1>8, <1>9, <1>10, <1>a, <1>11 DEF EventsInv

\* The types in EventsInv, and those of the sets of events.
LEMMA EventsTyped ==
  ASSUME EventsInv
  PROVE  /\ kernel \in Seq(Events!Events) /\ taken \in Seq(Events!Events) /\ buffer \in Seq(Events!Events)
         /\ Len(kernel) <= QueueSize /\ Len(taken) <= ReadSize
         /\ Set(kernel) \subseteq Events!Events /\ Set(taken) \subseteq Events!Events
         /\ Set(buffer) \subseteq Events!Events /\ Events!Waiting \subseteq Events!Events
         /\ drain \in Drains /\ position \in [Axes -> 0..MaxMoves] /\ memory \in [Axes -> 0..MaxMoves]
         /\ latest \in [Axes -> 0..MaxMoves] /\ dropped \subseteq Axes /\ discarded \subseteq Axes
         /\ forgotten \subseteq 1..MaxPresses /\ presses \in 0..MaxPresses
         /\ delivered \in Seq(1..MaxPresses)
         /\ ReadSize \in Nat /\ MaxBatches \in Nat \ {0} /\ EventLimit \in Nat \ {0} /\ QueueSize \in Nat
         /\ MaxMoves \in Nat /\ MaxPresses \in Nat
<1>1. Events!TypeOK
  BY DEF EventsInv
<1>2. /\ Set(kernel) \subseteq Events!Events /\ Set(taken) \subseteq Events!Events
      /\ Set(buffer) \subseteq Events!Events
  BY <1>1, SetMember DEF Events!TypeOK
<1> QED  BY <1>1, <1>2, WaitingSets, DevicesAssumption DEF Events!TypeOK, Drains, DevicesAssumption

\* Discarding at startup, of what has been read or of what the kernel has.
LEMMA DiscardEvents ==
  ASSUME EventsInv, Events!RefreshBegins \/ Events!Discard
  PROVE  EventsInv'
<1> DEFINE gone == IF Events!At("starting") THEN Set(buffer) ELSE Set(Events!Upto(ReadSize, kernel))
<1>1. /\ kernel' \in Seq(Events!Events) /\ Len(kernel') <= QueueSize
      /\ buffer' = << >> /\ taken = << >>
      /\ drain' \in Drains /\ drain'.pc = "discard"
      /\ Events!Waiting = gone \cup Events!Waiting' /\ gone \subseteq Events!Events
      /\ forgotten' = forgotten \cup Events!PressesIn(gone)
      /\ Ordered(kernel') /\ KernelIsNew'
      /\ UNCHANGED <<position, presses, taken, latest, memory, delivered, dropped, discarded>>
  <2>1. CASE Events!RefreshBegins
    <3>1. /\ Events!At("starting") /\ taken = << >> /\ kernel' = kernel /\ buffer' = << >>
          /\ drain' \in Drains /\ drain'.pc = "discard"
          /\ forgotten' = forgotten \cup Events!PressesIn(Set(buffer))
      BY <2>1, DrainGoes DEF Events!RefreshBegins, EventsInv, DrainWorks, Events!At, Set
    <3>2. Events!Waiting = gone \cup Events!Waiting'
      BY <2>1, <3>1, WaitingSets, NoEvents DEF Events!RefreshBegins
    <3>3. KernelIsNew' /\ Ordered(kernel')
      BY <2>1, <3>1 DEF Events!RefreshBegins, EventsInv, KernelIsNew, HasNewest, Lined
    <3> QED  BY <2>1, <3>1, <3>2, <3>3, EventsTyped DEF Events!RefreshBegins
  <2>2. CASE Events!Discard
    <3>1. /\ ~Events!At("starting") /\ taken = << >> /\ buffer = << >> /\ buffer' = << >>
          /\ kernel' = Events!Beyond(ReadSize, kernel)
          /\ forgotten' = forgotten \cup Events!PressesIn(Set(Events!Upto(ReadSize, kernel)))
      BY <2>2 DEF Events!Discard, EventsInv, DrainWorks, Events!At, Set
    <3>2. drain' \in Drains /\ drain'.pc = "discard"
      <4>1. drain' = [drain EXCEPT !.reads = drain.reads + 1] /\ drain.pc = "discard" /\ drain \in Drains
            /\ drain.reads < MaxBatches
        BY <2>2, EventsTyped DEF Events!Discard, Events!At
      <4>2. drain.reads + 1 \in 0..MaxBatches
        BY <4>1, EventsTyped DEF Drains
      <4> QED  BY <4>1, <4>2 DEF Drains
    <3>3. /\ kernel' \in Seq(Events!Events) /\ Len(kernel') <= Len(kernel)
          /\ Set(kernel) = Set(Events!Upto(ReadSize, kernel)) \cup Set(kernel')
          /\ Ordered(kernel') /\ Before(Set(Events!Upto(ReadSize, kernel)), Set(kernel'))
      <4>1. Ordered(kernel)
        BY DEF EventsInv, Lined
      <4> QED  BY <3>1, <4>1, SplitEvents, EventsTyped
    <3>4. Events!Waiting = gone \cup Events!Waiting'
      BY <2>2, <3>1, <3>3, WaitingSets, NoEvents DEF Events!Discard
    <3>5. KernelIsNew'
      <4> SUFFICES ASSUME NEW a \in Axes, NEW f \in Set(kernel'), Events!IsOf(a, f)
                   PROVE  Events!AxisEvent(a, position[a]) \in Set(kernel')
        BY <2>2 DEF KernelIsNew, HasNewest, Events!Discard
      <4> DEFINE n == Events!AxisEvent(a, position[a])
      <4>1. n \in Set(kernel)
        BY <3>3 DEF EventsInv, KernelIsNew, HasNewest
      <4>2. n \notin Set(Events!Upto(ReadSize, kernel))
        <5>1. SUFFICES ASSUME n \in Set(Events!Upto(ReadSize, kernel)) PROVE FALSE
          OBVIOUS
        <5>2. SameSource(n, f) /\ n.value = position[a]
          BY DEF SameSource, Events!AxisEvent, Events!IsOf
        <5>3. position[a] < f.value
          BY <3>3, <5>1, <5>2 DEF Before
        <5>4. f \in Events!Waiting /\ f.value \in Nat /\ f.type = "axis" /\ f.code = a
          BY <3>3, WaitingSets, EventsTyped, EventValues DEF Events!IsOf
        <5>5. f.value <= position[a]
          BY <5>4 DEF EventsInv, Happened
        <5>6. position[a] \in Nat
          BY EventsTyped
        <5> QED  BY <5>3, <5>4, <5>5, <5>6
      <4> QED  BY <3>3, <4>1, <4>2
    <3>6. Len(kernel') <= QueueSize
      BY <3>3, EventsTyped, LenProperties
    <3>7. gone \subseteq Events!Events
      BY <3>1, <3>3, EventsTyped
    <3> QED  BY <2>2, <3>1, <3>2, <3>3, <3>4, <3>5, <3>6, <3>7 DEF Events!Discard
  <2> QED  BY <2>1, <2>2
<1> HIDE DEF gone
<1>2. forgotten' \subseteq 1..MaxPresses
  <2>1. Events!PressesIn(gone) \subseteq 1..MaxPresses
    BY <1>1, EventValues DEF Events!PressesIn
  <2> QED  BY <1>1, <2>1, EventsTyped
<1>3. Events!TypeOK'
  BY <1>1, <1>2, NoEvents DEF EventsInv, Events!TypeOK, Drains
<1>4. Lined' /\ DrainWorks' /\ SessionIsTrue' /\ LatestCatchesUp'
  BY <1>1, NoEvents DEF Lined, Before, DrainWorks, SessionIsTrue, LatestCatchesUp
<1>a. Applied'
  <2>1. drain.pc # "deliver"
    BY DEF Events!RefreshBegins, Events!Discard, Events!At
  <2> QED  BY <1>1, <2>1 DEF EventsInv, Applied
<1>5. Happened' /\ DeliveredFirst'
  BY <1>1 DEF EventsInv, Happened, DeliveredFirst
<1>6. Events!PressesAreKept'
  <2>1. Events!PressesIn(Events!Waiting) = Events!PressesIn(gone) \cup Events!PressesIn(Events!Waiting')
    BY <1>1, PressesUnion
  <2>2. Events!PressesAreKept
    BY DEF EventsInv
  <2> QED  BY <1>1, <2>1, <2>2 DEF Events!PressesAreKept
<1> QED  BY <1>1, <1>3, <1>4, <1>a, <1>5, <1>6 DEF EventsInv

\* The snapshot: memory and position agree whatever was discarded.
LEMMA SnapshotEvents ==
  ASSUME EventsInv, Events!Snapshot
  PROVE  EventsInv'
<1>0. /\ memory' = position /\ latest' = position /\ dropped' = {} /\ discarded' = {}
      /\ buffer = << >> /\ taken = << >>
      /\ UNCHANGED <<position, presses, kernel, taken, buffer, delivered, forgotten>>
  BY DEF Events!Snapshot, Events!At, EventsInv, DrainWorks
<1>1. drain' \in Drains /\ drain'.pc \in {"starting", "idle"}
  BY DrainGoes DEF Events!Snapshot
<1>2. Events!Waiting' = Events!Waiting /\ Events!Waiting = Set(kernel)
  BY <1>0, WaitingSets, NoEvents
<1>3. Events!TypeOK'
  BY <1>0, <1>1, EventsTyped DEF EventsInv, Events!TypeOK, Drains
<1>4. Lined' /\ Happened' /\ KernelIsNew' /\ DeliveredFirst' /\ DrainWorks'
  BY <1>0, <1>1, <1>2 DEF EventsInv, Lined, Happened, KernelIsNew, HasNewest, DeliveredFirst,
         DrainWorks
<1>5. SessionIsTrue'
  BY <1>0, <1>2 DEF EventsInv, SessionIsTrue, KernelIsNew, HasNewest
<1>6. LatestCatchesUp' /\ Applied' /\ Events!PressesAreKept'
  BY <1>0, <1>2 DEF EventsInv, LatestCatchesUp, Applied, Events!PressesAreKept
<1> QED  BY <1>3, <1>4, <1>5, <1>6 DEF EventsInv

\* A read moves the oldest of the queue behind the buffer.
LEMMA ReadEvents ==
  ASSUME EventsInv, Events!ReadBatch
  PROVE  EventsInv'
<1>0. /\ drain.pc = "read" /\ drain.reads < MaxBatches /\ taken = << >>
      /\ taken' = Events!Upto(ReadSize, kernel) /\ kernel' = Events!Beyond(ReadSize, kernel)
      /\ drain' = [drain EXCEPT !.pc = "append", !.reads = drain.reads + 1]
      /\ UNCHANGED <<position, presses, buffer, latest, memory, delivered, dropped, discarded,
                     forgotten>>
  BY DEF Events!ReadBatch, Events!Keeps, Events!At, EventsInv, DrainWorks
<1>1. drain' \in Drains /\ drain'.pc = "append"
  <2>1. drain.reads + 1 \in 0..MaxBatches /\ drain \in Drains
    BY <1>0, EventsTyped DEF Drains
  <2> QED  BY <1>0, <2>1 DEF Drains
<1>2. /\ kernel' \in Seq(Events!Events) /\ Len(kernel') <= Len(kernel)
      /\ taken' \in Seq(Events!Events) /\ Len(taken') <= ReadSize
      /\ Set(kernel) = Set(taken') \cup Set(kernel')
      /\ Ordered(kernel') /\ Ordered(taken') /\ Before(Set(taken'), Set(kernel'))
  <2>1. Ordered(kernel)
    BY DEF EventsInv, Lined
  <2> QED  BY <1>0, <2>1, SplitEvents, EventsTyped
<1>3. Len(kernel') <= QueueSize
  BY <1>2, EventsTyped, LenProperties
<1>4. Events!Waiting' = Events!Waiting
  BY <1>0, <1>2, WaitingSets, NoEvents
<1>5. Events!TypeOK'
  BY <1>0, <1>1, <1>2, <1>3 DEF EventsInv, Events!TypeOK, Drains
<1>6. Lined'
  <2>1. Before(Set(buffer), Set(kernel)) /\ Ordered(buffer)
    BY DEF EventsInv, Lined
  <2>2. Before(Set(buffer), Set(kernel')) /\ Before(Set(buffer), Set(taken'))
    BY <1>2, <2>1 DEF Before
  <2> QED  BY <1>0, <1>2, <2>1, <2>2 DEF Lined
<1>7. KernelIsNew'
  <2> SUFFICES ASSUME NEW a \in Axes, NEW f \in Set(kernel'), Events!IsOf(a, f)
               PROVE  Events!AxisEvent(a, position[a]) \in Set(kernel')
    BY <1>0 DEF KernelIsNew, HasNewest
  <2> DEFINE n == Events!AxisEvent(a, position[a])
  <2>1. n \in Set(kernel)
    BY <1>2 DEF EventsInv, KernelIsNew, HasNewest
  <2>2. n \notin Set(taken')
    <3>1. SUFFICES ASSUME n \in Set(taken') PROVE FALSE
      OBVIOUS
    <3>2. SameSource(n, f) /\ n.value = position[a]
      BY DEF SameSource, Events!AxisEvent, Events!IsOf
    <3>3. position[a] < f.value
      BY <1>2, <3>1, <3>2 DEF Before
    <3>4. f \in Events!Waiting /\ f.value \in Nat /\ f.type = "axis" /\ f.code = a
      BY <1>2, WaitingSets, EventsTyped, EventValues DEF Events!IsOf
    <3>5. f.value <= position[a]
      BY <3>4 DEF EventsInv, Happened
    <3>6. position[a] \in Nat
      BY EventsTyped
    <3> QED  BY <3>3, <3>4, <3>5, <3>6
  <2> QED  BY <1>2, <2>1, <2>2
<1>8. Happened' /\ SessionIsTrue' /\ DrainWorks' /\ DeliveredFirst'
  BY <1>0, <1>1, <1>4
  DEF EventsInv, Happened, SessionIsTrue, HasNewest, DrainWorks, DeliveredFirst
<1>9. LatestCatchesUp' /\ Applied' /\ Events!PressesAreKept'
  BY <1>0, <1>1, <1>4 DEF EventsInv, LatestCatchesUp, Applied, Events!PressesAreKept
<1> QED  BY <1>5, <1>6, <1>7, <1>8, <1>9 DEF EventsInv

\* Coalescing, in a buffer that has at most one event of the axis.
LEMMA CoalescedEvents ==
  ASSUME NEW s \in Seq(Events!Events), NEW e \in Events!Events,
         \A j, k \in DOMAIN s : Events!SameAxis(s[j], s[k]) => j = k,
         Ordered(s), Before(Set(s), {e})
  PROVE  LET c == Events!Coalesced(s, e) IN
         /\ c \in Seq(Events!Events) /\ Ordered(c)
         /\ \A j, k \in DOMAIN c : Events!SameAxis(c[j], c[k]) => j = k
         /\ Set(c) \subseteq Set(s) \cup {e}
         /\ e \in Set(c)
         /\ \A f \in Set(s) : f \in Set(c) \/ (Events!SameAxis(e, f) /\ f.value < e.value)
<1> DEFINE older == {k \in DOMAIN s : Events!SameAxis(e, s[k])}
           o == CHOOSE k \in older : TRUE
           r == IF older = {} THEN s ELSE Events!RemoveAt(s, o)
           c == Events!Coalesced(s, e)
<1>0. Len(s) \in Nat /\ DOMAIN s = 1..Len(s) /\ \A j \in 1..Len(s) : s[j] \in Events!Events
  BY LenProperties, ElementOfSeq
<1>1. older # {} => o \in DOMAIN s /\ Events!SameAxis(e, s[o])
  OBVIOUS
<1>2. /\ r \in Seq(Events!Events) /\ Ordered(r) /\ Set(r) \subseteq Set(s)
      /\ \A j, k \in DOMAIN r : Events!SameAxis(r[j], r[k]) => j = k
      /\ \A j \in DOMAIN r : ~Events!SameAxis(e, r[j])
      /\ \A f \in Set(s) : f \in Set(r) \/ (Events!SameAxis(e, f) /\ f.value < e.value)
  <2>1. CASE older = {}
    BY <1>0, <2>1
  <2>2. CASE older # {}
    <3>0. r = Events!RemoveAt(s, o)
      BY <2>2
    <3>1. o \in 1..Len(s) /\ Events!SameAxis(e, s[o])
      BY <1>0, <1>1, <2>2
    <3> HIDE DEF r, o, older
    <3>2. /\ r \in Seq(Events!Events) /\ Len(r) = Len(s) - 1 /\ Ordered(r)
          /\ \A j \in 1..Len(s) - 1 : r[j] = IF j < o THEN s[j] ELSE s[j + 1]
          /\ Set(s) = {s[o]} \cup Set(r)
      BY <1>0, <3>0, <3>1, RemoveEvent
    <3>3. DOMAIN r = 1..Len(s) - 1
      BY <3>2, LenProperties
    <3>4. \A j \in DOMAIN r : \E i \in DOMAIN s : i # o /\ r[j] = s[i]
      <4> SUFFICES ASSUME NEW j \in 1..Len(s) - 1 PROVE \E i \in 1..Len(s) : i # o /\ r[j] = s[i]
        BY <1>0, <3>3
      <4>1. CASE j < o
        BY <1>0, <3>1, <3>2, <4>1
      <4>2. CASE ~(j < o)
        <5>1. j + 1 \in 1..Len(s) /\ j + 1 # o
          BY <1>0, <3>1, <4>2
        <5> QED  BY <3>2, <4>2, <5>1
      <4> QED  BY <4>1, <4>2
    <3>5. \A j, k \in DOMAIN r : Events!SameAxis(r[j], r[k]) => j = k
      <4> SUFFICES ASSUME NEW j \in 1..Len(s) - 1, NEW k \in 1..Len(s) - 1,
                          Events!SameAxis(r[j], r[k])
                   PROVE  j = k
        BY <3>3
      <4> DEFINE i(x) == IF x < o THEN x ELSE x + 1
      <4>1. i(j) \in 1..Len(s) /\ i(k) \in 1..Len(s) /\ r[j] = s[i(j)] /\ r[k] = s[i(k)]
        BY <1>0, <3>1, <3>2
      <4>2. i(j) = i(k)
        <5> HIDE DEF i
        <5> QED  BY <1>0, <4>1
      <4> QED  BY <3>1, <4>2
    <3>6. \A j \in DOMAIN r : ~Events!SameAxis(e, r[j])
      <4> SUFFICES ASSUME NEW j \in DOMAIN r, Events!SameAxis(e, r[j]) PROVE FALSE
        OBVIOUS
      <4>1. PICK i \in DOMAIN s : i # o /\ r[j] = s[i]
        BY <3>4
      <4>2. Events!SameAxis(s[o], s[i])
        BY <3>1, <4>1 DEF Events!SameAxis, Events!IsOf
      <4> QED  BY <1>0, <3>1, <4>1, <4>2
    <3>7. s[o].value < e.value
      <4>1. s[o] \in Set(s) /\ SameSource(s[o], e)
        BY <3>1, <3>2 DEF Events!SameAxis, Events!IsOf, SameSource
      <4> QED  BY <4>1 DEF Before
    <3> QED  BY <3>1, <3>2, <3>5, <3>6, <3>7
  <2> QED  BY <2>1, <2>2
<1>3. c = Append(r, e)
  BY DEF Events!Coalesced
<1> HIDE DEF r, o, older, c
<1>4. /\ c \in Seq(Events!Events) /\ Len(r) \in Nat
      /\ DOMAIN c = 1..Len(r) + 1
      /\ \A j \in 1..Len(r) : c[j] = r[j]
      /\ c[Len(r) + 1] = e
      /\ Set(c) = Set(r) \cup {e} /\ Ordered(c)
  <2>1. Before(Set(r), {e})
    BY <1>2 DEF Before
  <2> QED  BY <1>2, <1>3, <2>1, AppendEvents
<1>5. \A j, k \in DOMAIN c : Events!SameAxis(c[j], c[k]) => j = k
  <2> SUFFICES ASSUME NEW j \in 1..Len(r) + 1, NEW k \in 1..Len(r) + 1,
                      Events!SameAxis(c[j], c[k])
               PROVE  j = k
    BY <1>4
  <2>0. DOMAIN r = 1..Len(r)
    BY <1>2, LenProperties
  <2>1. CASE j \in 1..Len(r) /\ k \in 1..Len(r)
    BY <1>2, <1>4, <2>0, <2>1
  <2>2. CASE j = Len(r) + 1 /\ k \in 1..Len(r)
    BY <1>2, <1>4, <2>0, <2>2
  <2>3. CASE j \in 1..Len(r) /\ k = Len(r) + 1
    <3>1. Events!SameAxis(e, r[j])
      BY <1>4, <2>3 DEF Events!SameAxis, Events!IsOf
    <3> QED  BY <1>2, <2>0, <2>3, <3>1
  <2> QED  BY <1>4, <2>1, <2>2, <2>3
<1> QED  BY <1>2, <1>4, <1>5 DEF c

\* The next event of a read enters the buffer, which keeps EventsInv.
LEMMA AppendEvent ==
  ASSUME EventsInv, Events!AppendCoalesced, taken # << >>
  PROVE  EventsInv'
<1> DEFINE e == Head(taken)
<1>0. /\ drain.pc = "append" /\ taken' = Tail(taken) /\ buffer' = Events!Coalesced(buffer, e)
      /\ UNCHANGED <<position, presses, kernel, drain, latest, memory, delivered, dropped,
                     discarded, forgotten>>
  BY DEF Events!AppendCoalesced, Events!Keeps, Events!At
<1>1. /\ e \in Events!Events /\ taken' \in Seq(Events!Events) /\ Len(taken') = Len(taken) - 1
      /\ Set(taken) = {e} \cup Set(taken') /\ Ordered(taken') /\ Before({e}, Set(taken'))
  BY <1>0, TailEvents, EventsTyped DEF EventsInv, Lined
<1>2. /\ buffer' \in Seq(Events!Events) /\ Ordered(buffer')
      /\ \A j, k \in DOMAIN buffer' : Events!SameAxis(buffer'[j], buffer'[k]) => j = k
      /\ Set(buffer') \subseteq Set(buffer) \cup {e}
      /\ e \in Set(buffer')
      /\ \A f \in Set(buffer) : f \in Set(buffer') \/ (Events!SameAxis(e, f) /\ f.value < e.value)
  <2>1. Before(Set(buffer), {e}) /\ Ordered(buffer)
    BY <1>1 DEF EventsInv, Lined, Before
  <2>2. \A j, k \in DOMAIN buffer : Events!SameAxis(buffer[j], buffer[k]) => j = k
    BY DEF EventsInv, Events!TypeOK
  <2>3. buffer \in Seq(Events!Events) /\ e \in Events!Events /\ buffer' = Events!Coalesced(buffer, e)
    BY <1>0, <1>1, EventsTyped
  <2> HIDE DEF e
  <2> QED  BY <2>1, <2>2, <2>3, CoalescedEvents
<1> HIDE DEF e
<1>3. Len(taken') <= ReadSize
  BY <1>1, EventsTyped, LenProperties
<1>4. Events!TypeOK'
  BY <1>0, <1>1, <1>2, <1>3 DEF EventsInv, Events!TypeOK
<1>5. Lined'
  <2>1. Before(Set(buffer), Set(kernel)) /\ Before(Set(taken), Set(kernel)) /\ Before(Set(buffer), Set(taken))
        /\ Ordered(kernel)
    BY DEF EventsInv, Lined
  <2>2. Before(Set(buffer'), Set(kernel)) /\ Before(Set(taken'), Set(kernel)) /\ Before(Set(buffer'), Set(taken'))
    BY <1>1, <1>2, <2>1 DEF Before
  <2> QED  BY <1>0, <1>1, <1>2, <2>1, <2>2 DEF Lined
<1>w. e \in Events!Waiting /\ e \in Events!Waiting'
  BY <1>1, <1>2, WaitingSets
<1>6. Events!Waiting' \subseteq Events!Waiting
  BY <1>0, <1>1, <1>2, WaitingSets
<1>7. \A f \in Events!Waiting : f \in Events!Waiting' \/ (Events!SameAxis(e, f) /\ f.value < e.value)
  BY <1>0, <1>1, <1>2, WaitingSets
<1>8. Happened' /\ KernelIsNew' /\ DrainWorks' /\ DeliveredFirst'
  BY <1>0, <1>6 DEF EventsInv, Happened, KernelIsNew, HasNewest, DrainWorks, DeliveredFirst
<1>9. \A a \in Axes : (\E f \in Events!Waiting : Events!IsOf(a, f))
                        => (\E f \in Events!Waiting' : Events!IsOf(a, f))
  <2> SUFFICES ASSUME NEW a \in Axes, NEW f \in Events!Waiting, Events!IsOf(a, f)
               PROVE  \E g \in Events!Waiting' : Events!IsOf(a, g)
    OBVIOUS
  <2>1. CASE Events!SameAxis(e, f)
    <3>1. Events!IsOf(a, e)
      BY <2>1 DEF Events!SameAxis, Events!IsOf
    <3> QED  BY <1>w, <3>1
  <2> QED  BY <1>7, <2>1
<1>10. SessionIsTrue'
  <2> SUFFICES ASSUME NEW a \in Axes \ dropped, NEW g \in Events!Waiting', Events!IsOf(a, g)
               PROVE  Events!AxisEvent(a, position[a]) \in Events!Waiting'
    BY <1>0 DEF SessionIsTrue, HasNewest
  <2> DEFINE n == Events!AxisEvent(a, position[a])
  <2>1. n \in Events!Waiting
    BY <1>0, <1>6 DEF EventsInv, SessionIsTrue, HasNewest
  <2>2. ~(Events!SameAxis(e, n) /\ n.value < e.value)
    <3> SUFFICES ASSUME Events!SameAxis(e, n), n.value < e.value PROVE FALSE
      OBVIOUS
    <3>1. e.type = "axis" /\ e.code = a /\ n.value = position[a]
      BY DEF Events!SameAxis, Events!IsOf, Events!AxisEvent
    <3>2. e.value <= position[a]
      BY <1>w, <3>1 DEF EventsInv, Happened
    <3>3. e.value \in Nat /\ position[a] \in Nat
      BY <1>1, EventsTyped, EventValues
    <3> QED  BY <3>1, <3>2, <3>3
  <2> QED  BY <1>7, <2>1, <2>2
<1>11. LatestCatchesUp' /\ Applied'
  BY <1>0, <1>9 DEF EventsInv, LatestCatchesUp, Applied
<1>12. Events!PressesAreKept'
  <2>1. Events!PressesIn(Events!Waiting') = Events!PressesIn(Events!Waiting)
    <3>1. \A f \in Events!Waiting : f.type = "key" => f \in Events!Waiting'
      <4>1. \A f : Events!SameAxis(e, f) => f.type = "axis"
        BY DEF Events!SameAxis, Events!IsOf
      <4> QED  BY <1>7, <4>1
    <3> QED  BY <1>6, <3>1 DEF Events!PressesIn
  <2> QED  BY <1>0, <2>1 DEF EventsInv, Events!PressesAreKept
<1> QED  BY <1>4, <1>5, <1>8, <1>10, <1>11, <1>12 DEF EventsInv

\* The oldest event of the buffer is delivered: the last of its axis is the position of
\* the axis, a press follows those before it.
LEMMA DeliverEvent ==
  ASSUME EventsInv, Events!Deliver
  PROVE  EventsInv'
<1> DEFINE e == buffer[1]
<1>0. /\ drain.pc = "deliver" /\ buffer # << >> /\ buffer' = Events!RemoveAt(buffer, 1)
      /\ latest' = IF e.type = "axis" THEN [latest EXCEPT ![e.code] = e.value] ELSE latest
      /\ discarded' = IF e.type = "axis" THEN discarded \ {e.code} ELSE discarded
      /\ delivered' = IF e.type = "axis" THEN delivered ELSE Append(delivered, e.value)
      /\ drain.handed < EventLimit
      /\ \/ drain' = [drain EXCEPT !.handed = drain.handed + 1]
         \/ drain' = [drain EXCEPT !.handed = drain.handed + 1, !.press = TRUE]
      /\ UNCHANGED <<position, presses, kernel, taken, memory, dropped, forgotten>>
  BY DEF Events!Deliver, Events!At, Events!OldestIn
<1>1. drain' \in Drains /\ drain'.pc = "deliver"
  <2>1. drain.handed + 1 \in 0..EventLimit /\ drain \in Drains
    <3>1. drain \in Drains /\ EventLimit \in Nat
      BY EventsTyped
    <3>2. drain.handed \in 0..EventLimit
      BY <3>1 DEF Drains
    <3>3. drain.handed < EventLimit
      BY <1>0
    <3> QED  BY ONLY <3>1, <3>2, <3>3
  <2> QED  BY <1>0, <2>1 DEF Drains
<1>2. 1 \in DOMAIN buffer /\ Len(buffer) \in Nat \ {0} /\ DOMAIN buffer = 1..Len(buffer)
  <2>1. Len(buffer) \in Nat \ {0}
    BY <1>0, EventsTyped, EmptySeq
  <2> QED  BY <2>1, EventsTyped, LenProperties
<1>3. /\ buffer' \in Seq(Events!Events) /\ Len(buffer') = Len(buffer) - 1
      /\ e \in Events!Events
      /\ \A j \in 1..Len(buffer) - 1 : buffer'[j] = buffer[j + 1]
      /\ Set(buffer) = {e} \cup Set(buffer')
      /\ Ordered(buffer') /\ Before({e}, Set(buffer'))
  <2>1. Ordered(buffer) /\ \A j \in 1..Len(buffer) - 1 : ~(j < 1)
    BY DEF EventsInv, Lined
  <2>2. buffer' = Events!RemoveAt(buffer, 1) /\ buffer \in Seq(Events!Events)
    BY <1>0, EventsTyped
  <2> QED  BY <1>2, <2>1, <2>2, RemoveEvent
<1> HIDE DEF e
<1>v. /\ e.value \in Nat /\ (e.type = "axis" => e.code \in Axes /\ e.value \in 0..MaxMoves)
      /\ (e.type # "axis" => e.type = "key" /\ e.value \in 1..MaxPresses)
  BY <1>3, EventValues
<1>4. \A j, k \in DOMAIN buffer' : Events!SameAxis(buffer'[j], buffer'[k]) => j = k
  <2> SUFFICES ASSUME NEW j \in 1..Len(buffer) - 1, NEW k \in 1..Len(buffer) - 1,
                      Events!SameAxis(buffer'[j], buffer'[k])
               PROVE  j = k
    BY <1>3, LenProperties
  <2>1. j + 1 \in DOMAIN buffer /\ k + 1 \in DOMAIN buffer
    BY <1>2
  <2>2. Events!SameAxis(buffer[j + 1], buffer[k + 1])
    BY <1>3
  <2>3. j + 1 = k + 1
    BY <2>1, <2>2 DEF EventsInv, Events!TypeOK
  <2> QED  BY <2>3
<1>w. /\ Events!Waiting = {e} \cup Events!Waiting' /\ Events!Waiting \subseteq Events!Events
  BY <1>0, <1>3, WaitingSets, EventsTyped
<1>5. Before({e}, Events!Waiting')
  <2>1. Before(Set(buffer), Set(kernel)) /\ Before(Set(buffer), Set(taken))
    BY DEF EventsInv, Lined
  <2> QED  BY <1>0, <1>3, <2>1, WaitingSets DEF Before
<1>6. /\ delivered' \in Seq(1..MaxPresses) /\ latest' \in [Axes -> 0..MaxMoves]
      /\ discarded' \subseteq Axes
  <2>1. delivered' \in Seq(1..MaxPresses)
    BY <1>0, <1>v, EventsTyped, AppendProperties
  <2>2. latest' \in [Axes -> 0..MaxMoves]
    BY <1>0, <1>v, EventsTyped
  <2>3. discarded' \subseteq Axes
    BY <1>0, EventsTyped
  <2> QED  BY <2>1, <2>2, <2>3
<1>7. Events!TypeOK'
  BY <1>0, <1>1, <1>3, <1>4, <1>6 DEF EventsInv, Events!TypeOK, Drains
<1>8. Lined'
  BY <1>0, <1>3 DEF EventsInv, Lined, Before
<1>9. Happened' /\ KernelIsNew' /\ DrainWorks'
  BY <1>0, <1>1, <1>w DEF EventsInv, Happened, KernelIsNew, HasNewest, DrainWorks
<1>10. SessionIsTrue' /\ LatestCatchesUp'
  <2> SUFFICES ASSUME NEW a \in Axes \ dropped
               PROVE  /\ HasNewest(Events!Waiting, a)'
                      /\ a \notin discarded' /\ (\A f \in Events!Waiting' : ~Events!IsOf(a, f))
                           => latest'[a] = position[a]
    BY <1>0 DEF SessionIsTrue, LatestCatchesUp
  <2> DEFINE n == Events!AxisEvent(a, position[a])
  <2>0. position[a] \in Nat /\ Events!IsOf(a, n) /\ n.value = position[a]
    BY EventsTyped DEF Events!IsOf, Events!AxisEvent
  <2>1. /\ (\E f \in Events!Waiting : Events!IsOf(a, f)) => n \in Events!Waiting
        /\ a \notin discarded /\ (\A f \in Events!Waiting : ~Events!IsOf(a, f))
             => latest[a] = position[a]
    BY <1>0 DEF EventsInv, SessionIsTrue, HasNewest, LatestCatchesUp
  <2>2. CASE Events!IsOf(a, e) /\ e = n
    <3>1. ASSUME NEW f \in Events!Waiting', Events!IsOf(a, f) PROVE FALSE
      <4>1. SameSource(e, f)
        BY <2>2, <3>1 DEF Events!IsOf, SameSource
      <4>2. position[a] < f.value
        BY <1>5, <2>0, <2>2, <3>1, <4>1 DEF Before
      <4>3. f \in Events!Waiting /\ f.type = "axis" /\ f.code = a /\ f.value \in Nat
        BY <1>w, <3>1, EventValues DEF Events!IsOf
      <4>4. f.value <= position[a]
        BY <4>3 DEF EventsInv, Happened
      <4> QED  BY <2>0, <4>2, <4>3, <4>4
    <3>2. latest'[a] = position[a]
      <4>1. e.type = "axis" /\ e.code = a /\ e.value = position[a]
        BY <2>0, <2>2 DEF Events!IsOf
      <4> QED  BY <1>0, <4>1, EventsTyped
    <3> QED  BY <3>1, <3>2 DEF HasNewest
  <2>3. CASE Events!IsOf(a, e) /\ e # n
    <3>1. n \in Events!Waiting'
      BY <1>w, <2>1, <2>3
    <3> QED  BY <1>0, <2>0, <3>1 DEF HasNewest
  <2>4. CASE ~Events!IsOf(a, e)
    <3>1. e # n
      BY <2>0, <2>4
    <3>2. latest'[a] = latest[a] /\ (a \in discarded' <=> a \in discarded)
      BY <1>0, <1>v, <2>4, EventsTyped DEF Events!IsOf
    <3> QED  BY <1>0, <1>w, <2>1, <2>4, <3>1, <3>2 DEF HasNewest
  <2> QED  BY <2>2, <2>3, <2>4
<1>11. DeliveredFirst' /\ Events!PressesAreKept'
  <2>1. CASE e.type # "key"
    <3>1. delivered' = delivered
      BY <1>0, <1>v, <2>1
    <3>2. Events!PressesIn(Events!Waiting) = Events!PressesIn(Events!Waiting')
      BY <1>w, <2>1 DEF Events!PressesIn
    <3>3. DeliveredFirst'
      BY <1>w, <3>1 DEF EventsInv, DeliveredFirst
    <3> QED  BY <1>0, <3>1, <3>2, <3>3 DEF EventsInv, Events!PressesAreKept
  <2>2. CASE e.type = "key"
    <3>1. delivered' = Append(delivered, e.value) /\ e.value \in 1..MaxPresses
      BY <1>0, <1>v, <2>2
    <3>2. /\ Len(delivered) \in Nat /\ DOMAIN delivered = 1..Len(delivered)
          /\ DOMAIN delivered' = 1..Len(delivered) + 1
          /\ \A j \in 1..Len(delivered) : delivered'[j] = delivered[j]
          /\ delivered'[Len(delivered) + 1] = e.value
      <4>1. delivered' \in Seq(1..MaxPresses)
        BY <1>6
      <4> QED  BY <3>1, <4>1, EventsTyped, LenProperties, AppendProperties
    <3>3. Set(delivered') = Set(delivered) \cup {e.value}
      <4>1. \A j \in 1..Len(delivered) + 1 : j \in 1..Len(delivered) \/ j = Len(delivered) + 1
        BY <3>2
      <4>2. \A j \in 1..Len(delivered) : j \in 1..Len(delivered) + 1
        BY <3>2
      <4>3. \A n \in Set(delivered') : n \in Set(delivered) \cup {e.value}
        BY <3>2, <4>1 DEF Set, Events!ToSet
      <4>4. \A n \in Set(delivered) : n \in Set(delivered')
        BY <3>2, <4>2 DEF Set, Events!ToSet
      <4>5. e.value \in Set(delivered')
        <5>1. Len(delivered) + 1 \in 1..Len(delivered) + 1
          BY <3>2
        <5> QED  BY <3>2, <5>1 DEF Set, Events!ToSet
      <4> QED  BY <4>3, <4>4, <4>5
    <3>4. \A f \in Events!Waiting' : f.type = "key" => e.value < f.value
      <4> SUFFICES ASSUME NEW f \in Events!Waiting', f.type = "key" PROVE e.value < f.value
        OBVIOUS
      <4>1. e.code = f.code
        BY <1>3, <1>w, <2>2, EventValues
      <4> QED  BY <1>5, <2>2, <4>1 DEF Before, SameSource
    <3>5. \A n \in Set(delivered) : n < e.value
      BY <1>w, <2>2 DEF EventsInv, DeliveredFirst
    <3>6. DeliveredFirst'
      BY <1>w, <3>3, <3>4 DEF EventsInv, DeliveredFirst
    <3>7. Events!PressesIn(Events!Waiting) = {e.value} \cup Events!PressesIn(Events!Waiting')
      BY <1>w, <2>2 DEF Events!PressesIn
    <3>8. \A j, k \in DOMAIN delivered' : j < k => delivered'[j] < delivered'[k]
      <4> SUFFICES ASSUME NEW j \in 1..Len(delivered) + 1, NEW k \in 1..Len(delivered) + 1, j < k
                   PROVE  delivered'[j] < delivered'[k]
        BY <3>2
      <4>1. j \in 1..Len(delivered) /\ delivered[j] \in Set(delivered)
        BY <3>2 DEF Set, Events!ToSet
      <4>2. CASE k = Len(delivered) + 1
        BY <3>2, <3>5, <4>1, <4>2
      <4>3. CASE k \in 1..Len(delivered)
        BY <3>2, <4>1, <4>3 DEF EventsInv, Events!PressesAreKept
      <4> QED  BY <3>2, <4>2, <4>3
    <3>9. 1..presses = Set(delivered') \cup Events!PressesIn(Events!Waiting') \cup forgotten
      BY <3>3, <3>7 DEF EventsInv, Events!PressesAreKept, Set
    <3>10. Set(delivered') \cap Events!PressesIn(Events!Waiting') = {}
      <4> SUFFICES ASSUME NEW f \in Events!Waiting', f.type = "key", f.value \in Set(delivered')
                   PROVE  FALSE
        BY DEF Events!PressesIn
      <4>1. f.value \in Nat
        BY <1>w, EventValues
      <4>2. f.value < f.value
        BY <3>6 DEF DeliveredFirst
      <4> QED  BY <4>1, <4>2
    <3> QED  BY <1>0, <3>6, <3>8, <3>9, <3>10 DEF Events!PressesAreKept, Set
  <2> QED  BY <2>1, <2>2
<1>12. Applied'
  BY <1>1 DEF Applied
<1> QED  BY <1>7, <1>8, <1>9, <1>10, <1>11, <1>12 DEF EventsInv

\* The batch is applied, or its axis events are discarded with a press.
LEMMA DeliveredEvents ==
  ASSUME EventsInv, Events!Delivered
  PROVE  EventsInv'
<1>0. /\ drain.pc = "deliver" /\ taken = << >>
      /\ UNCHANGED <<position, presses, kernel, taken, buffer, delivered, dropped, forgotten>>
  BY DEF Events!Delivered, Events!At, EventsInv, DrainWorks
<1>1. drain' \in Drains /\ drain'.pc = "idle"
  BY DrainGoes DEF Events!Delivered
<1>2. \/ /\ latest' = memory /\ memory' = memory
         /\ discarded' = discarded \cup {a \in Axes : latest[a] # memory[a]}
      \/ memory' = latest /\ latest' = latest /\ discarded' = discarded
  BY DEF Events!Delivered
<1>3. Events!Waiting' = Events!Waiting
  BY <1>0 DEF Events!Waiting
<1>4. Events!TypeOK'
  <2>1. /\ latest' \in [Axes -> 0..MaxMoves] /\ memory' \in [Axes -> 0..MaxMoves]
        /\ discarded' \subseteq Axes
    BY <1>2, EventsTyped
  <2> QED  BY <1>0, <1>1, <2>1 DEF EventsInv, Events!TypeOK, Drains
<1>5. Lined' /\ Happened' /\ KernelIsNew' /\ DeliveredFirst' /\ DrainWorks'
  BY <1>0, <1>1, <1>3
  DEF EventsInv, Lined, Happened, KernelIsNew, HasNewest, DeliveredFirst, DrainWorks
<1>6. SessionIsTrue' /\ Events!PressesAreKept'
  BY <1>0, <1>3 DEF EventsInv, SessionIsTrue, HasNewest, Events!PressesAreKept
<1>7. Applied'
  BY <1>2 DEF Applied
<1>8. LatestCatchesUp'
  <2> SUFFICES ASSUME NEW a \in Axes \ dropped, a \notin discarded',
                      \A f \in Events!Waiting : ~Events!IsOf(a, f)
               PROVE  latest'[a] = position[a]
    BY <1>0, <1>3 DEF LatestCatchesUp
  <2>1. a \notin discarded /\ latest'[a] = latest[a]
    BY <1>2
  <2>2. latest[a] = position[a]
    BY <1>0, <2>1 DEF EventsInv, LatestCatchesUp
  <2> QED  BY <2>1, <2>2
<1> QED  BY <1>4, <1>5, <1>6, <1>7, <1>8 DEF EventsInv

\* The positions queued by the activation are those of the axes.
LEMMA EventsInit == Events!Init => EventsInv
<1> SUFFICES ASSUME Events!Init PROVE EventsInv
  OBVIOUS
<1>0. /\ kernel = << >> /\ taken = << >> /\ delivered = << >> /\ presses = 0 /\ forgotten = {}
      /\ dropped = {} /\ drain = [pc |-> "starting", reads |-> 0, handed |-> 0, press |-> FALSE]
      /\ \A a \in Axes : position[a] = 0
      /\ position \in [Axes -> 0..MaxMoves] /\ memory \in [Axes -> 0..MaxMoves]
      /\ latest = memory /\ discarded = {}
      /\ 0 \in 0..MaxPresses /\ 0 \in 0..MaxBatches /\ 0 \in 0..EventLimit
  BY DevicesAssumption DEF Events!Init, DevicesAssumption
<1>1. PICK n \in 0..Cardinality(Axes) :
        /\ buffer \in [1..n -> {Events!AxisEvent(a, position[a]) : a \in Axes}]
        /\ \A j, k \in 1..n : buffer[j] = buffer[k] => j = k
  <2>1. buffer \in Events!Primings
    BY DEF Events!Init
  <2> DEFINE F(n) == {s \in [1..n -> {Events!AxisEvent(a, position[a]) : a \in Axes}] :
                        \A j, k \in 1..n : s[j] = s[k] => j = k}
  <2>2. buffer \in UNION {F(n) : n \in 0..Events!Cardinality(Axes)}
    BY <2>1 DEF Events!Primings
  <2>c. Events!Cardinality(Axes) = Cardinality(Axes)
    BY DEF Events!Cardinality, Cardinality
  <2>3. \E n \in 0..Cardinality(Axes) : buffer \in F(n)
    <3> HIDE DEF F
    <3> QED  BY <2>2, <2>c
  <2> QED  BY <2>3
<1>2. n \in Nat
  BY DevicesAssumption, FS_CardinalityType DEF DevicesAssumption
<1>3. \A j \in 1..n : \E a \in Axes : buffer[j] = Events!AxisEvent(a, 0)
  BY <1>0, <1>1
<1>4. \A a \in Axes : Events!AxisEvent(a, 0) \in Events!Events
  <2>1. 0 \in 0..MaxMoves
    BY DevicesAssumption DEF DevicesAssumption
  <2> QED  BY <2>1 DEF Events!Events
<1>5. buffer \in [1..n -> Events!Events] /\ DOMAIN buffer = 1..n
  BY <1>1, <1>3, <1>4
<1>6. buffer \in Seq(Events!Events)
  BY <1>2, <1>5, SeqDef
<1>7. \A j, k \in DOMAIN buffer : Events!SameAxis(buffer[j], buffer[k]) => j = k
  <2> SUFFICES ASSUME NEW j \in 1..n, NEW k \in 1..n, Events!SameAxis(buffer[j], buffer[k])
               PROVE  j = k
    BY <1>5
  <2>1. PICK a \in Axes : buffer[j] = Events!AxisEvent(a, 0)
    BY <1>3
  <2>2. PICK b \in Axes : buffer[k] = Events!AxisEvent(b, 0)
    BY <1>3
  <2>3. a = b
    BY <2>1, <2>2 DEF Events!SameAxis, Events!IsOf, Events!AxisEvent
  <2> QED  BY <1>1, <2>1, <2>2, <2>3
<1>8. Ordered(buffer)
  <2> SUFFICES ASSUME NEW j \in 1..n, NEW k \in 1..n, j < k, SameSource(buffer[j], buffer[k])
               PROVE  FALSE
    BY <1>5 DEF Ordered
  <2>1. Events!SameAxis(buffer[j], buffer[k])
    <3>1. buffer[j].type = "axis"
      <4>1. PICK a \in Axes : buffer[j] = Events!AxisEvent(a, 0)
        BY <1>3
      <4> QED  BY <4>1 DEF Events!AxisEvent
    <3> QED  BY <3>1 DEF SameSource, Events!SameAxis, Events!IsOf
  <2>2. j = k
    BY <1>5, <1>7, <2>1
  <2> QED  BY <1>2, <2>2
<1>9. Events!Waiting = Set(buffer) /\ \A f \in Events!Waiting : \E a \in Axes : f = Events!AxisEvent(a, 0)
  <2>1. Events!Waiting = Set(buffer)
    BY <1>0, WaitingSets, NoEvents
  <2> QED  BY <1>3, <1>5, <2>1 DEF Set, Events!ToSet
<1>10. \A f \in Events!Waiting : f.type = "axis" /\ f.code \in Axes /\ f.value = 0
  BY <1>9 DEF Events!AxisEvent
<1>11. Events!TypeOK
  <2>1. Len(kernel) <= QueueSize /\ Len(taken) <= ReadSize /\ kernel \in Seq(Events!Events)
        /\ taken \in Seq(Events!Events) /\ delivered \in Seq(1..MaxPresses)
    BY <1>0, EmptySeq, DevicesAssumption DEF DevicesAssumption
  <2> QED  BY <1>0, <1>6, <1>7, <2>1 DEF Events!TypeOK
<1>12. Lined /\ Happened /\ KernelIsNew /\ SessionIsTrue /\ DrainWorks
  <2>1. Lined
    BY <1>0, <1>8, NoEvents DEF Lined, Before
  <2>2. Happened
    BY <1>0, <1>10 DEF Happened
  <2> QED  BY <1>0, <2>1, <2>2, NoEvents DEF KernelIsNew, HasNewest, SessionIsTrue, DrainWorks
<1>13. DeliveredFirst /\ LatestCatchesUp /\ Applied /\ Events!PressesAreKept
  <2>1. Set(delivered) = {} /\ DOMAIN delivered = {} /\ Events!PressesIn(Events!Waiting) = {} /\ 1..presses = {}
    BY <1>0, <1>10 DEF Set, Events!ToSet, Events!PressesIn
  <2> QED  BY <1>0, <2>1 DEF DeliveredFirst, LatestCatchesUp, Applied, Events!PressesAreKept, Set
<1> QED  BY <1>11, <1>12, <1>13 DEF EventsInv

\* Every step of the operator, the kernel and the thread keeps EventsInv.
LEMMA EventsNext ==
  ASSUME EventsInv, [Events!Next]_Events!event_vars
  PROVE  EventsInv'
<1>1. CASE Events!Discarded
  BY <1>1, DrainGoes, DrainMoves DEF Events!Discarded, Events!Keeps, Events!At, EventsInv,
         DrainWorks
<1>2. CASE Events!ReadBegins
  <2>1. PICK pc \in {"read", "deliver"} : Events!Goes(pc)
    BY <1>2 DEF Events!ReadBegins
  <2> QED  BY <1>2, <2>1, DrainGoes, DrainMoves
           DEF Events!ReadBegins, Events!Keeps, Events!At, EventsInv, DrainWorks
<1>3. CASE Events!AppendCoalesced /\ taken = << >>
  <2>1. drain' = [drain EXCEPT !.pc = "more"] /\ drain.pc = "append" /\ drain \in Drains
    BY <1>3, EventsTyped DEF Events!AppendCoalesced, Events!At
  <2>2. drain' \in Drains /\ drain'.pc = "more"
    BY <2>1 DEF Drains
  <2> QED  BY <1>3, <2>1, <2>2, DrainMoves DEF Events!AppendCoalesced, Events!Keeps
<1>4. CASE Events!ReadMore
  <2>0. drain.pc = "more" /\ taken = << >> /\ drain \in Drains
        /\ UNCHANGED <<position, presses, kernel, taken, buffer, latest, memory, delivered,
                       dropped, discarded, forgotten>>
    BY <1>4, EventsTyped DEF Events!ReadMore, Events!Keeps, Events!At, EventsInv, DrainWorks
  <2>1. CASE drain.reads < MaxBatches /\ drain' = [drain EXCEPT !.pc = "read"]
    <3>1. drain' \in Drains /\ drain'.pc = "read" /\ drain'.reads < MaxBatches
      BY <2>0, <2>1 DEF Drains
    <3> QED  BY <2>0, <3>1, DrainMoves
  <2>2. CASE Events!Goes("deliver")
    BY <2>0, <2>2, DrainGoes, DrainMoves
  <2> QED  BY <1>4, <2>1, <2>2 DEF Events!ReadMore
<1>5. CASE Events!Delivered
  BY <1>5, DeliveredEvents
<1>6. CASE UNCHANGED Events!event_vars
  <2>1. drain' \in Drains
    BY <1>6, EventsTyped DEF Events!event_vars
  <2> QED  BY <1>6, <2>1, DrainMoves DEF Events!event_vars, EventsInv, DrainWorks
<1> QED  BY <1>1, <1>2, <1>3, <1>4, <1>5, <1>6, MoveEvents, PressEvents, DiscardEvents,
            SnapshotEvents, ReadEvents, AppendEvent, DeliverEvent DEF Events!Next

\* But for what the kernel drops and what the service discards with a press of the stop
\* button, neither an axis position nor a press is lost between the kernel and the
\* service, whatever the sizes of the queue, of a read and of a batch: coalescing leaves
\* the newest position, batches keep the order, and what is not read stays in the buffer.
THEOREM NothingIsLostEver == Events!Spec => []NothingIsLost
<1>1. EventsInv => NothingIsLost
  BY DEF EventsInv, LatestCatchesUp, Applied, NothingIsLost, Events!MemoryCatchesUp
<1> QED  BY <1>1, EventsInit, EventsNext, PTL DEF Events!Spec

-----------------------------------------------------------------------------
(* StatusLed, with the poller and with the joystick thread                 *)

LedColors   == {"GREEN", "YELLOW", "RED"}
LedRecords  == [pc : {"idle", "seen", "resolve", "apply"},
                color : {"GREEN", "YELLOW", "RED", "NONE", "FAULT", "FINE"}, force : BOOLEAN]
LedChannels == [green : {"off", "on"}, red : {"off", "dim", "on"}]

\* A color is applied after it was resolved: neither what was read of the motors nor
\* what a finished refresh left behind.
LedInv(t) ==
  /\ faults \subseteq {"motor", "bluetooth"}
  /\ lastColor \in {"GREEN", "YELLOW", "RED", "NONE"}
  /\ led \in LedChannels
  /\ motorsFail \in BOOLEAN
  /\ setter \in [{t} -> LedRecords]
  /\ writeErrors \in 0..MaxWriteErrors
  /\ setter[t].pc = "apply" => setter[t].color \in LedColors

\* The only thread goes on with a new record.
LEMMA LedMoves ==
  ASSUME NEW t, LedInv(t), NEW r \in LedRecords, r.pc = "apply" => r.color \in LedColors,
         setter' = [setter EXCEPT ![t] = r],
         faults' \subseteq {"motor", "bluetooth"}, motorsFail' \in BOOLEAN,
         lastColor' \in {"GREEN", "YELLOW", "RED", "NONE"}, led' \in LedChannels,
         writeErrors' \in 0..MaxWriteErrors
  PROVE  LedInv(t)'
<1>1. setter' \in [{t} -> LedRecords] /\ setter'[t] = r
  BY DEF LedInv
<1> QED  BY <1>1 DEF LedInv

\* A resolved color is one of the colors.
LEMMA LedResolves ==
  ASSUME NEW t, LedInv(t), NEW c \in LedColors,
         setter' = [setter EXCEPT ![t].pc = "apply", ![t].color = c],
         UNCHANGED <<faults, lastColor, led, motorsFail, writeErrors>>
  PROVE  LedInv(t)'
<1>1. setter[t] \in LedRecords
  BY DEF LedInv
<1> DEFINE r == [setter[t] EXCEPT !.pc = "apply", !.color = c]
<1>2. r \in LedRecords /\ r.color = c
  BY <1>1 DEF LedRecords, LedColors
<1>3. setter' = [setter EXCEPT ![t] = r]
  BY DEF LedInv
<1> HIDE DEF r
<1> QED  BY <1>2, <1>3, LedMoves DEF LedInv

\* What the writes of a color may leave in the channels.
LEMMA LedWrites ==
  ASSUME led \in LedChannels, NEW c \in LedColors
  PROVE  /\ Led!Looks(c) \in LedChannels /\ Led!Interrupted(c) \subseteq LedChannels
         /\ LocalLed!Looks(c) \in LedChannels /\ LocalLed!Interrupted(c) \subseteq LedChannels
<1>1. [led EXCEPT !.green = "off"] \in LedChannels /\ Led!Off \in LedChannels /\ LocalLed!Off \in LedChannels
  BY DEF LedChannels, Led!Off, LocalLed!Off
<1>2. \A d \in LedColors : Led!Looks(d) \in LedChannels /\ LocalLed!Looks(d) \in LedChannels
  BY DEF LedColors, LedChannels, Led!Looks, LocalLed!Looks
<1>3. "GREEN" \in LedColors
  BY DEF LedColors
<1> QED  BY <1>1, <1>2, <1>3 DEF Led!Interrupted, LocalLed!Interrupted

\* The record of a thread that rests, or of one that begins to resolve.
LEMMA LedRests ==
  /\ Led!Resting \in LedRecords /\ LocalLed!Resting \in LedRecords
  /\ [Led!Resting EXCEPT !.pc = "resolve"] \in LedRecords
  /\ [LocalLed!Resting EXCEPT !.pc = "resolve"] \in LedRecords
  /\ Led!Resting.pc = "idle" /\ LocalLed!Resting.pc = "idle"
  /\ [Led!Resting EXCEPT !.pc = "resolve"].pc = "resolve"
  /\ [LocalLed!Resting EXCEPT !.pc = "resolve"].pc = "resolve"
BY DEF Led!Resting, LocalLed!Resting, LedRecords

\* LedInv holds at first, with the poller and in LOCAL.
LEMMA LedInit ==
  /\ Led!Init => LedInv("poller")
  /\ LocalLed!Init => LedInv("joystick")
<1>0. 0 \in 0..MaxWriteErrors /\ Led!Off \in LedChannels /\ LocalLed!Off \in LedChannels
  BY DevicesAssumption DEF DevicesAssumption, Led!Off, LocalLed!Off, LedChannels
<1>1. ASSUME Led!Init PROVE LedInv("poller")
  <2> DEFINE r == [Led!Resting EXCEPT !.pc = "resolve"]
  <2>1. setter = [t \in {"poller"} |-> r]
    BY <1>1 DEF Led!Init, Led!Threads, Led!Poller
  <2>2. r \in LedRecords /\ r.pc = "resolve"
    BY LedRests
  <2> HIDE DEF r
  <2> QED  BY <1>0, <1>1, <2>1, <2>2 DEF Led!Init, LedInv
<1>2. ASSUME LocalLed!Init PROVE LedInv("joystick")
  <2> DEFINE r == [LocalLed!Resting EXCEPT !.pc = "resolve"]
  <2>1. setter = [t \in {"joystick"} |-> r]
    BY <1>2 DEF LocalLed!Init, LocalLed!Threads
  <2>2. r \in LedRecords /\ r.pc = "resolve"
    BY LedRests
  <2> HIDE DEF r
  <2> QED  BY <1>0, <1>2, <2>1, <2>2 DEF LocalLed!Init, LedInv
<1> QED  BY <1>1, <1>2

\* Every step with the poller keeps LedInv.
LEMMA LedNext ==
  ASSUME LedInv("poller"), [Led!Next]_Led!led_vars
  PROVE  LedInv("poller")'
<1>0. setter["poller"] \in LedRecords /\ setter \in [{"poller"} -> LedRecords]
  BY DEF LedInv
<1>1. CASE Led!ReadMotors
  <2> DEFINE c == IF motorsFail THEN "FAULT" ELSE "FINE"
             r == [setter["poller"] EXCEPT !.pc = "seen", !.color = c]
  <2>1. setter' = [setter EXCEPT !["poller"].pc = "seen", !["poller"].color = c]
        /\ UNCHANGED <<faults, lastColor, led, motorsFail, writeErrors>>
    BY <1>1 DEF Led!ReadMotors, Led!Poller
  <2>2. r \in LedRecords /\ r.pc = "seen"
    BY <1>0 DEF LedRecords
  <2>3. setter' = [setter EXCEPT !["poller"] = r]
    BY <1>0, <2>1
  <2> HIDE DEF r
  <2> QED  BY <2>1, <2>2, <2>3, LedMoves DEF LedInv
<1>2. CASE Led!JudgeMotors
  <2>1. PICK recovered \in BOOLEAN :
          setter' = [setter EXCEPT !["poller"] = [pc |-> "resolve", color |-> "NONE", force |-> recovered]]
    BY <1>2 DEF Led!JudgeMotors, Led!Poller, Led!AfterReading
  <2>2. [pc |-> "resolve", color |-> "NONE", force |-> recovered] \in LedRecords
    BY DEF LedRecords
  <2>3. faults' \subseteq {"motor", "bluetooth"} /\ UNCHANGED <<lastColor, led, motorsFail,
                                                                writeErrors>>
    BY <1>2 DEF Led!JudgeMotors, LedInv
  <2> QED  BY <2>1, <2>2, <2>3, LedMoves DEF LedInv
<1>3. CASE Led!Resolve("poller")
  <2>1. Led!DueColor \in LedColors
    BY DevicesAssumption DEF Led!DueColor, LedColors, DevicesAssumption
  <2> QED  BY <1>3, <2>1, LedResolves DEF Led!Resolve
<1>4. CASE Led!Apply("poller")
  <2> DEFINE c == setter["poller"].color
  <2>1. c \in LedColors
    BY <1>4 DEF Led!Apply, Led!At, LedInv
  <2>2. PICK r \in {Led!Resting, [Led!Resting EXCEPT !.pc = "resolve"]} :
          setter' = [setter EXCEPT !["poller"] = r]
    BY <1>4 DEF Led!Apply
  <2>3. r \in LedRecords /\ r.pc # "apply"
    BY LedRests
  <2>4. Led!Looks(c) \in LedChannels /\ Led!Interrupted(c) \subseteq LedChannels
    BY <2>1, LedWrites DEF LedInv
  <2>5. lastColor' \in {"GREEN", "YELLOW", "RED", "NONE"} /\ led' \in LedChannels
    BY <1>4, <2>1, <2>4 DEF Led!Apply, LedInv, LedColors
  <2>6. writeErrors' \in 0..MaxWriteErrors
    <3>1. writeErrors' = writeErrors \/ (writeErrors < MaxWriteErrors /\ writeErrors' = writeErrors + 1)
      BY <1>4 DEF Led!Apply
    <3> QED  BY <3>1, DevicesAssumption DEF LedInv, DevicesAssumption
  <2>7. UNCHANGED <<faults, motorsFail>>
    BY <1>4 DEF Led!Apply
  <2> QED  BY <2>2, <2>3, <2>5, <2>6, <2>7, LedMoves DEF LedInv
<1>5. CASE Led!MotorsChange \/ UNCHANGED Led!led_vars
  BY <1>5 DEF Led!MotorsChange, Led!led_vars, LedInv
<1> QED  BY <1>1, <1>2, <1>3, <1>4, <1>5 DEF Led!Next, Led!Threads, Led!Poller

\* Every step in LOCAL, where the joystick thread reports, keeps LedInv.
LEMMA LocalLedNext ==
  ASSUME LedInv("joystick"), [LocalLed!Next]_LocalLed!led_vars
  PROVE  LedInv("joystick")'
<1>0. setter["joystick"] \in LedRecords /\ setter \in [{"joystick"} -> LedRecords]
  BY DEF LedInv
<1>1. CASE LocalLed!Report("joystick")
  <2>1. PICK f \in BOOLEAN :
          setter' = [setter EXCEPT !["joystick"] = [setter["joystick"] EXCEPT !.pc = "resolve", !.force = f]]
    <3>1. CASE setter' = [setter EXCEPT !["joystick"].pc = "resolve"]
      <4>1. [setter["joystick"] EXCEPT !.pc = "resolve", !.force = setter["joystick"].force]
              = [setter["joystick"] EXCEPT !.pc = "resolve"]
        BY <1>0 DEF LedRecords
      <4>2. setter["joystick"].force \in BOOLEAN
        BY <1>0 DEF LedRecords
      <4>3. setter' = [setter EXCEPT !["joystick"] = [setter["joystick"] EXCEPT !.pc = "resolve"]]
        BY <1>0, <3>1
      <4> QED  BY <4>1, <4>2, <4>3
    <3>2. CASE setter' = [setter EXCEPT !["joystick"].pc = "resolve", !["joystick"].force = TRUE]
      <4>1. setter' = [setter EXCEPT !["joystick"] = [setter["joystick"] EXCEPT !.pc = "resolve", !.force = TRUE]]
        BY <1>0, <3>2
      <4> QED  BY <4>1
    <3> QED  BY <1>1, <3>1, <3>2 DEF LocalLed!Report
  <2> DEFINE r == [setter["joystick"] EXCEPT !.pc = "resolve", !.force = f]
  <2>2. r \in LedRecords /\ r.pc = "resolve"
    BY <1>0 DEF LedRecords
  <2>3. faults' \subseteq {"motor", "bluetooth"} /\ UNCHANGED <<lastColor, led, motorsFail,
                                                                writeErrors>>
    BY <1>1 DEF LocalLed!Report, LocalLed!Sources, LedInv
  <2> HIDE DEF r
  <2> QED  BY <2>1, <2>2, <2>3, LedMoves DEF LedInv, r
<1>2. CASE LocalLed!Resolve("joystick")
  <2>1. LocalLed!DueColor \in LedColors
    BY DevicesAssumption DEF LocalLed!DueColor, LedColors, DevicesAssumption
  <2> QED  BY <1>2, <2>1, LedResolves DEF LocalLed!Resolve
<1>3. CASE LocalLed!Apply("joystick")
  <2> DEFINE c == setter["joystick"].color
  <2>1. c \in LedColors
    BY <1>3 DEF LocalLed!Apply, LocalLed!At, LedInv
  <2>2. setter' = [setter EXCEPT !["joystick"] = LocalLed!Resting]
    BY <1>3 DEF LocalLed!Apply, LocalLed!Poller
  <2>3. LocalLed!Looks(c) \in LedChannels /\ LocalLed!Interrupted(c) \subseteq LedChannels
    BY <2>1, LedWrites DEF LedInv
  <2>4. lastColor' \in {"GREEN", "YELLOW", "RED", "NONE"} /\ led' \in LedChannels
    BY <1>3, <2>1, <2>3 DEF LocalLed!Apply, LedInv, LedColors
  <2>5. writeErrors' \in 0..MaxWriteErrors
    <3>1. writeErrors' = writeErrors \/ (writeErrors < MaxWriteErrors /\ writeErrors' = writeErrors + 1)
      BY <1>3 DEF LocalLed!Apply
    <3> QED  BY <3>1, DevicesAssumption DEF LedInv, DevicesAssumption
  <2>6. UNCHANGED <<faults, motorsFail>>
    BY <1>3 DEF LocalLed!Apply
  <2>7. LocalLed!Resting \in LedRecords /\ LocalLed!Resting.pc # "apply"
    BY LedRests
  <2> QED  BY <2>2, <2>4, <2>5, <2>6, <2>7, LedMoves DEF LedInv
<1>4. CASE UNCHANGED LocalLed!led_vars
  BY <1>4 DEF LocalLed!led_vars, LedInv
<1> QED  BY <1>1, <1>2, <1>3, <1>4
         DEF LocalLed!Next, LocalLed!Threads, LocalLed!ReadMotors, LocalLed!JudgeMotors,
             LocalLed!MotorsChange

\* LedInv has the types of the LED as its parts.
LEMMA LedTypes ==
  /\ LedInv("poller") => Led!TypeOK
  /\ LedInv("joystick") => LocalLed!TypeOK
BY DEF LedInv, LedRecords, LedChannels, Led!TypeOK, Led!Threads, Led!Poller, Led!Colors,
       Led!Sources,
       Led!Channels, LocalLed!TypeOK, LocalLed!Threads, LocalLed!Colors, LocalLed!Sources, LocalLed!Channels

-----------------------------------------------------------------------------
(* MotorSnapshots                                                          *)

CallerPlaces ==
  {"idle", "preempt", "mark", "marked", "halt", "enqueue", "publish", "republish",
   "reread", "cleared", "refuse", "pop", "popped", "write"}

CallerRecords ==
  [pc : CallerPlaces,
   request : Snapshots!Requests \cup {"NONE"}, id : Snapshots!Ids \cup {Snapshots!None},
   copy : Snapshots!Snapshots, note : Snapshots!Snapshots]

WorkerRecords ==
  [pc : {"idle", "taken", "run", "register", "show", "publish"},
   id : Snapshots!Ids \cup {Snapshots!None}, copy : Snapshots!Snapshots]

RefreshRecords == [pc : {"idle", "read", "publish"}, reading : 0..MaxTravel, copy : Snapshots!Snapshots]

FinisherRecords == [pc : {"idle", "halt", "pop", "popped", "write"}, copy : Snapshots!Snapshots]

\* The worker is in the execution of a command.
WorkerHasCommand == worker.pc # "idle" => worker.id \in Snapshots!Ids

SnapshotTyped ==
  /\ shown \in Snapshots!Snapshots
  /\ motor \in [position : 0..MaxTravel, runs : BOOLEAN]
  /\ sequence \in 0..MaxCommands
  /\ kind \in [Snapshots!Ids -> {"NONE", "MOVE", "STOP"}]
  /\ queue \in Seq(Snapshots!Ids)
  /\ active \in Snapshots!Ids \cup {Snapshots!None}
  /\ caller \in [Commanders -> CallerRecords]
  /\ worker \in WorkerRecords
  /\ refresh \in RefreshRecords
  /\ finisher \in [Finishers -> FinisherRecords]
  /\ over \subseteq Snapshots!Ids /\ abandoned \subseteq over
  /\ stale \subseteq Snapshots!Copies
  /\ revived \subseteq {"pending", "running"}

SnapshotInv == SnapshotTyped /\ WorkerHasCommand

\* The records at rest have their types.
LEMMA SnapshotBasics ==
  /\ Snapshots!Ids = 1..MaxCommands /\ Snapshots!None = 0 /\ MaxCommands \in Nat /\ MaxTravel \in Nat
  /\ Snapshots!Blank \in Snapshots!Snapshots
  /\ Snapshots!Idle \in CallerRecords /\ Snapshots!Resting \in WorkerRecords
  /\ Snapshots!Still \in RefreshRecords /\ Snapshots!Quiet \in FinisherRecords
  /\ Snapshots!Resting.pc = "idle" /\ Snapshots!Idle.pc = "idle"
<1>1. /\ Snapshots!Ids = 1..MaxCommands /\ Snapshots!None = 0 /\ MaxCommands \in Nat /\ MaxTravel \in Nat
      /\ 0 \in 0..MaxTravel
  BY DevicesAssumption DEF DevicesAssumption, Snapshots!Ids, Snapshots!None
<1>2. Snapshots!Blank \in Snapshots!Snapshots
  BY <1>1 DEF Snapshots!Blank, Snapshots!Snapshots
<1>3. Snapshots!Idle \in CallerRecords /\ Snapshots!Idle.pc = "idle"
  BY <1>2 DEF Snapshots!Idle, CallerRecords, CallerPlaces
<1>4. Snapshots!Resting \in WorkerRecords /\ Snapshots!Resting.pc = "idle"
  BY <1>2 DEF Snapshots!Resting, WorkerRecords
<1>5. Snapshots!Still \in RefreshRecords /\ Snapshots!Quiet \in FinisherRecords
  BY <1>1, <1>2 DEF Snapshots!Still, Snapshots!Quiet, RefreshRecords, FinisherRecords
<1> QED  BY <1>1, <1>2, <1>3, <1>4, <1>5

\* SnapshotInv has the types of the snapshots as its parts.
LEMMA SnapshotTypes == SnapshotInv => Snapshots!TypeOK
BY DEF SnapshotInv, SnapshotTyped, Snapshots!TypeOK, CallerRecords, WorkerRecords, RefreshRecords,
       FinisherRecords, CallerPlaces

\* SnapshotInv holds at first.
LEMMA SnapshotInit == Snapshots!Init => SnapshotInv
<1> SUFFICES ASSUME Snapshots!Init PROVE SnapshotInv
  OBVIOUS
<1>1. /\ caller \in [Commanders -> CallerRecords] /\ worker \in WorkerRecords /\ worker.pc = "idle"
      /\ refresh \in RefreshRecords /\ finisher \in [Finishers -> FinisherRecords]
  BY SnapshotBasics DEF Snapshots!Init
<1>2. /\ motor \in [position : 0..MaxTravel, runs : BOOLEAN] /\ sequence \in 0..MaxCommands
      /\ queue \in Seq(Snapshots!Ids) /\ kind \in [Snapshots!Ids -> {"NONE", "MOVE", "STOP"}]
  BY SnapshotBasics DEF Snapshots!Init
<1>3. SnapshotTyped
  BY <1>1, <1>2, SnapshotBasics DEF SnapshotTyped, Snapshots!Init
<1> QED  BY <1>1, <1>3 DEF SnapshotInv, WorkerHasCommand

\* Storing a snapshot keeps the types of the store and of what it records as history.
LEMMA SnapshotStored ==
  ASSUME NEW copy, NEW s \in Snapshots!Snapshots, Snapshots!Store(copy, s)
  PROVE  /\ shown' \in Snapshots!Snapshots /\ stale' \subseteq Snapshots!Copies
         /\ revived' \subseteq {"pending", "running"}
BY DEF Snapshots!Store, Snapshots!Outdated

\* Taking a copy keeps the types of the history.
LEMMA SnapshotTaken ==
  ASSUME SnapshotInv, NEW copy, Snapshots!Takes(copy)
  PROVE  stale' \subseteq Snapshots!Copies /\ revived' \subseteq {"pending", "running"}
<1>1. stale' = stale \ {copy} /\ revived' = revived
  BY DEF Snapshots!Takes
<1>2. stale \subseteq Snapshots!Copies /\ revived \subseteq {"pending", "running"}
  <2>1. SnapshotTyped
    BY DEF SnapshotInv
  <2> QED  BY <2>1 DEF SnapshotTyped
<1> QED  BY <1>1, <1>2

\* The record of a caller with some fields changed.
LEMMA CallerFields ==
  ASSUME NEW r \in CallerRecords
  PROVE  /\ r.request \in Snapshots!Requests \cup {"NONE"} /\ r.id \in 0..MaxCommands
         /\ r.copy \in Snapshots!Snapshots /\ r.note \in Snapshots!Snapshots
         /\ \A pc \in CallerPlaces :
              /\ [r EXCEPT !.pc = pc] \in CallerRecords
              /\ \A s \in Snapshots!Snapshots :
                   /\ [r EXCEPT !.pc = pc, !.note = s] \in CallerRecords
                   /\ [r EXCEPT !.pc = pc, !.copy = s] \in CallerRecords
              /\ \A i \in Snapshots!Ids : [r EXCEPT !.pc = pc, !.id = i] \in CallerRecords
<1>1. Snapshots!Ids \cup {Snapshots!None} = 0..MaxCommands
  BY SnapshotBasics
<1>2. /\ r.request \in Snapshots!Requests \cup {"NONE"} /\ r.id \in 0..MaxCommands
      /\ r.copy \in Snapshots!Snapshots /\ r.note \in Snapshots!Snapshots
  BY <1>1 DEF CallerRecords
<1>3. ASSUME NEW pc \in CallerPlaces
      PROVE  /\ [r EXCEPT !.pc = pc] \in CallerRecords
             /\ \A s \in Snapshots!Snapshots :
                  /\ [r EXCEPT !.pc = pc, !.note = s] \in CallerRecords
                  /\ [r EXCEPT !.pc = pc, !.copy = s] \in CallerRecords
             /\ \A i \in Snapshots!Ids : [r EXCEPT !.pc = pc, !.id = i] \in CallerRecords
  <2>1. [r EXCEPT !.pc = pc] \in CallerRecords
    BY DEF CallerRecords
  <2>2. \A s \in Snapshots!Snapshots : [r EXCEPT !.pc = pc, !.note = s] \in CallerRecords
    BY DEF CallerRecords
  <2>3. \A s \in Snapshots!Snapshots : [r EXCEPT !.pc = pc, !.copy = s] \in CallerRecords
    BY DEF CallerRecords
  <2>4. \A i \in Snapshots!Ids : [r EXCEPT !.pc = pc, !.id = i] \in CallerRecords
    BY DEF CallerRecords
  <2> QED  BY <2>1, <2>2, <2>3, <2>4
<1> QED  BY <1>2, <1>3

\* Changing a field of a caller's record changes the record.
LEMMA CallerChanges ==
  ASSUME caller \in [Commanders -> CallerRecords], NEW c \in Commanders, NEW pc,
         caller' = [caller EXCEPT ![c].pc = pc]
  PROVE  caller' = [caller EXCEPT ![c] = [caller[c] EXCEPT !.pc = pc]]
OBVIOUS

\* The record of a caller that begins a call.
Begun(pc, request, s) == [Snapshots!Idle EXCEPT !.pc = pc, !.request = request, !.copy = s]

LEMMA CallerBegins ==
  ASSUME NEW request \in Snapshots!Requests, NEW s \in Snapshots!Snapshots,
         NEW pc \in {"refuse", "preempt"}
  PROVE  /\ Begun(pc, request, s) \in CallerRecords
         /\ Begun(pc, request, s).copy = s /\ Begun(pc, request, s).pc = pc
<1>1. Snapshots!Idle \in CallerRecords
  BY SnapshotBasics
<1> QED  BY <1>1 DEF CallerRecords, CallerPlaces, Begun

\* Changing a field of a snapshot within its type leaves a snapshot.
LEMMA SnapshotFields ==
  ASSUME NEW s \in Snapshots!Snapshots
  PROVE  /\ [s EXCEPT !.pending = Snapshots!None] \in Snapshots!Snapshots
         /\ [s EXCEPT !.running = Snapshots!None] \in Snapshots!Snapshots
         /\ \A i \in 0..MaxCommands : /\ [s EXCEPT !.pending = i] \in Snapshots!Snapshots
                                      /\ [s EXCEPT !.running = i] \in Snapshots!Snapshots
         /\ \A n \in 0..MaxTravel : [s EXCEPT !.position = n] \in Snapshots!Snapshots
<1>1. Snapshots!Ids \cup {Snapshots!None} = 0..MaxCommands /\ Snapshots!None \in 0..MaxCommands
  BY SnapshotBasics
<1> QED  BY <1>1 DEF Snapshots!Snapshots

\* Every step of a caller keeps SnapshotInv.
LEMMA SnapshotCaller ==
  ASSUME SnapshotInv, NEW c \in Commanders, Snapshots!Call(c) \/ Snapshots!CallerStep(c)
  PROVE  SnapshotInv'
<1>0. /\ caller \in [Commanders -> CallerRecords] /\ caller[c] \in CallerRecords
      /\ shown \in Snapshots!Snapshots /\ stale \subseteq Snapshots!Copies
      /\ worker \in WorkerRecords /\ WorkerHasCommand
      /\ motor \in [position : 0..MaxTravel, runs : BOOLEAN] /\ queue \in Seq(Snapshots!Ids)
      /\ sequence \in 0..MaxCommands /\ kind \in [Snapshots!Ids -> {"NONE", "MOVE", "STOP"}]
      /\ over \subseteq Snapshots!Ids /\ abandoned \subseteq over
  BY DEF SnapshotTyped, SnapshotInv
<1>c. /\ caller \in [Commanders -> CallerRecords] /\ caller[c] \in CallerRecords
      /\ shown \in Snapshots!Snapshots
  BY <1>0
<1>p. {"mark", "marked", "halt", "enqueue", "publish", "republish", "reread", "cleared", "idle",
       "pop", "popped", "write"} \subseteq CallerPlaces
  BY DEF CallerPlaces
\* What is left to show when only the caller and what it stores have changed.
<1>a. ASSUME NEW r \in CallerRecords, caller' = [caller EXCEPT ![c] = r],
             shown' \in Snapshots!Snapshots, stale' \subseteq Snapshots!Copies,
             revived' \subseteq {"pending", "running"},
             UNCHANGED <<motor, sequence, kind, queue, active, worker, refresh, finisher, over,
                         abandoned>>
      PROVE  SnapshotInv'
  <2>1. caller' \in [Commanders -> CallerRecords]
    BY <1>0, <1>a
  <2> QED  BY <1>a, <2>1 DEF SnapshotTyped, SnapshotInv, WorkerHasCommand
<1>1. CASE Snapshots!Call(c)
  <2>1. PICK request \in Snapshots!Requests :
          caller' = [caller EXCEPT ![c] =
            [Snapshots!Idle EXCEPT !.pc = IF request = "REFUSED" THEN "refuse" ELSE "preempt",
                                   !.request = request, !.copy = shown]]
    BY <1>1 DEF Snapshots!Call
  <2> DEFINE pc == IF request = "REFUSED" THEN "refuse" ELSE "preempt"
             r == Begun(pc, request, shown)
  <2>2. pc \in {"refuse", "preempt"}
    OBVIOUS
  <2>3. caller' = [caller EXCEPT ![c] = r]
    BY <2>1 DEF Begun
  <2> HIDE DEF pc
  <2>4. r \in CallerRecords
    BY <1>c, <2>2, CallerBegins
  <2> HIDE DEF r
  <2>5. stale' \subseteq Snapshots!Copies /\ revived' \subseteq {"pending", "running"}
    BY <1>1, SnapshotTaken DEF Snapshots!Call
  <2>6. UNCHANGED <<shown, motor, sequence, kind, queue, active, worker, refresh, finisher,
                    over, abandoned>>
    BY <1>1 DEF Snapshots!Call
  <2> QED  BY <1>c, <1>a, <2>3, <2>4, <2>5, <2>6
<1>2. CASE Snapshots!Refuse(c)
  <2>1. shown' \in Snapshots!Snapshots /\ stale' \subseteq Snapshots!Copies
        /\ revived' \subseteq {"pending", "running"}
    <3>1. caller[c].copy \in Snapshots!Snapshots
      BY <1>c, <1>p, CallerFields
    <3> QED  BY Zenon, <1>2, <3>1, SnapshotStored DEF Snapshots!Refuse
  <2> QED  BY <1>2, <1>a, <2>1, SnapshotBasics DEF Snapshots!Refuse
<1>3. CASE Snapshots!Preempt(c)
  <2> DEFINE pc == IF Snapshots!Tracked THEN "mark" ELSE "halt"
  <2>p. caller' = [caller EXCEPT ![c].pc = pc] /\ pc \in {"mark", "halt"}
    BY <1>3 DEF Snapshots!Preempt
  <2> HIDE DEF pc
  <2>1. caller' = [caller EXCEPT ![c] = [caller[c] EXCEPT !.pc = pc]]
    BY <1>c, <2>p, CallerChanges
  <2>2. [caller[c] EXCEPT !.pc = pc] \in CallerRecords
    BY <1>c, <1>p, <2>p, CallerFields
  <2>3. caller' \in [Commanders -> CallerRecords]
    BY <1>c, <2>1, <2>2
  <2>4. worker' \in WorkerRecords /\ WorkerHasCommand'
    BY <1>0, <1>3, SnapshotBasics DEF Snapshots!Preempt, WorkerHasCommand
  <2>5. Snapshots!Waiting \subseteq Snapshots!Ids
    <3>1. \A i \in DOMAIN queue : queue[i] \in Snapshots!Ids
      BY <1>0, LenProperties, ElementOfSeq
    <3> QED  BY <1>0, <3>1 DEF Snapshots!Waiting, WorkerHasCommand
  <2>6. queue' \in Seq(Snapshots!Ids) /\ over' \subseteq Snapshots!Ids
    BY <1>0, <1>3, <2>5, EmptySeq DEF Snapshots!Preempt
  <2>7. abandoned' \subseteq over'
    BY <1>0, <1>3 DEF Snapshots!Preempt
  <2> QED  BY <1>3, <2>3, <2>4, <2>6, <2>7 DEF SnapshotTyped, SnapshotInv, Snapshots!Preempt
<1>4. CASE Snapshots!Mark(c)
  <2>1. caller' = [caller EXCEPT ![c] = [caller[c] EXCEPT !.pc = "marked", !.note = shown]]
    BY <1>c, <1>4 DEF Snapshots!Mark
  <2>2. [caller[c] EXCEPT !.pc = "marked", !.note = shown] \in CallerRecords
    BY <1>c, <1>p, CallerFields
  <2>3. stale' \subseteq Snapshots!Copies /\ revived' \subseteq {"pending", "running"}
    BY <1>4, SnapshotTaken DEF Snapshots!Mark
  <2>4. UNCHANGED <<shown, motor, sequence, kind, queue, active, worker, refresh, finisher,
                    over, abandoned>>
    BY <1>4 DEF Snapshots!Mark
  <2> QED  BY <1>c, <1>a, <2>1, <2>2, <2>3, <2>4
<1>5. CASE Snapshots!Marked(c)
  <2>1. caller' = [caller EXCEPT ![c] = [caller[c] EXCEPT !.pc = "halt", !.note = Snapshots!Blank]]
    BY <1>c, <1>5 DEF Snapshots!Marked
  <2>2. [caller[c] EXCEPT !.pc = "halt", !.note = Snapshots!Blank] \in CallerRecords
    BY <1>c, <1>p, CallerFields, SnapshotBasics
  <2>3. shown' \in Snapshots!Snapshots /\ stale' \subseteq Snapshots!Copies
        /\ revived' \subseteq {"pending", "running"}
    <3>1. caller[c].note \in Snapshots!Snapshots
      BY <1>c, <1>p, CallerFields
    <3> QED  BY Zenon, <1>5, <3>1, SnapshotStored DEF Snapshots!Marked
  <2>4. UNCHANGED <<motor, sequence, kind, queue, active, worker, refresh, finisher, over,
                    abandoned>>
    BY <1>5 DEF Snapshots!Marked
  <2> QED  BY <1>a, <2>1, <2>2, <2>3, <2>4
<1>6. CASE Snapshots!Halt(c)
  <2> DEFINE pc == Snapshots!AfterHalt(caller[c].request)
  <2>p. caller' = [caller EXCEPT ![c].pc = pc] /\ pc \in {"reread", "idle", "pop", "enqueue"}
    BY <1>6 DEF Snapshots!Halt, Snapshots!AfterHalt
  <2> HIDE DEF pc
  <2>1. caller' = [caller EXCEPT ![c] = [caller[c] EXCEPT !.pc = pc]]
    BY <1>c, <2>p, CallerChanges
  <2>2. [caller[c] EXCEPT !.pc = pc] \in CallerRecords
    BY <1>c, <1>p, <2>p, CallerFields
  <2>3. caller' \in [Commanders -> CallerRecords]
    BY <1>c, <2>1, <2>2
  <2>4. motor' \in [position : 0..MaxTravel, runs : BOOLEAN]
    BY <1>0, <1>6 DEF Snapshots!Halt
  <2> QED  BY <1>6, <2>3, <2>4 DEF SnapshotTyped, SnapshotInv, Snapshots!Halt, WorkerHasCommand
<1>7. CASE Snapshots!Enqueue(c)
  <2>1. sequence' = sequence + 1 /\ sequence' \in Snapshots!Ids /\ sequence' \in 0..MaxCommands
    BY <1>0, <1>7, SnapshotBasics DEF Snapshots!Enqueue
  <2>2. caller' = [caller EXCEPT ![c] = [caller[c] EXCEPT !.pc = "publish", !.id = sequence']]
    BY <1>c, <1>7 DEF Snapshots!Enqueue
  <2>3. [caller[c] EXCEPT !.pc = "publish", !.id = sequence'] \in CallerRecords
    BY <1>c, <1>p, <2>1, CallerFields
  <2>4. caller' \in [Commanders -> CallerRecords]
    BY <1>c, <2>2, <2>3
  <2>5. queue' \in Seq(Snapshots!Ids)
    BY <1>0, <1>7, <2>1, AppendProperties DEF Snapshots!Enqueue
  <2>6. kind' \in [Snapshots!Ids -> {"NONE", "MOVE", "STOP"}]
    BY <1>0, <1>7 DEF Snapshots!Enqueue
  <2> QED  BY <1>7, <2>1, <2>4, <2>5, <2>6 DEF SnapshotTyped, SnapshotInv, Snapshots!Enqueue, WorkerHasCommand
<1>8. CASE Snapshots!Publish(c)
  <2>1. Snapshots!Queued(c) \in Snapshots!Snapshots
    <3>1. caller[c].copy \in Snapshots!Snapshots /\ caller[c].id \in 0..MaxCommands
      BY <1>c, <1>p, CallerFields
    <3> QED  BY <3>1, SnapshotFields DEF Snapshots!Queued
  <2>2. shown' \in Snapshots!Snapshots /\ stale' \subseteq Snapshots!Copies
        /\ revived' \subseteq {"pending", "running"}
    BY <1>8, <2>1, SnapshotStored DEF Snapshots!Publish
  <2>3. PICK r \in CallerRecords : caller' = [caller EXCEPT ![c] = r]
    <3>1. CASE caller' = [caller EXCEPT ![c].pc = "republish"]
      <4>1. caller' = [caller EXCEPT ![c] = [caller[c] EXCEPT !.pc = "republish"]]
        BY <1>c, <3>1
      <4>2. [caller[c] EXCEPT !.pc = "republish"] \in CallerRecords
        BY <1>c, <1>p, CallerFields
      <4> QED  BY <4>1, <4>2
    <3>2. CASE caller' = [caller EXCEPT ![c] = Snapshots!Idle]
      BY <3>2, SnapshotBasics
    <3> QED  BY <1>8, <3>1, <3>2 DEF Snapshots!Publish
  <2>4. UNCHANGED <<motor, sequence, kind, queue, active, worker, refresh, finisher, over,
                    abandoned>>
    BY <1>8 DEF Snapshots!Publish
  <2> QED  BY <1>a, <2>2, <2>3, <2>4
<1>9. CASE Snapshots!Reread(c)
  <2>1. caller' = [caller EXCEPT ![c] = [caller[c] EXCEPT !.pc = "cleared", !.copy = shown]]
    BY <1>c, <1>9 DEF Snapshots!Reread
  <2>2. [caller[c] EXCEPT !.pc = "cleared", !.copy = shown] \in CallerRecords
    BY <1>c, <1>p, CallerFields
  <2>3. stale' \subseteq Snapshots!Copies /\ revived' \subseteq {"pending", "running"}
    BY <1>9, SnapshotTaken DEF Snapshots!Reread
  <2>4. UNCHANGED <<shown, motor, sequence, kind, queue, active, worker, refresh, finisher,
                    over, abandoned>>
    BY <1>9 DEF Snapshots!Reread
  <2> QED  BY <1>c, <1>a, <2>1, <2>2, <2>3, <2>4
<1>10. CASE Snapshots!Withdraw(c)
  <2>1. Snapshots!Withdrawn(caller[c].copy) \in Snapshots!Snapshots
    <3>1. caller[c].copy \in Snapshots!Snapshots
      BY <1>c, <1>p, CallerFields
    <3> QED  BY <3>1, SnapshotFields DEF Snapshots!Withdrawn
  <2>2. shown' \in Snapshots!Snapshots /\ stale' \subseteq Snapshots!Copies
        /\ revived' \subseteq {"pending", "running"}
    BY <1>10, <2>1, SnapshotStored DEF Snapshots!Withdraw
  <2> QED  BY <1>10, <1>a, <2>2, SnapshotBasics DEF Snapshots!Withdraw
<1>11. CASE Snapshots!StopAllPops(c)
  <2>1. caller' = [caller EXCEPT ![c] = [caller[c] EXCEPT !.pc = "popped"]]
    BY <1>c, <1>11, CallerChanges DEF Snapshots!StopAllPops
  <2>2. [caller[c] EXCEPT !.pc = "popped"] \in CallerRecords
    BY <1>c, <1>p, CallerFields
  <2>3. caller' \in [Commanders -> CallerRecords]
    BY <1>c, <2>1, <2>2
  <2> QED  BY <1>11, <2>3 DEF SnapshotTyped, SnapshotInv, Snapshots!StopAllPops, WorkerHasCommand
<1>12. CASE Snapshots!StopAllLooks(c)
  <2>1. caller' = [caller EXCEPT ![c] = [caller[c] EXCEPT !.pc = "write", !.copy = shown]]
    BY <1>c, <1>12 DEF Snapshots!StopAllLooks
  <2>2. [caller[c] EXCEPT !.pc = "write", !.copy = shown] \in CallerRecords
    BY <1>c, <1>p, CallerFields
  <2>3. stale' \subseteq Snapshots!Copies /\ revived' \subseteq {"pending", "running"}
    BY <1>12, SnapshotTaken DEF Snapshots!StopAllLooks
  <2>4. UNCHANGED <<shown, motor, sequence, kind, queue, active, worker, refresh, finisher,
                    over, abandoned>>
    BY <1>12 DEF Snapshots!StopAllLooks
  <2> QED  BY <1>c, <1>a, <2>1, <2>2, <2>3, <2>4
<1>13. CASE Snapshots!StopAllRecords(c)
  <2>1. Snapshots!Finished(caller[c].copy) \in Snapshots!Snapshots
    <3>1. caller[c].copy \in Snapshots!Snapshots
      BY <1>c, CallerFields
    <3> QED  BY <3>1, SnapshotFields DEF Snapshots!Finished
  <2>2. shown' \in Snapshots!Snapshots /\ stale' \subseteq Snapshots!Copies
        /\ revived' \subseteq {"pending", "running"}
    BY <1>13, <2>1, SnapshotStored DEF Snapshots!StopAllRecords
  <2>3. /\ caller' = [caller EXCEPT ![c] = Snapshots!Idle]
        /\ UNCHANGED <<motor, sequence, kind, queue, active, worker, refresh, finisher, over,
                       abandoned>>
    BY <1>13 DEF Snapshots!StopAllRecords
  <2> QED  BY <1>a, <2>2, <2>3, SnapshotBasics
<1> QED  BY <1>1, <1>2, <1>3, <1>4, <1>5, <1>6, <1>7, <1>8, <1>9, <1>10, <1>11, <1>12, <1>13
         DEF Snapshots!CallerStep

\* Every step of the worker keeps it; the command it takes was given.
LEMMA SnapshotWorker ==
  ASSUME SnapshotInv, Snapshots!WorkerStep
  PROVE  SnapshotInv'
<1>0. /\ shown \in Snapshots!Snapshots /\ worker \in WorkerRecords /\ WorkerHasCommand
      /\ worker.copy \in Snapshots!Snapshots /\ worker.id \in 0..MaxCommands
      /\ motor \in [position : 0..MaxTravel, runs : BOOLEAN] /\ queue \in Seq(Snapshots!Ids)
      /\ over \subseteq Snapshots!Ids /\ abandoned \subseteq over /\ active \in Snapshots!Ids \cup {Snapshots!None}
      /\ stale \subseteq Snapshots!Copies
  <2>1. worker \in WorkerRecords
    BY DEF SnapshotTyped, SnapshotInv
  <2>2. worker.copy \in Snapshots!Snapshots /\ worker.id \in 0..MaxCommands
    BY <2>1, SnapshotBasics DEF WorkerRecords
  <2> QED  BY <2>1, <2>2 DEF SnapshotTyped, SnapshotInv
<1>w. /\ \A pc \in {"run", "register", "show", "publish"} : /\ [worker EXCEPT !.pc = pc] \in WorkerRecords
                                                    /\ [worker EXCEPT !.pc = pc].id = worker.id
      /\ \A s \in Snapshots!Snapshots : /\ [worker EXCEPT !.pc = "run", !.copy = s] \in WorkerRecords
                                        /\ [worker EXCEPT !.pc = "run", !.copy = s].id = worker.id
                                        /\ [worker EXCEPT !.pc = "show", !.copy = s] \in WorkerRecords
                                        /\ [worker EXCEPT !.pc = "show", !.copy = s].id = worker.id
      /\ \A i \in Snapshots!Ids : /\ [worker EXCEPT !.pc = "taken", !.id = i] \in WorkerRecords
                                  /\ [worker EXCEPT !.pc = "taken", !.id = i].id = i
  BY <1>0 DEF WorkerRecords
<1>1. CASE Snapshots!Take
  <2>1. Head(queue) \in Snapshots!Ids /\ Tail(queue) \in Seq(Snapshots!Ids)
    BY <1>0, <1>1, HeadTailProperties DEF Snapshots!Take
  <2>2. worker' \in WorkerRecords /\ WorkerHasCommand'
    BY <1>1, <1>w, <2>1 DEF Snapshots!Take, WorkerHasCommand
  <2> QED  BY <1>1, <2>1, <2>2 DEF SnapshotTyped, SnapshotInv, Snapshots!Take
<1>2. CASE Snapshots!Begins
  <2>1. worker' \in WorkerRecords /\ WorkerHasCommand'
    BY <1>0, <1>2, <1>w DEF Snapshots!Begins, WorkerHasCommand
  <2>2. stale' \subseteq Snapshots!Copies /\ revived' \subseteq {"pending", "running"}
    BY <1>2, SnapshotTaken DEF Snapshots!Begins
  <2> QED  BY <1>2, <2>1, <2>2 DEF SnapshotTyped, SnapshotInv, Snapshots!Begins
<1>3. CASE Snapshots!Run
  <2>0. PICK pc \in {"register", "publish"} : worker' = [worker EXCEPT !.pc = pc]
    BY <1>3 DEF Snapshots!Run
  <2>1. worker' \in WorkerRecords /\ WorkerHasCommand'
    BY <1>0, <1>3, <1>w, <2>0 DEF Snapshots!Run, WorkerHasCommand
  <2>2. motor' \in [position : 0..MaxTravel, runs : BOOLEAN]
    BY <1>0, <1>3 DEF Snapshots!Run
  <2> QED  BY <1>3, <2>1, <2>2 DEF SnapshotTyped, SnapshotInv, Snapshots!Run
<1>4. CASE Snapshots!Register
  <2> DEFINE s == [worker.copy EXCEPT !.running = worker.id]
  <2>1. s \in Snapshots!Snapshots
    BY <1>0, SnapshotFields
  <2>2. worker' = [worker EXCEPT !.pc = "show", !.copy = s]
    BY <1>0, <1>4 DEF Snapshots!Register, WorkerRecords
  <2> HIDE DEF s
  <2>3. worker' \in WorkerRecords /\ WorkerHasCommand'
    BY <1>0, <1>4, <1>w, <2>1, <2>2 DEF Snapshots!Register, WorkerHasCommand
  <2>4. active' \in Snapshots!Ids \cup {Snapshots!None}
    BY <1>0, <1>4 DEF Snapshots!Register, WorkerHasCommand
  <2> QED  BY <1>4, <2>3, <2>4 DEF SnapshotTyped, SnapshotInv, Snapshots!Register
<1>5. CASE Snapshots!Conclude
  <2>1. Snapshots!Executed(worker.copy) \in Snapshots!Snapshots
    BY <1>0, SnapshotFields DEF Snapshots!Executed
  <2>2. shown' \in Snapshots!Snapshots /\ stale' \subseteq Snapshots!Copies
        /\ revived' \subseteq {"pending", "running"}
    BY <1>5, <2>1, SnapshotStored DEF Snapshots!Conclude
  <2>3. worker' \in WorkerRecords /\ WorkerHasCommand'
    BY <1>5, SnapshotBasics DEF Snapshots!Conclude, WorkerHasCommand
  <2>4. over' \subseteq Snapshots!Ids /\ abandoned' \subseteq over'
    BY <1>0, <1>5 DEF Snapshots!Conclude, WorkerHasCommand
  <2> QED  BY <1>5, <2>2, <2>3, <2>4 DEF SnapshotTyped, SnapshotInv, Snapshots!Conclude
<1> QED  BY <1>1, <1>2, <1>3, <1>4, <1>5 DEF Snapshots!WorkerStep

\* Both halves of the monitor's cycle keep it.
LEMMA SnapshotMonitor ==
  ASSUME SnapshotInv, Snapshots!MonitorStep
  PROVE  SnapshotInv'
<1>0. /\ shown \in Snapshots!Snapshots /\ refresh \in RefreshRecords
      /\ motor \in [position : 0..MaxTravel, runs : BOOLEAN] /\ WorkerHasCommand
  BY DEF SnapshotTyped, SnapshotInv
<1>r. refresh.copy \in Snapshots!Snapshots /\ refresh.reading \in 0..MaxTravel
  BY <1>0 DEF RefreshRecords
<1>1. CASE Snapshots!Read
  <2>1. refresh' \in RefreshRecords
    BY <1>0, <1>1 DEF Snapshots!Read, RefreshRecords
  <2> QED  BY <1>1, <2>1 DEF SnapshotTyped, SnapshotInv, Snapshots!Read, WorkerHasCommand
<1>2. CASE Snapshots!Compare
  <2>1. [refresh EXCEPT !.pc = "publish", !.copy = shown] \in RefreshRecords
    BY <1>0 DEF RefreshRecords
  <2>2. refresh' \in RefreshRecords
    BY <1>2, <2>1, SnapshotBasics DEF Snapshots!Compare
  <2>3. stale' \subseteq Snapshots!Copies /\ revived' \subseteq {"pending", "running"}
    BY <1>2, SnapshotTaken DEF SnapshotTyped, Snapshots!Compare, SnapshotInv
  <2> QED  BY <1>2, <2>2, <2>3 DEF SnapshotTyped, SnapshotInv, Snapshots!Compare, WorkerHasCommand
<1>3. CASE Snapshots!Refresh
  <2>1. [refresh.copy EXCEPT !.position = refresh.reading] \in Snapshots!Snapshots
    BY <1>r, SnapshotFields
  <2>2. shown' \in Snapshots!Snapshots /\ stale' \subseteq Snapshots!Copies
        /\ revived' \subseteq {"pending", "running"}
    BY <1>3, <2>1, SnapshotStored DEF Snapshots!Refresh
  <2> QED  BY <1>3, <2>2, SnapshotBasics DEF SnapshotTyped, SnapshotInv, Snapshots!Refresh, WorkerHasCommand
<1> QED  BY <1>1, <1>2, <1>3 DEF Snapshots!MonitorStep

\* So does every step of a thread that finishes a command.
LEMMA SnapshotFinisher ==
  ASSUME SnapshotInv, NEW f \in Finishers, Snapshots!FinisherStep(f)
  PROVE  SnapshotInv'
<1>0. /\ shown \in Snapshots!Snapshots /\ finisher \in [Finishers -> FinisherRecords]
      /\ finisher[f] \in FinisherRecords
      /\ motor \in [position : 0..MaxTravel, runs : BOOLEAN] /\ WorkerHasCommand
  BY DEF SnapshotTyped, SnapshotInv
<1>f. \A pc \in {"halt", "pop", "popped"} : [finisher[f] EXCEPT !.pc = pc] \in FinisherRecords
  BY <1>0 DEF FinisherRecords
<1>a. ASSUME NEW pc \in {"halt", "pop", "popped"}, finisher' = [finisher EXCEPT ![f].pc = pc]
      PROVE  finisher' \in [Finishers -> FinisherRecords]
  <2>1. finisher' = [finisher EXCEPT ![f] = [finisher[f] EXCEPT !.pc = pc]]
    BY <1>0, <1>a
  <2> QED  BY <1>0, <1>f, <2>1
<1>1. CASE Snapshots!Finish(f)
  <2>1. finisher' \in [Finishers -> FinisherRecords]
    BY <1>1, <1>a DEF Snapshots!Finish
  <2> QED  BY <1>1, <2>1 DEF SnapshotTyped, SnapshotInv, Snapshots!Finish, WorkerHasCommand
<1>4. CASE Snapshots!HaltExpired(f)
  <2>1. finisher' \in [Finishers -> FinisherRecords]
    BY <1>4, <1>a DEF Snapshots!HaltExpired
  <2>2. motor' \in [position : 0..MaxTravel, runs : BOOLEAN]
    BY <1>0, <1>4 DEF Snapshots!HaltExpired
  <2> QED  BY <1>4, <2>1, <2>2 DEF SnapshotTyped, SnapshotInv, Snapshots!HaltExpired, WorkerHasCommand
<1>5. CASE Snapshots!Pop(f)
  <2>1. finisher' \in [Finishers -> FinisherRecords]
    BY <1>5, <1>a DEF Snapshots!Pop
  <2> QED  BY <1>5, <2>1 DEF SnapshotTyped, SnapshotInv, Snapshots!Pop, WorkerHasCommand
<1>2. CASE Snapshots!Look(f)
  <2>1. [pc |-> "write", copy |-> shown] \in FinisherRecords
    BY <1>0 DEF FinisherRecords
  <2>2. finisher' \in [Finishers -> FinisherRecords]
    BY <1>0, <1>2, <2>1 DEF Snapshots!Look
  <2>3. stale' \subseteq Snapshots!Copies /\ revived' \subseteq {"pending", "running"}
    BY <1>2, SnapshotTaken DEF Snapshots!Look
  <2> QED  BY <1>2, <2>2, <2>3 DEF SnapshotTyped, SnapshotInv, Snapshots!Look, WorkerHasCommand
<1>3. CASE Snapshots!Record(f)
  <2>1. finisher[f].copy \in Snapshots!Snapshots
    BY <1>0 DEF FinisherRecords
  <2>2. Snapshots!Finished(finisher[f].copy) \in Snapshots!Snapshots
    BY <2>1, SnapshotFields DEF Snapshots!Finished
  <2>3. shown' \in Snapshots!Snapshots /\ stale' \subseteq Snapshots!Copies
        /\ revived' \subseteq {"pending", "running"}
    BY <1>3, <2>2, SnapshotStored DEF Snapshots!Record
  <2>4. finisher' \in [Finishers -> FinisherRecords]
    BY <1>0, <1>3, SnapshotBasics DEF Snapshots!Record
  <2> QED  BY <1>3, <2>3, <2>4 DEF SnapshotTyped, SnapshotInv, Snapshots!Record, WorkerHasCommand
<1> QED  BY <1>1, <1>2, <1>3, <1>4, <1>5 DEF Snapshots!FinisherStep, Snapshots!FinisherGoesOn

\* Every step keeps SnapshotInv.
LEMMA SnapshotNext ==
  ASSUME SnapshotInv, [Snapshots!Next]_Snapshots!snap_vars
  PROVE  SnapshotInv'
<1>1. CASE Snapshots!MotorTurns
  <2>1. motor \in [position : 0..MaxTravel, runs : BOOLEAN]
    BY DEF SnapshotTyped, SnapshotInv
  <2>2. motor.position + 1 \in 0..MaxTravel
    BY <1>1, <2>1, SnapshotBasics DEF Snapshots!MotorTurns
  <2>3. motor' \in [position : 0..MaxTravel, runs : BOOLEAN]
    <3> DEFINE n == motor.position + 1
    <3>1. motor' \in {[motor EXCEPT !.position = n], [position |-> n, runs |-> FALSE]}
      BY <1>1, <2>1 DEF Snapshots!MotorTurns
    <3> HIDE DEF n
    <3>2. n \in 0..MaxTravel
      BY <2>2 DEF n
    <3>3. [motor EXCEPT !.position = n] \in [position : 0..MaxTravel, runs : BOOLEAN]
      BY <2>1, <3>2
    <3>4. [position |-> n, runs |-> FALSE] \in [position : 0..MaxTravel, runs : BOOLEAN]
      BY <3>2
    <3> QED  BY <3>1, <3>3, <3>4
  <2> QED  BY <1>1, <2>3 DEF SnapshotTyped, SnapshotInv, Snapshots!MotorTurns, WorkerHasCommand
<1>2. CASE UNCHANGED Snapshots!snap_vars
  BY <1>2 DEF SnapshotTyped, Snapshots!snap_vars, SnapshotInv, WorkerHasCommand
<1> QED  BY <1>1, <1>2, SnapshotCaller, SnapshotWorker, SnapshotMonitor, SnapshotFinisher
         DEF Snapshots!Next

-----------------------------------------------------------------------------
(* MotorSnapshots: who is to correct what is outdated.                     *)

\* The ids in use were given.
IdsGiven ==
  /\ queue \in Seq(1..sequence) /\ over \subseteq 1..sequence
  /\ worker.pc # "idle" => worker.id \in 1..sequence

\* A copy that is not old is what the store shows.
CopiesAreFresh ==
  /\ \A c \in Commanders :
       /\ caller[c].pc # "idle" /\ Snapshots!Copy(c) \notin stale => caller[c].copy = shown
       /\ caller[c].pc = "marked" /\ Snapshots!Note(c) \notin stale => caller[c].note = shown
  /\ \A f \in Finishers :
       finisher[f].pc = "write" /\ Snapshots!Copy(f) \notin stale => finisher[f].copy = shown
  /\ refresh.pc = "publish" /\ Snapshots!Copy("refresh") \notin stale => refresh.copy = shown

Correcting == \E c \in Commanders : Snapshots!Rewrites(c)
Finishing  == \/ \E f \in Finishers : finisher[f].pc \in {"popped", "write"}
              \/ \E c \in Commanders : caller[c].pc \in {"popped", "write"}

\* A caller whose command is over before it publishes it does so by an old copy, or
\* another call goes on to correct it; the second time it does so by an old copy.
CallersOwe ==
  \A c \in Commanders :
    /\ caller[c].pc = "publish" /\ caller[c].id \in over \ abandoned =>
         Snapshots!Copy(c) \in stale \/ Correcting
    /\ caller[c].pc = "republish" => Snapshots!Copy(c) \in stale

\* The worker is about to show the motion it registered, which is the active one, or
\* somebody is to take it out again, or the copy is old; of another command, and of one
\* that failed, it shows what it read.
WorkerOwes ==
  /\ worker.pc = "show" =>
       /\ worker.copy.running = worker.id
       /\ worker.id = active \/ Finishing \/ Snapshots!Copy("worker") \in stale
  /\ worker.pc \in {"run", "register", "publish"} =>
       (Snapshots!Copy("worker") \in stale \/ worker.copy = shown)

OwedInv ==
  Snapshots!OutdatedIsOwed /\ IdsGiven /\ CopiesAreFresh /\ CallersOwe /\ WorkerOwes

\* The copies of two threads, and the two of a caller, are different ones.
LEMMA CopiesDiffer ==
  /\ \A t, u : Snapshots!Copy(t) = Snapshots!Copy(u) => t = u
  /\ \A t, u : Snapshots!Note(t) = Snapshots!Note(u) => t = u
  /\ \A t, u : Snapshots!Copy(t) # Snapshots!Note(u)
  /\ \A t \in Commanders \cup Finishers \cup {"worker", "refresh"} :
       Snapshots!Copy(t) \in Snapshots!Copies
  /\ \A c \in Commanders : Snapshots!Note(c) \in Snapshots!Copies
  /\ \A c \in Commanders : c \notin Finishers /\ c # "worker" /\ c # "refresh"
  /\ \A f \in Finishers : f # "worker" /\ f # "refresh"
<1>1. /\ \A t, u : Snapshots!Copy(t) = Snapshots!Copy(u) => t = u
      /\ \A t, u : Snapshots!Note(t) = Snapshots!Note(u) => t = u
      /\ \A t, u : Snapshots!Copy(t) # Snapshots!Note(u)
  BY DEF Snapshots!Copy, Snapshots!Note
<1>2. /\ \A t \in Commanders \cup Finishers \cup {"worker", "refresh"} :
           Snapshots!Copy(t) \in Snapshots!Copies
      /\ \A c \in Commanders : Snapshots!Note(c) \in Snapshots!Copies
  BY DEF Snapshots!Copies
<1>3. /\ \A c \in Commanders : c \notin Finishers /\ c # "worker" /\ c # "refresh"
      /\ \A f \in Finishers : f # "worker" /\ f # "refresh"
  BY DevicesAssumption DEF DevicesAssumption
<1> QED  BY <1>1, <1>2, <1>3

\* At first nothing is outdated.
LEMMA OwedInit == Snapshots!Init => OwedInv
<1> SUFFICES ASSUME Snapshots!Init PROVE OwedInv
  OBVIOUS
<1>1. /\ shown.pending \notin over /\ shown.running = Snapshots!None
      /\ worker.pc = "idle" /\ refresh.pc = "idle"
      /\ \A c \in Commanders : caller[c].pc = "idle"
      /\ \A f \in Finishers : finisher[f].pc = "idle"
      /\ over = {} /\ abandoned = {} /\ queue = << >> /\ sequence = 0
  BY DEF Snapshots!Init, Snapshots!Blank, Snapshots!Idle, Snapshots!Resting, Snapshots!Still,
         Snapshots!Quiet
<1>2. Snapshots!OutdatedIsOwed
  BY <1>1 DEF Snapshots!OutdatedIsOwed
<1>3. IdsGiven
  BY <1>1, EmptySeq DEF IdsGiven
<1>4. CopiesAreFresh /\ CallersOwe /\ WorkerOwes
  BY <1>1 DEF CopiesAreFresh, CallersOwe, WorkerOwes
<1> QED  BY <1>2, <1>3, <1>4 DEF OwedInv

\* When every copy is old, none of them is fresh and nobody owes anything by one.
LEMMA AllCopiesOld ==
  ASSUME stale' = Snapshots!Copies,
         worker'.pc = "show" => worker'.copy.running = worker'.id
  PROVE  CopiesAreFresh' /\ CallersOwe' /\ WorkerOwes'
<1>1. CopiesAreFresh' /\ CallersOwe'
  BY CopiesDiffer DEF CopiesAreFresh, CallersOwe
<1>2. Snapshots!Copy("worker") \in stale'
  BY CopiesDiffer
<1>3. WorkerOwes'
  BY <1>2 DEF WorkerOwes
<1> QED  BY <1>1, <1>3

\* What a caller's record does for the others.
LEMMA CallerAlone ==
  ASSUME SnapshotInv, NEW c \in Commanders, NEW r \in CallerRecords,
         caller' = [caller EXCEPT ![c] = r]
  PROVE  (caller')[c] = r /\ \A d \in Commanders : d # c => (caller')[d] = caller[d]
BY DEF SnapshotInv, SnapshotTyped

\* Another caller that was correcting still is.
LEMMA OthersCorrect ==
  ASSUME NEW c \in Commanders, over' = over, abandoned' = abandoned,
         \A d \in Commanders : d # c => (caller')[d] = caller[d]
  PROVE  /\ \A d \in Commanders : d # c /\ Snapshots!Rewrites(d) => Snapshots!Rewrites(d)'
         /\ (Snapshots!Rewrites(c) => Snapshots!Rewrites(c)') => (Correcting => Correcting')
<1>1. \A d \in Commanders : d # c /\ Snapshots!Rewrites(d) => Snapshots!Rewrites(d)'
  BY DEF Snapshots!Rewrites, Snapshots!CallerAt
<1> QED  BY <1>1 DEF Correcting

\* Where a caller goes is one of its places.
LEMMA CallerPlaced ==
  /\ "idle" \in CallerPlaces /\ "mark" \in CallerPlaces /\ "marked" \in CallerPlaces
  /\ "halt" \in CallerPlaces /\ "enqueue" \in CallerPlaces /\ "publish" \in CallerPlaces
  /\ "republish" \in CallerPlaces /\ "reread" \in CallerPlaces /\ "cleared" \in CallerPlaces
  /\ "pop" \in CallerPlaces /\ "popped" \in CallerPlaces /\ "write" \in CallerPlaces
BY DEF CallerPlaces

\* A caller that goes on with finishing an active command is still to clear it.
LEMMA CallerFinishes ==
  ASSUME NEW c \in Commanders, UNCHANGED <<worker, finisher>>,
         \A d \in Commanders : d # c => (caller')[d] = caller[d],
         caller[c].pc \in {"popped", "write"} => (caller')[c].pc \in {"popped", "write"}
  PROVE  (Finishing => Finishing') /\ (Snapshots!Clears => Snapshots!Clears')
<1>1. Finishing => Finishing'
  <2>1. ASSUME NEW d \in Commanders, caller[d].pc \in {"popped", "write"}
        PROVE  (caller')[d].pc \in {"popped", "write"}
    <3>1. CASE d = c
      BY <2>1, <3>1
    <3>2. CASE d # c
      BY <2>1, <3>2
    <3> QED  BY <3>1, <3>2
  <2> QED  BY <2>1 DEF Finishing
<1> QED  BY <1>1 DEF Finishing, Snapshots!Clears

\* A caller that goes on without storing, with the copies it may have taken.
LEMMA CallerGoesOn ==
  ASSUME SnapshotInv, OwedInv, NEW c \in Commanders, NEW r \in CallerRecords,
         caller' = [caller EXCEPT ![c] = r],
         UNCHANGED <<shown, sequence, kind, queue, worker, refresh, finisher, over, abandoned,
                     revived>>,
         UNCHANGED active \/ r.pc = "popped",
         caller[c].pc \in {"popped", "write"} => r.pc \in {"popped", "write"},
         stale' \subseteq stale,
         \A k \in stale : k \notin {Snapshots!Copy(c), Snapshots!Note(c)} => k \in stale',
         Snapshots!Rewrites(c) => Snapshots!Rewrites(c)',
         r.pc # "idle" /\ Snapshots!Copy(c) \notin stale' => r.copy = shown,
         r.pc = "marked" /\ Snapshots!Note(c) \notin stale' => r.note = shown,
         r.pc \notin {"publish", "republish"}
  PROVE  OwedInv'
<1>1. (caller')[c] = r /\ \A d \in Commanders : d # c => (caller')[d] = caller[d]
  BY CallerAlone
<1>2. Correcting => Correcting'
  BY <1>1, OthersCorrect
<1>3. /\ \A d \in Commanders : d # c /\ Snapshots!Copy(d) \in stale => Snapshots!Copy(d) \in stale'
      /\ \A d \in Commanders : d # c /\ Snapshots!Note(d) \in stale => Snapshots!Note(d) \in stale'
      /\ \A f \in Finishers : Snapshots!Copy(f) \in stale => Snapshots!Copy(f) \in stale'
      /\ Snapshots!Copy("refresh") \in stale => Snapshots!Copy("refresh") \in stale'
      /\ Snapshots!Copy("worker") \in stale => Snapshots!Copy("worker") \in stale'
  BY CopiesDiffer
<1>9. /\ (Finishing => Finishing') /\ (Snapshots!Clears => Snapshots!Clears')
      /\ UNCHANGED active \/ (Finishing' /\ Snapshots!Clears')
  <2>1. (Finishing => Finishing') /\ (Snapshots!Clears => Snapshots!Clears')
    BY <1>1, CallerFinishes
  <2>2. r.pc = "popped" => Finishing' /\ Snapshots!Clears'
    BY <1>1 DEF Finishing, Snapshots!Clears
  <2> QED  BY <2>1, <2>2
<1>4. Snapshots!OutdatedIsOwed'
  <2>1. (Snapshots!Clears => Snapshots!Clears') /\ (UNCHANGED active \/ Snapshots!Clears')
    BY <1>9
  <2>2. Snapshots!OutdatedIsOwed
    BY DEF OwedInv
  <2> QED  BY <1>2, <2>1, <2>2 DEF Snapshots!OutdatedIsOwed, Correcting
<1>5. IdsGiven'
  BY DEF OwedInv, IdsGiven
<1>6. CopiesAreFresh'
  <2>1. CopiesAreFresh
    BY DEF OwedInv
  <2>2. ASSUME NEW d \in Commanders
        PROVE  /\ (caller')[d].pc # "idle" /\ Snapshots!Copy(d) \notin stale' => (caller')[d].copy = shown'
               /\ (caller')[d].pc = "marked" /\ Snapshots!Note(d) \notin stale' => (caller')[d].note = shown'
    <3>1. CASE d = c
      BY <1>1, <3>1
    <3>2. CASE d # c
      BY <1>1, <1>3, <2>1, <3>2 DEF CopiesAreFresh
    <3> QED  BY <3>1, <3>2
  <2> QED  BY <1>3, <2>1, <2>2 DEF CopiesAreFresh
<1>7. CallersOwe'
  <2>1. CallersOwe
    BY DEF OwedInv
  <2>2. ASSUME NEW d \in Commanders
        PROVE  /\ (caller')[d].pc = "publish" /\ (caller')[d].id \in over' \ abandoned' =>
                    Snapshots!Copy(d) \in stale' \/ Correcting'
               /\ (caller')[d].pc = "republish" => Snapshots!Copy(d) \in stale'
    BY <1>1, <1>2, <1>3, <2>1 DEF CallersOwe
  <2> QED  BY <2>2 DEF CallersOwe
<1>8. WorkerOwes'
  <2>1. WorkerOwes
    BY DEF OwedInv
  <2> QED  BY <1>3, <1>9, <2>1 DEF WorkerOwes
<1> QED  BY <1>4, <1>5, <1>6, <1>7, <1>8 DEF OwedInv

\* What a store leaves outdated was put back by an old copy, or was shown before.
LEMMA StoreOwes ==
  ASSUME OwedInv, NEW copy, NEW s \in Snapshots!Snapshots, Snapshots!Store(copy, s),
         UNCHANGED <<active, over, abandoned>>,
         copy \in stale \/ s.pending \notin over \ abandoned \/ Correcting'
           \/ (s.pending = shown.pending /\ (Correcting => Correcting')),
         copy \in stale \/ s.running \in {Snapshots!None, active} \/ Snapshots!Clears'
           \/ (s.running = shown.running /\ (Snapshots!Clears => Snapshots!Clears'))
  PROVE  Snapshots!OutdatedIsOwed'
<1>1. /\ shown' = s
      /\ revived' = Snapshots!Outdated(s) \cap
                    (IF copy \in stale THEN {"pending", "running"} ELSE revived)
  BY DEF Snapshots!Store
<1>2. /\ shown.pending \in over \ abandoned => "pending" \in revived \/ Correcting
      /\ shown.running \notin {Snapshots!None, active} => "running" \in revived \/ Snapshots!Clears
  BY DEF OwedInv, Snapshots!OutdatedIsOwed, Correcting
<1>3. /\ s.pending \in over => "pending" \in Snapshots!Outdated(s)
      /\ s.running \notin {Snapshots!None, active} => "running" \in Snapshots!Outdated(s)
  BY DEF Snapshots!Outdated
<1>4. s.pending \in over \ abandoned => "pending" \in revived' \/ Correcting'
  BY <1>1, <1>2, <1>3
<1>5. s.running \notin {Snapshots!None, active} => "running" \in revived' \/ Snapshots!Clears'
  BY <1>1, <1>2, <1>3
<1> QED  BY <1>1, <1>4, <1>5 DEF Snapshots!OutdatedIsOwed, Correcting, Snapshots!None

\* A caller that stores.
LEMMA CallerStores ==
  ASSUME SnapshotInv, OwedInv, NEW c \in Commanders, NEW r \in CallerRecords,
         caller' = [caller EXCEPT ![c] = r],
         NEW copy, NEW s \in Snapshots!Snapshots, Snapshots!Store(copy, s),
         UNCHANGED <<sequence, kind, queue, active, worker, refresh, finisher, over, abandoned>>,
         \/ copy \in stale \/ s.running = Snapshots!None
         \/ s.running = shown.running /\ caller[c].pc \notin {"popped", "write"},
         \/ copy \in stale \/ s.pending \notin over \ abandoned
         \/ s.pending = shown.pending /\ (Snapshots!Rewrites(c) => Snapshots!Rewrites(c)')
         \/ \E d \in Commanders : d # c /\ Snapshots!Rewrites(d)
  PROVE  OwedInv'
<1>1. (caller')[c] = r /\ \A d \in Commanders : d # c => (caller')[d] = caller[d]
  BY CallerAlone
<1>2. /\ (\E d \in Commanders : d # c /\ Snapshots!Rewrites(d)) => Correcting'
      /\ (Snapshots!Rewrites(c) => Snapshots!Rewrites(c)') => (Correcting => Correcting')
  BY <1>1, OthersCorrect DEF Correcting
<1>3. caller[c].pc \notin {"popped", "write"} => (Snapshots!Clears => Snapshots!Clears')
  BY <1>1, CallerFinishes
<1>4. Snapshots!OutdatedIsOwed'
  <2>1. copy \in stale \/ s.pending \notin over \ abandoned \/ Correcting'
          \/ (s.pending = shown.pending /\ (Correcting => Correcting'))
    BY <1>2
  <2>2. copy \in stale \/ s.running \in {Snapshots!None, active} \/ Snapshots!Clears'
          \/ (s.running = shown.running /\ (Snapshots!Clears => Snapshots!Clears'))
    BY <1>3
  <2>3. UNCHANGED <<active, over, abandoned>>
    OBVIOUS
  <2> QED  BY <2>1, <2>2, <2>3, StoreOwes
<1>5. CopiesAreFresh' /\ CallersOwe' /\ WorkerOwes'
  <2>1. stale' = Snapshots!Copies
    BY DEF Snapshots!Store
  <2>2. WorkerOwes
    BY DEF OwedInv
  <2> QED  BY <2>1, <2>2, AllCopiesOld DEF WorkerOwes
<1>6. IdsGiven'
  BY DEF OwedInv, IdsGiven
<1> QED  BY <1>4, <1>5, <1>6 DEF OwedInv

\* A caller that sets out to correct what is outdated, or does nothing that anybody would
\* have to correct, and stores nothing yet.
LEMMA CallerCorrects ==
  ASSUME SnapshotInv, OwedInv, NEW c \in Commanders, NEW r \in CallerRecords,
         caller' = [caller EXCEPT ![c] = r],
         caller[c].pc \notin {"idle", "popped", "write"}, r.pc \notin {"marked", "republish"},
         r.copy = caller[c].copy,
         UNCHANGED <<shown, active, refresh, finisher, stale, revived>>,
         \/ Snapshots!Rewrites(c)'
         \/ /\ ~Snapshots!Rewrites(c) /\ over' \ abandoned' \subseteq over \ abandoned
            /\ r.pc = "publish" => r.id \notin over',
         worker' = worker \/ (worker.pc = "taken" /\ worker'.pc = "idle"), IdsGiven'
  PROVE  OwedInv'
<1>1. (caller')[c] = r /\ \A d \in Commanders : d # c => (caller')[d] = caller[d]
  BY CallerAlone
<1>2. \/ Correcting'
      \/ /\ over' \ abandoned' \subseteq over \ abandoned /\ (Correcting => Correcting')
         /\ r.pc = "publish" => r.id \notin over'
  <2>1. CASE Snapshots!Rewrites(c)'
    BY <2>1 DEF Correcting
  <2>2. CASE ~Snapshots!Rewrites(c) /\ over' \ abandoned' \subseteq over \ abandoned
    <3>1. \A d \in Commanders : d # c /\ Snapshots!Rewrites(d) => Snapshots!Rewrites(d)'
      BY <1>1, <2>2 DEF Snapshots!Rewrites, Snapshots!CallerAt
    <3> QED  BY <2>1, <2>2, <3>1 DEF Correcting
  <2> QED  BY <2>1, <2>2
<1>3. (Finishing => Finishing') /\ (Snapshots!Clears => Snapshots!Clears')
  <2>1. \A d \in Commanders :
          caller[d].pc \in {"popped", "write"} => (caller')[d].pc \in {"popped", "write"}
    BY <1>1
  <2>2. Finishing => Finishing'
    BY <2>1 DEF Finishing
  <2> QED  BY <2>2 DEF Snapshots!Clears, Finishing
<1>4. Snapshots!OutdatedIsOwed'
  <2>1. Snapshots!OutdatedIsOwed
    BY DEF OwedInv
  <2> QED  BY <1>2, <1>3, <2>1 DEF Snapshots!OutdatedIsOwed, Correcting
<1>5. CopiesAreFresh'
  <2>1. CopiesAreFresh
    BY DEF OwedInv
  <2>2. ASSUME NEW d \in Commanders
        PROVE  /\ (caller')[d].pc # "idle" /\ Snapshots!Copy(d) \notin stale' => (caller')[d].copy = shown'
               /\ (caller')[d].pc = "marked" /\ Snapshots!Note(d) \notin stale' => (caller')[d].note = shown'
    <3>1. CASE d = c
      BY <1>1, <2>1, <3>1 DEF CopiesAreFresh
    <3>2. CASE d # c
      BY <1>1, <2>1, <3>2 DEF CopiesAreFresh
    <3> QED  BY <3>1, <3>2
  <2> QED  BY <2>1, <2>2 DEF CopiesAreFresh
<1>6. CallersOwe'
  <2>1. CallersOwe
    BY DEF OwedInv
  <2>2. ASSUME NEW d \in Commanders
        PROVE  /\ (caller')[d].pc = "publish" /\ (caller')[d].id \in over' \ abandoned' =>
                    Snapshots!Copy(d) \in stale' \/ Correcting'
               /\ (caller')[d].pc = "republish" => Snapshots!Copy(d) \in stale'
    <3>1. CASE d = c
      BY <1>1, <1>2, <3>1
    <3>2. CASE d # c
      BY <1>1, <1>2, <2>1, <3>2 DEF CallersOwe
    <3> QED  BY <3>1, <3>2
  <2> QED  BY <2>2 DEF CallersOwe
<1>7. WorkerOwes'
  <2>1. WorkerOwes
    BY DEF OwedInv
  <2> QED  BY <1>3, <2>1 DEF WorkerOwes
<1> QED  BY <1>4, <1>5, <1>6, <1>7 DEF OwedInv

\* Preempting ends commands that were given; what the worker had begun goes on.
LEMMA CallerPreempts ==
  ASSUME SnapshotInv, OwedInv, NEW c \in Commanders, Snapshots!Preempt(c)
  PROVE  OwedInv'
<1> DEFINE pc == IF Snapshots!Tracked THEN "mark" ELSE "halt"
           r == [caller[c] EXCEPT !.pc = pc]
<1>0. caller \in [Commanders -> CallerRecords] /\ caller[c] \in CallerRecords
  BY DEF SnapshotInv, SnapshotTyped
<1>p. caller' = [caller EXCEPT ![c].pc = pc] /\ pc \in {"mark", "halt"}
  BY DEF Snapshots!Preempt
<1> HIDE DEF pc
<1>1. caller' = [caller EXCEPT ![c] = r] /\ pc \in {"mark", "halt"}
  BY <1>0, <1>p
<1>2. r \in CallerRecords
  BY <1>0, <1>1, CallerFields, CallerPlaced, ZenonT(40)
<1>3. r.pc = pc /\ r.copy = caller[c].copy /\ r.request = caller[c].request
  BY <1>0 DEF CallerRecords
<1> HIDE DEF r
<1>4. \/ Snapshots!Rewrites(c)'
      \/ ~Snapshots!Rewrites(c) /\ over' \ abandoned' \subseteq over \ abandoned
  <2>1. (caller')[c] = r /\ r.request = caller[c].request
    BY <1>0, <1>1, <1>2, <1>3, CallerAlone
  <2>2. ~Snapshots!Rewrites(c)
    BY DEF Snapshots!Rewrites, Snapshots!Preempt, Snapshots!CallerAt
  <2>3. CASE caller[c].request \in Snapshots!Abandoning
    <3>1. over' = over \cup Snapshots!Waiting /\ abandoned' = abandoned \cup Snapshots!Waiting
      BY <2>3 DEF Snapshots!Preempt
    <3> QED  BY <2>2, <3>1
  <2>4. CASE caller[c].request \notin Snapshots!Abandoning
    BY <1>1, <1>3, <2>1, <2>4 DEF Snapshots!Rewrites
  <2> QED  BY <2>3, <2>4
<1>5. /\ queue' = << >> /\ over' = over \cup Snapshots!Waiting
      /\ worker' = IF worker.pc = "taken" THEN Snapshots!Resting ELSE worker
      /\ UNCHANGED <<shown, motor, sequence, kind, active, refresh, finisher, stale, revived>>
      /\ caller[c].pc = "preempt"
  BY DEF Snapshots!Preempt, Snapshots!CallerAt
<1>7. IdsGiven'
  <2>1. queue \in Seq(1..sequence) /\ over \subseteq 1..sequence
        /\ (worker.pc # "idle" => worker.id \in 1..sequence)
    BY DEF OwedInv, IdsGiven
  <2>2. Snapshots!Waiting \subseteq 1..sequence
    <3>1. \A i \in DOMAIN queue : queue[i] \in 1..sequence
      <4>1. queue \in [1..Len(queue) -> 1..sequence] /\ DOMAIN queue = 1..Len(queue)
        BY <2>1, LenProperties
      <4> QED  BY <4>1
    <3>2. worker.pc = "taken" => worker.id \in 1..sequence
      BY <2>1
    <3> QED  BY <3>1, <3>2 DEF Snapshots!Waiting
  <2>3. queue' \in Seq(1..sequence') /\ over' \subseteq 1..sequence'
    BY <1>5, <2>1, <2>2, EmptySeq
  <2>4. worker'.pc # "idle" => worker'.id \in 1..sequence'
    BY <1>5, <2>1 DEF Snapshots!Resting
  <2> QED  BY <2>3, <2>4 DEF IdsGiven
<1>8. worker' = worker \/ (worker.pc = "taken" /\ worker'.pc = "idle")
  BY <1>5, SnapshotBasics
<1>9. caller[c].pc \notin {"idle", "popped", "write"} /\ r.pc \notin {"marked", "republish", "publish"}
  BY <1>1, <1>3, <1>5
<1> QED  BY <1>1, <1>2, <1>3, <1>4, <1>5, <1>7, <1>8, <1>9, CallerCorrects

\* A new command is none of those that are over, and the worker has another.
LEMMA CallerEnqueues ==
  ASSUME SnapshotInv, OwedInv, NEW c \in Commanders, Snapshots!Enqueue(c)
  PROVE  OwedInv'
<1> DEFINE r == [caller[c] EXCEPT !.pc = "publish", !.id = sequence']
<1>0. /\ caller \in [Commanders -> CallerRecords] /\ caller[c] \in CallerRecords
      /\ sequence \in 0..MaxCommands /\ MaxCommands \in Nat
      /\ kind \in [Snapshots!Ids -> {"NONE", "MOVE", "STOP"}]
  BY DevicesAssumption DEF SnapshotInv, SnapshotTyped, DevicesAssumption
<1>1. /\ sequence < MaxCommands /\ sequence' = sequence + 1
      /\ kind' = [kind EXCEPT ![sequence'] = IF Snapshots!Moves(c) THEN "MOVE" ELSE "STOP"]
      /\ queue' = Append(queue, sequence')
      /\ caller[c].pc = "enqueue"
      /\ UNCHANGED <<shown, motor, active, worker, refresh, finisher, over, abandoned, stale,
                     revived>>
  BY DEF Snapshots!Enqueue, Snapshots!CallerAt
<1>2. caller' = [caller EXCEPT ![c] = r]
  BY <1>0 DEF Snapshots!Enqueue
<1>3. r \in CallerRecords
  <2>1. sequence' \in Snapshots!Ids
    BY <1>0, <1>1 DEF Snapshots!Ids
  <2> QED  BY <1>0, <2>1, CallerFields, CallerPlaced, ZenonT(40)
<1>4. r.pc = "publish" /\ r.id = sequence' /\ r.copy = caller[c].copy
      /\ r.request = caller[c].request
  BY <1>0 DEF CallerRecords
<1> HIDE DEF r
<1>5. /\ queue \in Seq(1..sequence) /\ over \subseteq 1..sequence
      /\ (worker.pc # "idle" => worker.id \in 1..sequence)
  BY DEF OwedInv, IdsGiven
<1>6. sequence' \notin over
  BY <1>0, <1>1, <1>5
<1>7. \/ Snapshots!Rewrites(c)'
      \/ /\ ~Snapshots!Rewrites(c) /\ over' \ abandoned' \subseteq over \ abandoned
         /\ r.pc = "publish" => r.id \notin over'
  <2>1. (caller')[c] = r
    BY <1>2, <1>3, CallerAlone
  <2>2. Snapshots!Rewrites(c)' \/ ~Snapshots!Rewrites(c)
    BY <1>1, <1>4, <1>6, <2>1 DEF Snapshots!Rewrites, Snapshots!CallerAt
  <2>3. over' \ abandoned' \subseteq over \ abandoned /\ r.id \notin over'
    BY <1>1, <1>4, <1>6
  <2> QED  BY <2>2, <2>3
<1>10. IdsGiven'
  <2>1. queue \in Seq(1..sequence') /\ sequence' \in 1..sequence' /\ over' \subseteq 1..sequence'
    BY <1>0, <1>1, <1>5
  <2>2. queue' \in Seq(1..sequence')
    BY <1>1, <2>1, AppendProperties
  <2>3. worker'.pc # "idle" => worker'.id \in 1..sequence'
    BY <1>0, <1>1, <1>5
  <2> QED  BY <2>1, <2>2, <2>3 DEF IdsGiven
<1>11. caller[c].pc \notin {"idle", "popped", "write"} /\ r.pc \notin {"marked", "republish"}
  BY <1>1, <1>4
<1> QED  BY <1>1, <1>2, <1>3, <1>4, <1>7, <1>10, <1>11, CallerCorrects

\* Every step of a caller keeps OwedInv.
LEMMA OwedCaller ==
  ASSUME SnapshotInv, OwedInv, NEW c \in Commanders, Snapshots!Call(c) \/ Snapshots!CallerStep(c)
  PROVE  OwedInv'
<1>0. /\ caller \in [Commanders -> CallerRecords] /\ caller[c] \in CallerRecords
      /\ shown \in Snapshots!Snapshots /\ caller[c].copy \in Snapshots!Snapshots
      /\ caller[c].note \in Snapshots!Snapshots /\ caller[c].id \in 0..MaxCommands
      /\ over \subseteq Snapshots!Ids
  <2>1. caller[c] \in CallerRecords
    BY DEF SnapshotInv, SnapshotTyped
  <2> QED  BY <2>1, CallerFields DEF SnapshotInv, SnapshotTyped
<1>i. Snapshots!None \notin over
  BY <1>0, SnapshotBasics
<1>f. /\ caller[c].pc # "idle" /\ Snapshots!Copy(c) \notin stale => caller[c].copy = shown
      /\ caller[c].pc = "marked" /\ Snapshots!Note(c) \notin stale => caller[c].note = shown
      /\ caller[c].pc = "publish" /\ caller[c].id \in over \ abandoned
           => Snapshots!Copy(c) \in stale \/ Correcting
      /\ caller[c].pc = "republish" => Snapshots!Copy(c) \in stale
  BY DEF OwedInv, CopiesAreFresh, CallersOwe
<1>t. ASSUME NEW copy \in {Snapshots!Copy(c), Snapshots!Note(c)}, Snapshots!Takes(copy)
      PROVE  /\ stale' \subseteq stale /\ UNCHANGED revived
             /\ \A k \in stale : k \notin {Snapshots!Copy(c), Snapshots!Note(c)} => k \in stale'
             /\ \A k \in stale : k # copy => k \in stale'
  BY <1>t DEF Snapshots!Takes
<1>1. CASE Snapshots!Call(c)
  <2>1. PICK request \in Snapshots!Requests :
          caller' = [caller EXCEPT ![c] =
            [Snapshots!Idle EXCEPT !.pc = IF request = "REFUSED" THEN "refuse" ELSE "preempt",
                                   !.request = request, !.copy = shown]]
    BY <1>1 DEF Snapshots!Call
  <2> DEFINE pc == IF request = "REFUSED" THEN "refuse" ELSE "preempt"
             r == Begun(pc, request, shown)
  <2>p. pc \in {"refuse", "preempt"}
    OBVIOUS
  <2>3. caller' = [caller EXCEPT ![c] = r]
    BY <2>1 DEF Begun
  <2> HIDE DEF pc
  <2>2. r \in CallerRecords /\ r.copy = shown /\ r.pc \in {"refuse", "preempt"}
    <3>1. shown \in Snapshots!Snapshots
      BY <1>0
    <3>0. request \in Snapshots!Requests
      BY <2>1
    <3>2. r \in CallerRecords /\ r.copy = shown /\ r.pc = pc
      BY <2>p, <3>0, <3>1, CallerBegins
    <3> QED  BY <2>p, <3>2
  <2> HIDE DEF r
  <2>4. caller[c].pc = "idle"
    BY <1>1 DEF Snapshots!Call, Snapshots!CallerAt
  <2>5. ~Snapshots!Rewrites(c)
    BY <2>4 DEF Snapshots!Rewrites, Snapshots!CallerAt
  <2>6. UNCHANGED <<shown, sequence, kind, queue, worker, refresh, finisher, over, abandoned,
                    active>>
        /\ Snapshots!Takes(Snapshots!Copy(c))
    BY <1>1 DEF Snapshots!Call
  <2> QED  BY <1>t, <2>2, <2>3, <2>4, <2>5, <2>6, CallerGoesOn
<1>2. CASE Snapshots!Refuse(c)
  <2>1. caller[c].pc = "refuse"
    BY <1>2 DEF Snapshots!Refuse, Snapshots!CallerAt
  <2>2. ~Snapshots!Rewrites(c)
    BY <2>1 DEF Snapshots!Rewrites, Snapshots!CallerAt
  <2>3. caller[c].pc \notin {"popped", "write"}
        /\ (Snapshots!Copy(c) \in stale \/ caller[c].copy = shown)
    BY <1>f, <2>1
  <2> QED  BY <1>0, <1>2, <2>2, <2>3, SnapshotBasics, CallerStores DEF Snapshots!Refuse
<1>4. CASE Snapshots!Mark(c)
  <2> DEFINE r == [caller[c] EXCEPT !.pc = "marked", !.note = shown]
  <2>1. caller' = [caller EXCEPT ![c] = r]
    BY <1>0, <1>4 DEF Snapshots!Mark
  <2>2. r \in CallerRecords
    BY <1>0, CallerFields, CallerPlaced, ZenonT(40)
  <2>3. /\ r.pc = "marked" /\ r.note = shown /\ r.copy = caller[c].copy
        /\ r.request = caller[c].request
    BY <1>0 DEF CallerRecords
  <2> HIDE DEF r
  <2>4. Snapshots!Rewrites(c) => Snapshots!Rewrites(c)'
    BY <1>0, <2>1, <2>3 DEF Snapshots!Rewrites
  <2>5. caller[c].pc = "mark" /\ Snapshots!Takes(Snapshots!Note(c))
    BY <1>4 DEF Snapshots!Mark, Snapshots!CallerAt
  <2>6. Snapshots!Copy(c) \notin stale' => Snapshots!Copy(c) \notin stale
    BY <1>t, <2>5, CopiesDiffer
  <2> QED  BY <1>4, <1>f, <1>t, <2>1, <2>2, <2>3, <2>4, <2>5, <2>6, CallerGoesOn DEF Snapshots!Mark
<1>5. CASE Snapshots!Marked(c)
  <2> DEFINE r == [caller[c] EXCEPT !.pc = "halt", !.note = Snapshots!Blank]
  <2>1. caller' = [caller EXCEPT ![c] = r]
    BY <1>0, <1>5 DEF Snapshots!Marked
  <2>2. r \in CallerRecords
    BY <1>0, CallerFields, SnapshotBasics, CallerPlaced, ZenonT(40)
  <2>3. r.pc = "halt" /\ r.request = caller[c].request
    BY <1>0 DEF CallerRecords
  <2> HIDE DEF r
  <2>4. Snapshots!Rewrites(c) => Snapshots!Rewrites(c)'
    BY <1>0, <2>1, <2>3 DEF Snapshots!Rewrites
  <2>6. caller[c].pc \notin {"popped", "write"}
    BY <1>5 DEF Snapshots!Marked, Snapshots!CallerAt
  <2>5. Snapshots!Note(c) \in stale \/ caller[c].note = shown
    BY <1>5, <1>f DEF Snapshots!Marked, Snapshots!CallerAt
  <2> QED  BY <1>0, <1>5, <2>1, <2>2, <2>4, <2>5, <2>6, CallerStores DEF Snapshots!Marked
<1>6. CASE Snapshots!Halt(c)
  <2> DEFINE pc == Snapshots!AfterHalt(caller[c].request)
             r == [caller[c] EXCEPT !.pc = pc]
  <2>p. /\ caller' = [caller EXCEPT ![c].pc = pc] /\ pc \in {"reread", "idle", "pop", "enqueue"}
        /\ caller[c].request \notin Snapshots!Abandoning => pc \in {"reread", "enqueue"}
    BY <1>6 DEF Snapshots!Halt, Snapshots!AfterHalt, Snapshots!Abandoning
  <2> HIDE DEF pc
  <2>1. caller' = [caller EXCEPT ![c] = r]
    BY <1>0, <2>p
  <2>2. r \in CallerRecords
    BY <1>0, <2>p, CallerFields, CallerPlaced, ZenonT(40)
  <2>3. r.pc = pc /\ r.copy = caller[c].copy /\ r.request = caller[c].request
    BY <1>0 DEF CallerRecords
  <2> HIDE DEF r
  <2>4. Snapshots!Rewrites(c) => Snapshots!Rewrites(c)'
    BY <1>0, <2>p, <2>1, <2>3 DEF Snapshots!Rewrites
  <2>5. caller[c].pc = "halt"
    BY <1>6 DEF Snapshots!Halt, Snapshots!CallerAt
  <2>6. UNCHANGED <<shown, sequence, kind, queue, worker, refresh, finisher, over, abandoned, active,
                    stale, revived>>
    BY <1>6 DEF Snapshots!Halt
  <2> QED  BY <1>f, <2>p, <2>1, <2>2, <2>3, <2>4, <2>5, <2>6, CallerGoesOn
<1>9. CASE Snapshots!Reread(c)
  <2> DEFINE r == [caller[c] EXCEPT !.pc = "cleared", !.copy = shown]
  <2>1. caller' = [caller EXCEPT ![c] = r]
    BY <1>0, <1>9 DEF Snapshots!Reread
  <2>2. r \in CallerRecords
    BY <1>0, CallerFields, CallerPlaced, ZenonT(40)
  <2>3. r.pc = "cleared" /\ r.copy = shown /\ r.request = caller[c].request
    BY <1>0 DEF CallerRecords
  <2> HIDE DEF r
  <2>4. Snapshots!Rewrites(c) => Snapshots!Rewrites(c)'
    BY <1>0, <2>1, <2>3 DEF Snapshots!Rewrites
  <2>5. caller[c].pc = "reread"
    BY <1>9 DEF Snapshots!Reread, Snapshots!CallerAt
  <2> QED  BY <2>5, <1>9, <1>t, <2>1, <2>2, <2>3, <2>4, CallerGoesOn DEF Snapshots!Reread
<1>8. CASE Snapshots!Publish(c)
  <2>1. Snapshots!Queued(c) \in Snapshots!Snapshots /\ Snapshots!Queued(c).pending = caller[c].id
        /\ Snapshots!Queued(c).running = caller[c].copy.running
    BY <1>0, SnapshotFields DEF Snapshots!Queued, Snapshots!Snapshots
  <2>2. PICK r \in CallerRecords : caller' = [caller EXCEPT ![c] = r]
    <3>1. CASE caller' = [caller EXCEPT ![c].pc = "republish"]
      <4>1. caller' = [caller EXCEPT ![c] = [caller[c] EXCEPT !.pc = "republish"]]
        BY <1>0, <3>1
      <4> QED  BY <1>0, <4>1, CallerFields, CallerPlaced, ZenonT(40)
    <3>2. CASE caller' = [caller EXCEPT ![c] = Snapshots!Idle]
      BY <3>2, SnapshotBasics
    <3> QED  BY <1>8, <3>1, <3>2 DEF Snapshots!Publish
  <2>3. caller[c].pc \in {"publish", "republish"}
    BY <1>8 DEF Snapshots!Publish, Snapshots!CallerAt
  <2>4. Snapshots!Copy(c) \in stale \/ Snapshots!Queued(c).running = shown.running
    BY <1>f, <2>1, <2>3
  <2>5. \/ Snapshots!Copy(c) \in stale \/ Snapshots!Queued(c).pending \notin over \ abandoned
        \/ \E d \in Commanders : d # c /\ Snapshots!Rewrites(d)
    <3>1. CASE caller[c].pc = "publish" /\ caller[c].id \in over \ abandoned /\ Correcting
      <4>1. ~Snapshots!Rewrites(c)
        BY <3>1 DEF Snapshots!Rewrites, Snapshots!CallerAt
      <4> QED  BY <3>1, <4>1 DEF Correcting
    <3> QED  BY <1>f, <2>1, <2>3, <3>1
  <2> HIDE DEF Snapshots!Queued
  <2> QED  BY <1>8, <2>1, <2>2, <2>3, <2>4, <2>5, CallerStores DEF Snapshots!Publish
<1>10. CASE Snapshots!Withdraw(c)
  <2> DEFINE s == Snapshots!Withdrawn(caller[c].copy)
  <2>1. s \in Snapshots!Snapshots /\ s.pending = Snapshots!None /\ s.running = caller[c].copy.running
    BY <1>0, SnapshotFields DEF Snapshots!Withdrawn, Snapshots!Snapshots
  <2>2. caller[c].pc = "cleared" /\ (Snapshots!Copy(c) \in stale \/ s.running = shown.running)
    BY <1>10, <1>f, <2>1 DEF Snapshots!Withdraw, Snapshots!CallerAt
  <2>3. Snapshots!Store(Snapshots!Copy(c), s) /\ caller' = [caller EXCEPT ![c] = Snapshots!Idle]
    BY <1>10 DEF Snapshots!Withdraw
  <2> HIDE DEF s
  <2> QED  BY <1>10, <1>i, <2>1, <2>2, <2>3, SnapshotBasics, CallerStores DEF Snapshots!Withdraw
<1>11. CASE Snapshots!StopAllPops(c) \/ Snapshots!StopAllLooks(c)
  <2>1. PICK pc \in {"popped", "write"}, s \in {caller[c].copy, shown} :
          /\ caller' = [caller EXCEPT ![c] = [caller[c] EXCEPT !.pc = pc, !.copy = s]]
          /\ \/ /\ pc = "popped" /\ caller[c].pc = "pop" /\ s = caller[c].copy
                /\ UNCHANGED <<stale, revived>>
             \/ /\ pc = "write" /\ caller[c].pc = "popped" /\ s = shown
                /\ Snapshots!Takes(Snapshots!Copy(c)) /\ UNCHANGED active
    <3>1. CASE Snapshots!StopAllPops(c)
      <4>1. caller' = [caller EXCEPT ![c] = [caller[c] EXCEPT !.pc = "popped"]]
        BY <1>0, <3>1 DEF Snapshots!StopAllPops
      <4>2. [caller[c] EXCEPT !.pc = "popped"] =
              [caller[c] EXCEPT !.pc = "popped", !.copy = caller[c].copy]
        BY <1>0 DEF CallerRecords
      <4>3. caller[c].pc = "pop" /\ UNCHANGED <<stale, revived>>
        BY <3>1 DEF Snapshots!StopAllPops, Snapshots!CallerAt
      <4> WITNESS "popped" \in {"popped", "write"}, caller[c].copy \in {caller[c].copy, shown}
      <4> QED  BY <4>1, <4>2, <4>3, Zenon
    <3>2. CASE Snapshots!StopAllLooks(c)
      <4>1. caller' = [caller EXCEPT ![c] = [caller[c] EXCEPT !.pc = "write", !.copy = shown]]
        BY <1>0, <3>2 DEF Snapshots!StopAllLooks
      <4> QED  BY <3>2, <4>1 DEF Snapshots!StopAllLooks, Snapshots!CallerAt
    <3> QED  BY <1>11, <3>1, <3>2
  <2> DEFINE r == [caller[c] EXCEPT !.pc = pc, !.copy = s]
  <2>2. caller' = [caller EXCEPT ![c] = r]
    BY <2>1
  <2>3. r \in CallerRecords
    <3>1. pc \in CallerPlaces /\ s \in Snapshots!Snapshots
      BY <1>0, <2>1 DEF CallerPlaces
    <3> QED  BY <1>0, <3>1, CallerFields
  <2>4. r.pc = pc /\ r.copy = s
    BY <1>0 DEF CallerRecords
  <2> HIDE DEF r
  <2>5. ~Snapshots!Rewrites(c)
    BY <2>1 DEF Snapshots!Rewrites, Snapshots!CallerAt
  <2>6. UNCHANGED <<shown, sequence, kind, queue, worker, refresh, finisher, over, abandoned>>
    BY <1>11 DEF Snapshots!StopAllPops, Snapshots!StopAllLooks
  <2>7. /\ stale' \subseteq stale /\ UNCHANGED revived
        /\ \A k \in stale : k \notin {Snapshots!Copy(c), Snapshots!Note(c)} => k \in stale'
    BY <1>t, <2>1
  <2>8. r.pc # "idle" /\ Snapshots!Copy(c) \notin stale' => r.copy = shown
    BY <1>f, <2>1, <2>4
  <2> QED  BY <2>1, <2>2, <2>3, <2>4, <2>5, <2>6, <2>7, <2>8, CallerGoesOn
<1>12. CASE Snapshots!StopAllRecords(c)
  <2> DEFINE s == Snapshots!Finished(caller[c].copy)
  <2>1. s \in Snapshots!Snapshots /\ s.running = Snapshots!None /\ s.pending = caller[c].copy.pending
    BY <1>0, SnapshotFields DEF Snapshots!Finished, Snapshots!Snapshots
  <2>2. caller[c].pc = "write" /\ (Snapshots!Copy(c) \in stale \/ s.pending = shown.pending)
    BY <1>12, <1>f, <2>1 DEF Snapshots!StopAllRecords, Snapshots!CallerAt
  <2>3. /\ Snapshots!Store(Snapshots!Copy(c), s) /\ caller' = [caller EXCEPT ![c] = Snapshots!Idle]
        /\ UNCHANGED <<sequence, kind, queue, active, worker, refresh, finisher, over, abandoned>>
    BY <1>12 DEF Snapshots!StopAllRecords
  <2> HIDE DEF s
  <2>4. ~Snapshots!Rewrites(c)
    BY <2>2 DEF Snapshots!Rewrites, Snapshots!CallerAt
  <2> QED  BY <2>1, <2>2, <2>3, <2>4, SnapshotBasics, CallerStores
<1> QED
  BY <1>1, <1>2, <1>4, <1>5, <1>6, <1>8, <1>9, <1>10, <1>11, <1>12, CallerPreempts, CallerEnqueues
  DEF Snapshots!CallerStep

\* The worker goes on without storing, and takes no copy but its own.
LEMMA WorkerGoesOn ==
  ASSUME SnapshotInv, OwedInv,
         UNCHANGED <<shown, sequence, caller, refresh, finisher, over, abandoned, revived>>,
         (UNCHANGED active /\ worker.pc # "show") \/ Snapshots!Clears',
         stale' \subseteq stale,
         \A k \in stale : k # Snapshots!Copy("worker") => k \in stale',
         queue' \in Seq(1..sequence),
         worker'.pc # "idle" => worker'.id \in 1..sequence,
         WorkerOwes'
  PROVE  OwedInv'
<1>1. \A c \in Commanders : Snapshots!Rewrites(c)' <=> Snapshots!Rewrites(c)
  BY DEF Snapshots!Rewrites, Snapshots!CallerAt
<1>2. Correcting' <=> Correcting
  BY <1>1 DEF Correcting
<1>3. /\ \A c \in Commanders : Snapshots!Copy(c) \in stale => Snapshots!Copy(c) \in stale'
      /\ \A c \in Commanders : Snapshots!Note(c) \in stale => Snapshots!Note(c) \in stale'
      /\ \A f \in Finishers : Snapshots!Copy(f) \in stale => Snapshots!Copy(f) \in stale'
      /\ Snapshots!Copy("refresh") \in stale => Snapshots!Copy("refresh") \in stale'
  BY CopiesDiffer
<1>4. Snapshots!OutdatedIsOwed'
  <2>1. Snapshots!OutdatedIsOwed
    BY DEF OwedInv
  <2>2. UNCHANGED active /\ worker.pc # "show" => (Snapshots!Clears => Snapshots!Clears')
    BY DEF Snapshots!Clears
  <2> QED  BY <1>2, <2>1, <2>2 DEF Snapshots!OutdatedIsOwed, Correcting
<1>5. IdsGiven'
  BY DEF OwedInv, IdsGiven
<1>6. CopiesAreFresh'
  BY <1>3 DEF OwedInv, CopiesAreFresh
<1>7. CallersOwe'
  BY <1>2, <1>3 DEF OwedInv, CallersOwe
<1> QED  BY <1>4, <1>5, <1>6, <1>7 DEF OwedInv

\* The record of the worker, part by part.
LEMMA WorkerParts ==
  ASSUME NEW w \in WorkerRecords
  PROVE  /\ \A i \in Snapshots!Ids : /\ [w EXCEPT !.pc = "taken", !.id = i].pc = "taken"
                                     /\ [w EXCEPT !.pc = "taken", !.id = i].id = i
         /\ \A s : /\ [w EXCEPT !.pc = "run", !.copy = s].pc = "run"
                   /\ [w EXCEPT !.pc = "run", !.copy = s].id = w.id
                   /\ [w EXCEPT !.pc = "run", !.copy = s].copy = s
                   /\ [w EXCEPT !.pc = "show", !.copy = s].pc = "show"
                   /\ [w EXCEPT !.pc = "show", !.copy = s].id = w.id
                   /\ [w EXCEPT !.pc = "show", !.copy = s].copy = s
         /\ \A pc : /\ [w EXCEPT !.pc = pc].pc = pc
                    /\ [w EXCEPT !.pc = pc].id = w.id /\ [w EXCEPT !.pc = pc].copy = w.copy
BY DEF WorkerRecords

\* What the worker stores shows its motion, which is the active one or about to be
\* taken out of the snapshot; of another command it shows what it read.
LEMMA WorkerConcludes ==
  ASSUME SnapshotInv, OwedInv, Snapshots!Conclude
  PROVE  OwedInv'
<1> DEFINE s == Snapshots!Executed(worker.copy)
<1>0. worker \in WorkerRecords /\ worker.copy \in Snapshots!Snapshots /\ worker.id \in 0..MaxCommands
      /\ over \subseteq Snapshots!Ids
  <2>1. worker \in WorkerRecords
    BY DEF SnapshotTyped, SnapshotInv
  <2> QED  BY <2>1, SnapshotBasics DEF WorkerRecords, SnapshotTyped, SnapshotInv
<1>1. s.pending = Snapshots!None /\ s.running = worker.copy.running
  BY <1>0 DEF Snapshots!Executed, Snapshots!Snapshots
<1>2. /\ worker.pc \in {"show", "publish"} /\ Snapshots!Store(Snapshots!Copy("worker"), s)
      /\ over' = over \cup {worker.id} /\ worker' = Snapshots!Resting
      /\ UNCHANGED <<motor, sequence, kind, queue, active, caller, refresh, finisher, abandoned>>
  BY DEF Snapshots!Conclude
<1> HIDE DEF s
<1>3. /\ shown' = s /\ stale' = Snapshots!Copies
      /\ revived' = Snapshots!Outdated(s) \cap
                      (IF Snapshots!Copy("worker") \in stale THEN {"pending", "running"} ELSE revived)
  BY <1>2 DEF Snapshots!Store
<1>4. worker.id \in 1..sequence /\ over \subseteq 1..sequence /\ queue \in Seq(1..sequence)
  BY <1>2 DEF OwedInv, IdsGiven
<1>5. shown'.pending \notin over'
  <2>1. Snapshots!None \notin over /\ Snapshots!None # worker.id
    <3>1. worker.id # 0 /\ Snapshots!None = 0
      BY <1>2, SnapshotBasics DEF SnapshotInv, WorkerHasCommand
    <3> QED  BY <1>0, <3>1, SnapshotBasics
  <2> QED  BY <1>1, <1>2, <1>3, <2>1
<1>6. s.running \notin {Snapshots!None, active} => "running" \in revived' \/ Snapshots!Clears'
  <2>1. s.running \notin {Snapshots!None, active} => "running" \in Snapshots!Outdated(s)
    BY DEF Snapshots!Outdated
  <2>2. Finishing => Snapshots!Clears'
    BY <1>2 DEF Finishing, Snapshots!Clears
  <2>3. CASE worker.pc = "show"
    <3>1. /\ worker.copy.running = worker.id
          /\ worker.id = active \/ Finishing \/ Snapshots!Copy("worker") \in stale
      BY <2>3 DEF OwedInv, WorkerOwes
    <3> QED  BY <1>1, <1>3, <2>1, <2>2, <3>1
  <2>4. CASE worker.pc = "publish"
    <3>1. Snapshots!Copy("worker") \in stale \/ worker.copy = shown
      BY <2>4 DEF OwedInv, WorkerOwes
    <3>2. Snapshots!Clears => Finishing
      BY <2>4 DEF Finishing, Snapshots!Clears
    <3>3. shown.running \notin {Snapshots!None, active} => "running" \in revived \/ Snapshots!Clears
      BY DEF OwedInv, Snapshots!OutdatedIsOwed
    <3> QED  BY <1>1, <1>3, <2>1, <2>2, <3>1, <3>2, <3>3
  <2> QED  BY <1>2, <2>3, <2>4
<1>7. Snapshots!OutdatedIsOwed'
  BY <1>2, <1>3, <1>5, <1>6 DEF Snapshots!OutdatedIsOwed, Snapshots!None
<1>8. CopiesAreFresh' /\ CallersOwe' /\ WorkerOwes'
  <2>1. worker'.pc = "idle"
    BY <1>2, SnapshotBasics
  <2> QED  BY <1>3, <2>1, AllCopiesOld
<1>9. IdsGiven'
  <2>1. worker'.pc = "idle"
    BY <1>2, SnapshotBasics
  <2> QED  BY <1>2, <1>4, <2>1 DEF IdsGiven
<1> QED  BY <1>7, <1>8, <1>9 DEF OwedInv

\* Every step of the worker keeps OwedInv.
LEMMA OwedWorker ==
  ASSUME SnapshotInv, OwedInv, Snapshots!WorkerStep
  PROVE  OwedInv'
<1>0. worker \in WorkerRecords /\ queue \in Seq(1..sequence) /\ queue \in Seq(Snapshots!Ids)
      /\ (worker.pc # "idle" => worker.id \in 1..sequence) /\ WorkerOwes
  BY DEF SnapshotTyped, SnapshotInv, OwedInv, IdsGiven
<1>1. CASE Snapshots!Take
  <2>1. Head(queue) \in 1..sequence /\ Head(queue) \in Snapshots!Ids /\ Tail(queue) \in Seq(1..sequence)
    BY <1>0, <1>1, HeadTailProperties DEF Snapshots!Take
  <2>2. worker'.pc = "taken" /\ worker'.id = Head(queue)
    BY <1>0, <1>1, <2>1, WorkerParts DEF Snapshots!Take
  <2>3. WorkerOwes'
    BY <2>2 DEF WorkerOwes
  <2> QED  BY <1>1, <2>1, <2>2, <2>3, WorkerGoesOn DEF Snapshots!Take
<1>2. CASE Snapshots!Begins
  <2>1. worker'.pc = "run" /\ worker'.id = worker.id /\ worker'.copy = shown
    BY <1>0, <1>2, WorkerParts DEF Snapshots!Begins
  <2>2. WorkerOwes'
    BY <1>2, <2>1 DEF WorkerOwes, Snapshots!Begins
  <2> QED  BY <1>0, <1>2, <2>1, <2>2, WorkerGoesOn DEF Snapshots!Begins, Snapshots!Takes
<1>3. CASE Snapshots!Run
  <2>1. PICK pc \in {"register", "publish"} : worker' = [worker EXCEPT !.pc = pc]
    BY <1>3 DEF Snapshots!Run
  <2>2. worker'.pc = pc /\ worker'.id = worker.id /\ worker'.copy = worker.copy
    BY <1>0, <2>1, WorkerParts
  <2>3. /\ worker.pc = "run"
        /\ UNCHANGED <<shown, sequence, queue, active, caller, refresh, finisher, over, abandoned,
                       stale, revived>>
    BY <1>3 DEF Snapshots!Run
  <2>4. WorkerOwes'
    BY <1>0, <2>1, <2>2, <2>3 DEF WorkerOwes
  <2> QED  BY <1>0, <2>2, <2>3, <2>4, WorkerGoesOn
<1>4. CASE Snapshots!Register
  <2> DEFINE s == [worker.copy EXCEPT !.running = worker.id]
  <2>1. worker' = [worker EXCEPT !.pc = "show", !.copy = s]
    BY <1>0, <1>4 DEF Snapshots!Register, WorkerRecords
  <2>2. s.running = worker.id
    <3>1. worker.copy \in Snapshots!Snapshots
      BY <1>0 DEF WorkerRecords
    <3> QED  BY <3>1 DEF Snapshots!Snapshots
  <2> HIDE DEF s
  <2>3. worker'.pc = "show" /\ worker'.id = worker.id /\ worker'.copy.running = worker.id
    BY <1>0, <2>1, <2>2, WorkerParts
  <2>4. /\ worker.pc = "register" /\ active' = worker.id
        /\ UNCHANGED <<shown, sequence, queue, caller, refresh, finisher, over, abandoned, stale,
                       revived>>
    BY <1>4 DEF Snapshots!Register
  <2>5. WorkerOwes' /\ Snapshots!Clears'
    BY <2>3, <2>4 DEF WorkerOwes, Snapshots!Clears
  <2> QED  BY <1>0, <2>3, <2>4, <2>5, WorkerGoesOn
<1> QED  BY <1>1, <1>2, <1>3, <1>4, WorkerConcludes DEF Snapshots!WorkerStep

\* The monitor or a finisher goes on without storing: it takes no copy but its own,
\* and whoever takes the active command away is to correct the snapshot.
LEMMA FinishersGoOn ==
  ASSUME SnapshotInv, OwedInv,
         UNCHANGED <<shown, sequence, kind, queue, caller, worker, over, abandoned, revived>>,
         (UNCHANGED active /\ (Finishing => Finishing')) \/ Finishing',
         stale' \subseteq stale,
         \A t \in Commanders \cup {"worker"} : Snapshots!Copy(t) \in stale => Snapshots!Copy(t) \in stale',
         \A c \in Commanders : Snapshots!Note(c) \in stale => Snapshots!Note(c) \in stale',
         \A f \in Finishers :
           finisher'[f].pc = "write" /\ Snapshots!Copy(f) \notin stale' => finisher'[f].copy = shown,
         refresh'.pc = "publish" /\ Snapshots!Copy("refresh") \notin stale' => refresh'.copy = shown
  PROVE  OwedInv'
<1>1. \A c \in Commanders : Snapshots!Rewrites(c)' <=> Snapshots!Rewrites(c)
  BY DEF Snapshots!Rewrites, Snapshots!CallerAt
<1>2. Correcting' <=> Correcting
  BY <1>1 DEF Correcting
<1>3. Snapshots!OutdatedIsOwed'
  <2>1. Snapshots!OutdatedIsOwed
    BY DEF OwedInv
  <2>2. (UNCHANGED active /\ (Snapshots!Clears => Snapshots!Clears')) \/ Snapshots!Clears'
    BY DEF Snapshots!Clears, Finishing
  <2> QED  BY <1>2, <2>1, <2>2 DEF Snapshots!OutdatedIsOwed, Correcting
<1>4. IdsGiven'
  BY DEF OwedInv, IdsGiven
<1>5. CopiesAreFresh'
  BY DEF OwedInv, CopiesAreFresh
<1>6. CallersOwe'
  BY <1>2 DEF OwedInv, CallersOwe
<1>7. WorkerOwes'
  BY DEF OwedInv, WorkerOwes
<1> QED  BY <1>3, <1>4, <1>5, <1>6, <1>7 DEF OwedInv

\* The monitor or a finisher stores: the pending command of its copy, and no other
\* active one than was shown.
LEMMA FinishersStore ==
  ASSUME SnapshotInv, OwedInv, NEW copy, NEW s \in Snapshots!Snapshots, Snapshots!Store(copy, s),
         UNCHANGED <<sequence, kind, queue, active, caller, worker, over, abandoned>>,
         copy \in stale \/ s.pending = shown.pending,
         \/ copy \in stale \/ s.running = Snapshots!None
         \/ s.running = shown.running /\ (Finishing => Finishing')
  PROVE  OwedInv'
<1>1. \A c \in Commanders : Snapshots!Rewrites(c)' <=> Snapshots!Rewrites(c)
  BY DEF Snapshots!Rewrites, Snapshots!CallerAt
<1>2. Correcting => Correcting'
  BY <1>1 DEF Correcting
<1>3. (Finishing => Finishing') => (Snapshots!Clears => Snapshots!Clears')
  BY DEF Snapshots!Clears, Finishing
<1>4. Snapshots!OutdatedIsOwed'
  <2>1. UNCHANGED <<active, over, abandoned>>
    OBVIOUS
  <2>2. copy \in stale \/ s.running \in {Snapshots!None, active} \/ Snapshots!Clears'
          \/ (s.running = shown.running /\ (Snapshots!Clears => Snapshots!Clears'))
    BY <1>3
  <2> QED  BY <1>2, <2>1, <2>2, StoreOwes
<1>5. CopiesAreFresh' /\ CallersOwe' /\ WorkerOwes'
  <2>1. stale' = Snapshots!Copies
    BY DEF Snapshots!Store
  <2>2. WorkerOwes
    BY DEF OwedInv
  <2> QED  BY <2>1, <2>2, AllCopiesOld DEF WorkerOwes
<1>6. IdsGiven'
  BY DEF OwedInv, IdsGiven
<1> QED  BY <1>4, <1>5, <1>6 DEF OwedInv

\* Both halves of the monitor's cycle keep OwedInv.
LEMMA OwedMonitor ==
  ASSUME SnapshotInv, OwedInv, Snapshots!MonitorStep
  PROVE  OwedInv'
<1>0. refresh \in RefreshRecords /\ CopiesAreFresh /\ shown \in Snapshots!Snapshots
  BY DEF SnapshotTyped, SnapshotInv, OwedInv
<1>r. refresh.copy \in Snapshots!Snapshots /\ refresh.reading \in 0..MaxTravel
  BY <1>0 DEF RefreshRecords
<1>1. CASE Snapshots!Read
  <2>1. refresh'.pc = "read"
    BY <1>0, <1>1 DEF Snapshots!Read, RefreshRecords
  <2>2. UNCHANGED <<shown, motor, sequence, kind, queue, active, caller, worker, finisher, over, abandoned,
                    stale, revived>>
    BY <1>1 DEF Snapshots!Read
  <2> QED  BY <1>0, <2>1, <2>2, FinishersGoOn DEF CopiesAreFresh, Finishing
<1>2. CASE Snapshots!Compare
  <2>1. UNCHANGED <<shown, motor, sequence, kind, queue, active, caller, worker, finisher, over,
                    abandoned>>
    BY <1>2 DEF Snapshots!Compare
  <2>2. refresh' = [refresh EXCEPT !.pc = "publish", !.copy = shown] \/ refresh' = Snapshots!Still
    BY <1>2 DEF Snapshots!Compare
  <2>3. refresh'.pc = "publish" => refresh'.copy = shown
    <3>1. [refresh EXCEPT !.pc = "publish", !.copy = shown].copy = shown
      BY <1>0 DEF RefreshRecords
    <3>2. Snapshots!Still.pc = "idle"
      BY DEF Snapshots!Still
    <3> QED  BY <2>2, <3>1, <3>2
  <2>4. /\ stale' \subseteq stale /\ UNCHANGED revived
        /\ \A k \in stale : k # Snapshots!Copy("refresh") => k \in stale'
    BY <1>2 DEF Snapshots!Compare, Snapshots!Takes
  <2>5. /\ \A t \in Commanders \cup Finishers \cup {"worker"} :
             Snapshots!Copy(t) \in stale => Snapshots!Copy(t) \in stale'
        /\ \A c \in Commanders : Snapshots!Note(c) \in stale => Snapshots!Note(c) \in stale'
    BY <2>4, CopiesDiffer
  <2> QED  BY <1>0, <2>1, <2>3, <2>4, <2>5, FinishersGoOn DEF CopiesAreFresh, Finishing
<1>3. CASE Snapshots!Refresh
  <2> DEFINE s == [refresh.copy EXCEPT !.position = refresh.reading]
  <2>1. s \in Snapshots!Snapshots /\ s.pending = refresh.copy.pending /\ s.running = refresh.copy.running
    BY <1>r, SnapshotFields DEF Snapshots!Snapshots
  <2>2. refresh.pc = "publish" /\ Snapshots!Store(Snapshots!Copy("refresh"), s)
        /\ UNCHANGED <<motor, sequence, kind, queue, active, caller, worker, finisher, over,
                       abandoned>>
    BY <1>3 DEF Snapshots!Refresh
  <2> HIDE DEF s
  <2>3. Snapshots!Copy("refresh") \in stale \/ refresh.copy = shown
    BY <1>0, <2>2 DEF CopiesAreFresh
  <2>4. Finishing => Finishing'
    BY <2>2 DEF Finishing
  <2> QED  BY <2>1, <2>2, <2>3, <2>4, FinishersStore
<1> QED  BY <1>1, <1>2, <1>3 DEF Snapshots!MonitorStep

\* So does every step of a thread that finishes a command.
LEMMA OwedFinisher ==
  ASSUME SnapshotInv, OwedInv, NEW f \in Finishers, Snapshots!FinisherStep(f)
  PROVE  OwedInv'
<1>0. finisher \in [Finishers -> FinisherRecords] /\ finisher[f] \in FinisherRecords
      /\ CopiesAreFresh /\ shown \in Snapshots!Snapshots
  BY DEF SnapshotTyped, SnapshotInv, OwedInv
<1>1. CASE Snapshots!Finish(f) \/ Snapshots!HaltExpired(f) \/ Snapshots!Pop(f)
  <2>1. PICK pc \in {"halt", "pop", "popped"} :
          /\ finisher' = [finisher EXCEPT ![f].pc = pc]
          /\ (UNCHANGED active /\ finisher[f].pc \notin {"popped", "write"}) \/ pc = "popped"
    <3>1. CASE Snapshots!Finish(f)
      BY <3>1 DEF Snapshots!Finish
    <3>2. CASE Snapshots!HaltExpired(f)
      BY <3>2 DEF Snapshots!HaltExpired
    <3>3. CASE Snapshots!Pop(f)
      BY <3>3 DEF Snapshots!Pop
    <3> QED  BY <1>1, <3>1, <3>2, <3>3
  <2>2. (finisher')[f].pc = pc /\ \A g \in Finishers : g # f => (finisher')[g] = finisher[g]
    <3>1. finisher' = [finisher EXCEPT ![f] = [finisher[f] EXCEPT !.pc = pc]]
      BY <1>0, <2>1
    <3>2. [finisher[f] EXCEPT !.pc = pc].pc = pc
      BY <1>0 DEF FinisherRecords
    <3> QED  BY <1>0, <3>1, <3>2
  <2>3. UNCHANGED <<shown, sequence, kind, queue, caller, worker, refresh, over, abandoned, stale,
                    revived>>
    BY <1>1 DEF Snapshots!Finish, Snapshots!HaltExpired, Snapshots!Pop
  <2>4. (UNCHANGED active /\ (Finishing => Finishing')) \/ Finishing'
    <3>1. CASE pc = "popped"
      BY <2>2, <3>1 DEF Finishing
    <3>2. CASE finisher[f].pc \notin {"popped", "write"} /\ UNCHANGED active
      BY <2>2, <2>3, <3>2 DEF Finishing
    <3> QED  BY <2>1, <3>1, <3>2
  <2>5. \A g \in Finishers : finisher'[g].pc = "write" /\ Snapshots!Copy(g) \notin stale'
                               => finisher'[g].copy = shown
    BY <1>0, <2>1, <2>2, <2>3 DEF CopiesAreFresh
  <2> QED  BY <1>0, <2>3, <2>4, <2>5, FinishersGoOn DEF CopiesAreFresh
<1>2. CASE Snapshots!Look(f)
  <2>1. /\ finisher' = [finisher EXCEPT ![f] = [pc |-> "write", copy |-> shown]]
        /\ Snapshots!Takes(Snapshots!Copy(f))
        /\ UNCHANGED <<shown, motor, sequence, kind, queue, active, caller, worker, refresh,
                       over, abandoned>>
    BY <1>2 DEF Snapshots!Look
  <2>2. /\ (finisher')[f].pc = "write" /\ (finisher')[f].copy = shown
        /\ \A g \in Finishers : g # f => (finisher')[g] = finisher[g]
    BY <1>0, <2>1
  <2>3. Finishing'
    BY <2>2 DEF Finishing
  <2>4. /\ stale' \subseteq stale /\ UNCHANGED revived
        /\ \A k \in stale : k # Snapshots!Copy(f) => k \in stale'
    BY <2>1 DEF Snapshots!Takes
  <2>5. /\ \A t \in Commanders \cup {"worker", "refresh"} :
             Snapshots!Copy(t) \in stale => Snapshots!Copy(t) \in stale'
        /\ \A g \in Finishers : g # f /\ Snapshots!Copy(g) \in stale => Snapshots!Copy(g) \in stale'
        /\ \A c \in Commanders : Snapshots!Note(c) \in stale => Snapshots!Note(c) \in stale'
    BY <2>4, CopiesDiffer
  <2>6. \A g \in Finishers : finisher'[g].pc = "write" /\ Snapshots!Copy(g) \notin stale'
                               => finisher'[g].copy = shown
    BY <1>0, <2>2, <2>5 DEF CopiesAreFresh
  <2>7. refresh'.pc = "publish" /\ Snapshots!Copy("refresh") \notin stale' => refresh'.copy = shown
    BY <1>0, <2>1, <2>5 DEF CopiesAreFresh
  <2> QED  BY <2>1, <2>3, <2>4, <2>5, <2>6, <2>7, FinishersGoOn
<1>3. CASE Snapshots!Record(f)
  <2> DEFINE s == Snapshots!Finished(finisher[f].copy)
  <2>1. finisher[f].copy \in Snapshots!Snapshots
    BY <1>0 DEF FinisherRecords
  <2>2. s \in Snapshots!Snapshots /\ s.running = Snapshots!None /\ s.pending = finisher[f].copy.pending
    BY <2>1, SnapshotFields DEF Snapshots!Finished, Snapshots!Snapshots
  <2>3. finisher[f].pc = "write" /\ Snapshots!Store(Snapshots!Copy(f), s)
        /\ UNCHANGED <<motor, sequence, kind, queue, active, caller, worker, refresh, over,
                       abandoned>>
    BY <1>3 DEF Snapshots!Record
  <2> HIDE DEF s
  <2>4. Snapshots!Copy(f) \in stale \/ finisher[f].copy = shown
    BY <1>0, <2>3 DEF CopiesAreFresh
  <2> QED  BY <2>2, <2>3, <2>4, FinishersStore
<1> QED  BY <1>1, <1>2, <1>3 DEF Snapshots!FinisherStep, Snapshots!FinisherGoesOn

\* Every step keeps OwedInv.
LEMMA OwedNext ==
  ASSUME SnapshotInv, OwedInv, [Snapshots!Next]_Snapshots!snap_vars
  PROVE  OwedInv'
<1>1. CASE Snapshots!MotorTurns \/ UNCHANGED Snapshots!snap_vars
  <2>1. UNCHANGED <<shown, sequence, kind, queue, active, caller, worker, refresh, finisher, over, abandoned,
                    stale, revived>>
    BY <1>1 DEF Snapshots!MotorTurns, Snapshots!snap_vars
  <2> QED  BY <2>1, FinishersGoOn DEF OwedInv, CopiesAreFresh, Finishing
<1> QED  BY <1>1, OwedCaller, OwedWorker, OwedMonitor, OwedFinisher DEF Snapshots!Next

\* A command that is over is shown as pending, or one that is not active as active, only
\* while a thread is on its way to correct it, or because an old copy put it back, or,
\* pending, because stop_all_motors or a guarded operation cancelled it: for any callers,
\* any finishers and any number of commands.
THEOREM OutdatedIsCorrected == Snapshots!Spec => []OutdatedIsOwed
<1>1. Snapshots!Init => SnapshotInv /\ OwedInv
  BY SnapshotInit, OwedInit
<1>2. SnapshotInv /\ OwedInv /\ [Snapshots!Next]_Snapshots!snap_vars => (SnapshotInv /\ OwedInv)'
  BY SnapshotNext, OwedNext
<1>3. OwedInv => OutdatedIsOwed
  BY DEF OwedInv, OutdatedIsOwed
<1> QED  BY <1>1, <1>2, <1>3, PTL DEF Snapshots!Spec

-----------------------------------------------------------------------------
(* DriverRepository, with the monitor and in LOCAL: what its own module    *)
(* proves holds of the two instances.                                      *)

ForRepository == INSTANCE DriverRepository_proofs WITH Callers <- Workers, ConnectedOnly <- FALSE
ForLocal == INSTANCE DriverRepository_proofs WITH
  Callers <- {"service"}, Readers <- {}, ConnectedOnly <- TRUE, MaxAttempts <- 0
ForHeading == INSTANCE FieldHeading_proofs

\* The instance with the monitor takes the steps of its proof module.
LEMMA RepositorySteps ==
  /\ Repository!Init => ForRepository!Init
  /\ [Repository!Next]_Repository!driver_vars => [ForRepository!Next]_ForRepository!driver_vars
<1>1. Repository!Init => ForRepository!Init
  BY DEF Repository!Init, ForRepository!Init, Repository!None, ForRepository!None,
      Repository!Idle, ForRepository!Idle, Repository!Threads, ForRepository!Threads
<1>2. Repository!driver_vars = ForRepository!driver_vars /\ Repository!Threads = ForRepository!Threads
  BY DEF Repository!driver_vars, ForRepository!driver_vars, Repository!Threads,
      ForRepository!Threads
<1>3. \A t, o : Repository!Begin(t, o) => ForRepository!Begin(t, o)
  BY DEF Repository!Begin, ForRepository!Begin, Repository!At, ForRepository!At,
      Repository!None, ForRepository!None
<1>4. \A t, o : Repository!Peek(t, o) => ForRepository!Peek(t, o)
  BY DEF Repository!Peek, ForRepository!Peek, Repository!At, ForRepository!At, Repository!None,
      ForRepository!None
<1>5. \A t, w, o : Repository!Connect(t, w, o) <=> ForRepository!Connect(t, w, o)
  BY DEF Repository!Connect, ForRepository!Connect, Repository!Connected,
      ForRepository!Connected, Repository!NotConnected, ForRepository!NotConnected,
      Repository!Raises, ForRepository!Raises, Repository!Works, ForRepository!Works,
      Repository!Exhausted, ForRepository!Exhausted, Repository!NextAttempts,
      ForRepository!NextAttempts, Repository!None, ForRepository!None, Repository!Unlimited,
      ForRepository!Unlimited, Repository!Idle, ForRepository!Idle
<1>6. \A t : Repository!Executes(t) => ForRepository!Executes(t)
  BY <1>5 DEF Repository!Executes, ForRepository!Executes, Repository!StopIfConnected,
      ForRepository!StopIfConnected, Repository!Ensure, ForRepository!Ensure,
      Repository!Configure, ForRepository!Configure, Repository!Native, ForRepository!Native,
      Repository!Settle, ForRepository!Settle, Repository!Drop, ForRepository!Drop,
      Repository!Report, ForRepository!Report, Repository!KeepError, ForRepository!KeepError,
      Repository!At, ForRepository!At, Repository!Goes, ForRepository!Goes, Repository!Returns,
      ForRepository!Returns, Repository!Raises, ForRepository!Raises, Repository!Works,
      ForRepository!Works, Repository!None, ForRepository!None, Repository!Idle,
      ForRepository!Idle
<1>7. \A t : Repository!Looks(t) => ForRepository!Looks(t)
  BY <1>5 DEF Repository!Looks, ForRepository!Looks, Repository!ConnectToRead,
      ForRepository!ConnectToRead, Repository!Sample, ForRepository!Sample, Repository!Absent,
      ForRepository!Absent, Repository!CanRetry, ForRepository!CanRetry, Repository!Exhausted,
      ForRepository!Exhausted, Repository!At, ForRepository!At, Repository!Goes,
      ForRepository!Goes, Repository!Returns, ForRepository!Returns, Repository!None,
      ForRepository!None, Repository!Unlimited, ForRepository!Unlimited, Repository!Idle,
      ForRepository!Idle
<1>8. /\ Repository!Unplug => ForRepository!Unplug
      /\ Repository!PlugIn => ForRepository!PlugIn
      /\ Repository!RetryDue => ForRepository!RetryDue
  BY DEF Repository!Unplug, ForRepository!Unplug, Repository!PlugIn, ForRepository!PlugIn,
      Repository!RetryDue, ForRepository!RetryDue
<1>9. Repository!Next => ForRepository!Next
  BY <1>2, <1>3, <1>4, <1>6, <1>7, <1>8 DEF Repository!Next, ForRepository!Next
<1>10. UNCHANGED Repository!driver_vars => UNCHANGED ForRepository!driver_vars
  BY DEF Repository!driver_vars, ForRepository!driver_vars
<1> QED  BY <1>1, <1>9, <1>10

\* So does the instance of LOCAL.
LEMMA LocalRepositorySteps ==
  /\ LocalRepository!Init => ForLocal!Init
  /\ [LocalRepository!Next]_LocalRepository!driver_vars => [ForLocal!Next]_ForLocal!driver_vars
<1>1. LocalRepository!Init => ForLocal!Init
  BY DEF LocalRepository!Init, ForLocal!Init, LocalRepository!None, ForLocal!None,
      LocalRepository!Idle, ForLocal!Idle, LocalRepository!Threads, ForLocal!Threads
<1>2. LocalRepository!driver_vars = ForLocal!driver_vars /\ LocalRepository!Threads = ForLocal!Threads
  BY DEF LocalRepository!driver_vars, ForLocal!driver_vars, LocalRepository!Threads,
      ForLocal!Threads
<1>3. \A t, o : LocalRepository!Begin(t, o) => ForLocal!Begin(t, o)
  BY DEF LocalRepository!Begin, ForLocal!Begin, LocalRepository!At, ForLocal!At,
      LocalRepository!None, ForLocal!None
<1>4. \A t, o : LocalRepository!Peek(t, o) => ForLocal!Peek(t, o)
  BY DEF LocalRepository!Peek, ForLocal!Peek, LocalRepository!At, ForLocal!At,
      LocalRepository!None, ForLocal!None
<1>5. \A t, w, o : LocalRepository!Connect(t, w, o) <=> ForLocal!Connect(t, w, o)
  BY DEF LocalRepository!Connect, ForLocal!Connect, LocalRepository!Connected,
      ForLocal!Connected, LocalRepository!NotConnected, ForLocal!NotConnected,
      LocalRepository!Raises, ForLocal!Raises, LocalRepository!Works, ForLocal!Works,
      LocalRepository!Exhausted, ForLocal!Exhausted, LocalRepository!NextAttempts,
      ForLocal!NextAttempts, LocalRepository!None, ForLocal!None, LocalRepository!Unlimited,
      ForLocal!Unlimited, LocalRepository!Idle, ForLocal!Idle
<1>6. \A t : LocalRepository!Executes(t) => ForLocal!Executes(t)
  BY <1>5 DEF LocalRepository!Executes, ForLocal!Executes, LocalRepository!StopIfConnected,
      ForLocal!StopIfConnected, LocalRepository!Ensure, ForLocal!Ensure,
      LocalRepository!Configure, ForLocal!Configure, LocalRepository!Native, ForLocal!Native,
      LocalRepository!Settle, ForLocal!Settle, LocalRepository!Drop, ForLocal!Drop,
      LocalRepository!Report, ForLocal!Report, LocalRepository!KeepError, ForLocal!KeepError,
      LocalRepository!At, ForLocal!At, LocalRepository!Goes, ForLocal!Goes,
      LocalRepository!Returns, ForLocal!Returns, LocalRepository!Raises, ForLocal!Raises,
      LocalRepository!Works, ForLocal!Works, LocalRepository!None, ForLocal!None,
      LocalRepository!Idle, ForLocal!Idle
<1>7. \A t : LocalRepository!Looks(t) => ForLocal!Looks(t)
  BY <1>5 DEF LocalRepository!Looks, ForLocal!Looks, LocalRepository!ConnectToRead,
      ForLocal!ConnectToRead, LocalRepository!Sample, ForLocal!Sample, LocalRepository!Absent,
      ForLocal!Absent, LocalRepository!CanRetry, ForLocal!CanRetry, LocalRepository!Exhausted,
      ForLocal!Exhausted, LocalRepository!At, ForLocal!At, LocalRepository!Goes, ForLocal!Goes,
      LocalRepository!Returns, ForLocal!Returns, LocalRepository!None, ForLocal!None,
      LocalRepository!Unlimited, ForLocal!Unlimited, LocalRepository!Idle, ForLocal!Idle
<1>8. /\ LocalRepository!Unplug => ForLocal!Unplug
      /\ LocalRepository!PlugIn => ForLocal!PlugIn
      /\ LocalRepository!RetryDue => ForLocal!RetryDue
  BY DEF LocalRepository!Unplug, ForLocal!Unplug, LocalRepository!PlugIn, ForLocal!PlugIn,
      LocalRepository!RetryDue, ForLocal!RetryDue
<1>9. LocalRepository!Next => ForLocal!Next
  BY <1>2, <1>3, <1>4, <1>6, <1>7, <1>8 DEF LocalRepository!Next, ForLocal!Next
<1>10. UNCHANGED LocalRepository!driver_vars => UNCHANGED ForLocal!driver_vars
  BY DEF LocalRepository!driver_vars, ForLocal!driver_vars
<1> QED  BY <1>1, <1>9, <1>10

\* What DriverRepository_proofs shows, for the instance with the monitor.
LEMMA RepositoryInvariant ==
  /\ Repository!Spec => []Repository!TypeOK
  /\ Repository!Spec => []Repository!BudgetIsWhole
<1>1. ForRepository!Configured
  BY DevicesAssumption DEF ForRepository!Configured, DevicesAssumption
<1>2. ForRepository!Spec => []ForRepository!TypeOK
  BY <1>1, ForRepository!RepositoryTypes
<1>3. ForRepository!Spec => []ForRepository!BudgetIsWhole
  BY <1>1, ForRepository!BudgetsAreWhole
<1>4. ForRepository!TypeOK => Repository!TypeOK
  BY DEF ForRepository!TypeOK, Repository!TypeOK, ForRepository!Threads, Repository!Threads,
         ForRepository!Places, Repository!Places, ForRepository!Operations,
         Repository!Operations, ForRepository!Lifecycles, Repository!Lifecycles
<1>5. ForRepository!BudgetIsWhole => Repository!BudgetIsWhole
  BY DEF ForRepository!BudgetIsWhole, Repository!BudgetIsWhole, ForRepository!None,
         Repository!None
<1>6. Repository!Spec => ForRepository!Spec
  BY RepositorySteps, PTL DEF Repository!Spec, ForRepository!Spec
<1> QED  BY <1>2, <1>3, <1>4, <1>5, <1>6, PTL

\* The same for the instance of LOCAL, whose service is the one caller.
LEMMA LocalRepositoryInvariant ==
  /\ LocalRepository!Spec => []LocalRepository!TypeOK
  /\ LocalRepository!Spec => []LocalRepository!BudgetIsWhole
  /\ LocalRepository!Spec => []LocalRepository!TurningIsReachable
<1>1. ForLocal!Configured
  BY DevicesAssumption DEF ForLocal!Configured, DevicesAssumption
<1>2. ForLocal!Spec => []ForLocal!TypeOK
  BY <1>1, ForLocal!RepositoryTypes
<1>3. ForLocal!Spec => []ForLocal!BudgetIsWhole
  BY <1>1, ForLocal!BudgetsAreWhole
<1>4. ForLocal!Spec => []ForLocal!TurningIsReachable
  BY <1>1, ForLocal!TurningIsReached
<1>5. ForLocal!TypeOK => LocalRepository!TypeOK
  BY DEF ForLocal!TypeOK, LocalRepository!TypeOK, ForLocal!Threads, LocalRepository!Threads,
         ForLocal!Places, LocalRepository!Places, ForLocal!Operations,
         LocalRepository!Operations, ForLocal!Lifecycles, LocalRepository!Lifecycles
<1>6. /\ ForLocal!BudgetIsWhole => LocalRepository!BudgetIsWhole
      /\ ForLocal!TurningIsReachable => LocalRepository!TurningIsReachable
  BY DEF ForLocal!BudgetIsWhole, LocalRepository!BudgetIsWhole, ForLocal!None,
         LocalRepository!None, ForLocal!TurningIsReachable, LocalRepository!TurningIsReachable
<1>7. LocalRepository!Spec => ForLocal!Spec
  BY LocalRepositorySteps, PTL DEF LocalRepository!Spec, ForLocal!Spec
<1> QED  BY <1>2, <1>3, <1>4, <1>5, <1>6, <1>7, PTL

-----------------------------------------------------------------------------
(* FieldHeading                                                            *)

\* The heading takes the steps of its proof module.
LEMMA HeadingSteps ==
  /\ Heading!Init => ForHeading!Init
  /\ [Heading!Next]_Heading!heading_vars => [ForHeading!Next]_ForHeading!heading_vars
<1>1. /\ Heading!Half = ForHeading!Half /\ Heading!Ago = ForHeading!Ago
      /\ Heading!Angles = ForHeading!Angles /\ Heading!Nothing = ForHeading!Nothing
      /\ \A a : Heading!Normalized(a) = ForHeading!Normalized(a)
  BY DEF Heading!Half, ForHeading!Half, Heading!Ago, ForHeading!Ago, Heading!Angles,
         ForHeading!Angles, Heading!Nothing, ForHeading!Nothing, Heading!Normalized,
         ForHeading!Normalized
<1>2. Heading!Init => ForHeading!Init
  BY <1>1 DEF Heading!Init, ForHeading!Init
<1>3. /\ Heading!Open => ForHeading!Open
      /\ Heading!Read => ForHeading!Read
      /\ Heading!Publish => ForHeading!Publish
      /\ Heading!GyroChanges => ForHeading!GyroChanges
  BY DEF Heading!Open, ForHeading!Open, Heading!Read, ForHeading!Read, Heading!Publish,
         ForHeading!Publish, Heading!GyroChanges, ForHeading!GyroChanges
<1>4. Heading!Mark => ForHeading!Mark
  BY DEF Heading!Mark, ForHeading!Mark, Heading!Unavailable, ForHeading!Unavailable
<1>5. Heading!Tick => ForHeading!Tick
  BY DEF Heading!Tick, ForHeading!Tick, Heading!Angles, ForHeading!Angles, Heading!Ago,
         ForHeading!Ago
<1>6. \A t, aim : Heading!Ask(t, aim) => ForHeading!Ask(t, aim)
  BY DEF Heading!Ask, ForHeading!Ask, Heading!Fresh, ForHeading!Fresh, Heading!Nothing,
         ForHeading!Nothing
<1>7. \A t : Heading!Answer(t) => ForHeading!Answer(t)
  BY DEF Heading!Answer, ForHeading!Answer, Heading!Normalized, ForHeading!Normalized,
         Heading!Half, ForHeading!Half
<1>8. \A t : Heading!SetZero(t) => ForHeading!SetZero(t)
  BY DEF Heading!SetZero, ForHeading!SetZero
<1>9. Heading!Next => ForHeading!Next
  BY <1>3, <1>4, <1>5, <1>6, <1>7, <1>8 DEF Heading!Next, ForHeading!Next
<1>10. UNCHANGED Heading!heading_vars => UNCHANGED ForHeading!heading_vars
  BY DEF Heading!heading_vars, ForHeading!heading_vars
<1> QED  BY <1>2, <1>9, <1>10

\* An even turn is twice its half.
LEMMA HeadingConfigured == ForHeading!Configured
<1>1. Turn \in Nat \ {0} /\ Turn % 2 = 0
  BY DevicesAssumption DEF DevicesAssumption
<1>2. \A n \in Nat \ {0} : n % 2 = 0 => n \div 2 \in Nat \ {0} /\ n = 2 * (n \div 2)
  OBVIOUS
<1> QED  BY <1>1, <1>2, DevicesAssumption
         DEF ForHeading!Configured, ForHeading!Half, DevicesAssumption

\* The types of the heading, from FieldHeading_proofs.
LEMMA HeadingInvariant == Heading!Spec => []Heading!TypeOK
<1>1. ForHeading!Spec => []ForHeading!TypeOK
  BY HeadingConfigured, ForHeading!HeadingTypes
<1>2. ForHeading!TypeOK => Heading!TypeOK
  BY DEF ForHeading!TypeOK, Heading!TypeOK, ForHeading!Ago, Heading!Ago, ForHeading!Angles,
         Heading!Angles, ForHeading!Half, Heading!Half
<1>3. Heading!Spec => ForHeading!Spec
  BY HeadingSteps, PTL DEF Heading!Spec, ForHeading!Spec
<1> QED  BY <1>1, <1>2, <1>3, PTL

\* An answer is a heading the rover had a moment ago, relative to the zero: for any
\* threads that ask, any resolution of the turn and any tolerance of failures.
THEOREM HeadingsAreTrue == Heading!Spec => AnswersAreTrue
<1>1. ForHeading!Spec => ForHeading!AnswersAreTrue
  BY HeadingConfigured, ForHeading!AnsweredIsTrue
<1>2. Heading!Spec => ForHeading!Spec
  BY HeadingSteps, PTL DEF Heading!Spec, ForHeading!Spec
<1> DEFINE Step == \A t \in Queriers : answer'[t] # answer[t] /\ answer'[t].given =>
                     \E n \in ForHeading!Ago :
                       answer'[t].heading = ForHeading!Normalized(past[n] - zero)
           Done == \A t \in Queriers : answer'[t] # answer[t] /\ answer'[t].given =>
                     \E n \in Heading!Ago :
                       answer'[t].heading = Heading!Normalized(past[n] - zero)
<1>3. [Step]_ForHeading!heading_vars => [Done]_Heading!heading_vars
  BY DEF Heading!heading_vars, ForHeading!heading_vars, Heading!Ago, ForHeading!Ago,
         Heading!Normalized, ForHeading!Normalized, Heading!Half, ForHeading!Half
<1>4. [][Step]_ForHeading!heading_vars => [][Done]_Heading!heading_vars
  <2> HIDE DEF Step, Done
  <2> QED  BY <1>3, PTL
<1> QED  BY <1>1, <1>2, <1>4 DEF AnswersAreTrue, Heading!AnswersAreTrue, ForHeading!AnswersAreTrue

-----------------------------------------------------------------------------
(* The devices side by side                                                *)

\* A step of the devices is, for each of them, one of its own or none.
LEMMA DevicesRun ==
  /\ (Init => Link!Init) /\ ([Next]_vars => [Link!Next]_Link!link_vars)
  /\ (Init => Events!Init) /\ ([Next]_vars => [Events!Next]_Events!event_vars)
  /\ (Init => Heading!Init) /\ ([Next]_vars => [Heading!Next]_Heading!heading_vars)
  /\ (Init => Setup!Init) /\ ([Next]_vars => [Setup!Next]_Setup!setup_vars)
  /\ (Init => Snapshots!Init) /\ ([Next]_vars => [Snapshots!Next]_Snapshots!snap_vars)
  /\ (Init => Screen!Init) /\ ([Next]_vars => [Screen!Next]_Screen!status_vars)
<1>1. (Init => Link!Init) /\ ([Next]_vars => [Link!Next]_Link!link_vars)
  BY DEF Init, Next, vars, link_vars, Link!link_vars, ButRepository, ButLink, ButEvents, ButLed,
         ButHeading, ButSetup, ButSnapshots,
             ButScreen
<1>2. (Init => Events!Init) /\ ([Next]_vars => [Events!Next]_Events!event_vars)
  BY DEF Init, Next, vars, event_vars, Events!event_vars, ButRepository, ButLink, ButEvents,
         ButLed, ButHeading, ButSetup, ButSnapshots,
             ButScreen
<1>3. (Init => Heading!Init) /\ ([Next]_vars => [Heading!Next]_Heading!heading_vars)
  BY DEF Init, Next, vars, heading_vars, Heading!heading_vars, ButRepository, ButLink,
         ButEvents, ButLed, ButHeading, ButSetup, ButSnapshots,
             ButScreen
<1>4. (Init => Setup!Init) /\ ([Next]_vars => [Setup!Next]_Setup!setup_vars)
  BY DEF Init, Next, vars, setup_vars, Setup!setup_vars, ButRepository, ButLink, ButEvents,
         ButLed, ButHeading, ButSetup, ButSnapshots,
             ButScreen
<1>5. (Init => Snapshots!Init) /\ ([Next]_vars => [Snapshots!Next]_Snapshots!snap_vars)
  BY DEF Init, Next, vars, snap_vars, Snapshots!snap_vars, ButRepository, ButLink, ButEvents,
         ButLed, ButHeading, ButSetup, ButSnapshots,
             ButScreen
<1>6. (Init => Screen!Init) /\ ([Next]_vars => [Screen!Next]_Screen!status_vars)
  BY DEF Init, Next, vars, screen_vars, Screen!status_vars, ButRepository, ButLink, ButEvents,
         ButLed, ButHeading, ButSetup, ButSnapshots,
             ButScreen
<1> QED  BY <1>1, <1>2, <1>3, <1>4, <1>5, <1>6

\* The device does not change, and it decides which of the two instances runs.
LEMMA RepositoryRuns ==
  /\ Init /\ device # "localRepository" => Repository!Init
  /\ Init /\ device = "localRepository" => LocalRepository!Init
  /\ [Next]_vars => device' = device
  /\ [Next]_vars /\ device # "localRepository" => [Repository!Next]_Repository!driver_vars
  /\ [Next]_vars /\ device = "localRepository" => [LocalRepository!Next]_LocalRepository!driver_vars
<1>1. /\ Init /\ device # "localRepository" => Repository!Init
      /\ Init /\ device = "localRepository" => LocalRepository!Init
  BY DEF Init
<1>2. [Next]_vars => device' = device
  BY DEF Next, vars, ButRepository, ButLink, ButEvents, ButLed, ButHeading, ButSetup,
         ButSnapshots,
             ButScreen
<1>3. /\ [Next]_vars /\ device # "localRepository" => [Repository!Next]_Repository!driver_vars
      /\ [Next]_vars /\ device = "localRepository" => [LocalRepository!Next]_LocalRepository!driver_vars
  BY DEF Next, vars, driver_vars, Repository!driver_vars, LocalRepository!driver_vars,
         ButRepository, ButLink, ButEvents, ButLed, ButHeading, ButSetup, ButSnapshots,
             ButScreen
<1> QED  BY <1>1, <1>2, <1>3

\* The device does not change, and it decides which of the two instances runs.
LEMMA LedRuns ==
  /\ Init /\ device # "localLed" => Led!Init
  /\ Init /\ device = "localLed" => LocalLed!Init
  /\ [Next]_vars => device' = device
  /\ [Next]_vars /\ device # "localLed" => [Led!Next]_Led!led_vars
  /\ [Next]_vars /\ device = "localLed" => [LocalLed!Next]_LocalLed!led_vars
<1>1. /\ Init /\ device # "localLed" => Led!Init
      /\ Init /\ device = "localLed" => LocalLed!Init
  BY DEF Init
<1>2. [Next]_vars => device' = device
  BY DEF Next, vars, ButRepository, ButLink, ButEvents, ButLed, ButHeading, ButSetup,
         ButSnapshots,
             ButScreen
<1>3. /\ [Next]_vars /\ device # "localLed" => [Led!Next]_Led!led_vars
      /\ [Next]_vars /\ device = "localLed" => [LocalLed!Next]_LocalLed!led_vars
  BY DEF Next, vars, led_vars, Led!led_vars, LocalLed!led_vars, ButRepository, ButLink,
         ButEvents, ButLed, ButHeading, ButSetup, ButSnapshots,
             ButScreen
<1> QED  BY <1>1, <1>2, <1>3

\* Whichever repository runs keeps its types, and its drivers reachable.
LEMMA RepositoriesKept ==
  Spec => [](/\ IF device = "localRepository" THEN LocalRepository!TypeOK ELSE Repository!TypeOK
             /\ DriversAreReachable)
<1>1. Spec /\ device # "localRepository" => Repository!Spec /\ [](device # "localRepository")
  <2>1. device # "localRepository" /\ [Next]_vars =>
          (device # "localRepository")' /\ [Repository!Next]_Repository!driver_vars
    BY RepositoryRuns
  <2> QED  BY <2>1, RepositoryRuns, PTL DEF Spec, Repository!Spec
<1>2. Spec /\ device = "localRepository" => LocalRepository!Spec /\ [](device = "localRepository")
  <2>1. device = "localRepository" /\ [Next]_vars =>
          (device = "localRepository")' /\ [LocalRepository!Next]_LocalRepository!driver_vars
    BY RepositoryRuns
  <2> QED  BY <2>1, RepositoryRuns, PTL DEF Spec, LocalRepository!Spec
<1> DEFINE Kept == /\ IF device = "localRepository" THEN LocalRepository!TypeOK
                      ELSE Repository!TypeOK
                   /\ DriversAreReachable
<1>3. device # "localRepository" /\ Repository!TypeOK /\ Repository!BudgetIsWhole => Kept
  BY DEF DriversAreReachable
<1>4. device = "localRepository" /\ LocalRepository!TypeOK /\ LocalRepository!BudgetIsWhole
        /\ LocalRepository!TurningIsReachable => Kept
  BY DEF DriversAreReachable, LocalRepository!BudgetIsWhole, Repository!BudgetIsWhole,
         LocalRepository!None, Repository!None
<1>5. device = "localRepository" \/ device # "localRepository"
  OBVIOUS
<1>6. Spec => []Kept
  <2> HIDE DEF Kept
  <2> QED  BY <1>1, <1>2, <1>3, <1>4, <1>5, RepositoryInvariant, LocalRepositoryInvariant, PTL
<1> QED  BY <1>6

\* A driver that is connected by anyone has its whole budget of attempts before it;
\* in LOCAL a motor that turns has its driver, or its trouble is evidenced: for any
\* threads, any maximum of attempts and any pluggings and failures.
THEOREM DriversReached == Spec => []DriversAreReachable
BY RepositoriesKept, PTL

\* Whichever LED runs keeps its types.
LEMMA LedsKept ==
  Spec => [](IF device = "localLed" THEN LocalLed!TypeOK ELSE Led!TypeOK)
<1>1. Spec /\ device # "localLed" => [](device # "localLed" /\ LedInv("poller"))
  <2>1. device # "localLed" /\ LedInv("poller") /\ [Next]_vars =>
          (device # "localLed")' /\ LedInv("poller")'
    BY LedRuns, LedNext
  <2>2. Init /\ device # "localLed" => LedInv("poller")
    BY LedRuns, LedInit
  <2> QED  BY <2>1, <2>2, PTL DEF Spec
<1>2. Spec /\ device = "localLed" => [](device = "localLed" /\ LedInv("joystick"))
  <2>1. device = "localLed" /\ LedInv("joystick") /\ [Next]_vars =>
          (device = "localLed")' /\ LedInv("joystick")'
    BY LedRuns, LocalLedNext
  <2>2. Init /\ device = "localLed" => LedInv("joystick")
    BY LedRuns, LedInit
  <2> QED  BY <2>1, <2>2, PTL DEF Spec
<1> DEFINE Kept == IF device = "localLed" THEN LocalLed!TypeOK ELSE Led!TypeOK
<1>3. /\ device # "localLed" /\ LedInv("poller") => Kept
      /\ device = "localLed" /\ LedInv("joystick") => Kept
  BY LedTypes
<1>4. device = "localLed" \/ device # "localLed"
  OBVIOUS
<1>5. Spec => []Kept
  <2> HIDE DEF Kept
  <2> QED  BY <1>1, <1>2, <1>3, <1>4, PTL
<1> QED  BY <1>5

\* Every device keeps its types, whichever of them runs.
THEOREM DeviceTypes == Spec => []TypeOK
<1>1. Spec => [](Link!TypeOK /\ Events!TypeOK)
  <2>1. /\ LinkInv => Link!TypeOK
        /\ EventsInv => Events!TypeOK
    BY DEF LinkInv, EventsInv
  <2> QED  BY <2>1, DevicesRun, LinkInit, LinkNext, EventsInit, EventsNext, PTL DEF Spec
<1>2. Spec => [](Setup!TypeOK /\ Screen!TypeOK)
  <2>1. /\ SetupInv => Setup!TypeOK
        /\ ScreenInv => Screen!TypeOK
    BY DEF SetupInv, ScreenInv
  <2>2. Spec => Setup!Spec /\ Screen!Spec
    BY DevicesRun, PTL DEF Spec, Setup!Spec, Screen!Spec
  <2> QED  BY <2>1, <2>2, SetupInvariant, ScreenInvariant, PTL
<1>3. Spec => [](Heading!TypeOK /\ Snapshots!TypeOK)
  <2>1. Spec => Heading!Spec
    BY DevicesRun, PTL DEF Spec, Heading!Spec
  <2>2. Spec => []SnapshotInv
    BY DevicesRun, SnapshotInit, SnapshotNext, PTL DEF Spec
  <2> QED  BY <2>1, <2>2, HeadingInvariant, SnapshotTypes, PTL
<1>4. /\ IF device = "localRepository" THEN LocalRepository!TypeOK ELSE Repository!TypeOK
      /\ IF device = "localLed" THEN LocalLed!TypeOK ELSE Led!TypeOK
      /\ Link!TypeOK /\ Events!TypeOK /\ Setup!TypeOK /\ Screen!TypeOK /\ Heading!TypeOK
      /\ Snapshots!TypeOK
      => TypeOK
  BY DEF TypeOK
<1> QED  BY <1>1, <1>2, <1>3, <1>4, RepositoriesKept, LedsKept, PTL

\* What the run of the devices checks on one instance holds of all of them: whichever
\* device runs, all safety properties of all devices hold.
THEOREM DevicesAreSafe ==
  Spec => /\ [](/\ TypeOK /\ DriversAreReachable /\ NothingLeftBehind /\ NothingIsLost
                /\ ModeIsAsShown /\ ScreenIsTrue /\ OutdatedIsOwed)
          /\ AnswersAreTrue
<1>1. Spec => Link!Spec /\ Events!Spec
  BY DevicesRun, PTL DEF Spec, Link!Spec, Events!Spec
<1>2. Spec => Setup!Spec /\ Screen!Spec
  BY DevicesRun, PTL DEF Spec, Setup!Spec, Screen!Spec
<1>3. Spec => Heading!Spec /\ Snapshots!Spec
  BY DevicesRun, PTL DEF Spec, Heading!Spec, Snapshots!Spec
<1> QED  BY <1>1, <1>2, <1>3, DeviceTypes, DriversReached, LinkLeavesNothing, NothingIsLostEver,
            AssembledAsShown, ScreensAreTrue, OutdatedIsCorrected, HeadingsAreTrue, PTL
=============================================================================
