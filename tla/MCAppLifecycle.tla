--------------------------- MODULE MCAppLifecycle ---------------------------
(* Instances of AppLifecycle for TLC: two monitors, two components.         *)
EXTENDS AppLifecycle

TwoMonitors   == <<"sensor", "motor">>
OneMonitor    == <<"gyro">>
CriticalOnes  == {"motor"}
CriticalGyro  == {"gyro"}
TwoComponents == <<"display", "joystick">>
EarlyOnes     == {"display"}
NoneEarly     == {}
=============================================================================
