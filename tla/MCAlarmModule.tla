--------------------------- MODULE MCAlarmModule ----------------------------
(* A latched alarm (as the pressure alarms) beside an unlatched one that     *)
(* repeats its notification (as the tank and contactor alarms).              *)
EXTENDS AlarmModule

TwoAlarms == {1, 2}
PressureLatched == {1}
TwoOnDelays == <<2, 1>>
TwoOffDelays == <<0, 2>>
TwoRepeats == <<0, 3>>
=============================================================================
