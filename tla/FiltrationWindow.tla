-------------------------- MODULE FiltrationWindow --------------------------
(***************************************************************************)
(* The daily filtration plan of a water temperature: how long the pump     *)
(* runs, and from when to when.  The code computes in 32-bit floats; here a *)
(* temperature is an integer number of thousandths of a degree, and the    *)
(* duration in minutes an exact fraction, rounded as lroundf rounds it but *)
(* for a tie, which the error of the floats may take either way.           *)
(***************************************************************************)
EXTENDS Integers

MinutesPerDay == 1440

(* num / den rounded to a whole number; the two differ for a tie only. *)
Nearest(num, den) == {(2 * num + den) \div (2 * den), -((den - 2 * num) \div (2 * den))}

(* durationHoursForTemperature_, in minutes: 2 h up to 12 degrees, a rise  *)
(* of 630 minutes over the next 13 degrees and of 690 over the 5 after     *)
(* them, 24 h from 30 degrees on.                                          *)
Rounded(temp) ==
  IF temp <= 12000 THEN {120}
  ELSE IF temp <= 25000 THEN {120 + m : m \in Nearest(63 * (temp - 12000), 1300)}
  ELSE IF temp < 30000 THEN {750 + m : m \in Nearest(69 * (temp - 25000), 500)}
  ELSE {MinutesPerDay}

(* durationMinutes is held between two hours and a day. *)
Clamped(d) == IF d < 120 THEN 120 ELSE IF d > MinutesPerDay THEN MinutesPerDay ELSE d
Durations(temp) == {Clamped(d) : d \in Rounded(temp)}

(* normalizeMinute_; % is already the remainder that is not negative. *)
Normalized(minute) == minute % MinutesPerDay

(* computeFiltrationWindowDeterministic for a finite temperature, and      *)
(* computeFiltrationWindow_, which drops the flag: only a window that is   *)
(* continuous lasts a whole day.  Below 12 degrees the window is a winter  *)
(* one, at night; else it lies around 15:00.                               *)
WindowOf(temp, d) ==
  LET start == Normalized(900 - d \div 2) IN
  IF d >= MinutesPerDay THEN [start |-> 0, stop |-> 0, duration |-> d]
  ELSE IF temp < 12000 THEN [start |-> 1380, stop |-> 60, duration |-> d]
  ELSE [start |-> start, stop |-> Normalized(start + d), duration |-> d]

WindowsAt(temp) == {WindowOf(temp, d) : d \in Durations(temp)}
=============================================================================
