--------------------------- MODULE MCPoolControl ----------------------------
(* Eight installations, each with the devices that share a rule: the parts   *)
(* of the control that do not read each other need not vary together.        *)
EXTENDS PoolControl

Modes(on) == [m \in Mode |-> m \in on]

Plain == [devices |-> {"filtration"}, operated |-> {"filtration"}, alarms |-> {},
          modes |-> Modes({"auto"}), switches |-> {}, air |-> {"fair"}, water |-> {"none"},
          warm |-> {FALSE}, ph |-> {"none"}, orp |-> {"none"}, level |-> {"none"},
          faulty |-> {}, scheduled |-> TRUE]

(* The filtration under both pressure alarms, frost and winter mode. *)
Pressed == [Plain EXCEPT !.alarms = {"psiLow"}, !.switches = {"auto", "winter"},
                         !.air = {"none", "freezing", "wintry", "fair"}, !.faulty = {"filtration"}]

(* The heat assist, and with a pressure alarm. *)
Heated == [Plain EXCEPT
  !.devices = @ \union {"heater"}, !.operated = {"heater"}, !.modes = Modes({"auto", "heater"}),
  !.switches = {"heater"}, !.water = {"stale", "cold", "mild", "warm"}, !.faulty = {"filtration"}]

HeatedUnderPressure == [Heated EXCEPT
  !.operated = {}, !.alarms = {"psiHigh"}, !.switches = {}, !.water = {"cold", "warm"}]

(* The same where the operator runs the pump and enters automatic mode again. *)
HeatedByHand == [Heated EXCEPT
  !.operated = {"filtration"}, !.switches = {"auto"}, !.water = {"cold", "mild"}, !.faulty = {}]

(* The robot. *)
Cleaned == [Plain EXCEPT
  !.devices = @ \union {"robot"}, !.operated = {"robot"}, !.faulty = {"filtration", "robot"}]

(* pH dosing, with its tank. *)
Dosed == [Plain EXCEPT
  !.devices = @ \union {"ph"}, !.operated = {"ph"}, !.alarms = {"phTank"},
  !.modes = Modes({"auto", "ph"}), !.switches = {"ph"}, !.ph = {"none", "fine", "dose"},
  !.faulty = {"filtration"}]

(* Electrolysis or liquid chlorine, and the contactor of the filtration. *)
Chlorinated == [Plain EXCEPT
  !.devices = @ \union {"swg", "orp"}, !.operated = {}, !.alarms = {"mismatch"},
  !.modes = Modes({"auto", "electrolyse", "electroRun"}), !.switches = {"electrolyse", "orp"},
  !.warm = BOOLEAN, !.orp = {"low", "near", "high"}, !.faulty = {"swg"}]

(* The filling valve. *)
Filled == [Plain EXCEPT
  !.devices = {"filling"}, !.operated = {"filling"}, !.level = {"none", "on", "off"},
  !.faulty = {"filling"}, !.scheduled = FALSE]

AllInstallations == {Pressed, Heated, HeatedUnderPressure, HeatedByHand, Cleaned, Dosed,
                     Chlorinated, Filled}

(* Dosing alone, without an operator. *)
DosedOnly == {[Dosed EXCEPT !.operated = {}, !.switches = {}]}
=============================================================================
