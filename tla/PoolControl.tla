----------------------------- MODULE PoolControl ----------------------------
(***************************************************************************)
(* The control loop of the pool (PoolLogicModule, runControlLoop_) over    *)
(* the relays of PoolDevice and the alarms of AlarmModule.                 *)
(*                                                                         *)
(* The poollogic task runs one pass per period.  A pass first looks at the *)
(* relays, sensors, alarms and modes and decides what every device should  *)
(* be (Decide), then writes what changed (Apply).  Commands, configuration *)
(* events, scheduler edges, alarm evaluations and the stops PoolDevice     *)
(* makes on its own run in other tasks, between passes and also between    *)
(* the two halves of one.                                                  *)
(*                                                                         *)
(* Time is counted in passes, and PoolDevice is seen by its promise (see   *)
(* PoolDevice): a dependent start without filtration is refused, and a     *)
(* stop of the filtration drops its dependents.  An installation, chosen   *)
(* once, says which devices and alarms exist, which modes the operator     *)
(* changes, what the sensors may answer and which relays may refuse.       *)
(***************************************************************************)
EXTENDS Integers, FiniteSets

CONSTANTS
  Installations,  \* the installations to consider
  RetryAfter,     \* passes before a command that was not followed is repeated
  PsiStartup,     \* psiStartupDelaySec_
  PidDelay,       \* delayPidsMin_
  ElectroDelay,   \* delayElectroMin_
  RobotDelay,     \* robotDelayMin_
  RobotDuration,  \* robotDurationMin_
  FillMinOn,      \* fillingMinOnSec_
  ProbeRun,       \* kHeatAssistProbeRunSec
  IdleSlow,       \* kHeatAssistIdleSlowSec
  IdleFast,       \* kHeatAssistIdleFastSec
  Seconds         \* modulus of the 16-bit second counter

ASSUME DelaysAssumption ==
  /\ RetryAfter \in Nat \ {0}
  /\ {PsiStartup, PidDelay, ElectroDelay, RobotDelay, RobotDuration,
      FillMinOn, ProbeRun, IdleSlow, IdleFast} \subseteq Nat
  /\ Seconds \in Nat /\ ProbeRun < Seconds /\ IdleFast <= IdleSlow /\ IdleSlow < Seconds

Device == {"filtration", "ph", "orp", "robot", "swg", "heater", "filling"}
Dosing == {"ph", "orp"}
Dependents == {"ph", "orp", "robot", "swg"}
Mode == {"auto", "ph", "orp", "heater", "winter", "electrolyse", "electroRun"}
AlarmIds == {"psiLow", "psiHigh", "phTank", "chlorineTank", "mismatch"}
LatchedIds == {"psiLow", "psiHigh"}

Installation ==
  [devices : SUBSET Device, operated : SUBSET Device, alarms : SUBSET AlarmIds,
   modes : [Mode -> BOOLEAN], switches : SUBSET Mode, faulty : SUBSET Device, scheduled : BOOLEAN,
   air : SUBSET {"none", "freezing", "wintry", "fair"}, warm : SUBSET BOOLEAN,
   water : SUBSET {"none", "stale", "cold", "mild", "warm"},
   ph : SUBSET {"none", "fine", "dose"}, orp : SUBSET {"none", "low", "near", "high"},
   level : SUBSET {"none", "on", "off"}]

(* A heater is in the circuit of the filtration. *)
ASSUME InstallationsAssumption ==
  /\ Installations \subseteq Installation
  /\ \A i \in Installations : "heater" \in i.devices => "filtration" \in i.devices

VARIABLES
  install,      \* the installation
  mode,         \* mode[m]: autoMode_, phAutoMode_, ... (live configuration)
  changed,      \* modes whose ConfigChanged event is still in the queue
  relay,        \* relay[d]: PoolDevice's actualOn
  fsm,          \* fsm[d]: the DeviceFsm of PoolLogic, times as ages in passes
  window,       \* filtrationWindowActive_, as the scheduler has it
  reconcile,    \* pendingFiltrationReconcile_
  newDay,       \* pendingDayReset_
  cleaningDone, \* cleaningDone_
  pid,          \* pid[d]: TemporalPidState, as started and "asks for a dose"
  heat,         \* heatAssistFlags_ and heatAssistTimingPacked_
  sec,          \* the 16-bit second counter
  active,       \* the alarms, as AlarmLatch has them
  lastCond,
  pass,         \* the pass in progress: where it is, what it decided
  hist          \* history the properties read

control == <<fsm, reconcile, newDay, cleaningDone, pid, heat, sec>>
alarms == <<active, lastCond>>
vars == <<install, mode, changed, relay, window, control, alarms, pass, hist>>

Alarm == INSTANCE AlarmLatch WITH Alarms <- AlarmIds, Latched <- LatchedIds

Least(a, b) == IF a < b THEN a ELSE b
Largest(S) == CHOOSE x \in S : \A y \in S : y <= x

(* The longest age of a device the control asks about. *)
Horizons == [i \in Installations |-> [d \in Device |->
  CASE d = "filtration" -> Largest({0}
         \union (IF "psiLow" \in i.alarms THEN {PsiStartup + 1} ELSE {})
         \union (IF "robot" \in i.devices THEN {RobotDelay} ELSE {})
         \union (IF Dosing \intersect i.devices = {} THEN {} ELSE {PidDelay})
         \union (IF "swg" \in i.devices THEN {ElectroDelay} ELSE {}))
    [] d = "robot"   -> RobotDuration
    [] d = "filling" -> FillMinOn
    [] OTHER         -> 0]]

(* A rule is broken when its device is left on by a pass that found a reason  *)
(* to have it off, unless the device refused.  hist.late counts the passes in *)
(* a row that did; it starts again when somebody else moves the device.       *)
Rules == {"psi", "fault", "dry", "empty", "fill"}

Subject == [k \in Rules |-> CASE k = "psi" -> "filtration" [] k = "fault" -> "swg"
                              [] k = "dry" -> "heater" [] k = "empty" -> "ph"
                              [] k = "fill" -> "filling"]

-----------------------------------------------------------------------------
(* syncDeviceState_: what a pass sees of a relay, one pass later. *)
Aged(d) == [fsm[d] EXCEPT !.age = Least(@ + 1, Horizons[install][d]),
                          !.cmdAge = Least(@ + 1, RetryAfter)]

(* Mutant: a change of state does not restart the age. *)
SyncedKeepingAge(d) == [Aged(d) EXCEPT !.known = d \in install.devices, !.on = relay[d]]

Synced(d) ==
  IF d \in install.devices /\ (~fsm[d].known \/ fsm[d].on # relay[d])
  THEN [Aged(d) EXCEPT !.known = TRUE, !.on = relay[d], !.age = 0]
  ELSE Aged(d)

StartSeen(d) == d \in install.devices /\ fsm[d].known /\ ~fsm[d].on /\ relay[d]
StopSeen(d)  == d \in install.devices /\ fsm[d].known /\ fsm[d].on /\ ~relay[d]

PsiError == active["psiLow"] \/ active["psiHigh"]
TankError(d) == active[IF d = "ph" THEN "phTank" ELSE "chlorineTank"]

(* Mutant: manual mode comes before the pressure alarms. *)
ManualBeforeSafety(f, air) ==
  IF ~mode["auto"] THEN f["filtration"].on
  ELSE /\ ~PsiError
       /\ \/ f["filtration"].on /\ air = "freezing"
          \/ window
          \/ mode["winter"] /\ air \in {"freezing", "wintry"}

(* Safety, then manual mode, then freeze hold, then schedule and winter. *)
FiltrationBase(f, air) ==
  IF PsiError THEN FALSE
  ELSE IF ~mode["auto"] THEN f["filtration"].on
  ELSE IF f["filtration"].on /\ air = "freezing" THEN TRUE
  ELSE window \/ (mode["winter"] /\ air \in {"freezing", "wintry"})

RunsFor(f, passes) == f["filtration"].on /\ f["filtration"].age >= passes

RobotWanted(f, done) ==
  IF ~mode["auto"] THEN f["robot"].on
  ELSE /\ RunsFor(f, RobotDelay) /\ ~done
       /\ f["robot"].on => f["robot"].age < RobotDuration

(* Electrolysis: by itself, or regulated by the ORP when electroRun is set. *)
SwgWanted(f, warm, orp) ==
  LET ready == warm /\ RunsFor(f, ElectroDelay) IN
  /\ ~active["mismatch"]
  /\ IF ~mode["auto"] THEN f["swg"].on
     ELSE /\ mode["electrolyse"] /\ f["filtration"].on
          /\ IF mode["electroRun"]
             THEN IF f["swg"].on THEN orp \in {"low", "near"} ELSE ready /\ orp = "low"
             ELSE f["swg"].on \/ ready

(* Mutant: the valve stays as it is while the sensor does not answer. *)
FillingKept(f, level) ==
  level = "on" \/ (f["filling"].on /\ (f["filling"].age < FillMinOn \/ level = "none"))

FillingWanted(f, level) ==
  /\ level # "none"
  /\ level = "on" \/ (f["filling"].on /\ f["filling"].age < FillMinOn)
-----------------------------------------------------------------------------
(* Heat assist: with the pump off, a short probe run tells the temperature  *)
(* of the water, and a cold pool is heated with the pump held on.  A stamp  *)
(* of 0 stands for "none"; second 0 of the counter is not told apart.       *)

(* Mutant: the difference is taken without the 16-bit wrap. *)
ElapsedUnwrapped(from, now) == now - from

Elapsed(from, now) == (now - from) % Seconds

Fresh(water) == water \in {"cold", "mild", "warm"}

NoSession(h) == [h EXCEPT !.probe = FALSE, !.heating = FALSE, !.probeStart = 0]

Outcome(h, filtration, heater) == [heat |-> h, filtration |-> filtration, heater |-> heater]

(* The seconds of a pass are s; they matter where the heat assist may be on.  *)
HeatAssisted == install.modes["heater"] \/ "heater" \in install.switches

Heating(h, s, water) ==
  IF water = "warm"
  THEN Outcome([NoSession(h) EXCEPT !.lastEnd = s, !.fast = TRUE], FALSE, FALSE)
  ELSE Outcome(h, TRUE, Fresh(water))

(* Mutant: the probe is not over when heating begins. *)
ProbingOn(h, s, base, water) ==
  IF Elapsed(h.probeStart, s) < ProbeRun THEN Outcome(h, TRUE, FALSE)
  ELSE IF water = "cold" THEN Outcome([h EXCEPT !.heating = TRUE], TRUE, TRUE)
  ELSE Outcome([h EXCEPT !.probe = FALSE, !.lastEnd = s], base, FALSE)

Probing(h, s, base, water) ==
  LET over == [h EXCEPT !.probe = FALSE, !.probeStart = 0] IN
  IF Elapsed(h.probeStart, s) < ProbeRun THEN Outcome(h, TRUE, FALSE)
  ELSE IF water = "cold" THEN Outcome([over EXCEPT !.heating = TRUE], TRUE, TRUE)
  ELSE Outcome([over EXCEPT !.lastEnd = s], base, FALSE)

WithFlow(h, base, heaterOn, water) ==
  Outcome(h, base, IF heaterOn THEN water \in {"cold", "mild"} ELSE water = "cold")

ProbeDue(h, s) == \/ h.lastEnd = 0
                  \/ Elapsed(h.lastEnd, s) >= (IF h.fast THEN IdleFast ELSE IdleSlow)

Resting(h, s) ==
  IF ProbeDue(h, s)
  THEN Outcome([h EXCEPT !.probe = TRUE, !.heating = FALSE, !.probeStart = s], TRUE, FALSE)
  ELSE Outcome(h, FALSE, FALSE)

HeatAssist(f, s, base, water) ==
  CASE ~mode["heater"] ->
         Outcome([NoSession(heat) EXCEPT !.fast = FALSE, !.lastEnd = 0], base, f["heater"].on)
    [] mode["heater"] /\ ~mode["auto"] -> Outcome(NoSession(heat), base, f["heater"].on)
    [] mode["heater"] /\ mode["auto"] /\ PsiError -> Outcome(NoSession(heat), base, FALSE)
    [] OTHER -> IF heat.heating THEN Heating(heat, s, water)
                ELSE IF heat.probe THEN Probing(heat, s, base, water)
                ELSE IF f["filtration"].on \/ base
                     THEN WithFlow(heat, base, f["heater"].on, water)
                     ELSE Resting(heat, s)

Rested(f, s, base) ==
  /\ mode["heater"] /\ mode["auto"] /\ ~PsiError
  /\ ~heat.heating /\ ~heat.probe /\ ~f["filtration"].on /\ ~base
  /\ ~ProbeDue(heat, s)
-----------------------------------------------------------------------------
(* Dosing: a pump is regulated when its probe answers, its tank is full,    *)
(* the pressure is right and the flow has been steady; otherwise it is      *)
(* asked to stay as it is.  Regulation starts with a pause of one window    *)
(* sample, then asks for a dose in some passes when the reading calls for   *)
(* it.  phPidEnabled_ is what RunsFor says, for a delay that does not change.*)
Stopped == [started |-> FALSE, dose |-> FALSE]

MayRegulate(d, f, reading) ==
  /\ mode[d] /\ ~mode["winter"] /\ RunsFor(f, PidDelay)
  /\ reading # "none" /\ ~PsiError /\ ~TankError(d)
  /\ d = "orp" => ~mode["electrolyse"]

(* The pairs of next PID state and demand: a sample may be due, and a dose is *)
(* asked for in a part of the window.                                        *)
PidStep(old, reading) ==
  IF ~old.started THEN {<<[started |-> TRUE, dose |-> FALSE], FALSE>>}
  ELSE {<<[started |-> TRUE, dose |-> x], y>> :
          x \in {z \in BOOLEAN : z => old.dose \/ reading = "dose"},
          y \in BOOLEAN} \ {<<[started |-> TRUE, dose |-> FALSE], TRUE>>}

Regulated(d, old, f, reading, flow) ==
  IF flow /\ MayRegulate(d, f, reading) THEN PidStep(old, reading)
  ELSE IF ~mode[d] /\ ~flow /\ (\E e \in Dosing : mode[e])
  THEN {<<old, f[d].on>>}
  ELSE {<<Stopped, f[d].on>>}
-----------------------------------------------------------------------------
NoPass == [pc |-> "rest", auto |-> FALSE, want |-> [d \in Device |-> FALSE],
           off |-> [k \in Rules |-> FALSE]]

Init ==
  /\ install \in Installations
  /\ mode = install.modes
  /\ changed = {}
  /\ relay = [d \in Device |-> FALSE]
  /\ fsm = [d \in Device |-> [known |-> FALSE, on |-> FALSE, age |-> 0,
                              lastDesired |-> FALSE, cmdAge |-> RetryAfter]]
  /\ window = FALSE
  /\ reconcile = FALSE /\ newDay = FALSE /\ cleaningDone = FALSE
  /\ pid = [d \in Dosing |-> Stopped]
  /\ heat = [probe |-> FALSE, heating |-> FALSE, fast |-> FALSE, probeStart |-> 0, lastEnd |-> 0]
  /\ sec = 0
  /\ Alarm!LatchInit
  /\ pass = NoPass
  /\ hist = [late |-> [k \in Rules |-> 0], idle |-> 0, flow |-> 0, cleaned |-> FALSE, byHand |-> {}]

(* Mutant: a new run of the filtration allows another cleaning. *)
CleaningDoneRearmed ==
  ~StartSeen("filtration") /\ (StopSeen("robot") \/ (cleaningDone /\ ~newDay))

CleaningDone == StopSeen("robot") \/ (cleaningDone /\ ~newDay)

(* The first half of a pass, from syncDeviceState_ to the desired states.   *)
Decide ==
  /\ pass.pc = "rest"
  /\ \E air \in install.air, water \in install.water, warm \in install.warm,
        ph \in install.ph, orp \in install.orp, level \in install.level :
     LET f == [d \in Device |-> Synced(d)]
         s == (sec + 1) % Seconds
         base == FiltrationBase(f, air)
         assist == HeatAssist(f, s, base, water)
         flow == assist.filtration
         edge == StartSeen("filtration") \/ StopSeen("filtration")
         old == [d \in Dosing |-> IF edge THEN Stopped ELSE pid[d]]
     IN  \E p \in Regulated("ph", old["ph"], f, ph, flow),
            o \in Regulated("orp", old["orp"], f, IF orp = "high" THEN "fine"
                                                  ELSE IF orp = "none" THEN "none" ELSE "dose",
                            flow) :
           /\ pid' = [d \in Dosing |-> IF d = "ph" THEN p[1] ELSE o[1]]
           /\ pass' = [pc |-> "apply", auto |-> mode["auto"],
                       off |-> [k \in Rules |->
                         CASE k = "psi"   -> PsiError
                           [] k = "fault" -> active["mismatch"]
                           [] k = "dry"   -> mode["auto"] /\ mode["heater"]
                           [] k = "empty" -> mode["ph"] /\ TankError("ph")
                           [] k = "fill"  -> level # "on"],
                       want |-> [d \in Device |->
                         CASE d = "filtration" -> flow
                           [] d = "ph"         -> p[2]
                           [] d = "orp"        -> o[2]
                           [] d = "robot"      -> RobotWanted(f, CleaningDone)
                           [] d = "swg"        -> SwgWanted(f, warm, orp)
                           [] d = "heater"     -> assist.heater
                           [] d = "filling"    -> FillingWanted(f, level)]]
           /\ fsm' = IF reconcile
                     THEN [f EXCEPT !["filtration"].lastDesired = ~flow,
                                    !["filtration"].cmdAge = RetryAfter]
                     ELSE f
           /\ heat' = assist.heat
           /\ hist' = [hist EXCEPT
                !.byHand = {d \in @ : relay[d]},
                !.flow = IF relay["filtration"] /\ ~StartSeen("filtration")
                         THEN Least(@ + 1, IF Dosing \intersect install.devices = {}
                                           THEN 0 ELSE PidDelay + 1)
                         ELSE 0,
                !.idle = IF Rested(f, s, base) THEN Least(@ + 1, Seconds) ELSE 0,
                !.cleaned = \/ @ /\ ~newDay
                            \/ mode["auto"] /\ f["robot"].on /\ f["robot"].age >= RobotDuration]
  /\ sec' = IF HeatAssisted THEN (sec + 1) % Seconds ELSE sec
  /\ cleaningDone' = CleaningDone
  /\ newDay' = FALSE
  /\ reconcile' = FALSE
  /\ UNCHANGED <<install, mode, changed, relay, window, alarms>>
-----------------------------------------------------------------------------
(* PoolDevice, by its promise. *)
Accepts(r, d, on) == d \in install.devices /\ (on /\ d \in Dependents => r["filtration"])

Driven(r, d, on) ==
  [e \in Device |-> IF e = d THEN on
                    ELSE IF d = "filtration" /\ ~on /\ e \in Dependents THEN FALSE ELSE r[e]]

Written(r, d, on, refused) ==
  IF Accepts(r, d, on) /\ d \notin refused THEN Driven(r, d, on) ELSE r

(* Mutant: a state that does not follow is not asked for again. *)
CommandsWithoutRetry(d) == pass.want[d] # fsm[d].lastDesired

(* applyDeviceControl_: on a change, and again when the relay does not follow. *)
Commands(d) ==
  \/ pass.want[d] # fsm[d].lastDesired
  \/ fsm[d].known /\ fsm[d].on # pass.want[d] /\ fsm[d].cmdAge >= RetryAfter

(* The writes, the filtration before the devices that depend on it. *)
WriteAll(refused) ==
  LET sent(d) == Commands(d) /\ d \in install.devices \ refused
      r == IF sent("filtration") THEN Driven(relay, "filtration", pass.want["filtration"])
                                 ELSE relay
  IN  [d \in Device |-> IF d # "filtration" /\ sent(d) /\ Accepts(r, d, pass.want[d])
                        THEN pass.want[d] ELSE r[d]]

Late(r, refused) ==
  [k \in Rules |->
     IF /\ pass.off[k] /\ r[Subject[k]] /\ Subject[k] \notin refused
        /\ k = "dry" => ~r["filtration"] /\ "filtration" \notin refused
        /\ k = "empty" => "ph" \notin hist.byHand
     THEN Least(hist.late[k] + 1, RetryAfter + FillMinOn + 1) ELSE 0]

(* Somebody else moved relays: a device that was moved counts anew, and the   *)
(* heater is not dry while the filtration runs.                               *)
Moved(r) == [hist EXCEPT !.late = [k \in Rules |->
  IF r[Subject[k]] = relay[Subject[k]] /\ (k = "dry" => ~r["filtration"]) THEN @[k] ELSE 0]]

(* The second half of a pass: the desired states are written. *)
Apply ==
  /\ pass.pc = "apply"
  /\ \E refused \in SUBSET install.faulty :
       /\ relay' = WriteAll(refused)
       /\ hist' = [hist EXCEPT !.late = Late(relay', refused)]
  /\ fsm' = [d \in Device |-> [fsm[d] EXCEPT !.lastDesired = pass.want[d],
                                             !.cmdAge = IF Commands(d) THEN 0 ELSE @]]
  /\ pass' = NoPass
  /\ UNCHANGED <<install, mode, changed, window, reconcile, newDay, cleaningDone, pid, heat,
                 sec, alarms>>
-----------------------------------------------------------------------------
(* Other tasks.  An order to the filtration leaves automatic mode first; an *)
(* accepted start of a dosing pump leaves its regulation afterwards.        *)
OperatorWrite(d, on) ==
  LET ok == Accepts(relay, d, on)
      mode1 == [mode EXCEPT !["auto"] = @ /\ d # "filtration"]
  IN  /\ d \in install.operated
      /\ relay' = Written(relay, d, on, {})
      /\ \E stored \in BOOLEAN :
           mode' = [m \in Mode |-> mode1[m] /\ ~(m = d /\ d \in Dosing /\ on /\ ok /\ stored)]
      /\ changed' = changed \union {m \in Mode : mode'[m] # mode[m]}
      /\ hist' = [Moved(relay') EXCEPT
           !.byHand = @ \union (IF relay'[d] /\ d \in Dosing THEN {d} ELSE {})]
      /\ UNCHANGED <<install, window, control, alarms, pass>>

(* The set, toggle and configuration commands of a mode; a command keeps the *)
(* mode it could not store, without an event.                                *)
SetMode(m) ==
  /\ m \in install.switches
  /\ mode' = [mode EXCEPT ![m] = ~@]
  /\ changed' \in {changed, changed \union {m}}
  /\ UNCHANGED <<install, relay, window, control, alarms, pass, hist>>

(* poollogic.disinfection_mode.set writes two modes; each may fail to store.*)
SetDisinfection(electro, chlorine) ==
  /\ {"electrolyse", "orp"} \subseteq install.switches
  /\ ~(electro /\ chlorine)
  /\ \E stored \in SUBSET {"electrolyse", "orp"} :
       mode' = [mode EXCEPT !["electrolyse"] = IF "electrolyse" \in stored THEN electro ELSE @,
                            !["orp"] = IF "orp" \in stored THEN chlorine ELSE @]
  /\ changed' = changed \union {m \in Mode : mode'[m] # mode[m]}
  /\ UNCHANGED <<install, relay, window, control, alarms, pass, hist>>

(* onEvent_ for ConfigChanged: entering an automatic mode reconciles the    *)
(* filtration, or starts from a stopped pump or heater.                     *)
ConfigEvent(m) ==
  /\ m \in changed
  /\ changed' = changed \ {m}
  /\ reconcile' = (reconcile \/ (m = "auto" /\ mode["auto"]))
  /\ \E refused \in SUBSET install.faulty :
       relay' = IF m \in Dosing \union {"heater"} /\ mode[m]
                THEN Written(relay, m, FALSE, refused) ELSE relay
  /\ pid' = [d \in Dosing |-> IF m = d /\ mode[m] THEN Stopped ELSE pid[d]]
  /\ hist' = Moved(relay')
  /\ UNCHANGED <<install, mode, window, fsm, newDay, cleaningDone, heat, sec, alarms, pass>>

(* onEvent_ for the edges of the filtration window and for the day start. *)
WindowEdge ==
  /\ install.scheduled
  /\ window' = ~window
  /\ UNCHANGED <<install, mode, changed, relay, control, alarms, pass, hist>>

DayStart ==
  /\ "robot" \in install.devices /\ ~newDay
  /\ newDay' = TRUE
  /\ UNCHANGED <<install, mode, changed, relay, window, fsm, reconcile, cleaningDone, pid, heat,
                 sec, alarms, pass, hist>>

(* PoolDevice drops a relay by itself: its daily limit, its configuration.  *)
DeviceStops(d) ==
  /\ d \in install.faulty /\ relay[d]
  /\ relay' = Driven(relay, d, FALSE)
  /\ hist' = Moved(relay')
  /\ UNCHANGED <<install, mode, changed, window, control, alarms, pass>>

(* What the conditions PoolLogic registers may answer. *)
Condition(a) ==
  CASE a = "psiLow"  -> IF fsm["filtration"].on /\ fsm["filtration"].age > PsiStartup
                        THEN Alarm!CondState ELSE {"false"}
    [] a = "psiHigh" -> IF fsm["filtration"].on THEN Alarm!CondState ELSE {"false"}
    [] a = "mismatch" -> IF fsm["filtration"].known THEN Alarm!CondState ELSE {"unknown"}
    [] OTHER -> Alarm!CondState

AlarmStep(a) ==
  /\ a \in install.alarms
  /\ Alarm!Reset(a) \/ \E c \in Condition(a) : Alarm!Evaluate(a, c)
  /\ UNCHANGED <<install, mode, changed, relay, window, control, pass, hist>>

Operate == \/ \E d \in Device, on \in BOOLEAN : OperatorWrite(d, on)
           \/ \E m \in Mode : SetMode(m)
           \/ \E e, c \in BOOLEAN : SetDisinfection(e, c)

Next == \/ Decide \/ Apply \/ Operate \/ WindowEdge \/ DayStart
        \/ \E m \in Mode : ConfigEvent(m)
        \/ \E d \in Device : DeviceStops(d)
        \/ \E a \in AlarmIds : AlarmStep(a)

Spec == Init /\ [][Next]_vars
-----------------------------------------------------------------------------
TypeOK ==
  /\ install \in Installations
  /\ mode \in [Mode -> BOOLEAN] /\ changed \subseteq Mode
  /\ relay \in [Device -> BOOLEAN]
  /\ \A d \in Device : fsm[d] \in [known : BOOLEAN, on : BOOLEAN, age : 0 .. Horizons[install][d],
                                   lastDesired : BOOLEAN, cmdAge : 0 .. RetryAfter]
  /\ \A d \in Device \ install.devices : ~relay[d] /\ ~fsm[d].known
  /\ {window, reconcile, newDay, cleaningDone} \subseteq BOOLEAN
  /\ pid \in [Dosing -> [started : BOOLEAN, dose : BOOLEAN]]
  /\ \A d \in Dosing : pid[d].dose => pid[d].started
  /\ heat \in [probe : BOOLEAN, heating : BOOLEAN, fast : BOOLEAN,
               probeStart : 0 .. Seconds - 1, lastEnd : 0 .. Seconds - 1]
  /\ ~(heat.probe /\ heat.heating)
  /\ sec \in 0 .. Seconds - 1
  /\ active \in [AlarmIds -> BOOLEAN] /\ lastCond \in [AlarmIds -> Alarm!CondState]
  /\ pass \in [pc : {"rest", "apply"}, auto : BOOLEAN, want : [Device -> BOOLEAN],
               off : [Rules -> BOOLEAN]]

(* A pressure alarm stops the filtration, in every mode and whoever starts   *)
(* it again: a pump that does not refuse is never left on for more passes    *)
(* than the retry period (applyDeviceControl_).  The same holds of the       *)
(* electrolysis when the contactor of the filtration does not follow.        *)
SafetyStopsInTime == hist.late["psi"] <= RetryAfter /\ hist.late["fault"] <= RetryAfter

(* In automatic mode the heater is not left without flow: while the          *)
(* filtration does not refuse, heating without it lasts a retry period at    *)
(* most.  The heater has no interlock in PoolDevice; only the heat assist    *)
(* keeps the two together.                                                   *)
NoDryHeating == hist.late["dry"] <= RetryAfter

(* While it rests, the heat assist looks at the water at least once per idle *)
(* period, although its clock wraps and takes second 0 for "never".          *)
ProbeComesInTime == hist.idle <= IdleSlow

(* The filling valve closes a bounded time after the level was last seen     *)
(* low, whether the level is reached or its sensor stops answering.          *)
FillingEnds == hist.late["fill"] <= FillMinOn + RetryAfter

(* A dosing pump runs only into a flow that passes have seen for longer than *)
(* the stabilising delay, unless somebody started it by hand since a pass    *)
(* last saw it off, whatever stopped and restarted the filtration in between.*)
DosesIntoSteadyFlow ==
  \A d \in Dosing : relay[d] /\ d \notin hist.byHand => hist.flow > PidDelay

(* Once the robot has run its time, no pass starts it again that day: "un    *)
(* cycle/jour (cleaningDone_)" (docs/modules/PoolLogicModule.md:304), and    *)
(* cleaning_done only falls with the change of day (docs/integration/        *)
(* flowio-poollogic-business.md:173, :176), whatever runs of the filtration  *)
(* follow.                                                                   *)
OneCleaningADay ==
  [][pass.pc = "apply" /\ pass'.pc = "rest" /\ hist.cleaned /\ pass.auto
       => (relay'["robot"] => relay["robot"])]_vars

(* In automatic pH regulation an empty tank stops a pump that nobody started *)
(* by hand within the retry period (docs/integration/                        *)
(* plan_tests_poollogic_pdm_io.csv, B07 and G01: "Pompe pH OFF").            *)
EmptyTankStopsPump == hist.late["empty"] <= RetryAfter
=============================================================================
