-------------------------- MODULE PoolControlProofs -------------------------
(***************************************************************************)
(* Theorems about the control loop, for every set of installations and all *)
(* delays.  What a rule promises is bounded by the age of the last command *)
(* (cmdAge) or of the state of a device (age): the inductive invariant     *)
(* ties the counts of hist to these, at rest and in the middle of a pass.  *)
(***************************************************************************)
EXTENDS PoolControl, TLAPS

DeviceFsm == [known : BOOLEAN, on : BOOLEAN, age : Nat, lastDesired : BOOLEAN,
              cmdAge : 0 .. RetryAfter]

History == [late : [Rules -> Nat], idle : Nat, flow : Nat, cleaned : BOOLEAN,
            byHand : SUBSET Dosing]

(* Only a device that was seen can be seen on, and the heat assist is off    *)
(* where nobody can switch it on.                                            *)
TypeInv ==
  /\ TypeOK
  /\ fsm \in [Device -> DeviceFsm]
  /\ \A d \in Device : fsm[d].on => fsm[d].known
  /\ hist \in History
  /\ mode["heater"] => HeatAssisted
-----------------------------------------------------------------------------
(* A device that is late has waited as long as its last command to be off is *)
(* old; a pass that has begun has seen it on.                                *)
WaitsToStop(k) ==
  LET d == Subject[k]  n == hist.late[k] IN
  n > 0 =>
    /\ relay[d]
    /\ IF pass.pc = "rest"
       THEN ~fsm[d].lastDesired => n - 1 <= fsm[d].cmdAge
       ELSE /\ fsm[d].on
            /\ ~fsm[d].lastDesired => Least(n, RetryAfter) <= fsm[d].cmdAge

SafetyInv ==
  /\ \A k \in {"psi", "fault"} : WaitsToStop(k) /\ hist.late[k] <= RetryAfter
  /\ pass.pc = "apply" => /\ pass.off["psi"] => ~pass.want["filtration"]
                          /\ pass.off["fault"] => ~pass.want["swg"]

(* The valve is late while it keeps its minimum time, or waits to stop.      *)
FillInv ==
  /\ WaitsToStop("fill") /\ FillingEnds
  /\ hist.late["fill"] > 0 =>
       \/ FillMinOn <= fsm["filling"].age
       \/ hist.late["fill"] <= fsm["filling"].age + (IF pass.pc = "rest" THEN 2 ELSE 1)
       \/ pass.pc = "rest" /\ ~fsm["filling"].on
  /\ hist.late["fill"] > 1 => fsm["filling"].on
  /\ pass.pc = "apply" /\ pass.off["fill"] /\ pass.want["filling"]
       => fsm["filling"].age < FillMinOn

(* Without flow the heater waits to stop, or the filtration to start.        *)
DryInv ==
  /\ WaitsToStop("dry") /\ NoDryHeating
  /\ hist.late["dry"] > 0 =>
       /\ ~relay["filtration"]
       /\ IF pass.pc = "rest"
          THEN fsm["filtration"].lastDesired => hist.late["dry"] - 1 <= fsm["filtration"].cmdAge
          ELSE /\ fsm["filtration"].known /\ ~fsm["filtration"].on
               /\ pass.off["dry"] /\ pass.want["heater"] => pass.want["filtration"]
               /\ fsm["filtration"].lastDesired /\ pass.want["filtration"]
                    => hist.late["dry"] <= fsm["filtration"].cmdAge

(* The time since the last probe covers the passes counted.                  *)
IdleInv ==
  hist.idle > 0 => /\ heat.lastEnd # 0
                   /\ hist.idle - 1 <= Elapsed(heat.lastEnd, sec)
                   /\ Elapsed(heat.lastEnd, sec) < IdleSlow

Steady == fsm["filtration"].on /\ hist.flow > PidDelay

(* Who is regulated has seen the flow for the delay, and who runs for longer.*)
DoseInv ==
  /\ \A d \in Dependents : relay[d] => relay["filtration"]
  /\ \A d \in Dosing \intersect install.devices :
       /\ fsm["filtration"].on => Least(fsm["filtration"].age, PidDelay) <= hist.flow
       /\ pid[d].started => fsm["filtration"].on /\ PidDelay <= hist.flow
       /\ d \notin hist.byHand =>
            /\ relay[d] => Steady
            /\ pass.pc = "apply" /\ pass.want[d] => Steady

CleanInv ==
  /\ hist.cleaned => \/ cleaningDone
                     \/ fsm["robot"].on /\ RobotDuration <= fsm["robot"].age
  /\ pass.pc = "apply" /\ hist.cleaned /\ pass.auto => ~pass.want["robot"]
-----------------------------------------------------------------------------
(* Arithmetic: the smaller of two, the largest of a set of delays, and the   *)
(* second counter.                                                           *)
LEMMA LeastLemma ==
  ASSUME NEW a \in Nat, NEW b \in Nat
  PROVE  Least(a, b) \in Nat /\ Least(a, b) <= a /\ Least(a, b) <= b
         /\ (Least(a, b) = a \/ Least(a, b) = b)
BY DEF Least

HasLargest(S) == S \subseteq Nat /\ \E x \in S : \A y \in S : y <= x

(* The largest element is one of the set.                                   *)
LEMMA LargestLemma ==
  ASSUME NEW S, HasLargest(S)
  PROVE  Largest(S) \in S /\ \A y \in S : y <= Largest(S)
BY DEF HasLargest, Largest

(* One more number, and there is still a largest.                           *)
LEMMA LargestGrows ==
  ASSUME NEW S, HasLargest(S), NEW n \in Nat, NEW T, T = {} \/ T = {n}
  PROVE  HasLargest(S \union T)
<1>1. PICK x \in S : \A y \in S : y <= x
  BY DEF HasLargest
<1>2. S \union T \subseteq Nat
  BY DEF HasLargest
<1>3. CASE T = {n} /\ n > x
  <2>1. n \in S \union T /\ \A y \in S \union T : y <= n
    BY <1>1, <1>2, <1>3 DEF HasLargest
  <2> QED BY <1>2, <2>1 DEF HasLargest
<1>4. CASE ~(T = {n} /\ n > x)
  <2>1. x \in S \union T /\ \A y \in S \union T : y <= x
    BY <1>1, <1>2, <1>4 DEF HasLargest
  <2> QED BY <1>2, <2>1 DEF HasLargest
<1> QED BY <1>3, <1>4

(* The delays are natural numbers, the counters have a second.               *)
LEMMA Delays ==
  /\ RetryAfter \in Nat \ {0} /\ PsiStartup \in Nat /\ PidDelay \in Nat
  /\ ElectroDelay \in Nat /\ RobotDelay \in Nat /\ RobotDuration \in Nat
  /\ FillMinOn \in Nat /\ ProbeRun \in Nat /\ IdleSlow \in Nat /\ IdleFast \in Nat
  /\ Seconds \in Nat \ {0} /\ IdleFast <= IdleSlow /\ IdleSlow < Seconds
BY DelaysAssumption

(* Every horizon is a natural number; those of the robot and of the valve    *)
(* are their times.                                                          *)
LEMMA HorizonsLemma ==
  ASSUME NEW i \in Installations
  PROVE  /\ \A d \in Device : Horizons[i][d] \in Nat
         /\ Horizons[i]["robot"] = RobotDuration
         /\ Horizons[i]["filling"] = FillMinOn
<1>1. HasLargest({0})
  BY DEF HasLargest
<1> DEFINE psi == IF "psiLow" \in i.alarms THEN {PsiStartup + 1} ELSE {}
           robot == IF "robot" \in i.devices THEN {RobotDelay} ELSE {}
           pids == IF Dosing \intersect i.devices = {} THEN {} ELSE {PidDelay}
           electro == IF "swg" \in i.devices THEN {ElectroDelay} ELSE {}
<1>2. HasLargest({0} \union psi)
  <2>1. PsiStartup + 1 \in Nat /\ (psi = {} \/ psi = {PsiStartup + 1})
    BY Delays
  <2> HIDE DEF psi
  <2> QED BY <1>1, <2>1, LargestGrows
<1>3. HasLargest({0} \union psi \union robot)
  <2> HIDE DEF psi
  <2> QED BY <1>2, Delays, LargestGrows
<1>4. HasLargest({0} \union psi \union robot \union pids)
  <2> HIDE DEF psi, robot
  <2> QED BY <1>3, Delays, LargestGrows
<1>5. HasLargest({0} \union psi \union robot \union pids \union electro)
  <2> HIDE DEF psi, robot, pids
  <2> QED BY <1>4, Delays, LargestGrows
<1>6. Horizons[i]["filtration"] = Largest({0} \union psi \union robot \union pids \union electro)
  BY DEF Horizons, Device
<1>7. Horizons[i]["filtration"] \in Nat
  <2> HIDE DEF psi, robot, pids, electro
  <2> QED BY <1>5, <1>6, LargestLemma DEF HasLargest
<1>8. \A d \in Device \ {"filtration"} :
        Horizons[i][d] = IF d = "robot" THEN RobotDuration
                         ELSE IF d = "filling" THEN FillMinOn ELSE 0
  BY DEF Horizons, Device
<1> QED
  BY <1>7, <1>8, Delays DEF Device

(* The time since a second, one second later.                                *)
LEMMA ElapsedLemma ==
  ASSUME NEW from \in 0 .. Seconds - 1, NEW now \in 0 .. Seconds - 1
  PROVE  /\ (now + 1) % Seconds \in 0 .. Seconds - 1
         /\ Elapsed(from, now) \in 0 .. Seconds - 1
         /\ Elapsed(from, now) + 1 < Seconds
              => Elapsed(from, (now + 1) % Seconds) = Elapsed(from, now) + 1
<1> DEFINE next == (now + 1) % Seconds
<1>1. Seconds \in Nat \ {0}
  BY Delays
<1>2. next = IF now + 1 = Seconds THEN 0 ELSE now + 1
  BY <1>1
<1>3. \A n \in 0 .. Seconds - 1 :
        (n - from) % Seconds = IF n >= from THEN n - from ELSE n - from + Seconds
  BY <1>1
<1>4. next \in 0 .. Seconds - 1
  BY <1>1, <1>2
<1> HIDE DEF next
<1>5. Elapsed(from, now) = IF now >= from THEN now - from ELSE now - from + Seconds
  BY <1>3 DEF Elapsed
<1>6. Elapsed(from, next) = IF next >= from THEN next - from ELSE next - from + Seconds
  BY <1>3, <1>4 DEF Elapsed
<1>7. Elapsed(from, now) + 1 < Seconds => Elapsed(from, next) = Elapsed(from, now) + 1
  BY <1>1, <1>2, <1>5, <1>6
<1> QED
  BY <1>1, <1>4, <1>5, <1>7 DEF next
-----------------------------------------------------------------------------
(* What a pass decides. *)

(* The installation, and the types that are used all the time.               *)
LEMMA Types ==
  ASSUME TypeInv
  PROVE  /\ install \in Installation /\ mode \in [Mode -> BOOLEAN] /\ changed \subseteq Mode
         /\ relay \in [Device -> BOOLEAN] /\ fsm \in [Device -> DeviceFsm]
         /\ active \in [AlarmIds -> BOOLEAN] /\ sec \in 0 .. Seconds - 1
         /\ window \in BOOLEAN /\ reconcile \in BOOLEAN /\ newDay \in BOOLEAN
         /\ cleaningDone \in BOOLEAN
         /\ hist \in History
         /\ "heater" \in install.devices => "filtration" \in install.devices
BY InstallationsAssumption DEF TypeInv, TypeOK

(* syncDeviceState_: a pass sees the relay of every device, and the age of   *)
(* what it sees.                                                             *)
LEMMA SeenAnew ==
  ASSUME NEW r \in DeviceFsm, NEW on \in BOOLEAN, NEW seen,
         seen = [r EXCEPT !.known = TRUE, !.on = on, !.age = 0]
  PROVE  seen
           = [known |-> TRUE, on |-> on, age |-> 0,
              lastDesired |-> r.lastDesired, cmdAge |-> r.cmdAge]
BY DEF DeviceFsm

(* What a pass sees of a device, field by field.                            *)
LEMMA SyncedLemma ==
  ASSUME TypeInv, NEW d \in Device
  PROVE  /\ Synced(d) \in DeviceFsm /\ Synced(d).age <= Horizons[install][d]
         /\ Synced(d).known = (d \in install.devices)
         /\ Synced(d).on = relay[d]
         /\ Synced(d).lastDesired = fsm[d].lastDesired
         /\ Synced(d).cmdAge = Least(fsm[d].cmdAge + 1, RetryAfter)
         /\ Synced(d).age = IF fsm[d].on = relay[d] /\ (fsm[d].known \/ d \notin install.devices)
                            THEN Least(fsm[d].age + 1, Horizons[install][d]) ELSE 0
<1> DEFINE H == Horizons[install][d]
<1>1. fsm[d] \in DeviceFsm /\ relay[d] \in BOOLEAN
  BY Types
<1>2. H \in Nat
  BY HorizonsLemma DEF TypeInv, TypeOK
<1>3. d \notin install.devices => ~fsm[d].known /\ ~fsm[d].on /\ relay[d] = FALSE
  BY <1>1 DEF TypeInv, TypeOK
<1>4. /\ Least(fsm[d].cmdAge + 1, RetryAfter) \in 0 .. RetryAfter
      /\ Least(fsm[d].age + 1, H) \in Nat /\ Least(fsm[d].age + 1, H) <= H
  <2>1. RetryAfter \in Nat
    BY Delays
  <2>2. fsm[d].cmdAge + 1 \in Nat /\ fsm[d].age + 1 \in Nat
    BY <1>1, <2>1 DEF DeviceFsm
  <2>3. Least(fsm[d].cmdAge + 1, RetryAfter) \in 0 .. RetryAfter
    BY <2>2, <2>1 DEF Least
  <2> HIDE DEF H
  <2>4. Least(fsm[d].age + 1, H) \in Nat /\ Least(fsm[d].age + 1, H) <= H
    BY <1>2, <2>2, LeastLemma
  <2> QED BY <2>3, <2>4
<1> DEFINE a == Least(fsm[d].age + 1, H)
           c == Least(fsm[d].cmdAge + 1, RetryAfter)
<1>5. Aged(d) = [fsm[d] EXCEPT !.age = a, !.cmdAge = c]
  BY DEF Aged
<1>12. a \in Nat /\ c \in 0 .. RetryAfter
  BY <1>4
<1> HIDE DEF H, a, c
<1>6. Aged(d) = [known |-> fsm[d].known, on |-> fsm[d].on, age |-> a,
                 lastDesired |-> fsm[d].lastDesired, cmdAge |-> c]
  BY <1>1, <1>5 DEF DeviceFsm
<1>7. Synced(d) =
        IF d \in install.devices /\ (~fsm[d].known \/ fsm[d].on # relay[d])
        THEN [known |-> TRUE, on |-> relay[d], age |-> 0,
              lastDesired |-> fsm[d].lastDesired, cmdAge |-> c]
        ELSE Aged(d)
  <2>1. [Aged(d) EXCEPT !.known = TRUE, !.on = relay[d], !.age = 0]
          = [known |-> TRUE, on |-> relay[d], age |-> 0,
             lastDesired |-> fsm[d].lastDesired, cmdAge |-> c]
    <3>2. Aged(d) \in DeviceFsm /\ Aged(d).lastDesired = fsm[d].lastDesired /\ Aged(d).cmdAge = c
      BY <1>1, <1>6, <1>12 DEF DeviceFsm
    <3> DEFINE seen == [Aged(d) EXCEPT !.known = TRUE, !.on = relay[d], !.age = 0]
    <3> HIDE DEF c
    <3>4. seen = [known |-> TRUE, on |-> relay[d], age |-> 0,
                  lastDesired |-> Aged(d).lastDesired, cmdAge |-> Aged(d).cmdAge]
      <4>1. ASSUME NEW z, z = seen
            PROVE  z = [known |-> TRUE, on |-> relay[d], age |-> 0,
                        lastDesired |-> Aged(d).lastDesired, cmdAge |-> Aged(d).cmdAge]
        BY <1>1, <3>2, <4>1, SeenAnew
      <4> QED BY <4>1
    <3> QED BY <3>2, <3>4
  <2> QED BY <2>1 DEF Synced
<1>8. a \in Nat /\ a <= H /\ c \in 0 .. RetryAfter /\ 0 <= H
  BY <1>2, <1>4 DEF a, c, H
<1>9. Synced(d) \in DeviceFsm /\ Synced(d).age <= H
  BY <1>1, <1>6, <1>7, <1>8 DEF DeviceFsm
<1>10. CASE d \in install.devices /\ (~fsm[d].known \/ fsm[d].on # relay[d])
  <2>1. Synced(d) = [known |-> TRUE, on |-> relay[d], age |-> 0,
                     lastDesired |-> fsm[d].lastDesired, cmdAge |-> c]
    BY <1>7, <1>10
  <2>2. Synced(d).known = TRUE /\ Synced(d).age = 0 /\ Synced(d).on = relay[d]
        /\ Synced(d).lastDesired = fsm[d].lastDesired /\ Synced(d).cmdAge = c
    BY <2>1
  <2> QED BY <1>9, <1>10, <2>2 DEF c, H
<1>11. CASE ~(d \in install.devices /\ (~fsm[d].known \/ fsm[d].on # relay[d]))
  <2>1. Synced(d) = [known |-> fsm[d].known, on |-> fsm[d].on, age |-> a,
                     lastDesired |-> fsm[d].lastDesired, cmdAge |-> c]
    BY <1>6, <1>7, <1>11
  <2>2. fsm[d].known = (d \in install.devices) /\ fsm[d].on = relay[d]
    BY <1>1, <1>3, <1>11 DEF TypeInv, TypeOK, DeviceFsm
  <2> QED BY <1>9, <1>11, <2>1, <2>2 DEF a, c, H
<1> QED BY <1>10, <1>11

(* onEvent_ has set pendingFiltrationReconcile_: the pass takes the command  *)
(* of the filtration for the opposite of what it wants, and for overdue.     *)
Reconciled(g, w) ==
  [g EXCEPT !["filtration"].lastDesired = w, !["filtration"].cmdAge = RetryAfter]

(* Only the command of the filtration is rewritten.                         *)
LEMMA ReconciledLemma ==
  ASSUME NEW g \in [Device -> DeviceFsm], NEW w \in BOOLEAN
  PROVE  /\ Reconciled(g, w) \in [Device -> DeviceFsm]
         /\ \A d \in Device \ {"filtration"} : Reconciled(g, w)[d] = g[d]
         /\ Reconciled(g, w)["filtration"]
              = [known |-> g["filtration"].known, on |-> g["filtration"].on,
                 age |-> g["filtration"].age, lastDesired |-> w, cmdAge |-> RetryAfter]
<1> DEFINE h == Reconciled(g, w)
           n == RetryAfter
<1>8. n \in 0 .. RetryAfter
  BY Delays
<1> DEFINE r == g["filtration"]
           r1 == [r EXCEPT !.lastDesired = w]
           r2 == [r1 EXCEPT !.cmdAge = n]
           r3 == [known |-> r.known, on |-> r.on, age |-> r.age, lastDesired |-> w, cmdAge |-> n]
<1>1. "filtration" \in Device /\ r \in DeviceFsm
  BY DEF Device
<1>2. r1 \in DeviceFsm /\ r1.known = r.known /\ r1.on = r.on /\ r1.age = r.age /\ r1.lastDesired = w
  BY <1>1 DEF DeviceFsm
<1>3. r2 = r3
  <2> HIDE DEF r1, r
  <2> QED BY <1>2, <1>8 DEF DeviceFsm
<1>4. r3 \in DeviceFsm
  BY <1>1, <1>8 DEF DeviceFsm
<1>5. h = [g EXCEPT !["filtration"] = r2]
  BY <1>1 DEF Reconciled
<1> HIDE DEF r2, r3, h
<1>6. h["filtration"] = r3
  BY <1>1, <1>5, <1>3
<1>7. h \in [Device -> DeviceFsm] /\ \A d \in Device \ {"filtration"} : h[d] = g[d]
  BY <1>1, <1>5, <1>3, <1>4
<1> QED BY <1>6, <1>7 DEF r3, h

(* The heat assist: a session is a probe or heating, a pressure alarm ends   *)
(* it, and the heater is wanted only with the filtration, or while it runs.  *)
LEMMA HeatAssistLemma ==
  ASSUME TypeInv, NEW f, NEW s \in 0 .. Seconds - 1, NEW base \in BOOLEAN, NEW water,
         f["heater"].on \in BOOLEAN
  PROVE  LET assist == HeatAssist(f, s, base, water) IN
         /\ assist.filtration \in BOOLEAN /\ assist.heater \in BOOLEAN
         /\ assist.heat \in [probe : BOOLEAN, heating : BOOLEAN, fast : BOOLEAN,
                              probeStart : 0 .. Seconds - 1, lastEnd : 0 .. Seconds - 1]
         /\ ~(assist.heat.probe /\ assist.heat.heating)
         /\ PsiError => assist.filtration = base
         /\ mode["auto"] /\ mode["heater"] /\ assist.heater
              => assist.filtration \/ f["filtration"].on
         /\ Rested(f, s, base) => assist.heat = heat
<1> DEFINE Heat == [probe : BOOLEAN, heating : BOOLEAN, fast : BOOLEAN,
                    probeStart : 0 .. Seconds - 1, lastEnd : 0 .. Seconds - 1]
           Good(o) == /\ o.filtration \in BOOLEAN /\ o.heater \in BOOLEAN
                      /\ o.heat \in Heat /\ ~(o.heat.probe /\ o.heat.heating)
           assist == HeatAssist(f, s, base, water)
<1>1. heat \in Heat /\ ~(heat.probe /\ heat.heating) /\ 0 \in 0 .. Seconds - 1
  BY Delays DEF TypeInv, TypeOK
<1>2. /\ NoSession(heat) \in Heat /\ ~NoSession(heat).probe /\ ~NoSession(heat).heating
  BY <1>1 DEF NoSession
<1>3. CASE ~mode["heater"]
  <2>1. assist = Outcome([NoSession(heat) EXCEPT !.fast = FALSE, !.lastEnd = 0],
                         base, f["heater"].on)
    BY <1>3 DEF HeatAssist
  <2>2. [NoSession(heat) EXCEPT !.fast = FALSE, !.lastEnd = 0] \in Heat
    BY <1>1, <1>2
  <2>3. Good(assist) /\ assist.filtration = base
    <3> DEFINE h == [NoSession(heat) EXCEPT !.fast = FALSE, !.lastEnd = 0]
    <3>1. h \in Heat /\ ~h.probe
      BY <1>2, <2>2
    <3> HIDE DEF h, Heat, assist
    <3> QED BY <2>1, <3>1 DEF h, Outcome
  <2> QED BY <1>3, <2>3 DEF Rested
<1>4. CASE mode["heater"] /\ ~mode["auto"]
  <2>1. assist = Outcome(NoSession(heat), base, f["heater"].on)
    BY <1>4 DEF HeatAssist
  <2> QED BY <1>2, <1>4, <2>1 DEF Outcome, Rested
<1>5. CASE mode["heater"] /\ mode["auto"] /\ PsiError
  <2>1. assist = Outcome(NoSession(heat), base, FALSE)
    BY <1>5 DEF HeatAssist
  <2> QED BY <1>2, <1>5, <2>1 DEF Outcome, Rested
<1>6. CASE mode["heater"] /\ mode["auto"] /\ ~PsiError
  <2>1. assist = IF heat.heating THEN Heating(heat, s, water)
                 ELSE IF heat.probe THEN Probing(heat, s, base, water)
                 ELSE IF f["filtration"].on \/ base
                      THEN WithFlow(heat, base, f["heater"].on, water)
                      ELSE Resting(heat, s)
    BY <1>6 DEF HeatAssist
  <2>2. CASE heat.heating
    <3>1. [NoSession(heat) EXCEPT !.lastEnd = s, !.fast = TRUE] \in Heat
      BY <1>1, <1>2
    <3>2. ~[NoSession(heat) EXCEPT !.lastEnd = s, !.fast = TRUE].probe
      BY <1>2
    <3>3. Good(assist) /\ (assist.heater => assist.filtration)
      <4>1. CASE water = "warm"
        <5> DEFINE h == [NoSession(heat) EXCEPT !.lastEnd = s, !.fast = TRUE]
        <5>1. assist = Outcome(h, FALSE, FALSE)
          BY <2>1, <2>2, <4>1 DEF Heating
        <5>2. h \in Heat /\ ~h.probe
          BY <3>1, <3>2
        <5> HIDE DEF h, Heat, assist
        <5> QED BY <5>1, <5>2 DEF Outcome
      <4>2. CASE water # "warm"
        <5>1. assist = Outcome(heat, TRUE, Fresh(water))
          BY <2>1, <2>2, <4>2 DEF Heating
        <5>2. Fresh(water) \in BOOLEAN
          BY DEF Fresh
        <5> HIDE DEF assist, Heat
        <5> QED BY <1>1, <5>1, <5>2 DEF Outcome
      <4> QED BY <4>1, <4>2
    <3> QED BY <1>6, <2>2, <3>3 DEF Rested
  <2>3. CASE ~heat.heating /\ heat.probe
    <3> DEFINE over == [heat EXCEPT !.probe = FALSE, !.probeStart = 0]
    <3>1. over \in Heat /\ ~over.probe
      BY <1>1
    <3>2. [over EXCEPT !.heating = TRUE] \in Heat /\ [over EXCEPT !.lastEnd = s] \in Heat
      BY <1>1, <3>1
    <3>3. ~[over EXCEPT !.lastEnd = s].probe /\ ~[over EXCEPT !.heating = TRUE].probe
      BY <1>1
    <3>4. \/ assist = Outcome(heat, TRUE, FALSE)
          \/ assist = Outcome([over EXCEPT !.heating = TRUE], TRUE, TRUE)
          \/ assist = Outcome([over EXCEPT !.lastEnd = s], base, FALSE)
      BY <2>1, <2>3 DEF Probing
    <3>5. Good(assist) /\ (assist.heater => assist.filtration)
      <4> DEFINE h1 == [over EXCEPT !.heating = TRUE]
                 h2 == [over EXCEPT !.lastEnd = s]
      <4>1. h1 \in Heat /\ ~h1.probe /\ h2 \in Heat /\ ~h2.probe
        BY <3>2, <3>3
      <4>2. \/ assist = Outcome(heat, TRUE, FALSE)
            \/ assist = Outcome(h1, TRUE, TRUE)
            \/ assist = Outcome(h2, base, FALSE)
        BY <3>4
      <4> HIDE DEF h1, h2, assist, Heat
      <4>3. CASE assist = Outcome(heat, TRUE, FALSE)
        BY <1>1, <4>3 DEF Outcome
      <4>4. CASE assist = Outcome(h1, TRUE, TRUE)
        BY <4>1, <4>4 DEF Outcome
      <4>5. CASE assist = Outcome(h2, base, FALSE)
        BY <4>1, <4>5 DEF Outcome
      <4> QED BY <4>2, <4>3, <4>4, <4>5
    <3> QED BY <1>6, <2>3, <3>5 DEF Rested
  <2>4. CASE ~heat.heating /\ ~heat.probe /\ (f["filtration"].on \/ base)
    <3> DEFINE heats == IF f["heater"].on THEN water \in {"cold", "mild"} ELSE water = "cold"
    <3>1. assist = WithFlow(heat, base, f["heater"].on, water)
      BY <2>1, <2>4
    <3>2. WithFlow(heat, base, f["heater"].on, water) = Outcome(heat, base, heats)
      BY Zenon DEF WithFlow
    <3>3. heats \in BOOLEAN
      <4>1. CASE f["heater"].on
        BY <4>1
      <4>2. CASE ~f["heater"].on
        BY <4>2
      <4> QED BY <4>1, <4>2
    <3>4. assist = Outcome(heat, base, heats) /\ heats \in BOOLEAN
      <4> HIDE DEF heats
      <4> QED BY <3>1, <3>2, <3>3
    <3>5. Good(assist) /\ assist.filtration = base
      <4> HIDE DEF assist, Heat, heats
      <4> QED BY <1>1, <3>4 DEF Outcome
    <3> QED BY <1>6, <2>4, <3>5 DEF Rested
  <2>5. CASE ~heat.heating /\ ~heat.probe /\ ~(f["filtration"].on \/ base)
    <3>1. [heat EXCEPT !.probe = TRUE, !.heating = FALSE, !.probeStart = s] \in Heat
      BY <1>1
    <3>2. Good(assist) /\ ~assist.heater
      BY <1>1, <2>1, <2>5, <3>1 DEF Resting, Outcome
    <3>3. ~ProbeDue(heat, s) => assist.heat = heat
      BY <2>1, <2>5 DEF Resting, Outcome
    <3> QED BY <1>6, <3>2, <3>3 DEF Rested
  <2> QED BY <2>2, <2>3, <2>4, <2>5
<1> QED BY <1>3, <1>4, <1>5, <1>6

PidStates == [started : BOOLEAN, dose : BOOLEAN]

(* A regulated pump stays regulated until something ends it.                *)
LEMMA PidStepLemma ==
  ASSUME NEW old \in PidStates, NEW reading, old.started
  PROVE  \A z \in PidStep(old, reading) :
           \E a \in BOOLEAN, y \in BOOLEAN : z = <<[started |-> TRUE, dose |-> a], y>>
BY DEF PidStep

(* Dosing: whoever is regulated was so before, or has a steady flow; a dose  *)
(* is asked for by who was regulated before, or by a pump that runs.         *)
LEMMA RegulatedLemma ==
  ASSUME NEW d \in Dosing, NEW f, NEW reading, NEW flow,
         f[d].on \in BOOLEAN, f["filtration"].on \in BOOLEAN,
         NEW old \in PidStates, old.dose => old.started,
         NEW x \in Regulated(d, old, f, reading, flow)
  PROVE  /\ x[1] \in PidStates /\ (x[1].dose => x[1].started)
         /\ x[2] \in BOOLEAN
         /\ x[1].started => old.started \/ RunsFor(f, PidDelay)
         /\ x[2] => old.started \/ f[d].on
<1>1. CASE x \in PidStep(old, reading) /\ RunsFor(f, PidDelay)
  <2>1. CASE ~old.started
    <3>1. PidStep(old, reading) = {<<[started |-> TRUE, dose |-> FALSE], FALSE>>}
      BY <2>1 DEF PidStep
    <3>2. x = <<[started |-> TRUE, dose |-> FALSE], FALSE>>
      BY <1>1, <3>1
    <3> QED BY <1>1, <3>2 DEF PidStates
  <2>2. CASE old.started
    <3>1. PICK a \in BOOLEAN, y \in BOOLEAN : x = <<[started |-> TRUE, dose |-> a], y>>
      BY <1>1, <2>2, PidStepLemma
    <3> QED BY <1>1, <2>2, <3>1 DEF PidStates
  <2> QED BY <2>1, <2>2
<1>2. CASE x = <<old, f[d].on>>
  BY <1>2
<1>3. CASE x = <<Stopped, f[d].on>>
  BY <1>3 DEF Stopped, PidStates
<1>4. \/ x \in PidStep(old, reading) /\ RunsFor(f, PidDelay)
      \/ x = <<old, f[d].on>> \/ x = <<Stopped, f[d].on>>
  BY DEF Regulated, MayRegulate
<1> QED BY <1>1, <1>2, <1>3, <1>4

(* The state of the devices in the middle of a pass.                         *)
SeenFsm ==
  \A d \in Device :
    /\ fsm'[d] \in DeviceFsm /\ fsm'[d].age <= Horizons[install][d]
    /\ fsm'[d].known = (d \in install.devices)
    /\ fsm'[d].on = relay[d]
    /\ fsm'[d].age = IF fsm[d].on = relay[d] /\ (fsm[d].known \/ d \notin install.devices)
                     THEN Least(fsm[d].age + 1, Horizons[install][d]) ELSE 0
    /\ \/ /\ fsm'[d].lastDesired = fsm[d].lastDesired
          /\ fsm'[d].cmdAge = Least(fsm[d].cmdAge + 1, RetryAfter)
       \/ /\ fsm'[d].lastDesired = ~pass'.want[d]
          /\ fsm'[d].cmdAge = RetryAfter

PassType == [pc : {"rest", "apply"}, auto : BOOLEAN, want : [Device -> BOOLEAN],
             off : [Rules -> BOOLEAN]]

FiltrationEdge == StartSeen("filtration") \/ StopSeen("filtration")
Sustained == fsm'["filtration"].on /\ PidDelay <= fsm'["filtration"].age

(* What the second half of a pass is told: a pressure alarm wants the pump   *)
(* off, a fault of the contactor the electrolysis, a valve that may close is *)
(* open only for its minimum time, and the heater never without the pump.    *)
WantsWell ==
  /\ pass'.off["psi"] => ~pass'.want["filtration"]
  /\ pass'.off["fault"] => ~pass'.want["swg"]
  /\ pass'.off["fill"] /\ pass'.want["filling"] => fsm'["filling"].age < FillMinOn
  /\ pass'.off["dry"] /\ pass'.want["heater"]
       => pass'.want["filtration"] \/ relay["filtration"]
  /\ pass'.auto /\ pass'.want["robot"]
       => ~cleaningDone' /\ (relay["robot"] => fsm'["robot"].age < RobotDuration)

(* Who is regulated was so before, or sees a sustained flow; who is asked    *)
(* for runs, or was regulated before.                                        *)
RegulatesWell ==
  \A d \in Dosing :
    /\ pid'[d] \in PidStates /\ (pid'[d].dose => pid'[d].started)
    /\ pid'[d].started => Sustained \/ (pid[d].started /\ ~FiltrationEdge)
    /\ pass'.want[d] => relay[d] \/ (pid[d].started /\ ~FiltrationEdge)

HeatStates == [probe : BOOLEAN, heating : BOOLEAN, fast : BOOLEAN,
               probeStart : 0 .. Seconds - 1, lastEnd : 0 .. Seconds - 1]

FlowSeen ==
  IF relay["filtration"] /\ ~StartSeen("filtration")
  THEN Least(hist.flow + 1, IF Dosing \intersect install.devices = {} THEN 0 ELSE PidDelay + 1)
  ELSE 0

(* What a pass leaves in the history.                                        *)
RecordsWell ==
  /\ hist'.late = hist.late
  /\ hist'.byHand = {d \in hist.byHand : relay[d]}
  /\ hist'.flow = FlowSeen
  /\ \/ hist'.idle = 0
     \/ /\ mode["heater"] /\ ~ProbeDue(heat, (sec + 1) % Seconds) /\ heat' = heat
        /\ hist'.idle = Least(hist.idle + 1, Seconds)
  /\ hist'.cleaned \in BOOLEAN
  /\ hist'.cleaned => \/ hist.cleaned /\ ~newDay
                      \/ relay["robot"] /\ RobotDuration <= fsm'["robot"].age

(* What Decide does, one conjunct for each thing the invariants ask.         *)
LEMMA DecideFacts ==
  ASSUME TypeInv, Decide
  PROVE  /\ pass.pc = "rest" /\ pass' \in PassType /\ pass'.pc = "apply"
         /\ UNCHANGED <<install, mode, changed, relay, window, active, lastCond>>
         /\ newDay' = FALSE /\ reconcile' = FALSE /\ cleaningDone' = CleaningDone
         /\ sec' = IF HeatAssisted THEN (sec + 1) % Seconds ELSE sec
         /\ fsm' \in [Device -> DeviceFsm] /\ SeenFsm
         /\ pid' \in [Dosing -> PidStates]
         /\ heat' \in HeatStates /\ ~(heat'.probe /\ heat'.heating)
         /\ hist' \in History
         /\ WantsWell /\ RegulatesWell /\ RecordsWell
<1> DEFINE f == [d \in Device |-> Synced(d)]
           s == (sec + 1) % Seconds
           base(air) == FiltrationBase(f, air)
           assist(air, water) == HeatAssist(f, s, base(air), water)
           old == [d \in Dosing |-> IF FiltrationEdge THEN Stopped ELSE pid[d]]
           reading(orp) == IF orp = "high" THEN "fine" ELSE IF orp = "none" THEN "none" ELSE "dose"
           Off(level) == [k \in Rules |->
             CASE k = "psi"   -> PsiError
               [] k = "fault" -> active["mismatch"]
               [] k = "dry"   -> mode["auto"] /\ mode["heater"]
               [] k = "empty" -> mode["ph"] /\ TankError("ph")
               [] k = "fill"  -> level # "on"]
           Want(flow, heater, warm, orp, level, p, o) == [d \in Device |->
             CASE d = "filtration" -> flow
               [] d = "ph"         -> p[2]
               [] d = "orp"        -> o[2]
               [] d = "robot"      -> RobotWanted(f, CleaningDone)
               [] d = "swg"        -> SwgWanted(f, warm, orp)
               [] d = "heater"     -> heater
               [] d = "filling"    -> FillingWanted(f, level)]
           Passed(air, water, warm, level, orp, p, o) ==
             /\ pid' = [d \in Dosing |-> IF d = "ph" THEN p[1] ELSE o[1]]
             /\ pass' = [pc |-> "apply", auto |-> mode["auto"], off |-> Off(level),
                         want |-> Want(assist(air, water).filtration, assist(air, water).heater,
                                       warm, orp, level, p, o)]
             /\ fsm' = IF reconcile
                       THEN [f EXCEPT !["filtration"].lastDesired = ~assist(air, water).filtration,
                                      !["filtration"].cmdAge = RetryAfter]
                       ELSE f
             /\ heat' = assist(air, water).heat
             /\ hist' = [hist EXCEPT
                  !.byHand = {d \in @ : relay[d]},
                  !.flow = FlowSeen,
                  !.idle = IF Rested(f, s, base(air)) THEN Least(@ + 1, Seconds) ELSE 0,
                  !.cleaned = \/ @ /\ ~newDay
                              \/ mode["auto"] /\ f["robot"].on /\ f["robot"].age >= RobotDuration]
<1>1. PICK air \in install.air, water \in install.water, warm \in install.warm,
           ph \in install.ph, orp \in install.orp, level \in install.level :
        \E p \in Regulated("ph", old["ph"], f, ph, assist(air, water).filtration),
           o \in Regulated("orp", old["orp"], f, reading(orp), assist(air, water).filtration) :
          Passed(air, water, warm, level, orp, p, o)
  BY Zenon DEF Decide, FiltrationEdge, FlowSeen
<1>2. PICK p \in Regulated("ph", old["ph"], f, ph, assist(air, water).filtration),
           o \in Regulated("orp", old["orp"], f, reading(orp), assist(air, water).filtration) :
        Passed(air, water, warm, level, orp, p, o)
  BY <1>1, Zenon
<1> DEFINE now == assist(air, water)
           flow == now.filtration
<1>3. f \in [Device -> DeviceFsm] /\ \A d \in Device : f[d] = Synced(d) /\ f[d].on = relay[d]
  BY SyncedLemma
<1>4. s \in 0 .. Seconds - 1
  BY Types, ElapsedLemma
<1>5. base(air) \in BOOLEAN /\ (PsiError => ~base(air))
  <2>1. f["filtration"].on \in BOOLEAN /\ window \in BOOLEAN /\ mode["winter"] \in BOOLEAN
    BY <1>3, Types DEF Device, Mode
  <2> HIDE DEF f
  <2> QED BY <2>1 DEF FiltrationBase
<1>6. /\ flow \in BOOLEAN /\ now.heater \in BOOLEAN
      /\ now.heat \in HeatStates /\ ~(now.heat.probe /\ now.heat.heating)
      /\ PsiError => ~flow
      /\ mode["auto"] /\ mode["heater"] /\ now.heater => flow \/ relay["filtration"]
      /\ Rested(f, s, base(air)) => now.heat = heat
  <2>1. f["heater"].on \in BOOLEAN /\ f["filtration"].on = relay["filtration"]
    BY <1>3, Types DEF Device, DeviceFsm
  <2> HIDE DEF f, s, base
  <2> QED BY <1>4, <1>5, <2>1, HeatAssistLemma DEF HeatStates
<1>7. /\ p[1] \in PidStates /\ (p[1].dose => p[1].started) /\ p[2] \in BOOLEAN
      /\ p[1].started => old["ph"].started \/ RunsFor(f, PidDelay)
      /\ p[2] => old["ph"].started \/ relay["ph"]
  <2>1. /\ f["ph"].on \in BOOLEAN /\ f["ph"].on = relay["ph"] /\ f["filtration"].on \in BOOLEAN
        /\ "ph" \in Dosing
    BY <1>3 DEF Device, DeviceFsm, Dosing
  <2>2. old["ph"] \in PidStates /\ (old["ph"].dose => old["ph"].started)
    BY <2>1 DEF TypeInv, TypeOK, Stopped, PidStates
  <2> HIDE DEF f, old, flow
  <2> QED BY <1>2, <2>1, <2>2, RegulatedLemma
<1>8. /\ o[1] \in PidStates /\ (o[1].dose => o[1].started) /\ o[2] \in BOOLEAN
      /\ o[1].started => old["orp"].started \/ RunsFor(f, PidDelay)
      /\ o[2] => old["orp"].started \/ relay["orp"]
  <2>1. /\ f["orp"].on \in BOOLEAN /\ f["orp"].on = relay["orp"] /\ f["filtration"].on \in BOOLEAN
        /\ "orp" \in Dosing
    BY <1>3 DEF Device, DeviceFsm, Dosing
  <2>2. old["orp"] \in PidStates /\ (old["orp"].dose => old["orp"].started)
    BY <2>1 DEF TypeInv, TypeOK, Stopped, PidStates
  <2> HIDE DEF f, old, flow, reading
  <2> QED BY <1>2, <2>1, <2>2, RegulatedLemma
<1>9. /\ RobotWanted(f, CleaningDone) \in BOOLEAN
      /\ mode["auto"] /\ RobotWanted(f, CleaningDone)
           => ~CleaningDone /\ (relay["robot"] => f["robot"].age < RobotDuration)
  <2>1. f["robot"].on = relay["robot"] /\ relay["robot"] \in BOOLEAN
    BY <1>3, Types DEF Device
  <2> HIDE DEF f
  <2>2. CASE mode["auto"]
    BY <2>1, <2>2 DEF RobotWanted
  <2>3. CASE ~mode["auto"]
    BY <2>1, <2>3 DEF RobotWanted
  <2> QED BY <2>2, <2>3
<1>10. SwgWanted(f, warm, orp) \in BOOLEAN
       /\ (active["mismatch"] => ~SwgWanted(f, warm, orp))
  BY DEF SwgWanted
<1>11. /\ FillingWanted(f, level) \in BOOLEAN
       /\ level # "on" /\ FillingWanted(f, level) => f["filling"].age < FillMinOn
  BY DEF FillingWanted
<1> DEFINE off == Off(level)
           want == Want(flow, now.heater, warm, orp, level, p, o)
<1>12. /\ want["filtration"] = flow /\ want["ph"] = p[2] /\ want["orp"] = o[2]
       /\ want["robot"] = RobotWanted(f, CleaningDone) /\ want["swg"] = SwgWanted(f, warm, orp)
       /\ want["heater"] = now.heater /\ want["filling"] = FillingWanted(f, level)
  <2> HIDE DEF f, now, flow
  <2> QED BY DEF Device
<1>13. want \in [Device -> BOOLEAN]
  <2>1. \A d \in Device : want[d] \in BOOLEAN
    <3> HIDE DEF want, f, now, flow
    <3> QED BY <1>6, <1>7, <1>8, <1>9, <1>10, <1>11, <1>12 DEF Device
  <2> HIDE DEF f, now, flow
  <2> QED BY <2>1
<1>14. /\ off["psi"] = PsiError /\ off["fault"] = active["mismatch"]
       /\ off["dry"] = (mode["auto"] /\ mode["heater"]) /\ off["fill"] = (level # "on")
  BY DEF Rules
<1>15. off \in [Rules -> BOOLEAN]
  <2>1. active \in [AlarmIds -> BOOLEAN] /\ mode \in [Mode -> BOOLEAN]
    BY Types
  <2>2. PsiError \in BOOLEAN /\ active["mismatch"] \in BOOLEAN
    BY <2>1 DEF AlarmIds, PsiError
  <2>3. \A k \in Rules : off[k] \in BOOLEAN
    BY <2>2 DEF Rules
  <2> QED BY <2>3
<1>16. pass' = [pc |-> "apply", auto |-> mode["auto"], off |-> off, want |-> want]
  BY <1>2
<1>17. /\ pass'.pc = "apply" /\ pass'.auto = mode["auto"] /\ pass'.off = off
       /\ pass'.want = want /\ pass' \in PassType
  <2>1. mode["auto"] \in BOOLEAN
    BY Types DEF Mode
  <2> HIDE DEF off, want
  <2> QED BY <1>13, <1>15, <1>16, <2>1 DEF PassType
<1>18. /\ fsm' \in [Device -> DeviceFsm]
       /\ \A d \in Device :
            /\ fsm'[d].known = f[d].known /\ fsm'[d].on = f[d].on /\ fsm'[d].age = f[d].age
            /\ \/ fsm'[d].lastDesired = f[d].lastDesired /\ fsm'[d].cmdAge = f[d].cmdAge
               \/ fsm'[d].lastDesired = ~want[d] /\ fsm'[d].cmdAge = RetryAfter
  <2>1. CASE ~reconcile
    <3>1. fsm' = f
      BY <1>2, <2>1
    <3> HIDE DEF f, want
    <3> QED BY <1>3, <3>1
  <2>2. CASE reconcile
    <3> DEFINE r == f["filtration"]
               seen == [known |-> r.known, on |-> r.on, age |-> r.age,
                        lastDesired |-> ~flow, cmdAge |-> RetryAfter]
    <3>1. fsm' = [f EXCEPT !["filtration"].lastDesired = ~flow,
                           !["filtration"].cmdAge = RetryAfter]
      BY <1>2, <2>2
    <3>2. r \in DeviceFsm /\ flow \in BOOLEAN /\ RetryAfter \in 0 .. RetryAfter
      BY <1>3, <1>6, Delays DEF Device
    <3> HIDE DEF f, want, flow
    <3>3. /\ fsm' \in [Device -> DeviceFsm] /\ fsm'["filtration"] = seen
          /\ \A d \in Device \ {"filtration"} : fsm'[d] = f[d]
      <4>1. fsm' = Reconciled(f, ~flow)
        BY <3>1 DEF Reconciled
      <4>2. f \in [Device -> DeviceFsm] /\ (~flow) \in BOOLEAN
        BY <1>3, <3>2
      <4> QED BY <4>1, <4>2, ReconciledLemma
    <3>4. want["filtration"] = flow
      BY <1>12
    <3> QED BY <3>3, <3>4
  <2> QED BY <2>1, <2>2
<1>19. SeenFsm
  <2> SUFFICES ASSUME NEW d \in Device
               PROVE  /\ fsm'[d] \in DeviceFsm /\ fsm'[d].age <= Horizons[install][d]
                      /\ fsm'[d].known = (d \in install.devices)
                      /\ fsm'[d].on = relay[d]
                      /\ fsm'[d].age = IF fsm[d].on = relay[d]
                                          /\ (fsm[d].known \/ d \notin install.devices)
                                       THEN Least(fsm[d].age + 1, Horizons[install][d]) ELSE 0
                      /\ \/ /\ fsm'[d].lastDesired = fsm[d].lastDesired
                            /\ fsm'[d].cmdAge = Least(fsm[d].cmdAge + 1, RetryAfter)
                         \/ /\ fsm'[d].lastDesired = ~pass'.want[d]
                            /\ fsm'[d].cmdAge = RetryAfter
    BY DEF SeenFsm
  <2>1. f[d] = Synced(d)
    BY <1>3
  <2> HIDE DEF f, want
  <2> QED BY <1>17, <1>18, <2>1, SyncedLemma
<1>20. /\ pass.pc = "rest" /\ UNCHANGED <<install, mode, changed, relay, window, active, lastCond>>
       /\ newDay' = FALSE /\ reconcile' = FALSE /\ cleaningDone' = CleaningDone
       /\ sec' = IF HeatAssisted THEN (sec + 1) % Seconds ELSE sec
  BY DEF Decide, alarms
<1>21. WantsWell
  <2>1. fsm'["filling"].age = f["filling"].age /\ fsm'["robot"].age = f["robot"].age
    BY <1>18 DEF Device
  <2>2. cleaningDone' = CleaningDone
    BY <1>20
  <2> HIDE DEF f, want, off, flow, now, s
  <2> QED BY <1>6, <1>9, <1>10, <1>11, <1>12, <1>14, <1>17, <2>1, <2>2 DEF WantsWell
<1>22. pid' \in [Dosing -> PidStates] /\ pid'["ph"] = p[1] /\ pid'["orp"] = o[1]
  <2>1. pid' = [d \in Dosing |-> IF d = "ph" THEN p[1] ELSE o[1]]
    BY <1>2
  <2> QED BY <1>7, <1>8, <2>1 DEF Dosing
<1>23. RegulatesWell
  <2>1. RunsFor(f, PidDelay) => Sustained
    <3>1. f["filtration"].on = fsm'["filtration"].on /\ f["filtration"].age = fsm'["filtration"].age
      BY <1>18 DEF Device
    <3>2. f["filtration"].age \in Nat /\ PidDelay \in Nat
      BY <1>3, Delays DEF Device, DeviceFsm
    <3> HIDE DEF f
    <3> QED BY <3>1, <3>2 DEF RunsFor, Sustained
  <2>2. \A d \in Dosing : old[d].started => pid[d].started /\ ~FiltrationEdge
    BY DEF Stopped
  <2> HIDE DEF f, old, want, flow
  <2> QED BY <1>7, <1>8, <1>12, <1>17, <1>22, <2>1, <2>2 DEF RegulatesWell, Dosing
<1>24. hist' \in History /\ RecordsWell
  <2> DEFINE cleaned == \/ hist.cleaned /\ ~newDay
                        \/ mode["auto"] /\ f["robot"].on /\ f["robot"].age >= RobotDuration
             idle == IF Rested(f, s, base(air)) THEN Least(hist.idle + 1, Seconds) ELSE 0
             hand == {d \in hist.byHand : relay[d]}
  <2>1. hist' = [hist EXCEPT !.byHand = hand, !.flow = FlowSeen, !.idle = idle,
                             !.cleaned = cleaned]
    BY <1>2
  <2>2. hist \in History /\ Seconds \in Nat /\ PidDelay \in Nat
    BY Types, Delays
  <2>3. FlowSeen \in Nat
    BY <2>2 DEF FlowSeen, Least, History
  <2>4. idle \in Nat
    BY <2>2 DEF Least, History
  <2>5. hand \in SUBSET Dosing /\ cleaned \in BOOLEAN
    BY <2>2 DEF History
  <2>6. idle = 0 \/ /\ mode["heater"] /\ ~ProbeDue(heat, s) /\ heat' = heat
                    /\ idle = Least(hist.idle + 1, Seconds)
    <3> HIDE DEF f, s, base
    <3> QED BY <1>2, <1>6 DEF Rested
  <2>7. cleaned => \/ hist.cleaned /\ ~newDay
                   \/ relay["robot"] /\ RobotDuration <= fsm'["robot"].age
    <3>1. f["robot"].on = relay["robot"] /\ fsm'["robot"].age = f["robot"].age
          /\ f["robot"].age \in Nat /\ RobotDuration \in Nat
      BY <1>3, <1>18, Delays DEF Device, DeviceFsm
    <3> HIDE DEF f
    <3> QED BY <3>1
  <2> HIDE DEF cleaned, idle, hand, f, s
  <2>8. hist' = [late |-> hist.late, idle |-> idle, flow |-> FlowSeen, cleaned |-> cleaned,
                 byHand |-> hand]
    BY <2>1, <2>2 DEF History
  <2>9. /\ hist'.late = hist.late /\ hist'.idle = idle /\ hist'.flow = FlowSeen
        /\ hist'.cleaned = cleaned /\ hist'.byHand = hand
    BY <2>8
  <2>10. hist' \in History
    BY <2>2, <2>3, <2>4, <2>5, <2>8 DEF History
  <2> QED BY <2>5, <2>6, <2>7, <2>9, <2>10 DEF RecordsWell, s, hand
<1> QED BY <1>2, <1>6, <1>17, <1>18, <1>19, <1>20, <1>21, <1>22, <1>23, <1>24
-----------------------------------------------------------------------------
(* What the second half of a pass, and the other tasks, do to the relays.    *)

Interlocked(r) == \A d \in Dependents : r[d] => r["filtration"]
Installed(r) == \A d \in Device \ install.devices : ~r[d]

(* PoolDevice: a relay that is switched may take its dependents along.       *)
LEMMA DrivenLemma ==
  ASSUME NEW r \in [Device -> BOOLEAN], NEW d \in Device, NEW on \in BOOLEAN
  PROVE  /\ Driven(r, d, on) \in [Device -> BOOLEAN]
         /\ Driven(r, d, on)[d] = on
         /\ \A e \in Device : Driven(r, d, on)[e] => r[e] \/ (e = d /\ on)
         /\ Interlocked(r) /\ (on /\ d \in Dependents => r["filtration"])
              => Interlocked(Driven(r, d, on))
<1>1. Dependents \subseteq Device /\ "filtration" \in Device \ Dependents
  BY DEF Dependents, Device
<1>2. \A e \in Device : Driven(r, d, on)[e] =
        IF e = d THEN on ELSE IF d = "filtration" /\ ~on /\ e \in Dependents THEN FALSE ELSE r[e]
  BY DEF Driven
<1>3. Driven(r, d, on) \in [Device -> BOOLEAN]
  BY DEF Driven
<1>4. ASSUME Interlocked(r), on /\ d \in Dependents => r["filtration"]
      PROVE  Interlocked(Driven(r, d, on))
  BY <1>1, <1>2, <1>4 DEF Interlocked
<1> QED BY <1>2, <1>3, <1>4

(* A device obeys the command of a pass, unless it waits for the filtration. *)
Obeys(d) ==
  d \in install.devices /\ Commands(d)
    => IF pass.want[d] THEN d = "filtration" => relay'[d] ELSE ~relay'[d]

(* The writes of a pass keep the interlocks, start nothing that was not     *)
(* wanted, and are obeyed by every device that does not refuse.             *)
LEMMA WriteAllLemma ==
  ASSUME TypeInv, NEW refused, relay' = WriteAll(refused)
  PROVE  /\ relay' \in [Device -> BOOLEAN] /\ Installed(relay')
         /\ \A d \in Device : relay'[d] => relay[d] \/ pass.want[d]
         /\ \A d \in Device \ refused : Obeys(d)
         /\ Interlocked(relay) => Interlocked(relay')
<1> DEFINE sent(d) == Commands(d) /\ d \in install.devices \ refused
           r == IF sent("filtration") THEN Driven(relay, "filtration", pass.want["filtration"])
                ELSE relay
<1>1. /\ "filtration" \in Device /\ relay \in [Device -> BOOLEAN]
      /\ pass.want \in [Device -> BOOLEAN] /\ Installed(relay)
      /\ Dependents \subseteq Device \ {"filtration"}
  BY DEF Device, TypeInv, TypeOK, Installed, Dependents
<1>2. /\ r \in [Device -> BOOLEAN]
      /\ \A d \in Device : r[d] => relay[d] \/ (d = "filtration" /\ pass.want[d] /\ sent(d))
      /\ sent("filtration") => r["filtration"] = pass.want["filtration"]
      /\ Interlocked(relay) => Interlocked(r)
  <2>1. "filtration" \notin Dependents
    BY <1>1
  <2>2. pass.want["filtration"] \in BOOLEAN
    BY <1>1
  <2>3. CASE sent("filtration")
    <3>1. r = Driven(relay, "filtration", pass.want["filtration"])
      BY <2>3
    <3> QED BY <1>1, <2>1, <2>2, <2>3, <3>1, DrivenLemma
  <2>4. CASE ~sent("filtration")
    BY <1>1, <2>4
  <2> QED BY <2>3, <2>4
<1> HIDE DEF r
<1>3. relay' = [d \in Device |-> IF d # "filtration" /\ sent(d) /\ Accepts(r, d, pass.want[d])
                                 THEN pass.want[d] ELSE r[d]]
  BY Zenon DEF WriteAll, r
<1>4. \A d \in Device :
        relay'[d] = IF d # "filtration" /\ sent(d) /\ Accepts(r, d, pass.want[d])
                    THEN pass.want[d] ELSE r[d]
  BY <1>3
<1>5. relay' \in [Device -> BOOLEAN]
  BY <1>1, <1>2, <1>3
<1>6. \A d \in Device : relay'[d] => relay[d] \/ pass.want[d]
  BY <1>2, <1>4
<1>7. Installed(relay')
  BY <1>1, <1>2, <1>4 DEF Installed
<1>8. ASSUME NEW d \in Device \ refused  PROVE Obeys(d)
  <2> SUFFICES ASSUME d \in install.devices, Commands(d)
               PROVE  IF pass.want[d] THEN d = "filtration" => relay'[d] ELSE ~relay'[d]
    BY DEF Obeys
  <2>1. sent(d)
    BY <1>8
  <2>2. CASE d = "filtration"
    BY <1>1, <1>2, <1>4, <2>1, <2>2
  <2>3. CASE d # "filtration" /\ ~pass.want[d]
    <3>1. Accepts(r, d, pass.want[d])
      BY <2>3 DEF Accepts
    <3> QED BY <1>4, <2>1, <2>3, <3>1
  <2> QED BY <1>8, <2>2, <2>3
<1>9. Interlocked(relay) => Interlocked(relay')
  BY <1>1, <1>2, <1>4 DEF Interlocked, Accepts
<1> QED BY <1>5, <1>6, <1>7, <1>8, <1>9

(* What Apply does: the commands are taken down, and a device counts as late *)
(* only if it did not have to obey, or was not commanded.                    *)
LateBound == RetryAfter + FillMinOn + 1

CountsWell ==
  \A k \in Rules : hist'.late[k] > 0 =>
    /\ hist'.late[k] = Least(hist.late[k] + 1, LateBound)
    /\ pass.off[k] /\ relay'[Subject[k]] /\ Obeys(Subject[k])
    /\ k = "dry" => ~relay'["filtration"] /\ Obeys("filtration")

(* The second half of a pass, field by field.                               *)
LEMMA ApplyFacts ==
  ASSUME TypeInv, Apply
  PROVE  /\ pass.pc = "apply" /\ pass' = NoPass
         /\ UNCHANGED <<install, mode, changed, window, reconcile, newDay, cleaningDone, pid,
                        heat, sec, active, lastCond>>
         /\ relay' \in [Device -> BOOLEAN] /\ Installed(relay')
         /\ \A d \in Device : relay'[d] => relay[d] \/ pass.want[d]
         /\ Interlocked(relay) => Interlocked(relay')
         /\ fsm' \in [Device -> DeviceFsm]
         /\ \A d \in Device :
              /\ fsm'[d].known = fsm[d].known /\ fsm'[d].on = fsm[d].on
              /\ fsm'[d].age = fsm[d].age /\ fsm'[d].lastDesired = pass.want[d]
              /\ fsm'[d].cmdAge = IF Commands(d) THEN 0 ELSE fsm[d].cmdAge
         /\ hist' \in History /\ hist'.idle = hist.idle /\ hist'.flow = hist.flow
         /\ hist'.cleaned = hist.cleaned /\ hist'.byHand = hist.byHand
         /\ CountsWell
<1>1. PICK refused \in SUBSET install.faulty :
        /\ relay' = WriteAll(refused)
        /\ hist' = [hist EXCEPT !.late = Late(relay', refused)]
  BY DEF Apply
<1>2. /\ pass.pc = "apply" /\ pass' = NoPass
      /\ UNCHANGED <<install, mode, changed, window, reconcile, newDay, cleaningDone, pid, heat,
                     sec, active, lastCond>>
      /\ fsm' = [d \in Device |-> [fsm[d] EXCEPT !.lastDesired = pass.want[d],
                                                 !.cmdAge = IF Commands(d) THEN 0 ELSE @]]
  BY DEF Apply, alarms
<1>3. ASSUME NEW d \in Device
      PROVE  fsm'[d] = [known |-> fsm[d].known, on |-> fsm[d].on, age |-> fsm[d].age,
                        lastDesired |-> pass.want[d],
                        cmdAge |-> IF Commands(d) THEN 0 ELSE fsm[d].cmdAge]
  <2> DEFINE c == IF Commands(d) THEN 0 ELSE fsm[d].cmdAge
  <2>1. fsm'[d] = [fsm[d] EXCEPT !.lastDesired = pass.want[d], !.cmdAge = c]
    BY <1>2
  <2>2. fsm[d] \in DeviceFsm
    BY Types
  <2> HIDE DEF c
  <2>3. fsm'[d] = [known |-> fsm[d].known, on |-> fsm[d].on, age |-> fsm[d].age,
                   lastDesired |-> pass.want[d], cmdAge |-> c]
    BY <2>1, <2>2 DEF DeviceFsm
  <2> QED BY <2>3 DEF c
<1>4. ASSUME NEW d \in Device
      PROVE  /\ fsm'[d].known = fsm[d].known /\ fsm'[d].on = fsm[d].on
             /\ fsm'[d].age = fsm[d].age /\ fsm'[d].lastDesired = pass.want[d]
             /\ fsm'[d].cmdAge = IF Commands(d) THEN 0 ELSE fsm[d].cmdAge
             /\ fsm'[d] \in DeviceFsm
  <2>1. fsm[d] \in DeviceFsm /\ RetryAfter \in Nat /\ pass.want[d] \in BOOLEAN
    BY Types, Delays DEF TypeInv, TypeOK
  <2> DEFINE c == IF Commands(d) THEN 0 ELSE fsm[d].cmdAge
  <2>2. c \in 0 .. RetryAfter
    BY <2>1 DEF DeviceFsm
  <2>3. fsm'[d] = [known |-> fsm[d].known, on |-> fsm[d].on, age |-> fsm[d].age,
                   lastDesired |-> pass.want[d], cmdAge |-> c]
    BY <1>3
  <2> HIDE DEF c
  <2>4. fsm'[d] \in DeviceFsm
    BY <2>1, <2>2, <2>3 DEF DeviceFsm
  <2>5. /\ fsm'[d].known = fsm[d].known /\ fsm'[d].on = fsm[d].on
        /\ fsm'[d].age = fsm[d].age /\ fsm'[d].lastDesired = pass.want[d] /\ fsm'[d].cmdAge = c
    BY <2>3
  <2> QED BY <2>4, <2>5 DEF c
<1>5. fsm' \in [Device -> DeviceFsm]
  <2>1. \A d \in Device : fsm'[d] \in DeviceFsm
    BY <1>4
  <2>2. fsm' = [d \in Device |-> fsm'[d]]
    BY <1>2
  <2> QED BY <2>1, <2>2
<1>6. /\ relay' \in [Device -> BOOLEAN] /\ Installed(relay')
      /\ \A d \in Device : relay'[d] => relay[d] \/ pass.want[d]
      /\ \A d \in Device \ refused : Obeys(d)
      /\ Interlocked(relay) => Interlocked(relay')
  BY <1>1, WriteAllLemma
<1> DEFINE late == Late(relay', refused)
<1>7. hist \in History /\ LateBound \in Nat
  BY Types, Delays DEF LateBound
<1>8. \A k \in Rules : Least(hist.late[k] + 1, LateBound) \in Nat
  BY <1>7 DEF History, Least
<1>9. late \in [Rules -> Nat]
  <2>1. late = [k \in Rules |->
          IF /\ pass.off[k] /\ relay'[Subject[k]] /\ Subject[k] \notin refused
             /\ k = "dry" => ~relay'["filtration"] /\ "filtration" \notin refused
             /\ k = "empty" => "ph" \notin hist.byHand
          THEN Least(hist.late[k] + 1, LateBound) ELSE 0]
    BY DEF Late, LateBound
  <2> HIDE DEF late
  <2> QED BY <1>8, <2>1
<1>10. ASSUME NEW k \in Rules, late[k] > 0
       PROVE  /\ late[k] = Least(hist.late[k] + 1, LateBound)
              /\ pass.off[k] /\ relay'[Subject[k]] /\ Subject[k] \notin refused
              /\ k = "dry" => ~relay'["filtration"] /\ "filtration" \notin refused
  BY <1>10 DEF Late, LateBound
<1>11. hist' = [late |-> late, idle |-> hist.idle, flow |-> hist.flow,
                cleaned |-> hist.cleaned, byHand |-> hist.byHand]
  <2>1. hist' = [hist EXCEPT !.late = late]
    BY <1>1
  <2> HIDE DEF late
  <2> QED BY <1>7, <2>1 DEF History
<1>12. \A k \in Rules : Subject[k] \in Device
  BY DEF Rules, Subject, Device
<1>13. /\ hist' \in History /\ hist'.late = late /\ hist'.idle = hist.idle
       /\ hist'.flow = hist.flow /\ hist'.cleaned = hist.cleaned /\ hist'.byHand = hist.byHand
  <2> HIDE DEF late
  <2> QED BY <1>7, <1>9, <1>11 DEF History
<1>14. CountsWell
  <2>1. "filtration" \in Device
    BY DEF Device
  <2> HIDE DEF late
  <2> QED BY <1>6, <1>10, <1>12, <1>13, <2>1 DEF CountsWell
<1> QED BY <1>2, <1>4, <1>5, <1>6, <1>13, <1>14
-----------------------------------------------------------------------------
(* The other tasks move relays and modes, but not what a pass has seen or    *)
(* decided, and a device they move counts anew.                              *)
OtherTask == \/ Operate \/ WindowEdge \/ DayStart
             \/ \E m \in Mode : ConfigEvent(m)
             \/ \E d \in Device : DeviceStops(d)
             \/ \E a \in AlarmIds : AlarmStep(a)

(* Relays moved by somebody else, with the interlocks of PoolDevice.         *)
MovesWell ==
  /\ relay' \in [Device -> BOOLEAN] /\ Installed(relay')
  /\ Interlocked(relay) => Interlocked(relay')
  /\ hist' \in History /\ hist'.idle = hist.idle /\ hist'.flow = hist.flow
  /\ hist'.cleaned = hist.cleaned /\ hist.byHand \subseteq hist'.byHand
  /\ \A d \in Dosing : relay'[d] /\ d \notin hist'.byHand => relay[d]
  /\ \A k \in Rules : hist'.late[k] > 0 =>
       /\ hist'.late[k] = hist.late[k] /\ relay'[Subject[k]] = relay[Subject[k]]
       /\ k = "dry" => ~relay'["filtration"] \/ relay' = relay

ModesWell ==
  /\ mode' \in [Mode -> BOOLEAN] /\ changed' \subseteq Mode /\ (mode'["heater"] => HeatAssisted)

PidsWell ==
  /\ pid' \in [Dosing -> PidStates]
  /\ \A d \in Dosing : /\ pid'[d].dose => pid'[d].started
                       /\ pid'[d].started => pid[d].started

AlarmsWell ==
  active' \in [AlarmIds -> BOOLEAN] /\ lastCond' \in [AlarmIds -> Alarm!CondState]

FlagsWell == {window', reconcile', newDay'} \subseteq BOOLEAN

(* No relay moves.                                                          *)
LEMMA UnmovedLemma ==
  ASSUME TypeInv, UNCHANGED <<install, relay, hist>>
  PROVE  MovesWell
BY Types DEF MovesWell, Installed, Interlocked, TypeInv, TypeOK, History

(* What is not touched stays well typed.                                    *)
LEMMA UnchangedLemma ==
  ASSUME TypeInv
  PROVE  /\ UNCHANGED <<mode, changed>> => ModesWell
         /\ UNCHANGED pid => PidsWell
         /\ UNCHANGED <<active, lastCond>> => AlarmsWell
         /\ UNCHANGED <<window, reconcile, newDay>> => FlagsWell
BY Types DEF ModesWell, PidsWell, AlarmsWell, FlagsWell, TypeInv, TypeOK, PidStates

(* Relays are moved by commands that PoolDevice accepts, or dropped.         *)
LEMMA MovedLemma ==
  ASSUME TypeInv, UNCHANGED install,
         relay' \in [Device -> BOOLEAN], Installed(relay'),
         Interlocked(relay) => Interlocked(relay'),
         NEW hand \in SUBSET Dosing, hist.byHand \subseteq hand,
         \A d \in Dosing : relay'[d] /\ d \notin hand => relay[d],
         hist' = [Moved(relay') EXCEPT !.byHand = hand]
  PROVE  MovesWell
<1> DEFINE late == [k \in Rules |->
      IF relay'[Subject[k]] = relay[Subject[k]] /\ (k = "dry" => ~relay'["filtration"])
      THEN hist.late[k] ELSE 0]
<1>1. hist \in History
  BY Types
<1>2. Moved(relay') = [hist EXCEPT !.late = late]
  BY DEF Moved
<1>3. late \in [Rules -> Nat]
  BY <1>1 DEF History
<1>4. \A k \in Rules : late[k] > 0 =>
        /\ late[k] = hist.late[k] /\ relay'[Subject[k]] = relay[Subject[k]]
        /\ k = "dry" => ~relay'["filtration"]
  OBVIOUS
<1> HIDE DEF late
<1>5. hist' = [late |-> late, idle |-> hist.idle, flow |-> hist.flow,
               cleaned |-> hist.cleaned, byHand |-> hand]
  <2>1. Moved(relay') = [late |-> late, idle |-> hist.idle, flow |-> hist.flow,
                         cleaned |-> hist.cleaned, byHand |-> hist.byHand]
    BY <1>1, <1>2 DEF History
  <2> QED BY <2>1
<1>6. /\ hist' \in History /\ hist'.late = late /\ hist'.idle = hist.idle
      /\ hist'.flow = hist.flow /\ hist'.cleaned = hist.cleaned /\ hist'.byHand = hand
  <2>1. /\ hist'.late = late /\ hist'.idle = hist.idle /\ hist'.flow = hist.flow
        /\ hist'.cleaned = hist.cleaned /\ hist'.byHand = hand
    BY <1>5
  <2>2. hist.idle \in Nat /\ hist.flow \in Nat /\ hist.cleaned \in BOOLEAN
    BY <1>1 DEF History
  <2>3. [late |-> late, idle |-> hist.idle, flow |-> hist.flow, cleaned |-> hist.cleaned,
         byHand |-> hand] \in History
    <3> DEFINE i == hist.idle  n == hist.flow  c == hist.cleaned
    <3>1. i \in Nat /\ n \in Nat /\ c \in BOOLEAN
      BY <2>2
    <3> HIDE DEF i, n, c
    <3>2. [late |-> late, idle |-> i, flow |-> n, cleaned |-> c, byHand |-> hand] \in History
      BY <1>3, <3>1 DEF History
    <3> QED BY <3>2 DEF i, n, c
  <2> QED BY <1>5, <2>1, <2>3
<1> QED BY <1>4, <1>6 DEF MovesWell

(* A command, or a stop by PoolDevice, as far as the relays go.              *)
LEMMA WrittenLemma ==
  ASSUME TypeInv, NEW d \in Device, NEW on \in BOOLEAN, NEW refused
  PROVE  LET r == Written(relay, d, on, refused) IN
         /\ r \in [Device -> BOOLEAN] /\ Installed(r)
         /\ \A e \in Device : r[e] => relay[e] \/ (e = d /\ on)
         /\ Interlocked(relay) => Interlocked(r)
<1> DEFINE r == Written(relay, d, on, refused)
<1>1. relay \in [Device -> BOOLEAN] /\ Installed(relay)
  BY DEF TypeInv, TypeOK, Installed
<1>2. CASE Accepts(relay, d, on) /\ d \notin refused
  <2>1. r = Driven(relay, d, on)
    BY <1>2 DEF Written
  <2>2. d \in install.devices /\ (on /\ d \in Dependents => relay["filtration"])
    BY <1>2 DEF Accepts
  <2> HIDE DEF r
  <2>3. /\ r \in [Device -> BOOLEAN]
        /\ \A e \in Device : r[e] => relay[e] \/ (e = d /\ on)
        /\ Interlocked(relay) => Interlocked(r)
    BY <1>1, <2>1, <2>2, DrivenLemma
  <2>4. Installed(r)
    BY <1>1, <2>2, <2>3 DEF Installed
  <2> QED BY <2>3, <2>4 DEF r
<1>3. CASE ~(Accepts(relay, d, on) /\ d \notin refused)
  BY <1>1, <1>3 DEF Written
<1> QED BY <1>2, <1>3

(* Every step of another task.                                               *)
Disturbs ==
  /\ UNCHANGED <<install, fsm, heat, sec, cleaningDone, pass>>
  /\ MovesWell /\ ModesWell /\ PidsWell /\ AlarmsWell /\ FlagsWell

(* An order to a device: it may end automatic mode and a regulation, and a  *)
(* pump it starts is remembered as started by hand.                         *)
LEMMA OperatorWriteFacts ==
  ASSUME TypeInv, NEW d \in Device, NEW on \in BOOLEAN, OperatorWrite(d, on)
  PROVE  Disturbs
<1>1. /\ UNCHANGED <<install, window, control, active, lastCond, pass>>
      /\ relay' = Written(relay, d, on, {})
      /\ changed' = changed \union {m \in Mode : mode'[m] # mode[m]}
  BY DEF OperatorWrite, alarms
<1>2. ModesWell
  <2> DEFINE mode1 == [mode EXCEPT !["auto"] = @ /\ d # "filtration"]
             ok == Accepts(relay, d, on)
  <2>1. PICK stored \in BOOLEAN :
          mode' = [m \in Mode |-> mode1[m] /\ ~(m = d /\ d \in Dosing /\ on /\ ok /\ stored)]
    BY DEF OperatorWrite
  <2>2. mode \in [Mode -> BOOLEAN] /\ changed \subseteq Mode /\ (mode["heater"] => HeatAssisted)
    BY Types DEF TypeInv
  <2>3. mode1 \in [Mode -> BOOLEAN] /\ \A m \in Mode : mode1[m] => mode[m]
    BY <2>2
  <2> HIDE DEF mode1, ok
  <2>4. mode' \in [Mode -> BOOLEAN] /\ \A m \in Mode : mode'[m] => mode[m]
    BY <2>1, <2>3
  <2>5. changed' \subseteq Mode
    BY <1>1, <2>2
  <2>6. HeatAssisted' = HeatAssisted
    BY <1>1 DEF HeatAssisted
  <2> QED BY <2>2, <2>4, <2>5, <2>6 DEF ModesWell, Mode
<1>3. MovesWell
  <2> DEFINE hand == hist.byHand \union (IF relay'[d] /\ d \in Dosing THEN {d} ELSE {})
  <2>1. hist' = [Moved(relay') EXCEPT !.byHand = hand]
    <3>1. hist' = [Moved(relay') EXCEPT !.byHand = @ \union (IF relay'[d] /\ d \in Dosing
                                                            THEN {d} ELSE {})]
      BY DEF OperatorWrite
    <3>2. Moved(relay').byHand = hist.byHand
      BY Types DEF Moved, History
    <3> QED BY <3>1, <3>2
  <2>2. hand \in SUBSET Dosing /\ hist.byHand \subseteq hand
    BY Types DEF History
  <2>3. /\ relay' \in [Device -> BOOLEAN] /\ Installed(relay')
        /\ \A e \in Device : relay'[e] => relay[e] \/ (e = d /\ on)
        /\ Interlocked(relay) => Interlocked(relay')
    BY <1>1, WrittenLemma
  <2>4. \A e \in Dosing : relay'[e] /\ e \notin hand => relay[e]
    BY <2>3 DEF Dosing, Device
  <2> HIDE DEF hand
  <2> QED BY <1>1, <2>1, <2>2, <2>3, <2>4, MovedLemma
<1> QED BY <1>1, <1>2, <1>3, UnchangedLemma DEF Disturbs, control

(* The commands that change modes; only an installation with a heat assist  *)
(* has a switch for it.                                                     *)
LEMMA ModeFacts ==
  ASSUME TypeInv
  PROVE  /\ \A m \in Mode : SetMode(m) => Disturbs
         /\ \A e, c \in BOOLEAN : SetDisinfection(e, c) => Disturbs
<1>1. mode \in [Mode -> BOOLEAN] /\ changed \subseteq Mode /\ (mode["heater"] => HeatAssisted)
  BY Types DEF TypeInv
<1>2. ASSUME NEW m \in Mode, SetMode(m)  PROVE Disturbs
  <2>1. /\ UNCHANGED <<install, relay, window, control, active, lastCond, pass, hist>>
        /\ m \in install.switches
        /\ mode' = [mode EXCEPT ![m] = ~@] /\ changed' \in {changed, changed \union {m}}
    BY <1>2 DEF SetMode, alarms
  <2>2. mode' \in [Mode -> BOOLEAN] /\ changed' \subseteq Mode
    BY <1>1, <2>1
  <2>3. mode'["heater"] => HeatAssisted
    BY <1>1, <2>1 DEF HeatAssisted, Mode
  <2>4. ModesWell
    BY <2>2, <2>3 DEF ModesWell
  <2> QED BY <2>1, <2>4, UnmovedLemma, UnchangedLemma DEF Disturbs, control
<1>3. ASSUME NEW e \in BOOLEAN, NEW c \in BOOLEAN, SetDisinfection(e, c)  PROVE Disturbs
  <2>1. /\ UNCHANGED <<install, relay, window, control, active, lastCond, pass, hist>>
        /\ changed' = changed \union {m \in Mode : mode'[m] # mode[m]}
    BY <1>3 DEF SetDisinfection, alarms
  <2>2. PICK stored \in SUBSET {"electrolyse", "orp"} :
         mode' = [mode EXCEPT !["electrolyse"] = IF "electrolyse" \in stored THEN e ELSE @,
                              !["orp"] = IF "orp" \in stored THEN c ELSE @]
    BY <1>3 DEF SetDisinfection
  <2>3. mode' \in [Mode -> BOOLEAN] /\ mode'["heater"] = mode["heater"]
    BY <1>1, <2>2 DEF Mode
  <2>4. ModesWell
    BY <1>1, <2>1, <2>3 DEF ModesWell
  <2> QED BY <2>1, <2>4, UnmovedLemma, UnchangedLemma DEF Disturbs, control
<1> QED BY <1>2, <1>3

(* Entering an automatic mode stops a pump or the heater, and a regulation  *)
(* starts anew.                                                             *)
LEMMA ConfigEventFacts ==
  ASSUME TypeInv, NEW m \in Mode, ConfigEvent(m)
  PROVE  Disturbs
<1>1. /\ UNCHANGED <<install, mode, window, fsm, newDay, cleaningDone, heat, sec, active,
                     lastCond, pass>>
      /\ changed' = changed \ {m}
      /\ reconcile' = (reconcile \/ (m = "auto" /\ mode["auto"]))
      /\ pid' = [d \in Dosing |-> IF m = d /\ mode[m] THEN Stopped ELSE pid[d]]
      /\ hist' = Moved(relay')
  BY DEF ConfigEvent, alarms
<1>2. PICK refused \in SUBSET install.faulty :
        relay' = IF m \in Dosing \union {"heater"} /\ mode[m]
                 THEN Written(relay, m, FALSE, refused) ELSE relay
  BY DEF ConfigEvent
<1>3. /\ relay' \in [Device -> BOOLEAN] /\ Installed(relay')
      /\ \A e \in Device : relay'[e] => relay[e]
      /\ Interlocked(relay) => Interlocked(relay')
  <2>1. CASE m \in Dosing \union {"heater"} /\ mode[m]
    <3>1. relay' = Written(relay, m, FALSE, refused) /\ m \in Device
      BY <1>2, <2>1 DEF Dosing, Device
    <3> QED BY <1>1, <3>1, WrittenLemma DEF Installed
  <2>2. CASE ~(m \in Dosing \union {"heater"} /\ mode[m])
    BY <1>1, <1>2, <2>2 DEF TypeInv, TypeOK, Installed
  <2> QED BY <2>1, <2>2
<1>4. MovesWell
  <2>1. hist' = [Moved(relay') EXCEPT !.byHand = hist.byHand]
    BY <1>1, Types DEF Moved, History
  <2>2. hist.byHand \in SUBSET Dosing
    BY Types DEF History
  <2>3. \A d \in Dosing : relay'[d] /\ d \notin hist.byHand => relay[d]
    BY <1>3 DEF Dosing, Device
  <2> QED BY <1>1, <1>3, <2>1, <2>2, <2>3, MovedLemma
<1>5. ModesWell
  <2>1. HeatAssisted' = HeatAssisted
    BY <1>1 DEF HeatAssisted
  <2> QED BY <1>1, <2>1, Types DEF ModesWell, TypeInv
<1>6. PidsWell
  <2>1. /\ pid \in [Dosing -> PidStates] /\ Stopped \in PidStates
        /\ \A d \in Dosing : pid[d].dose => pid[d].started
        /\ ~Stopped.started /\ ~Stopped.dose
    BY DEF TypeInv, TypeOK, PidStates, Stopped
  <2> QED BY <1>1, <2>1 DEF PidsWell
<1>7. FlagsWell
  BY <1>1, Types DEF FlagsWell
<1> QED BY <1>1, <1>4, <1>5, <1>6, <1>7, UnchangedLemma DEF Disturbs

(* PoolDevice drops a relay by itself, with its dependents.                 *)
LEMMA DeviceStopsFacts ==
  ASSUME TypeInv, NEW d \in Device, DeviceStops(d)
  PROVE  Disturbs
<1>1. /\ UNCHANGED <<install, mode, changed, window, control, active, lastCond, pass>>
      /\ relay' = Driven(relay, d, FALSE) /\ relay[d] /\ hist' = Moved(relay')
  BY DEF DeviceStops, alarms
<1>2. relay \in [Device -> BOOLEAN] /\ Installed(relay)
  BY DEF TypeInv, TypeOK, Installed
<1>3. /\ relay' \in [Device -> BOOLEAN]
      /\ \A e \in Device : relay'[e] => relay[e]
      /\ Interlocked(relay) => Interlocked(relay')
  BY <1>1, <1>2, DrivenLemma
<1>4. Installed(relay')
  BY <1>1, <1>2, <1>3 DEF Installed
<1>5. MovesWell
  <2>1. hist' = [Moved(relay') EXCEPT !.byHand = hist.byHand]
    BY <1>1, Types DEF Moved, History
  <2>2. hist.byHand \in SUBSET Dosing
    BY Types DEF History
  <2>3. \A e \in Dosing : relay'[e] /\ e \notin hist.byHand => relay[e]
    BY <1>3 DEF Dosing, Device
  <2> QED BY <1>1, <1>3, <1>4, <2>1, <2>2, <2>3, MovedLemma
<1> QED BY <1>1, <1>5, UnchangedLemma DEF Disturbs, control

(* An evaluation or a reset touches the alarms only.                        *)
LEMMA AlarmStepFacts ==
  ASSUME TypeInv, NEW a \in AlarmIds, AlarmStep(a)
  PROVE  Disturbs
<1>1. /\ UNCHANGED <<install, mode, changed, relay, window, control, pass, hist>>
      /\ Alarm!Reset(a) \/ \E c \in Condition(a) : Alarm!Evaluate(a, c)
  BY DEF AlarmStep
<1>2. active \in [AlarmIds -> BOOLEAN] /\ lastCond \in [AlarmIds -> Alarm!CondState]
  BY DEF TypeInv, TypeOK
<1>3. Condition(a) \subseteq Alarm!CondState
  BY DEF Condition, Alarm!CondState
<1>4. CASE Alarm!Reset(a)
  <2>1. active' = [active EXCEPT ![a] = FALSE] /\ lastCond' = lastCond
    BY <1>4 DEF Alarm!Reset
  <2>2. AlarmsWell
    BY <1>2, <2>1 DEF AlarmsWell
  <2> QED BY <1>1, <2>2, UnmovedLemma, UnchangedLemma DEF Disturbs, control
<1>5. ASSUME NEW c \in Condition(a), Alarm!Evaluate(a, c)  PROVE Disturbs
  <2>1. PICK on \in Alarm!Outcomes(a, c) : active' = [active EXCEPT ![a] = on]
    BY <1>5 DEF Alarm!Evaluate
  <2>2. on \in BOOLEAN
    BY <1>2 DEF Alarm!Outcomes
  <2>3. lastCond' = [lastCond EXCEPT ![a] = c]
    BY <1>5 DEF Alarm!Evaluate
  <2>4. AlarmsWell
    BY <1>2, <1>3, <2>1, <2>2, <2>3 DEF AlarmsWell
  <2> QED BY <1>1, <2>4, UnmovedLemma, UnchangedLemma DEF Disturbs, control
<1> QED BY <1>1, <1>4, <1>5

(* The steps of the other tasks together, and no step at all.                *)
LEMMA OtherTaskFacts ==
  ASSUME TypeInv, OtherTask \/ UNCHANGED vars
  PROVE  Disturbs
<1>1. CASE Operate
  BY <1>1, OperatorWriteFacts, ModeFacts DEF Operate
<1>2. CASE WindowEdge
  <2>1. /\ UNCHANGED <<install, mode, changed, relay, control, active, lastCond, pass, hist>>
        /\ window' = ~window
    BY <1>2 DEF WindowEdge, alarms
  <2>2. FlagsWell
    BY <2>1, Types DEF FlagsWell, control
  <2> QED BY <2>1, <2>2, UnmovedLemma, UnchangedLemma DEF Disturbs, control
<1>3. CASE DayStart
  <2>1. /\ UNCHANGED <<install, mode, changed, relay, window, fsm, reconcile, cleaningDone, pid,
                       heat, sec, active, lastCond, pass, hist>>
        /\ newDay' = TRUE
    BY <1>3 DEF DayStart, alarms
  <2>2. FlagsWell
    BY <2>1, Types DEF FlagsWell
  <2> QED BY <2>1, <2>2, UnmovedLemma, UnchangedLemma DEF Disturbs
<1>4. CASE UNCHANGED vars
  BY <1>4, UnmovedLemma, UnchangedLemma DEF Disturbs, vars, control, alarms
<1> QED
  BY <1>1, <1>2, <1>3, <1>4, ConfigEventFacts, DeviceStopsFacts, AlarmStepFacts DEF OtherTask
-----------------------------------------------------------------------------
(* The type invariant. *)

NextCases == Decide \/ Apply \/ OtherTask \/ UNCHANGED vars

(* A step is one half of a pass, a step of another task, or none.           *)
LEMMA NextLemma ==
  ASSUME [Next]_vars  PROVE NextCases
BY DEF Next, NextCases, OtherTask

(* What TypeOK says of the devices, from their record type.                  *)
LEMMA FsmTyped ==
  ASSUME NEW r \in DeviceFsm, NEW h, r.age <= h, h \in Nat
  PROVE  r \in [known : BOOLEAN, on : BOOLEAN, age : 0 .. h,
                lastDesired : BOOLEAN, cmdAge : 0 .. RetryAfter]
BY DEF DeviceFsm

(* The types hold at the start.                                             *)
LEMMA TypeInit ==
  ASSUME Init  PROVE TypeInv
<1> DEFINE dev == [known |-> FALSE, on |-> FALSE, age |-> 0, lastDesired |-> FALSE,
                   cmdAge |-> RetryAfter]
<1>1. /\ RetryAfter \in Nat /\ Seconds \in Nat \ {0}
      /\ install \in Installations /\ install \in Installation /\ mode = install.modes
      /\ \A d \in Device : Horizons[install][d] \in Nat
  BY Delays, HorizonsLemma, InstallationsAssumption DEF Init
<1>2. mode \in [Mode -> BOOLEAN] /\ changed \subseteq Mode
  BY <1>1 DEF Init, Installation
<1>3. fsm = [d \in Device |-> dev] /\ dev \in DeviceFsm
  BY <1>1 DEF Init, DeviceFsm
<1>4. /\ fsm \in [Device -> DeviceFsm]
      /\ \A d \in Device : fsm[d].age = 0 /\ ~fsm[d].known /\ ~fsm[d].on
  BY <1>3
<1>5. \A d \in Device : fsm[d] \in [known : BOOLEAN, on : BOOLEAN, age : 0 .. Horizons[install][d],
                                    lastDesired : BOOLEAN, cmdAge : 0 .. RetryAfter]
  BY <1>1, <1>4, FsmTyped
<1>6. relay \in [Device -> BOOLEAN] /\ \A d \in Device : ~relay[d]
  BY DEF Init
<1>7. pid \in [Dosing -> PidStates] /\ \A d \in Dosing : ~pid[d].dose
  BY DEF Init, Stopped, PidStates
<1>8. heat \in HeatStates /\ ~heat.probe
  BY <1>1 DEF Init, HeatStates
<1>9. sec \in 0 .. Seconds - 1 /\ {window, reconcile, newDay, cleaningDone} \subseteq BOOLEAN
  <2>1. sec = 0 /\ 0 \in 0 .. Seconds - 1
    BY <1>1 DEF Init
  <2>2. window = FALSE /\ reconcile = FALSE /\ newDay = FALSE /\ cleaningDone = FALSE
    BY DEF Init
  <2> QED BY <2>1, <2>2
<1>10. active \in [AlarmIds -> BOOLEAN] /\ lastCond \in [AlarmIds -> Alarm!CondState]
  BY DEF Init, Alarm!LatchInit, Alarm!CondState
<1>11. pass \in PassType
  BY DEF Init, NoPass, PassType
<1>12. hist \in History
  <2>1. hist = [late |-> [k \in Rules |-> 0], idle |-> 0, flow |-> 0, cleaned |-> FALSE,
                byHand |-> {}]
    BY DEF Init
  <2>2. [k \in Rules |-> 0] \in [Rules -> Nat]
    OBVIOUS
  <2> QED BY <2>1, <2>2 DEF History
<1>13. mode["heater"] => HeatAssisted
  BY <1>1 DEF HeatAssisted
<1> QED
  BY <1>1, <1>2, <1>4, <1>5, <1>6, <1>7, <1>8, <1>9, <1>10, <1>11, <1>12, <1>13
     DEF TypeInv, TypeOK, PidStates, HeatStates, PassType

(* Every step keeps the types.                                              *)
LEMMA TypeStep ==
  ASSUME TypeInv, [Next]_vars  PROVE TypeInv'
<1>1. /\ install \in Installations
      /\ \A d \in Device : Horizons[install][d] \in Nat
      /\ fsm \in [Device -> DeviceFsm] /\ hist \in History
      /\ \A d \in Device : fsm[d].age <= Horizons[install][d]
      /\ \A d \in Device : fsm[d].on => fsm[d].known
      /\ \A d \in Device : fsm[d].known => d \in install.devices
      /\ \A d \in Device : relay[d] => d \in install.devices
      /\ pass \in PassType /\ heat \in HeatStates /\ ~(heat.probe /\ heat.heating)
      /\ pid \in [Dosing -> PidStates] /\ \A d \in Dosing : pid[d].dose => pid[d].started
      /\ sec \in 0 .. Seconds - 1 /\ cleaningDone \in BOOLEAN
  BY HorizonsLemma DEF TypeInv, TypeOK, PassType, HeatStates, PidStates
<1>2. CASE Decide
  <2>1. /\ UNCHANGED <<install, mode, changed, relay, window, active, lastCond>>
        /\ newDay' = FALSE /\ reconcile' = FALSE /\ cleaningDone' = CleaningDone
        /\ sec' = IF HeatAssisted THEN (sec + 1) % Seconds ELSE sec
        /\ fsm' \in [Device -> DeviceFsm] /\ SeenFsm /\ pass' \in PassType
        /\ pid' \in [Dosing -> PidStates] /\ RegulatesWell
        /\ heat' \in HeatStates /\ ~(heat'.probe /\ heat'.heating) /\ hist' \in History
    BY <1>2, DecideFacts
  <2>2. \A d \in Device : fsm'[d] \in [known : BOOLEAN, on : BOOLEAN,
                             age : 0 .. Horizons[install][d],
                             lastDesired : BOOLEAN, cmdAge : 0 .. RetryAfter]
    BY <1>1, <2>1, FsmTyped DEF SeenFsm
  <2>3. /\ \A d \in Device : fsm'[d].on => fsm'[d].known
        /\ \A d \in Device \ install.devices : ~relay[d] /\ ~fsm'[d].known
    BY <1>1, <2>1 DEF SeenFsm
  <2>4. sec' \in 0 .. Seconds - 1
    BY <1>1, <2>1, ElapsedLemma
  <2>5. CleaningDone \in BOOLEAN
    BY <1>1 DEF CleaningDone, StopSeen
  <2>6. HeatAssisted' = HeatAssisted
    BY <2>1 DEF HeatAssisted
  <2>7. \A d \in Dosing : pid'[d].dose => pid'[d].started
    BY <2>1 DEF RegulatesWell
  <2> QED BY <1>1, <2>1, <2>2, <2>3, <2>4, <2>5, <2>6, <2>7
          DEF TypeInv, TypeOK, PidStates, HeatStates, PassType
<1>3. CASE Apply
  <2>1. /\ pass' = NoPass
        /\ UNCHANGED <<install, mode, changed, window, reconcile, newDay, cleaningDone, pid,
                       heat, sec, active, lastCond>>
        /\ relay' \in [Device -> BOOLEAN] /\ Installed(relay')
        /\ fsm' \in [Device -> DeviceFsm] /\ hist' \in History
        /\ \A d \in Device : /\ fsm'[d].known = fsm[d].known /\ fsm'[d].on = fsm[d].on
                             /\ fsm'[d].age = fsm[d].age
    BY <1>3, ApplyFacts
  <2>2. \A d \in Device : fsm'[d] \in [known : BOOLEAN, on : BOOLEAN,
                             age : 0 .. Horizons[install][d],
                             lastDesired : BOOLEAN, cmdAge : 0 .. RetryAfter]
    BY <1>1, <2>1, FsmTyped
  <2>3. pass' \in PassType
    BY <2>1 DEF NoPass, PassType
  <2>4. HeatAssisted' = HeatAssisted
    BY <2>1 DEF HeatAssisted
  <2> QED BY <1>1, <2>1, <2>2, <2>3, <2>4
          DEF TypeInv, TypeOK, PidStates, HeatStates, PassType, Installed
<1>4. CASE OtherTask \/ UNCHANGED vars
  <2>1. Disturbs
    BY <1>4, OtherTaskFacts
  <2>2. HeatAssisted' = HeatAssisted
    BY <2>1 DEF HeatAssisted, Disturbs
  <2> QED BY <1>1, <2>1, <2>2 DEF TypeInv, TypeOK, PidStates, Installed, Disturbs, MovesWell,
                           ModesWell, PidsWell, AlarmsWell, FlagsWell
<1> QED BY <1>2, <1>3, <1>4, NextLemma DEF NextCases
-----------------------------------------------------------------------------
(* Who waits to stop.  A pass that begins sees the device on, and its last   *)
(* command a pass older; the other tasks only let it count anew.             *)
LEMMA RulesTyped ==
  ASSUME TypeInv, NEW k \in Rules
  PROVE  /\ Subject[k] \in Device /\ hist.late[k] \in Nat
         /\ relay[Subject[k]] \in BOOLEAN /\ fsm[Subject[k]] \in DeviceFsm
         /\ pass.want[Subject[k]] \in BOOLEAN
<1>1. Subject[k] \in Device
  BY DEF Subject, Rules, Device
<1> QED BY <1>1, Types DEF History, TypeInv, TypeOK

(* A pass that begins keeps the bound, whether or not it reconciles.        *)
LEMMA WaitsThroughDecide ==
  ASSUME TypeInv, Decide, NEW k \in Rules, WaitsToStop(k)
  PROVE  WaitsToStop(k)'
<1> DEFINE d == Subject[k]  n == hist.late[k]  c == fsm[d].cmdAge
<1>1. /\ pass.pc = "rest" /\ pass'.pc = "apply" /\ relay' = relay /\ hist'.late = hist.late
      /\ SeenFsm
  BY DecideFacts DEF RecordsWell
<1>2. d \in Device /\ n \in Nat /\ c \in 0 .. RetryAfter /\ RetryAfter \in Nat
  BY RulesTyped, Delays DEF DeviceFsm
<1>3. fsm'[d].on = relay[d]
  BY <1>1, <1>2 DEF SeenFsm
<1>4. \/ fsm'[d].lastDesired = fsm[d].lastDesired /\ fsm'[d].cmdAge = Least(c + 1, RetryAfter)
      \/ fsm'[d].cmdAge = RetryAfter
  BY <1>1, <1>2 DEF SeenFsm
<1>5. n > 0 => relay[d] /\ (~fsm[d].lastDesired => n - 1 <= c)
  BY <1>1 DEF WaitsToStop
<1>6. hist'.late[k] = n /\ relay'[d] = relay[d]
  BY <1>1
<1> HIDE DEF d, n, c
<1>7. ASSUME n > 0, ~fsm'[d].lastDesired  PROVE Least(n, RetryAfter) <= fsm'[d].cmdAge
  BY <1>2, <1>4, <1>5, <1>7 DEF Least
<1> QED BY <1>1, <1>3, <1>5, <1>6, <1>7 DEF WaitsToStop, d

(* The other tasks keep the bound.                                          *)
LEMMA WaitsThroughOthers ==
  ASSUME TypeInv, Disturbs, NEW k \in Rules, WaitsToStop(k)
  PROVE  WaitsToStop(k)'
BY DEF WaitsToStop, Disturbs, MovesWell

(* A device that a pass wants off, and that is late afterwards, was not      *)
(* commanded: its last command is younger than the retry period.             *)
LEMMA UncommandedLemma ==
  ASSUME TypeInv, Apply, NEW k \in Rules, WaitsToStop(k), hist'.late[k] > 0,
         ~pass.want[Subject[k]]
  PROVE  /\ relay'[Subject[k]] /\ fsm'[Subject[k]].cmdAge = fsm[Subject[k]].cmdAge
         /\ hist.late[k] <= fsm[Subject[k]].cmdAge
         /\ hist.late[k] > 0 => hist.late[k] < RetryAfter
<1> DEFINE d == Subject[k]  n == hist.late[k]
<1>1. d \in Device /\ n \in Nat /\ fsm[d] \in DeviceFsm /\ RetryAfter \in Nat
  BY RulesTyped, Delays
<1>2. /\ relay'[d] /\ Obeys(d)
      /\ relay'[d] => relay[d] \/ pass.want[d]
      /\ fsm'[d].cmdAge = IF Commands(d) THEN 0 ELSE fsm[d].cmdAge
  BY <1>1, ApplyFacts DEF CountsWell
<1>3. relay[d] /\ d \in install.devices
  BY <1>1, <1>2 DEF TypeInv, TypeOK
<1>4. ~Commands(d)
  BY <1>2, <1>3 DEF Obeys
<1>5. /\ pass.want[d] = fsm[d].lastDesired
      /\ fsm[d].known /\ fsm[d].on # pass.want[d] => fsm[d].cmdAge < RetryAfter
  <2>1. fsm[d].cmdAge \in Nat
    BY <1>1 DEF DeviceFsm
  <2> QED BY <1>1, <1>4, <2>1 DEF Commands
<1>6. n > 0 => fsm[d].on /\ (~fsm[d].lastDesired => Least(n, RetryAfter) <= fsm[d].cmdAge)
  BY ApplyFacts DEF WaitsToStop
<1>7. fsm[d].on => fsm[d].known
  BY <1>1 DEF TypeInv
<1>8. fsm[d].cmdAge \in Nat /\ pass.want[d] = FALSE
  BY <1>1, RulesTyped DEF DeviceFsm
<1> HIDE DEF d, n
<1>9. n > 0 => n <= fsm[d].cmdAge /\ n < RetryAfter
  BY <1>1, <1>5, <1>6, <1>7, <1>8 DEF Least
<1> QED BY <1>1, <1>2, <1>4, <1>8, <1>9 DEF d, n

(* The count goes up by one.                                                 *)
LEMMA CountLemma ==
  ASSUME TypeInv, Apply, NEW k \in Rules, hist'.late[k] > 0, hist.late[k] <= RetryAfter + FillMinOn
  PROVE  hist'.late[k] = hist.late[k] + 1
<1>1. hist.late[k] \in Nat /\ RetryAfter \in Nat /\ FillMinOn \in Nat
  BY RulesTyped, Delays
<1>2. hist'.late[k] = Least(hist.late[k] + 1, LateBound)
  BY ApplyFacts DEF CountsWell
<1> QED BY <1>1, <1>2 DEF Least, LateBound
-----------------------------------------------------------------------------
(* A pressure alarm stops the filtration, a fault the electrolysis.          *)
LEMMA SafetyStep ==
  ASSUME TypeInv, SafetyInv, [Next]_vars  PROVE SafetyInv'
<1>1. {"psi", "fault"} \subseteq Rules
  BY DEF Rules
<1>2. CASE Decide
  <2>1. \A k \in {"psi", "fault"} : WaitsToStop(k)'
    BY <1>1, <1>2, WaitsThroughDecide DEF SafetyInv
  <2>2. WantsWell /\ hist'.late = hist.late
    BY <1>2, DecideFacts DEF RecordsWell
  <2> QED BY <2>1, <2>2 DEF SafetyInv, WantsWell
<1>3. CASE Apply
  <2>1. ASSUME NEW k \in {"psi", "fault"}
        PROVE  WaitsToStop(k)' /\ hist'.late[k] <= RetryAfter
    <3>1. /\ k \in Rules /\ hist.late[k] \in Nat /\ hist'.late[k] \in Nat
          /\ RetryAfter \in Nat \ {0} /\ FillMinOn \in Nat
      BY <1>1, <1>3, <2>1, RulesTyped, ApplyFacts, Delays DEF History
    <3>2. CASE hist'.late[k] > 0
      <4>1. pass.off[k] /\ pass.pc = "apply" /\ pass'.pc = "rest"
        BY <1>3, <3>1, <3>2, ApplyFacts DEF CountsWell, NoPass
      <4>2. ~pass.want[Subject[k]]
        BY <2>1, <4>1 DEF SafetyInv, Subject, Rules
      <4>3. WaitsToStop(k) /\ hist.late[k] <= RetryAfter
        BY <2>1 DEF SafetyInv
      <4>4. hist'.late[k] = hist.late[k] + 1
        BY <1>3, <3>1, <3>2, <4>3, CountLemma
      <4>5. /\ relay'[Subject[k]] /\ fsm'[Subject[k]].cmdAge = fsm[Subject[k]].cmdAge
            /\ hist.late[k] <= fsm[Subject[k]].cmdAge
            /\ hist.late[k] > 0 => hist.late[k] < RetryAfter
        BY <1>3, <3>1, <3>2, <4>2, <4>3, UncommandedLemma
      <4>6. hist'.late[k] <= RetryAfter
        BY <3>1, <4>4, <4>5
      <4>7. hist'.late[k] - 1 <= fsm'[Subject[k]].cmdAge
        BY <3>1, <4>4, <4>5
      <4> QED BY <4>1, <4>5, <4>6, <4>7 DEF WaitsToStop
    <3>3. CASE ~(hist'.late[k] > 0)
      BY <3>1, <3>3 DEF WaitsToStop
    <3> QED BY <3>2, <3>3
  <2>2. pass'.pc = "rest"
    BY <1>3, ApplyFacts DEF NoPass
  <2> QED BY <2>1, <2>2 DEF SafetyInv
<1>4. CASE OtherTask \/ UNCHANGED vars
  <2>1. Disturbs
    BY <1>4, OtherTaskFacts
  <2>2. \A k \in {"psi", "fault"} : WaitsToStop(k)'
    BY <1>1, <2>1, WaitsThroughOthers DEF SafetyInv
  <2>3. ASSUME NEW k \in {"psi", "fault"}  PROVE hist'.late[k] <= RetryAfter
    <3>1. k \in Rules /\ hist'.late[k] \in Nat /\ RetryAfter \in Nat
      BY <1>1, <2>1, Delays DEF Disturbs, MovesWell, History
    <3> QED BY <2>1, <3>1 DEF SafetyInv, Disturbs, MovesWell
  <2> QED BY <2>1, <2>2, <2>3 DEF SafetyInv, Disturbs
<1> QED BY <1>2, <1>3, <1>4, NextLemma DEF NextCases
-----------------------------------------------------------------------------
(* The filling valve: a pass keeps it open only for its minimum time.        *)
LEMMA FillDecide ==
  ASSUME TypeInv, FillInv, Decide  PROVE FillInv'
<1> DEFINE n == hist.late["fill"]  a == fsm["filling"].age  a1 == fsm'["filling"].age
           F == FillMinOn
<1>1. /\ "fill" \in Rules /\ Subject["fill"] = "filling" /\ "filling" \in Device
      /\ install \in Installations
  BY DEF Rules, Subject, Device, TypeInv, TypeOK
<1>2. /\ n \in Nat /\ a \in Nat /\ F \in Nat /\ Horizons[install]["filling"] = F
      /\ fsm["filling"].on \in BOOLEAN /\ relay["filling"] \in BOOLEAN
  BY <1>1, RulesTyped, HorizonsLemma, Delays DEF DeviceFsm
<1>3. /\ pass.pc = "rest" /\ pass'.pc = "apply" /\ hist'.late = hist.late /\ SeenFsm /\ WantsWell
  BY DecideFacts DEF RecordsWell
<1>4. WaitsToStop("fill")'
  BY <1>1, WaitsThroughDecide DEF FillInv
<1>5. /\ fsm'["filling"].on = relay["filling"]
      /\ fsm["filling"].on => fsm["filling"].known
      /\ a1 = IF fsm["filling"].on = relay["filling"]
                 /\ (fsm["filling"].known \/ "filling" \notin install.devices)
              THEN Least(a + 1, F) ELSE 0
  BY <1>1, <1>2, <1>3 DEF SeenFsm, TypeInv
<1>6. n > 0 => relay["filling"]
  BY <1>1 DEF FillInv, WaitsToStop
<1>7. /\ n > 0 => F <= a \/ n <= a + 2 \/ ~fsm["filling"].on
      /\ n > 1 => fsm["filling"].on
  BY <1>3 DEF FillInv
<1>8. a1 \in Nat
  <2> HIDE DEF a, F
  <2> QED BY <1>2, <1>5 DEF Least
<1>9. n > 0 => F <= a1 \/ n <= a1 + 1
  <2> HIDE DEF n, a, a1, F
  <2>1. CASE fsm["filling"].on /\ n > 0
    <3>1. fsm["filling"].on = relay["filling"] /\ fsm["filling"].known
      BY <1>2, <1>5, <1>6, <2>1
    <3>2. a1 = Least(a + 1, F) /\ (F <= a \/ n <= a + 2)
      BY <1>5, <1>7, <2>1, <3>1
    <3> QED BY <1>2, <3>2 DEF Least
  <2>2. CASE ~fsm["filling"].on
    BY <1>2, <1>7, <1>8, <2>2
  <2> QED BY <2>1, <2>2
<1>10. hist'.late["fill"] = n
  BY <1>3
<1>11. n > 1 => fsm'["filling"].on
  BY <1>2, <1>5, <1>6
<1> QED BY <1>3, <1>4, <1>9, <1>10, <1>11 DEF FillInv, FillingEnds, WantsWell

(* A pass that ends leaves the valve open for its minimum time, or waiting. *)
LEMMA FillApply ==
  ASSUME TypeInv, FillInv, Apply  PROVE FillInv'
<1> DEFINE n == hist.late["fill"]  a == fsm["filling"].age  n1 == hist'.late["fill"]
           F == FillMinOn  c == fsm["filling"].cmdAge
<1>1. "fill" \in Rules /\ Subject["fill"] = "filling" /\ "filling" \in Device
  BY DEF Rules, Subject, Device
<1>2. n \in Nat /\ n1 \in Nat /\ a \in Nat /\ F \in Nat /\ RetryAfter \in Nat \ {0} /\ c \in Nat
  BY <1>1, RulesTyped, ApplyFacts, Delays DEF DeviceFsm, History
<1>3. /\ pass.pc = "apply" /\ pass'.pc = "rest"
      /\ fsm'["filling"].age = a /\ fsm'["filling"].on = fsm["filling"].on
      /\ fsm'["filling"].lastDesired = pass.want["filling"]
  BY <1>1, ApplyFacts DEF NoPass
<1>4. CASE n1 > 0
  <2>1. /\ WaitsToStop("fill") /\ n <= F + RetryAfter
        /\ n > 0 => (F <= a \/ n <= a + 1) /\ fsm["filling"].on
        /\ pass.off["fill"] /\ pass.want["filling"] => a < F
    BY <1>1, <1>3 DEF FillInv, FillingEnds, WaitsToStop
  <2>2. n1 = n + 1
    BY <1>1, <1>2, <1>4, <2>1, CountLemma
  <2>3. pass.off["fill"] /\ relay'["filling"]
    BY <1>1, <1>4, ApplyFacts DEF CountsWell
  <2>4. n > 0 => fsm'["filling"].on
    BY <1>3, <2>1
  <2>5. CASE pass.want["filling"]
    <3>1. WaitsToStop("fill")'
      BY <1>1, <1>3, <2>3, <2>5 DEF WaitsToStop
    <3>2. n1 <= a + 2 /\ n1 <= F + RetryAfter
      <4> HIDE DEF n, a, n1, F
      <4> QED BY <1>2, <2>1, <2>2, <2>3, <2>5
    <3>3. n1 > 1 => fsm'["filling"].on
      <4> HIDE DEF n, n1
      <4> QED BY <1>2, <2>2, <2>4
    <3> QED BY <1>3, <3>1, <3>2, <3>3 DEF FillInv, FillingEnds
  <2>6. CASE ~pass.want["filling"]
    <3>1. fsm'["filling"].cmdAge = c /\ n <= c /\ (n > 0 => n < RetryAfter)
      BY <1>1, <1>4, <2>1, <2>6, UncommandedLemma
    <3>2. n1 - 1 <= c /\ n1 <= RetryAfter /\ n1 <= F + RetryAfter /\ (F <= a \/ n1 <= a + 2)
      <4> HIDE DEF n, a, n1, F, c
      <4> QED BY <1>2, <2>1, <2>2, <3>1
    <3>3. n1 > 1 => fsm'["filling"].on
      <4> HIDE DEF n, n1
      <4> QED BY <1>2, <2>2, <2>4
    <3>4. WaitsToStop("fill")'
      BY <1>1, <1>3, <2>3, <3>1, <3>2 DEF WaitsToStop
    <3> QED BY <1>3, <3>2, <3>3, <3>4 DEF FillInv, FillingEnds
  <2> QED BY <2>5, <2>6
<1>5. CASE ~(n1 > 0)
  <2>1. n1 <= F + RetryAfter /\ ~(n1 > 1)
    <3> HIDE DEF n1, F
    <3> QED BY <1>2, <1>5
  <2> QED BY <1>3, <1>5, <2>1 DEF FillInv, FillingEnds, WaitsToStop
<1> QED BY <1>4, <1>5

(* Every step keeps the bound of the valve.                                 *)
LEMMA FillStep ==
  ASSUME TypeInv, FillInv, [Next]_vars  PROVE FillInv'
<1>1. CASE OtherTask \/ UNCHANGED vars
  <2>1. Disturbs /\ "fill" \in Rules
    BY <1>1, OtherTaskFacts DEF Rules
  <2>2. WaitsToStop("fill")'
    BY <2>1, WaitsThroughOthers DEF FillInv
  <2>3. hist'.late["fill"] \in Nat /\ FillMinOn + RetryAfter \in Nat
    BY <2>1, Delays DEF Disturbs, MovesWell, History
  <2>4. /\ hist'.late["fill"] > 0 => hist'.late["fill"] = hist.late["fill"]
        /\ fsm' = fsm /\ pass' = pass
    BY <2>1 DEF Disturbs, MovesWell
  <2>5. FillingEnds'
    BY <2>3, <2>4 DEF FillInv, FillingEnds
  <2>6. CASE hist'.late["fill"] > 0
    BY <2>2, <2>4, <2>5, <2>6 DEF FillInv
  <2>7. CASE ~(hist'.late["fill"] > 0)
    <3>1. ~(hist'.late["fill"] > 1)
      BY <2>3, <2>7
    <3> QED BY <2>2, <2>4, <2>5, <2>7, <3>1 DEF FillInv
  <2> QED BY <2>6, <2>7
<1> QED BY <1>1, FillDecide, FillApply, NextLemma DEF NextCases
-----------------------------------------------------------------------------
(* The heater: without flow it waits to stop, or the filtration to start.    *)
LEMMA DryDecide ==
  ASSUME TypeInv, DryInv, Decide  PROVE DryInv'
<1> DEFINE n == hist.late["dry"]  c == fsm["filtration"].cmdAge
<1>1. /\ "dry" \in Rules /\ Subject["dry"] = "heater" /\ {"heater", "filtration"} \subseteq Device
  BY DEF Rules, Subject, Device
<1>2. n \in Nat /\ c \in 0 .. RetryAfter /\ RetryAfter \in Nat
  BY <1>1, RulesTyped, Types, Delays DEF DeviceFsm
<1>3. /\ pass.pc = "rest" /\ pass'.pc = "apply" /\ hist'.late = hist.late /\ relay' = relay
      /\ install' = install /\ SeenFsm /\ WantsWell
  BY DecideFacts DEF RecordsWell
<1>4. WaitsToStop("dry")' /\ NoDryHeating'
  BY <1>1, <1>3, WaitsThroughDecide DEF DryInv, NoDryHeating
<1>5. CASE n > 0
  <2>1. relay["heater"] /\ ~relay["filtration"]
    BY <1>1, <1>5 DEF DryInv, WaitsToStop
  <2>2. "filtration" \in install.devices
    BY <1>1, <2>1, Types DEF TypeInv, TypeOK
  <2>3. fsm'["filtration"].known /\ ~fsm'["filtration"].on
    BY <1>1, <1>3, <2>1, <2>2 DEF SeenFsm
  <2>4. pass'.off["dry"] /\ pass'.want["heater"] => pass'.want["filtration"]
    BY <1>3, <2>1 DEF WantsWell
  <2>5. n <= RetryAfter /\ (fsm["filtration"].lastDesired => n - 1 <= c)
    BY <1>3, <1>5 DEF DryInv, NoDryHeating
  <2>6. \/ /\ fsm'["filtration"].lastDesired = fsm["filtration"].lastDesired
           /\ fsm'["filtration"].cmdAge = Least(c + 1, RetryAfter)
        \/ fsm'["filtration"].lastDesired = ~pass'.want["filtration"]
    BY <1>1, <1>3 DEF SeenFsm
  <2>7. fsm'["filtration"].lastDesired /\ pass'.want["filtration"]
          => n <= fsm'["filtration"].cmdAge
    <3>1. CASE fsm'["filtration"].cmdAge = Least(c + 1, RetryAfter)
               /\ fsm'["filtration"].lastDesired = fsm["filtration"].lastDesired
      <4>1. fsm["filtration"].lastDesired => n <= Least(c + 1, RetryAfter)
        <5> HIDE DEF n, c
        <5> QED BY <1>2, <2>5 DEF Least
      <4> QED BY <3>1, <4>1
    <3>2. CASE fsm'["filtration"].lastDesired = ~pass'.want["filtration"]
      BY <3>2
    <3> QED BY <2>6, <3>1, <3>2
  <2> QED BY <1>3, <1>4, <2>1, <2>3, <2>4, <2>7 DEF DryInv
<1>6. CASE ~(n > 0)
  BY <1>3, <1>4, <1>6 DEF DryInv
<1> QED BY <1>5, <1>6

(* A pass that ends leaves the heater without flow only while a command that*)
(* was not followed is younger than the retry period.                       *)
LEMMA DryApply ==
  ASSUME TypeInv, DryInv, Apply  PROVE DryInv'
<1> DEFINE n == hist.late["dry"]  c == fsm["filtration"].cmdAge  n1 == hist'.late["dry"]
           h == fsm["heater"].cmdAge
<1>1. /\ "dry" \in Rules /\ Subject["dry"] = "heater" /\ {"heater", "filtration"} \subseteq Device
  BY DEF Rules, Subject, Device
<1>2. /\ n \in Nat /\ n1 \in Nat /\ c \in Nat /\ h \in Nat /\ RetryAfter \in Nat \ {0}
      /\ FillMinOn \in Nat
  BY <1>1, RulesTyped, ApplyFacts, Types, Delays DEF DeviceFsm, History
<1>3. /\ pass.pc = "apply" /\ pass'.pc = "rest"
      /\ \A d \in Device : /\ fsm'[d].lastDesired = pass.want[d]
                           /\ fsm'[d].cmdAge = IF Commands(d) THEN 0 ELSE fsm[d].cmdAge
  BY ApplyFacts DEF NoPass
<1>4. CASE n1 > 0
  <2>1. /\ pass.off["dry"] /\ relay'["heater"] /\ ~relay'["filtration"]
        /\ Obeys("filtration")
    BY <1>1, <1>4, ApplyFacts DEF CountsWell
  <2>2. n <= RetryAfter /\ WaitsToStop("dry")
    BY DEF DryInv, NoDryHeating
  <2>3. n <= RetryAfter + FillMinOn
    <3> HIDE DEF n
    <3> QED BY <1>2, <2>2
  <2>4. n1 = n + 1
    BY <1>1, <1>4, <2>3, CountLemma
  <2>5. CASE n = 0
    <3>1. n1 = 1 /\ 1 <= RetryAfter /\ fsm'["filtration"].cmdAge \in Nat
          /\ fsm'["heater"].cmdAge \in Nat
      BY <1>1, <1>2, <1>3, <2>4, <2>5
    <3>2. n1 - 1 <= fsm'["filtration"].cmdAge /\ n1 - 1 <= fsm'["heater"].cmdAge
      <4> HIDE DEF n1
      <4> QED BY <3>1
    <3> QED BY <1>1, <1>3, <2>1, <3>1, <3>2 DEF DryInv, WaitsToStop, NoDryHeating
  <2>6. CASE n > 0
    <3>1. /\ relay["heater"] /\ fsm["filtration"].known /\ ~fsm["filtration"].on
          /\ pass.want["heater"] => pass.want["filtration"]
          /\ fsm["filtration"].lastDesired /\ pass.want["filtration"] => n <= c
      BY <1>1, <1>3, <2>1, <2>6 DEF DryInv, WaitsToStop
    <3>2. "filtration" \in install.devices
      BY <1>1, <3>1, Types DEF TypeInv, TypeOK
    <3>3. ASSUME pass.want["filtration"]
          PROVE  n <= c /\ c < RetryAfter /\ fsm'["filtration"].cmdAge = c
      <4>1. ~Commands("filtration")
        BY <2>1, <3>2, <3>3 DEF Obeys
      <4>2. fsm["filtration"].lastDesired
        BY <1>1, <3>3, <4>1, Types DEF Commands, TypeInv, TypeOK, DeviceFsm
      <4>3. c < RetryAfter
        <5>1. fsm["filtration"].on # pass.want["filtration"]
          BY <3>1, <3>3
        <5>2. ~(c >= RetryAfter)
          BY <3>1, <4>1, <5>1 DEF Commands
        <5> HIDE DEF c
        <5> QED BY <1>2, <5>2
      <4> QED BY <1>1, <1>3, <3>1, <3>3, <4>1, <4>2, <4>3
    <3>4. ASSUME ~pass.want["heater"]
          PROVE  n <= h /\ n < RetryAfter /\ fsm'["heater"].cmdAge = h
      BY <1>1, <1>4, <2>2, <2>6, <3>4, UncommandedLemma
    <3>5. n < RetryAfter
      <4>1. pass.want["heater"] \/ ~pass.want["heater"]
        OBVIOUS
      <4>2. CASE pass.want["heater"]
        <5>1. n <= c /\ c < RetryAfter
          BY <3>1, <3>3, <4>2
        <5> HIDE DEF n, c
        <5> QED BY <1>2, <5>1
      <4> QED BY <3>4, <4>1, <4>2
    <3>6. n1 <= RetryAfter
      <4> HIDE DEF n, n1
      <4> QED BY <1>2, <2>4, <3>5
    <3>7. pass.want["filtration"] => n1 - 1 <= fsm'["filtration"].cmdAge
      <4> HIDE DEF n, n1
      <4> QED BY <1>2, <2>4, <3>3
    <3>8. ~pass.want["heater"] => n1 - 1 <= fsm'["heater"].cmdAge
      <4> HIDE DEF n, n1
      <4> QED BY <1>2, <2>4, <3>4
    <3> QED BY <1>1, <1>3, <2>1, <3>6, <3>7, <3>8 DEF DryInv, WaitsToStop, NoDryHeating
  <2> QED BY <1>2, <2>5, <2>6
<1>5. CASE ~(n1 > 0)
  <2>1. n1 <= RetryAfter
    <3> HIDE DEF n1
    <3> QED BY <1>2, <1>5
  <2> QED BY <1>3, <1>5, <2>1 DEF DryInv, NoDryHeating, WaitsToStop
<1> QED BY <1>4, <1>5

(* Every step keeps the bound of the heater.                                *)
LEMMA DryStep ==
  ASSUME TypeInv, DryInv, [Next]_vars  PROVE DryInv'
<1>1. CASE OtherTask \/ UNCHANGED vars
  <2>1. Disturbs /\ "dry" \in Rules
    BY <1>1, OtherTaskFacts DEF Rules
  <2>2. WaitsToStop("dry")'
    BY <2>1, WaitsThroughOthers DEF DryInv
  <2>3. hist'.late["dry"] \in Nat /\ RetryAfter \in Nat
    BY <2>1, Delays DEF Disturbs, MovesWell, History
  <2>4. /\ hist'.late["dry"] > 0 => /\ hist'.late["dry"] = hist.late["dry"]
                                    /\ ~relay'["filtration"] \/ relay' = relay
        /\ fsm' = fsm /\ pass' = pass
    BY <2>1 DEF Disturbs, MovesWell
  <2>5. NoDryHeating'
    BY <2>3, <2>4 DEF DryInv, NoDryHeating
  <2> QED BY <2>2, <2>4, <2>5 DEF DryInv
<1> QED BY <1>1, DryDecide, DryApply, NextLemma DEF NextCases
-----------------------------------------------------------------------------
(* The heat assist at rest: every pass it rests is a second of its clock.    *)
LEMMA IdleStep ==
  ASSUME TypeInv, IdleInv, [Next]_vars  PROVE IdleInv'
<1>1. CASE Decide
  <2> DEFINE i == hist.idle  e == Elapsed(heat.lastEnd, sec)  next == (sec + 1) % Seconds
             e1 == Elapsed(heat.lastEnd, next)
  <2>1. /\ sec' = IF HeatAssisted THEN next ELSE sec
        /\ RecordsWell
    BY <1>1, DecideFacts
  <2>2. CASE hist'.idle > 0
    <3>1. /\ mode["heater"] /\ ~ProbeDue(heat, next) /\ heat' = heat
          /\ hist'.idle = Least(i + 1, Seconds)
      BY <2>1, <2>2 DEF RecordsWell
    <3>2. HeatAssisted /\ sec' = next
      BY <2>1, <3>1 DEF TypeInv
    <3>3. /\ i \in Nat /\ Seconds \in Nat \ {0} /\ IdleSlow \in Nat /\ IdleFast \in Nat
          /\ IdleFast <= IdleSlow /\ IdleSlow < Seconds
          /\ heat.lastEnd \in 0 .. Seconds - 1 /\ sec \in 0 .. Seconds - 1
      BY Types, Delays DEF History, TypeInv, TypeOK
    <3>4. /\ next \in 0 .. Seconds - 1 /\ e \in 0 .. Seconds - 1
          /\ e + 1 < Seconds => e1 = e + 1
      BY <3>3, ElapsedLemma
    <3>5. e1 \in 0 .. Seconds - 1
      BY <3>3, <3>4, ElapsedLemma
    <3>6. heat.lastEnd # 0 /\ ~(e1 >= (IF heat.fast THEN IdleFast ELSE IdleSlow))
      BY <3>1 DEF ProbeDue
    <3>7. e1 < IdleSlow
      <4> HIDE DEF e1
      <4>1. CASE heat.fast
        BY <3>3, <3>5, <3>6, <4>1
      <4>2. CASE ~heat.fast
        BY <3>3, <3>5, <3>6, <4>2
      <4> QED BY <4>1, <4>2
    <3>8. i > 0 => i - 1 <= e /\ e < IdleSlow
      BY DEF IdleInv
    <3>9. Least(i + 1, Seconds) - 1 <= e1
      <4> HIDE DEF i, e, e1, next
      <4> QED BY <3>3, <3>4, <3>5, <3>8 DEF Least
    <3> QED BY <3>1, <3>2, <3>6, <3>7, <3>9 DEF IdleInv
  <2>3. CASE ~(hist'.idle > 0)
    BY <2>3 DEF IdleInv
  <2> QED BY <2>2, <2>3
<1>2. CASE Apply
  BY <1>2, ApplyFacts DEF IdleInv
<1>3. CASE OtherTask \/ UNCHANGED vars
  BY <1>3, OtherTaskFacts DEF IdleInv, Disturbs, MovesWell
<1> QED BY <1>1, <1>2, <1>3, NextLemma DEF NextCases
-----------------------------------------------------------------------------
(* Dosing: the flow a pass has seen is as old as the filtration it sees on.  *)
LEMMA DoseDecide ==
  ASSUME TypeInv, DoseInv, Decide  PROVE DoseInv'
<1> DEFINE a == fsm["filtration"].age  a1 == fsm'["filtration"].age
           n == hist.flow  n1 == hist'.flow  H == Horizons[install]["filtration"]
           on == fsm["filtration"].on  run == relay["filtration"]
<1>1. /\ UNCHANGED <<install, relay>> /\ SeenFsm /\ RegulatesWell /\ RecordsWell
      /\ pass.pc = "rest" /\ pass'.pc = "apply"
  BY DecideFacts
<1>2. "filtration" \in Device /\ Dosing \subseteq Device /\ Dosing \subseteq Dependents
  BY DEF Device, Dosing, Dependents
<1>3. /\ a \in Nat /\ n \in Nat /\ PidDelay \in Nat /\ H \in Nat
      /\ on \in BOOLEAN /\ run \in BOOLEAN
  BY <1>2, Types, Delays, HorizonsLemma DEF DeviceFsm, History, TypeInv, TypeOK
<1>4. /\ fsm'["filtration"].on = run
      /\ a1 = IF on = run /\ (fsm["filtration"].known \/ "filtration" \notin install.devices)
              THEN Least(a + 1, H) ELSE 0
  BY <1>1, <1>2 DEF SeenFsm
<1>5. /\ on => fsm["filtration"].known
      /\ fsm["filtration"].known => "filtration" \in install.devices
      /\ run => "filtration" \in install.devices
  BY <1>2 DEF TypeInv, TypeOK
<1>6. ASSUME NEW d \in Dosing \intersect install.devices
      PROVE  /\ fsm'["filtration"].on => Least(a1, PidDelay) <= n1
             /\ pid'[d].started => fsm'["filtration"].on /\ PidDelay <= n1
             /\ d \notin hist'.byHand =>
                  /\ relay'[d] => Steady'
                  /\ pass'.pc = "apply" /\ pass'.want[d] => Steady'
  <2>1. n1 = IF run /\ ~StartSeen("filtration") THEN Least(n + 1, PidDelay + 1) ELSE 0
    BY <1>1, <1>6 DEF RecordsWell, FlowSeen
  <2>2. on => Least(a, PidDelay) <= n
    BY DEF DoseInv
  <2>3. pid[d].started => on /\ PidDelay <= n
    BY DEF DoseInv
  <2>4. StartSeen("filtration") = ("filtration" \in install.devices
                                   /\ fsm["filtration"].known /\ ~on /\ run)
    BY DEF StartSeen
  <2>5. ASSUME on, run, PidDelay <= n  PROVE n1 = PidDelay + 1
    <3>1. n1 = Least(n + 1, PidDelay + 1)
      BY <2>1, <2>4, <2>5
    <3> HIDE DEF n, n1
    <3> QED BY <1>3, <2>5, <3>1 DEF Least
  <2>6. run => Least(a1, PidDelay) <= n1
    <3>1. CASE run /\ on
      <4>1. a1 = Least(a + 1, H) /\ n1 = Least(n + 1, PidDelay + 1)
        BY <1>3, <1>4, <1>5, <2>1, <2>4, <3>1
      <4> HIDE DEF a, a1, n, n1, H
      <4> QED BY <1>3, <2>2, <3>1, <4>1 DEF Least
    <3>2. CASE run /\ ~on
      <4>1. a1 = 0
        BY <1>3, <1>4, <3>2
      <4>2. n1 \in Nat
        <5> HIDE DEF n, run
        <5> QED BY <1>3, <2>1 DEF Least
      <4> HIDE DEF a1, n1
      <4> QED BY <1>3, <4>1, <4>2 DEF Least
    <3> QED BY <3>1, <3>2
  <2>7. pid[d].started /\ ~FiltrationEdge => run /\ n1 = PidDelay + 1
    <3>1. ASSUME pid[d].started, ~FiltrationEdge  PROVE run
      BY <1>5, <2>3, <3>1 DEF FiltrationEdge, StopSeen
    <3> QED BY <2>3, <2>5, <3>1
  <2>8. pid'[d].started => run /\ PidDelay <= n1
    <3>1. Sustained => run /\ PidDelay <= n1
      <4>1. ASSUME Sustained  PROVE run /\ PidDelay <= a1
        BY <1>4, <4>1 DEF Sustained
      <4>2. a1 \in Nat
        <5> HIDE DEF a, H, on, run
        <5> QED BY <1>3, <1>4 DEF Least
      <4> HIDE DEF a1, n1
      <4>3. run /\ PidDelay <= a1 => PidDelay <= n1
        BY <1>3, <2>6, <4>2 DEF Least
      <4> QED BY <4>1, <4>3
    <3>2. PidDelay <= PidDelay + 1
      BY <1>3
    <3> QED BY <1>1, <1>6, <2>7, <3>1, <3>2 DEF RegulatesWell
  <2>9. PidDelay + 1 > PidDelay
    BY <1>3
  <2>10. ASSUME relay[d], d \notin hist'.byHand  PROVE run /\ n1 = PidDelay + 1
    <3>1. d \notin hist.byHand
      BY <1>1, <2>10 DEF RecordsWell
    <3>2. on /\ n > PidDelay
      BY <2>10, <3>1 DEF DoseInv, Steady
    <3>3. run
      BY <1>2, <1>6, <2>10 DEF DoseInv
    <3>4. PidDelay <= n
      BY <1>3, <3>2
    <3> QED BY <2>5, <3>2, <3>3, <3>4
  <2>11. run /\ n1 = PidDelay + 1 => Steady'
    BY <1>4, <2>9 DEF Steady
  <2>12. pass'.want[d] => relay[d] \/ (pid[d].started /\ ~FiltrationEdge)
    BY <1>1, <1>6 DEF RegulatesWell
  <2> QED BY <1>1, <1>4, <2>6, <2>7, <2>8, <2>10, <2>11, <2>12
<1>7. \A d \in Dependents : relay'[d] => relay'["filtration"]
  BY <1>1 DEF DoseInv
<1> QED BY <1>1, <1>6, <1>7 DEF DoseInv

(* Every step keeps dosing tied to the flow.                                *)
LEMMA DoseStep ==
  ASSUME TypeInv, DoseInv, [Next]_vars  PROVE DoseInv'
<1>1. Dosing \subseteq Device /\ "filtration" \in Device
  BY DEF Dosing, Device
<1>2. CASE Apply
  <2>1. /\ pass.pc = "apply" /\ pass'.pc = "rest" /\ UNCHANGED <<install, pid>>
        /\ \A d \in Device : relay'[d] => relay[d] \/ pass.want[d]
        /\ Interlocked(relay) => Interlocked(relay')
        /\ fsm'["filtration"].on = fsm["filtration"].on
        /\ fsm'["filtration"].age = fsm["filtration"].age
        /\ hist'.flow = hist.flow /\ hist'.byHand = hist.byHand
    BY <1>1, <1>2, ApplyFacts DEF NoPass
  <2>2. Steady => Steady'
    BY <2>1 DEF Steady
  <2> QED BY <1>1, <2>1, <2>2 DEF DoseInv, Interlocked
<1>3. CASE OtherTask \/ UNCHANGED vars
  <2>1. Disturbs
    BY <1>3, OtherTaskFacts
  <2>2. /\ UNCHANGED <<install, fsm, pass>> /\ hist'.flow = hist.flow
        /\ hist.byHand \subseteq hist'.byHand
        /\ Interlocked(relay) => Interlocked(relay')
        /\ \A d \in Dosing : relay'[d] /\ d \notin hist'.byHand => relay[d]
        /\ \A d \in Dosing : pid'[d].started => pid[d].started
    BY <2>1 DEF Disturbs, MovesWell, PidsWell
  <2>3. Steady => Steady'
    BY <2>2 DEF Steady
  <2> QED BY <1>1, <2>2, <2>3 DEF DoseInv, Interlocked
<1> QED BY <1>2, <1>3, DoseDecide, NextLemma DEF NextCases
-----------------------------------------------------------------------------
(* The robot: its time is over in the pass that finds it so, and a later     *)
(* stop of it is seen.                                                       *)
LEMMA CleanDecide ==
  ASSUME TypeInv, CleanInv, Decide  PROVE CleanInv'
<1> DEFINE a == fsm["robot"].age  a1 == fsm'["robot"].age
<1>1. /\ UNCHANGED relay /\ SeenFsm /\ WantsWell /\ RecordsWell
      /\ cleaningDone' = CleaningDone
  BY DecideFacts
<1>2. "robot" \in Device /\ install \in Installations
  BY DEF Device, TypeInv, TypeOK
<1>3. /\ a \in Nat /\ a1 \in Nat /\ RobotDuration \in Nat
      /\ fsm["robot"].on \in BOOLEAN /\ relay["robot"] \in BOOLEAN
  BY <1>1, <1>2, Types, Delays DEF DeviceFsm, SeenFsm
<1>4. /\ fsm'["robot"].on = relay["robot"]
      /\ a1 = IF fsm["robot"].on = relay["robot"]
                 /\ (fsm["robot"].known \/ "robot" \notin install.devices)
              THEN Least(a + 1, RobotDuration) ELSE 0
  BY <1>1, <1>2, HorizonsLemma DEF SeenFsm
<1>5. /\ fsm["robot"].on => fsm["robot"].known
      /\ fsm["robot"].known => "robot" \in install.devices
  BY <1>2 DEF TypeInv, TypeOK
<1>6. ASSUME hist'.cleaned
      PROVE  cleaningDone' \/ (fsm'["robot"].on /\ RobotDuration <= a1)
  <2>1. CASE relay["robot"] /\ RobotDuration <= a1
    BY <1>4, <2>1
  <2>2. CASE hist.cleaned /\ ~newDay
    <3>1. CASE cleaningDone
      BY <1>1, <2>2, <3>1 DEF CleaningDone
    <3>2. CASE fsm["robot"].on /\ RobotDuration <= a /\ relay["robot"]
      <4>1. a1 = Least(a + 1, RobotDuration)
        BY <1>3, <1>4, <1>5, <3>2
      <4>2. RobotDuration <= a1
        <5> HIDE DEF a, a1
        <5> QED BY <1>3, <3>2, <4>1 DEF Least
      <4> QED BY <1>4, <3>2, <4>2
    <3>3. CASE fsm["robot"].on /\ ~relay["robot"]
      BY <1>1, <1>5, <3>3 DEF CleaningDone, StopSeen
    <3> QED BY <2>2, <3>1, <3>2, <3>3 DEF CleanInv
  <2> QED BY <1>1, <1>6, <2>1, <2>2 DEF RecordsWell
<1>7. ASSUME hist'.cleaned, pass'.auto  PROVE ~pass'.want["robot"]
  <2>1. pass'.want["robot"] => ~cleaningDone' /\ (relay["robot"] => a1 < RobotDuration)
    BY <1>1, <1>7 DEF WantsWell
  <2>2. ~(RobotDuration <= a1 /\ a1 < RobotDuration)
    <3> HIDE DEF a1
    <3> QED BY <1>3
  <2> QED BY <1>4, <1>6, <1>7, <2>1, <2>2
<1> QED BY <1>6, <1>7 DEF CleanInv

(* Every step keeps a finished cleaning finished.                           *)
LEMMA CleanStep ==
  ASSUME TypeInv, CleanInv, [Next]_vars  PROVE CleanInv'
<1>1. CASE Apply
  <2>1. "robot" \in Device
    BY DEF Device
  <2> QED BY <1>1, <2>1, ApplyFacts DEF CleanInv, NoPass
<1>2. CASE OtherTask \/ UNCHANGED vars
  BY <1>2, OtherTaskFacts DEF CleanInv, Disturbs, MovesWell
<1> QED BY <1>1, <1>2, CleanDecide, NextLemma DEF NextCases

(* In the second half of a pass the robot starts only if it was wanted.      *)
LEMMA NoSecondStart ==
  ASSUME TypeInv, CleanInv, [Next]_vars,
         pass.pc = "apply", pass'.pc = "rest", hist.cleaned, pass.auto, relay'["robot"]
  PROVE  relay["robot"]
<1>1. ~pass.want["robot"] /\ "robot" \in Device
  BY DEF CleanInv, Device
<1>2. CASE Decide
  BY <1>2, DecideFacts
<1>3. CASE Apply
  BY <1>1, <1>3, ApplyFacts
<1>4. CASE OtherTask \/ UNCHANGED vars
  BY <1>4, OtherTaskFacts DEF Disturbs
<1> QED BY <1>2, <1>3, <1>4, NextLemma DEF NextCases
-----------------------------------------------------------------------------
(* At the start nothing is late, on, regulated or cleaned.                   *)
LEMMA RulesInit ==
  ASSUME Init  PROVE SafetyInv /\ FillInv /\ DryInv /\ IdleInv /\ DoseInv /\ CleanInv
<1>1. /\ hist.late = [k \in Rules |-> 0] /\ hist.idle = 0 /\ hist.flow = 0 /\ hist.cleaned = FALSE
      /\ pass.pc = "rest" /\ \A d \in Device : ~relay[d] /\ ~fsm[d].on
      /\ \A d \in Dosing : ~pid[d].started
  BY DEF Init, NoPass, Stopped
<1>2. /\ Rules = {"psi", "fault", "dry", "empty", "fill"}
      /\ RetryAfter \in Nat /\ FillMinOn \in Nat
  BY Delays DEF Rules
<1>3. \A k \in Rules : hist.late[k] = 0 /\ WaitsToStop(k)
  BY <1>1 DEF WaitsToStop
<1>4. SafetyInv
  BY <1>1, <1>2, <1>3 DEF SafetyInv
<1>5. FillInv
  BY <1>1, <1>2, <1>3 DEF FillInv, FillingEnds
<1>6. DryInv
  BY <1>1, <1>2, <1>3 DEF DryInv, NoDryHeating
<1>7. IdleInv /\ CleanInv
  BY <1>1 DEF IdleInv, CleanInv
<1>8. Dosing \subseteq Device /\ Dependents \subseteq Device /\ "filtration" \in Device
  BY DEF Dosing, Dependents, Device
<1>9. DoseInv
  BY <1>1, <1>8 DEF DoseInv
<1> QED BY <1>4, <1>5, <1>6, <1>7, <1>9

(* The strengthened types hold in every reachable state.                    *)
LEMMA TypeAlways == Spec => []TypeInv
BY TypeInit, TypeStep, PTL DEF Spec

(* Every value stays in its type: the ages never outgrow the delays they are *)
(* compared with, a heating session is never a probe as well, and only a     *)
(* device of the installation runs.                                          *)
THEOREM TypeCorrect == Spec => []TypeOK
<1>1. TypeInv => TypeOK
  BY DEF TypeInv
<1> QED BY <1>1, TypeAlways, PTL

(* A pressure alarm stops the filtration within the retry period, and a      *)
(* fault of the contactor the electrolysis, whatever mode the pool is in and *)
(* whoever starts them again (applyDeviceControl_).                          *)
THEOREM SafetyStops == Spec => []SafetyStopsInTime
<1>1. SafetyInv => SafetyStopsInTime
  BY DEF SafetyInv, SafetyStopsInTime
<1>2. Init => SafetyInv
  BY RulesInit
<1> QED BY <1>1, <1>2, SafetyStep, TypeAlways, PTL DEF Spec

(* In automatic mode the heater is without flow for a retry period at most,  *)
(* while neither relay refuses, in every installation.                       *)
THEOREM HeaterNeverDry == Spec => []NoDryHeating
<1>1. DryInv => NoDryHeating
  BY DEF DryInv
<1>2. Init => DryInv
  BY RulesInit
<1> QED BY <1>1, <1>2, DryStep, TypeAlways, PTL DEF Spec

(* While it rests the heat assist probes the water once per idle period,     *)
(* although its counter wraps and takes second 0 for "never".                *)
THEOREM ProbesInTime == Spec => []ProbeComesInTime
<1>1. TypeInv /\ IdleInv => ProbeComesInTime
  <2> SUFFICES ASSUME TypeInv, IdleInv  PROVE ProbeComesInTime
    OBVIOUS
  <2> DEFINE e == Elapsed(heat.lastEnd, sec)
  <2>1. /\ hist.idle \in Nat /\ IdleSlow \in Nat /\ e \in 0 .. Seconds - 1 /\ Seconds \in Nat
    BY Types, Delays, ElapsedLemma DEF History, TypeInv, TypeOK
  <2>2. hist.idle > 0 => hist.idle - 1 <= e /\ e < IdleSlow
    BY DEF IdleInv
  <2> HIDE DEF e
  <2> QED BY <2>1, <2>2 DEF ProbeComesInTime
<1>2. Init => IdleInv
  BY RulesInit
<1> QED BY <1>1, <1>2, IdleStep, TypeAlways, PTL DEF Spec

(* The filling valve closes its minimum time and a retry period after the    *)
(* level was last seen low, sensor or no sensor.                             *)
THEOREM FillingIsBounded == Spec => []FillingEnds
<1>1. FillInv => FillingEnds
  BY DEF FillInv
<1>2. Init => FillInv
  BY RulesInit
<1> QED BY <1>1, <1>2, FillStep, TypeAlways, PTL DEF Spec

(* A dosing pump that nobody started by hand runs only into a flow seen for  *)
(* longer than the stabilising delay.                                        *)
THEOREM DosesSteady == Spec => []DosesIntoSteadyFlow
<1>1. TypeInv /\ DoseInv => DosesIntoSteadyFlow
  <2> SUFFICES ASSUME TypeInv, DoseInv, NEW d \in Dosing, relay[d], d \notin hist.byHand
               PROVE  hist.flow > PidDelay
    BY DEF DosesIntoSteadyFlow
  <2>1. d \in install.devices
    BY DEF TypeInv, TypeOK, Dosing, Device
  <2> QED BY <2>1 DEF DoseInv, Steady
<1>2. Init => DoseInv
  BY RulesInit
<1> QED BY <1>1, <1>2, DoseStep, TypeAlways, PTL DEF Spec

(* Once the robot has run its time no pass starts it again that day.         *)
THEOREM CleansOnceADay == Spec => OneCleaningADay
<1>1. TypeInv /\ CleanInv /\ [Next]_vars
        => [pass.pc = "apply" /\ pass'.pc = "rest" /\ hist.cleaned /\ pass.auto
              => (relay'["robot"] => relay["robot"])]_vars
  BY NoSecondStart
<1>2. Init => CleanInv
  BY RulesInit
<1> QED BY <1>1, <1>2, CleanStep, TypeAlways, PTL DEF Spec, OneCleaningADay
=============================================================================
