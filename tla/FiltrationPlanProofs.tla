------------------------ MODULE FiltrationPlanProofs ------------------------
(***************************************************************************)
(* Theorems about the storing of the filtration plan, for all plans; what  *)
(* holds of the plan of every temperature (the tests of the repository try *)
(* six of them, here there is no bound); and what follows for the plan that *)
(* the scheduler is given.                                                  *)
(***************************************************************************)
EXTENDS FiltrationPlan, FiltrationWindow, TLAPS

(* A store that is under way stores a plan. *)
TypeInv == TypeOK /\ (step # "rest" => next \in Plans)

(* The plan and its keys start with their types.                           *)
LEMMA TypeInvInit == Init => TypeInv
<1> SUFFICES ASSUME Init PROVE TypeInv
  OBVIOUS
<1>1. [start |-> 0, stop |-> 0, duration |-> 0] \in Stored
  BY DEF Stored, Minute
<1>2. calc \in Stored
  BY <1>1, PlansAssumption DEF Init
<1> QED
  BY <1>2 DEF Init, TypeInv, TypeOK

(* ConfigStore::set of a value in range keeps the record in range.         *)
LEMMA SetKeepsType ==
  ASSUME TypeInv, NEW field \in {"start", "stop", "duration"}, NEW value,
         value \in (IF field = "duration" THEN 0..1440 ELSE Minute),
         Set(field, value)
  PROVE  calc' \in Stored /\ ok' \in BOOLEAN
<1>1. calc \in Stored /\ ok \in BOOLEAN
  BY DEF TypeInv, TypeOK
<1>2. CASE calc' = [calc EXCEPT ![field] = value] /\ ok' = ok
  <2>1. CASE field = "start"
    BY <1>1, <1>2, <2>1 DEF Stored
  <2>2. CASE field = "stop"
    BY <1>1, <1>2, <2>2 DEF Stored
  <2>3. CASE field = "duration"
    BY <1>1, <1>2, <2>3 DEF Stored
  <2> QED BY <2>1, <2>2, <2>3
<1>3. CASE calc' = calc /\ ok' = FALSE
  BY <1>1, <1>3
<1> QED
  BY <1>2, <1>3 DEF Set

(* A calculated plan is one of the plans.                                  *)
LEMMA CalculateKeepsType ==
  ASSUME TypeInv, NEW p \in Plans, NEW now \in BOOLEAN, Calculate(p, now),
         booting' \in BOOLEAN
  PROVE  TypeInv'
BY DEF TypeInv, TypeOK, Calculate

(* Giving a plan to the scheduler takes it, if it is usable, or nothing. *)
LEMMA GiveLemma ==
  ASSUME NEW p, NEW taken \in BOOLEAN, Give(p, taken)
  PROVE  active' = active \/ (active' = p /\ PlanOf(p) # None)
BY DEF Give

(* What the adoption of a stored plan may change. *)
LEMMA AdoptLemma ==
  ASSUME TypeInv, Adopt
  PROVE  /\ active' = active \/ (active' = calc /\ PlanOf(calc) # None)
         /\ staged' \in BOOLEAN
         /\ UNCHANGED <<calc, step, next, ok, immediate, booting>>
<1>1. PICK taken \in BOOLEAN :
        /\ Give(calc, taken)
        /\ \/ step = "rest" /\ staged /\ staged' = ~taken
           \/ active # None /\ active.duration = 1440 /\ staged' \in {staged, FALSE}
  BY DEF Adopt
<1>2. active' = active \/ (active' = calc /\ PlanOf(calc) # None)
  BY <1>1, GiveLemma
<1>3. staged' \in BOOLEAN
  <2>1. staged \in BOOLEAN
    BY DEF TypeInv, TypeOK
  <2>2. CASE staged' = ~taken
    BY ONLY <2>2, Zenon
  <2>3. CASE staged' \in {staged, FALSE}
    BY ONLY <2>1, <2>3
  <2> QED
    BY <1>1, <2>2, <2>3
<1>4. UNCHANGED <<calc, step, next, ok, immediate, booting>>
  BY DEF Adopt
<1> QED
  BY <1>2, <1>3, <1>4

(* Every step keeps the types.                                             *)
LEMMA TypeInvStep == TypeInv /\ [Next]_vars => TypeInv'
<1> SUFFICES ASSUME TypeInv, [Next]_vars PROVE TypeInv'
  OBVIOUS
<1>1. CASE StartupPlan
  <2>1. CASE PlanOf(calc) # None
    BY <1>1, <2>1 DEF StartupPlan, Give, TypeInv, TypeOK
  <2>2. CASE PlanOf(calc) = None
    BY <1>1, <2>2, CalculateKeepsType DEF StartupPlan
  <2> QED BY <2>1, <2>2
<1>2. CASE Recalculate
  <2>1. booting' \in BOOLEAN
    BY <1>2 DEF Recalculate, TypeInv, TypeOK
  <2> QED
    BY <1>2, <2>1, CalculateKeepsType DEF Recalculate
<1>3. CASE Store
  <2>1. next \in Plans /\ next \in Stored
    BY <1>3, PlansAssumption DEF Store, Invalidate, StoreStart, StoreStop, StoreDuration, TypeInv
  <2>2. next.start \in Minute /\ next.stop \in Minute /\ next.duration \in 0..1440
    BY <2>1 DEF Stored
  <2>3. CASE Invalidate
    <3>1. calc' \in Stored /\ ok' \in BOOLEAN
      BY <2>3, SetKeepsType DEF Invalidate
    <3> QED BY <2>1, <2>3, <3>1 DEF Invalidate, TypeInv, TypeOK
  <2>4. CASE StoreStart
    <3>1. calc' \in Stored /\ ok' \in BOOLEAN
      BY <2>2, <2>4, SetKeepsType DEF StoreStart
    <3> QED BY <2>1, <2>4, <3>1 DEF StoreStart, TypeInv, TypeOK
  <2>5. CASE StoreStop
    <3>1. calc' \in Stored /\ ok' \in BOOLEAN
      BY <2>2, <2>5, SetKeepsType DEF StoreStop
    <3> QED BY <2>1, <2>5, <3>1 DEF StoreStop, TypeInv, TypeOK
  <2>6. CASE StoreDuration
    <3>1. calc' \in Stored /\ ok' \in BOOLEAN
      BY <2>2, <2>6, SetKeepsType DEF StoreDuration
    <3>2. staged' \in BOOLEAN
      BY <2>6, <3>1 DEF StoreDuration, TypeInv, TypeOK
    <3>3. active' \in Stored \union {None}
      BY <2>1, <2>6 DEF StoreDuration, Give, TypeInv, TypeOK
    <3> QED BY <2>1, <2>6, <3>1, <3>2, <3>3 DEF StoreDuration, TypeInv, TypeOK
  <2> QED BY <1>3, <2>3, <2>4, <2>5, <2>6 DEF Store
<1>4. CASE Adopt
  BY <1>4, AdoptLemma DEF TypeInv, TypeOK
<1>5. CASE PowerCut
  BY <1>5 DEF PowerCut, TypeInv, TypeOK
<1>6. CASE UNCHANGED vars
  BY <1>6 DEF vars, TypeInv, TypeOK
<1> QED
  BY <1>1, <1>2, <1>3, <1>4, <1>5, <1>6 DEF Next

(* So they hold for ever.                                                  *)
LEMMA TypeInvHolds == Spec => []TypeInv
BY TypeInvInit, TypeInvStep, PTL DEF Spec

(* The variables keep their types. *)
THEOREM TypeCorrect == Spec => []TypeOK
<1>1. TypeInv => TypeOK
  BY DEF TypeInv
<1> QED BY <1>1, TypeInvHolds, PTL
-----------------------------------------------------------------------------
(* How far a store has come, and that what looks usable is a plan.         *)
StoreInv ==
  /\ step \in {"start", "stop", "duration"} => calc.duration = 0
  /\ step \in {"stop", "duration"} => calc.start = next.start
  /\ step = "duration" => calc.stop = next.stop
  /\ WholePlans

Inv == TypeInv /\ StoreInv

(* Two records with the same fields are the same plan. *)
LEMMA PlanIsItsFields ==
  ASSUME NEW p \in Stored, NEW q \in Stored,
         p.start = q.start, p.stop = q.stop, p.duration = q.duration
  PROVE  p = q
BY DEF Stored

(* A record without a duration is no plan, and a plan is its own. *)
LEMMA PlanOfFacts ==
  /\ \A r \in Stored : r.duration = 0 => PlanOf(r) = None
  /\ \A p \in Plans : PlanOf(p) = p
  /\ \A r \in Stored : PlanOf(r) # None => PlanOf(r) = r
BY PlansAssumption DEF PlanOf, Usable

(* At first nothing is being written.                                      *)
LEMMA StoreInvInit == Init => Inv
<1> SUFFICES ASSUME Init PROVE StoreInv
  BY TypeInvInit DEF Inv
<1>1. [start |-> 0, stop |-> 0, duration |-> 0] \in Stored
  BY DEF Stored, Minute
<1>2. PlanOf(calc) \in Plans \union {None}
  <2>1. CASE calc \in Plans
    BY <2>1, PlanOfFacts
  <2>2. CASE calc = [start |-> 0, stop |-> 0, duration |-> 0]
    BY <1>1, <2>2, PlanOfFacts
  <2> QED BY <2>1, <2>2 DEF Init
<1> QED
  BY <1>2 DEF Init, StoreInv, WholePlans

(* Without failing writes, a set changes the one field. *)
LEMMA SetWrites ==
  ASSUME ~Failing, NEW field, NEW value, Set(field, value)
  PROVE  calc' = [calc EXCEPT ![field] = value]
BY DEF Set

(* Every step of a store keeps the marker down until the last one, which   *)
(* completes the plan.                                                     *)
LEMMA StoreKeepsInv ==
  ASSUME ~Failing, Inv, Store
  PROVE  StoreInv' /\ (StoreDuration => calc' = next)
<1>1. calc \in Stored /\ next \in Plans /\ next \in Stored /\ active \in Plans \union {None}
  BY PlansAssumption DEF Inv, TypeInv, TypeOK, StoreInv, WholePlans, Store, Invalidate,
     StoreStart, StoreStop, StoreDuration
<1>2. TypeInv'
  BY TypeInvStep DEF Inv, Next
<1>3. calc' \in Stored
  BY <1>2 DEF TypeInv, TypeOK
<1>4. CASE Invalidate
  <2>1. calc' = [calc EXCEPT !["duration"] = 0]
    BY <1>4, SetWrites DEF Invalidate
  <2>2. calc'.duration = 0 /\ step' = "start" /\ active' = active
    BY <1>1, <1>4, <2>1 DEF Invalidate, Stored
  <2>3. PlanOf(calc)' = None
    BY <1>3, <2>2, PlanOfFacts DEF PlanOf
  <2> QED
    BY <1>1, <1>4, <2>2, <2>3 DEF StoreInv, WholePlans, StoreDuration, Invalidate
<1>5. CASE StoreStart
  <2>1. calc' = [calc EXCEPT !["start"] = next.start]
    BY <1>5, SetWrites DEF StoreStart
  <2>2. /\ calc'.duration = 0 /\ calc'.start = next.start
        /\ step' = "stop" /\ active' = active /\ next' = next
    BY <1>1, <1>5, <2>1 DEF StoreStart, Stored, Inv, StoreInv
  <2>3. PlanOf(calc)' = None
    BY <1>3, <2>2, PlanOfFacts DEF PlanOf
  <2> QED
    BY <1>1, <1>5, <2>2, <2>3 DEF StoreInv, WholePlans, StoreDuration, StoreStart
<1>6. CASE StoreStop
  <2>1. calc' = [calc EXCEPT !["stop"] = next.stop]
    BY <1>6, SetWrites DEF StoreStop
  <2>2. /\ calc'.duration = 0 /\ calc'.start = next.start /\ calc'.stop = next.stop
        /\ step' = "duration" /\ active' = active /\ next' = next
    BY <1>1, <1>6, <2>1 DEF StoreStop, Stored, Inv, StoreInv
  <2>3. PlanOf(calc)' = None
    BY <1>3, <2>2, PlanOfFacts DEF PlanOf
  <2> QED
    BY <1>1, <1>6, <2>2, <2>3 DEF StoreInv, WholePlans, StoreDuration, StoreStop
<1>7. CASE StoreDuration
  <2>1. calc' = [calc EXCEPT !["duration"] = next.duration]
    BY <1>7, SetWrites DEF StoreDuration
  <2>2. calc'.start = next.start /\ calc'.stop = next.stop /\ calc'.duration = next.duration
    BY <1>1, <1>7, <2>1 DEF StoreDuration, Stored, Inv, StoreInv
  <2>3. calc' = next
    BY <1>1, <1>3, <2>2, PlanIsItsFields
  <2>4. PlanOf(calc)' = next
    BY <1>1, <2>3, PlanOfFacts DEF PlanOf
  <2>5. step' = "rest" /\ active' \in Plans \union {None}
    BY <1>1, <1>7 DEF StoreDuration, Give
  <2> QED
    BY <1>1, <2>3, <2>4, <2>5 DEF StoreInv, WholePlans
<1> QED
  BY <1>4, <1>5, <1>6, <1>7 DEF Store

(* Every step keeps the marker down while fields are written.              *)
LEMMA InvStep ==
  ASSUME ~Failing, Inv, [Next]_vars
  PROVE  Inv'
<1>1. TypeInv'
  BY TypeInvStep DEF Inv
<1>2. calc \in Stored /\ active \in Plans \union {None} /\ PlanOf(calc) \in Plans \union {None}
  BY DEF Inv, TypeInv, TypeOK, StoreInv, WholePlans
<1>3. CASE Store
  BY <1>1, <1>3, StoreKeepsInv DEF Inv
<1>4. CASE StartupPlan \/ Adopt
  <2>1. calc' = calc /\ PlanOf(calc)' = PlanOf(calc)
    BY <1>4 DEF StartupPlan, Calculate, Adopt, PlanOf
  <2>2. active' \in Plans \union {None}
    <3>1. PlanOf(calc) # None => calc \in Plans
      BY <1>2, PlanOfFacts
    <3>2. CASE StartupPlan
      <4>1. active' = active \/ (active' = calc /\ PlanOf(calc) # None)
        BY <3>2, GiveLemma DEF StartupPlan, Calculate
      <4> QED
        BY <1>2, <3>1, <4>1
    <3>3. CASE Adopt
      <4>1. active' = active \/ (active' = calc /\ PlanOf(calc) # None)
        BY <3>3, AdoptLemma DEF Inv
      <4> QED
        BY <1>2, <3>1, <4>1
    <3> QED BY <1>4, <3>2, <3>3
  <2>3. \/ step' = step /\ next' = next
        \/ step' = "invalidate"
    BY <1>4 DEF StartupPlan, Calculate, Adopt
  <2> QED
    BY <1>1, <1>2, <2>1, <2>2, <2>3 DEF Inv, StoreInv, WholePlans
<1>5. CASE Recalculate \/ PowerCut \/ UNCHANGED vars
  <2>1. calc' = calc /\ PlanOf(calc)' = PlanOf(calc)
    BY <1>5 DEF Recalculate, Calculate, PowerCut, vars, PlanOf
  <2>2. active' \in {active, None}
    BY <1>5 DEF Recalculate, Calculate, PowerCut, vars
  <2>3. \/ step' = step /\ next' = next
        \/ step' \in {"rest", "invalidate"}
    BY <1>5 DEF Recalculate, Calculate, PowerCut, vars
  <2> QED
    BY <1>1, <1>2, <2>1, <2>2, <2>3 DEF Inv, StoreInv, WholePlans
<1> QED
  BY <1>3, <1>4, <1>5 DEF Next

(* While no write fails, a partially written plan is never exposed: what   *)
(* the scheduler is given and what a restart finds usable are plans that   *)
(* were calculated as a whole, wherever power is cut.                      *)
THEOREM NoPartialPlan ==
  ASSUME ~Failing
  PROVE  Spec => []WholePlans
<1>1. Init => Inv
  BY StoreInvInit
<1>2. Inv /\ [Next]_vars => Inv'
  BY InvStep
<1>3. Inv => WholePlans
  BY DEF Inv, StoreInv
<1> QED
  BY <1>1, <1>2, <1>3, PTL DEF Spec

(* A step of the store is a step of the register or none. *)
LEMMA StepRefines ==
  ASSUME ~Failing, Inv, [Next]_vars
  PROVE  [Register!Next]_<<PlanOf(calc), next>>
<1> USE DEF Register!Next, Register!Ask, Register!Forget, Register!Commit
<1>1. calc \in Stored /\ PlanOf(calc) \in Plans \union {None}
  BY DEF Inv, TypeInv, TypeOK, StoreInv, WholePlans
<1>2. Inv'
  BY InvStep
<1>3. calc' \in Stored
  BY <1>2 DEF Inv, TypeInv, TypeOK
<1>4. CASE StartupPlan \/ Recalculate
  <2>1. calc' = calc /\ (next' = next \/ next' \in Plans)
    BY <1>4 DEF StartupPlan, Recalculate, Calculate
  <2> QED BY <2>1 DEF PlanOf
<1>5. CASE Invalidate \/ StoreStart \/ StoreStop
  <2>1. Inv' /\ step' \in {"start", "stop", "duration"} /\ next' = next
    BY <1>2, <1>5 DEF Invalidate, StoreStart, StoreStop
  <2>2. calc'.duration = 0
    BY <2>1 DEF Inv, StoreInv
  <2>3. PlanOf(calc)' = None
    BY <1>3, <2>2, PlanOfFacts DEF PlanOf
  <2> QED BY <2>1, <2>3
<1>6. CASE StoreDuration
  <2>1. calc' = next /\ next' = next /\ next \in Plans
    BY <1>6, StoreKeepsInv DEF Store, Inv, TypeInv, StoreDuration
  <2>2. PlanOf(calc)' = next /\ next # None
    BY <2>1, PlanOfFacts, PlansAssumption DEF PlanOf
  <2> QED BY <2>1, <2>2
<1>7. CASE Adopt \/ PowerCut \/ UNCHANGED vars
  BY <1>7 DEF Adopt, PowerCut, vars, PlanOf
<1> QED
  BY <1>4, <1>5, <1>6, <1>7 DEF Next, Store

(* While no write fails, the three keys and their marker implement one     *)
(* register that is written at once, power cuts included.                  *)
THEOREM KeysImplementRegister ==
  ASSUME ~Failing
  PROVE  Spec => StoreIsAtomic
<1>1. Init => Inv
  BY StoreInvInit
<1>2. Inv /\ [Next]_vars => Inv'
  BY InvStep
<1>3. Init => Register!Init
  <2> SUFFICES ASSUME Init PROVE Register!Init
    OBVIOUS
  <2>1. PlanOf(calc) \in Plans \union {None}
    BY StoreInvInit DEF Inv, StoreInv, WholePlans
  <2> QED BY <2>1 DEF Init, Register!Init
<1>4. Inv /\ [Next]_vars => [Register!Next]_<<PlanOf(calc), next>>
  BY StepRefines
<1> QED
  BY <1>1, <1>2, <1>3, <1>4, PTL DEF Spec, StoreIsAtomic, Register!Spec
-----------------------------------------------------------------------------
IsMinute(m) == m \in Int /\ 0 <= m /\ m <= 1439
IsPlanned(d) == d \in Int /\ 120 <= d /\ d <= 1440

(* The curve as a relation: within half a minute of the exact duration.   *)
IsDuration(d, temp) ==
  \/ temp <= 12000 /\ d = 120
  \/ /\ 12000 < temp /\ temp <= 25000
     /\ 2600 * (d - 120) <= 126 * (temp - 12000) + 1300
     /\ 126 * (temp - 12000) - 1300 <= 2600 * (d - 120)
  \/ /\ 25000 < temp /\ temp < 30000
     /\ 1000 * (d - 750) <= 138 * (temp - 25000) + 500
     /\ 138 * (temp - 25000) - 500 <= 1000 * (d - 750)
  \/ 30000 <= temp /\ d = 1440

(* Both ways to round a tie are within half a minute.                     *)
LEMMA RoundedIsNear ==
  ASSUME NEW temp \in Int, NEW d \in Rounded(temp)
  PROVE  d \in Int /\ IsDuration(d, temp)
<1>1. CASE temp <= 12000 BY <1>1 DEF Rounded, IsDuration
<1>2. CASE 12000 < temp /\ temp <= 25000
  <2>1. PICK m \in Nearest(63 * (temp - 12000), 1300) : d = 120 + m BY <1>2 DEF Rounded
  <2>2. /\ m \in Int
        /\ 2600 * m <= 126 * (temp - 12000) + 1300
        /\ 126 * (temp - 12000) - 1300 <= 2600 * m
    <3>1. m \in {(126 * (temp - 12000) + 1300) \div 2600, -((1300 - 126 * (temp - 12000)) \div 2600)}
      BY <2>1 DEF Nearest
    <3> QED BY <3>1
  <2> QED BY <1>2, <2>1, <2>2 DEF IsDuration
<1>3. CASE 25000 < temp /\ temp < 30000
  <2>1. PICK m \in Nearest(69 * (temp - 25000), 500) : d = 750 + m BY <1>3 DEF Rounded
  <2>2. /\ m \in Int
        /\ 1000 * m <= 138 * (temp - 25000) + 500
        /\ 138 * (temp - 25000) - 500 <= 1000 * m
    <3>1. m \in {(138 * (temp - 25000) + 500) \div 1000, -((500 - 138 * (temp - 25000)) \div 1000)}
      BY <2>1 DEF Nearest
    <3> QED BY <3>1
  <2> QED BY <1>3, <2>1, <2>2 DEF IsDuration
<1>4. CASE 30000 <= temp BY <1>4 DEF Rounded, IsDuration, MinutesPerDay
<1> QED BY <1>1, <1>2, <1>3, <1>4

(* The rounded duration never leaves the range the code holds it in.       *)
LEMMA RoundedInRange ==
  ASSUME NEW temp \in Int, NEW d \in Int, IsDuration(d, temp)
  PROVE  IsPlanned(d)
<1>1. CASE temp <= 12000 \/ 30000 <= temp BY <1>1 DEF IsDuration, IsPlanned
<1>2. CASE 12000 < temp /\ temp <= 25000 BY <1>2 DEF IsDuration, IsPlanned
<1>3. CASE 25000 < temp /\ temp < 30000 BY <1>3 DEF IsDuration, IsPlanned
<1> QED BY <1>1, <1>2, <1>3

(* So the two comparisons after the rounding change nothing.               *)
LEMMA ClampIsIdle ==
  ASSUME NEW temp \in Int, NEW d \in Durations(temp)
  PROVE  IsPlanned(d) /\ IsDuration(d, temp)
<1>1. PICK m \in Rounded(temp) : d = Clamped(m) BY DEF Durations
<1>2. m \in Int /\ IsDuration(m, temp) BY RoundedIsNear
<1>3. IsPlanned(m) BY <1>2, RoundedInRange
<1>4. d = m BY <1>1, <1>3 DEF Clamped, MinutesPerDay, IsPlanned
<1> QED BY <1>2, <1>3, <1>4

(* normalizeMinute_ on the values it is given.                             *)
LEMMA NormalizedMinute ==
  ASSUME NEW m \in Int, 0 <= m, m < 2880
  PROVE  /\ IsMinute(Normalized(m))
         /\ Normalized(m) = IF m < 1440 THEN m ELSE m - 1440
BY DEF Normalized, MinutesPerDay, IsMinute

(* The start of a window around 15:00 is on the same day, so normalising   *)
(* it changes nothing.                                                     *)
LEMMA StartMinute ==
  ASSUME NEW d \in Int, IsPlanned(d)
  PROVE  /\ Normalized(900 - d \div 2) = 900 - d \div 2
         /\ Normalized(900 - d \div 2) \in Int
         /\ 180 <= Normalized(900 - d \div 2) /\ Normalized(900 - d \div 2) <= 840
         /\ 900 < Normalized(900 - d \div 2) + d
<1>1. d \div 2 \in Int /\ 60 <= d \div 2 /\ d \div 2 <= 720 /\ d \div 2 < d BY DEF IsPlanned
<1>2. 900 - d \div 2 \in Int /\ 180 <= 900 - d \div 2 /\ 900 - d \div 2 <= 840 BY <1>1
<1>3. Normalized(900 - d \div 2) = 900 - d \div 2 BY <1>2, NormalizedMinute
<1> QED BY <1>1, <1>2, <1>3

(* The shape of a window that is neither continuous nor a winter one.      *)
LEMMA SolarWindow ==
  ASSUME NEW temp \in Int, ~(temp < 12000), NEW d \in Int, IsPlanned(d), d # 1440
  PROVE  \E start \in Int :
           /\ 180 <= start /\ start <= 840 /\ 900 < start + d
           /\ WindowOf(temp, d) =
                [start |-> start, duration |-> d,
                 stop |-> IF start + d < 1440 THEN start + d ELSE start + d - 1440]
<1>1. PICK start \in Int : start = Normalized(900 - d \div 2) BY StartMinute
<1>2. 180 <= start /\ start <= 840 /\ 900 < start + d BY <1>1, StartMinute
<1>3. Normalized(start + d) = IF start + d < 1440 THEN start + d ELSE start + d - 1440
  <2>1. start + d \in Int /\ 0 <= start + d /\ start + d < 2880 BY <1>2 DEF IsPlanned
  <2> QED BY <2>1, NormalizedMinute
<1>4. WindowOf(temp, d) = [start |-> start, stop |-> Normalized(start + d), duration |-> d]
  BY <1>1 DEF WindowOf, IsPlanned, MinutesPerDay
<1> QED BY <1>2, <1>3, <1>4
-----------------------------------------------------------------------------
(* applyFiltrationWindowSlot_ accepts the plan of every temperature:       *)
(* minutes of a day, and a duration between two hours and a day.           *)
THEOREM EveryPlanIsUsable ==
  ASSUME NEW temp \in Int, NEW w \in WindowsAt(temp)
  PROVE  IsMinute(w.start) /\ IsMinute(w.stop) /\ IsPlanned(w.duration)
<1>1. PICK d \in Durations(temp) : w = WindowOf(temp, d) BY DEF WindowsAt
<1>2. d \in Int /\ IsPlanned(d) BY ClampIsIdle DEF IsPlanned
<1>3. CASE d = 1440 BY <1>1, <1>2, <1>3 DEF WindowOf, MinutesPerDay, IsMinute
<1>4. CASE d # 1440 /\ temp < 12000
  BY <1>1, <1>2, <1>4 DEF WindowOf, MinutesPerDay, IsMinute, IsPlanned
<1>5. CASE d # 1440 /\ ~(temp < 12000)
  <2>1. PICK start \in Int :
          /\ 180 <= start /\ start <= 840 /\ 900 < start + d
          /\ w = [start |-> start, duration |-> d,
                  stop |-> IF start + d < 1440 THEN start + d ELSE start + d - 1440]
    BY <1>1, <1>2, <1>5, SolarWindow
  <2> QED BY <1>2, <2>1 DEF IsMinute, IsPlanned
<1> QED BY <1>3, <1>4, <1>5

(* The window lasts as long as the plan says, also over midnight, and is   *)
(* never empty unless it is continuous: the scheduler would refuse a start *)
(* that equals the stop (setSlot_).                                        *)
THEOREM WindowLastsItsDuration ==
  ASSUME NEW temp \in Int, NEW w \in WindowsAt(temp), w.duration # 1440
  PROVE  /\ w.start # w.stop
         /\ w.duration = IF w.start < w.stop THEN w.stop - w.start ELSE w.stop + 1440 - w.start
<1>1. PICK d \in Durations(temp) : w = WindowOf(temp, d) BY DEF WindowsAt
<1>2. d \in Int /\ IsPlanned(d) /\ IsDuration(d, temp) BY ClampIsIdle DEF IsPlanned
<1>3. d # 1440 BY <1>1 DEF WindowOf
<1>4. CASE temp < 12000
  <2>1. d = 120 BY <1>2, <1>4 DEF IsDuration
  <2>2. w = [start |-> 1380, stop |-> 60, duration |-> d]
    BY <1>1, <1>4, <2>1 DEF WindowOf, MinutesPerDay
  <2> QED BY <2>1, <2>2
<1>5. CASE ~(temp < 12000)
  <2>1. PICK start \in Int :
          /\ 180 <= start /\ start <= 840 /\ 900 < start + d
          /\ w = [start |-> start, duration |-> d,
                  stop |-> IF start + d < 1440 THEN start + d ELSE start + d - 1440]
    BY <1>1, <1>2, <1>3, <1>5, SolarWindow
  <2> QED BY <1>2, <1>3, <2>1 DEF IsPlanned
<1> QED BY <1>4, <1>5

(* From 12 degrees on, the pump runs at the sunny hour the plan is built   *)
(* around, 15:00.                                                          *)
THEOREM RunsAtThePivot ==
  ASSUME NEW temp \in Int, ~(temp < 12000), NEW w \in WindowsAt(temp), w.duration # 1440
  PROVE  w.start < 900 /\ (900 < w.stop \/ w.stop < w.start)
<1>1. PICK d \in Durations(temp) : w = WindowOf(temp, d) BY DEF WindowsAt
<1>2. d \in Int /\ IsPlanned(d) BY ClampIsIdle DEF IsPlanned
<1>3. d # 1440 BY <1>1 DEF WindowOf
<1>4. PICK start \in Int :
        /\ 180 <= start /\ start <= 840 /\ 900 < start + d
        /\ w = [start |-> start, duration |-> d,
                stop |-> IF start + d < 1440 THEN start + d ELSE start + d - 1440]
  BY <1>1, <1>2, <1>3, SolarWindow
<1> QED BY <1>2, <1>3, <1>4 DEF IsPlanned

(* Warmer water is never filtered for less time, across every seam of the  *)
(* curve and whichever way ties are rounded.                               *)
THEOREM WarmerIsLonger ==
  ASSUME NEW cold \in Int, NEW warm \in Int, cold < warm,
         NEW c \in Durations(cold), NEW w \in Durations(warm)
  PROVE  c <= w
<1>1. IsPlanned(c) /\ IsDuration(c, cold) BY ClampIsIdle
<1>2. IsPlanned(w) /\ IsDuration(w, warm) BY ClampIsIdle
<1> USE DEF IsPlanned
<1>3. CASE cold <= 12000 BY <1>1, <1>2, <1>3 DEF IsDuration
<1>4. CASE 12000 < cold /\ cold <= 25000
  <2>1. 2600 * (c - 120) <= 126 * (cold - 12000) + 1300 BY <1>1, <1>4 DEF IsDuration
  <2>2. CASE warm <= 25000
    <3>1. 126 * (warm - 12000) - 1300 <= 2600 * (w - 120)
      BY <1>2, <1>4, <2>2 DEF IsDuration
    <3> QED BY <1>1, <1>2, <2>1, <3>1
  <2>3. CASE 25000 < warm /\ warm < 30000
    <3>1. 138 * (warm - 25000) - 500 <= 1000 * (w - 750)
      BY <1>2, <2>3 DEF IsDuration
    <3> QED BY <1>1, <1>2, <1>4, <2>1, <2>3, <3>1
  <2>4. CASE 30000 <= warm BY <1>1, <1>2, <2>4 DEF IsDuration
  <2> QED BY <2>2, <2>3, <2>4
<1>5. CASE 25000 < cold /\ cold < 30000
  <2>1. 1000 * (c - 750) <= 138 * (cold - 25000) + 500 BY <1>1, <1>5 DEF IsDuration
  <2>2. CASE warm < 30000
    <3>1. 138 * (warm - 25000) - 500 <= 1000 * (w - 750)
      BY <1>2, <1>5, <2>2 DEF IsDuration
    <3> QED BY <1>1, <1>2, <2>1, <3>1
  <2>3. CASE 30000 <= warm BY <1>1, <1>2, <2>3 DEF IsDuration
  <2> QED BY <2>2, <2>3
<1>6. CASE 30000 <= cold BY <1>1, <1>2, <1>6 DEF IsDuration
<1> QED BY <1>3, <1>4, <1>5, <1>6
-----------------------------------------------------------------------------
(* The plans of these temperatures.                                         *)
WindowsOf(Temps) == UNION {WindowsAt(temp) : temp \in Temps}

(* Each has the fields and the ranges of the three stored variables.       *)
LEMMA WindowIsStored ==
  ASSUME NEW temp \in Int, NEW w \in WindowsAt(temp)
  PROVE  w \in Stored /\ Usable(w.duration)
<1>1. PICK d \in Durations(temp) : w = WindowOf(temp, d) BY DEF WindowsAt
<1>2. /\ w.start \in Minute /\ w.stop \in Minute /\ w.duration \in 0..1440
      /\ Usable(w.duration)
  <2>1. IsMinute(w.start) /\ IsMinute(w.stop) /\ IsPlanned(w.duration)
    BY EveryPlanIsUsable
  <2>2. \A m : IsMinute(m) => m \in Minute BY DEF IsMinute, Minute
  <2>3. \A m : IsPlanned(m) => m \in 0..1440 /\ Usable(m) BY DEF IsPlanned, Usable
  <2> QED BY <2>1, <2>2, <2>3
<1>3. w = [start |-> w.start, stop |-> w.stop, duration |-> w.duration]
  BY <1>1 DEF WindowOf
<1>4. [start |-> w.start, stop |-> w.stop, duration |-> w.duration] \in Stored
  BY <1>2 DEF Stored
<1> QED BY <1>2, <1>3, <1>4

(* The curve meets what the storing of plans assumes of its plans, for any *)
(* temperatures the water may have: the assumption is one the code keeps.  *)
THEOREM CurveMeetsAssumption ==
  ASSUME NEW Temps \in SUBSET Int, Temps # {}
  PROVE  /\ WindowsOf(Temps) \subseteq Stored /\ WindowsOf(Temps) # {}
         /\ \A w \in WindowsOf(Temps) : Usable(w.duration)
<1>1. \A w \in WindowsOf(Temps) : w \in Stored /\ Usable(w.duration)
  BY WindowIsStored DEF WindowsOf
<1>2. PICK temp \in Temps : TRUE OBVIOUS
<1>3. Rounded(temp) # {}
  BY <1>2 DEF Rounded, Nearest
<1>4. WindowsAt(temp) # {}
  BY <1>3 DEF WindowsAt, Durations
<1>5. WindowsOf(Temps) # {}
  BY <1>2, <1>4 DEF WindowsOf
<1> QED BY <1>1, <1>5

(* A window that lasts as long as the plan says and is not empty, or the    *)
(* whole day.                                                              *)
IsWhole(w) ==
  w.duration # 1440 =>
    /\ w.start # w.stop
    /\ w.duration = IF w.start < w.stop THEN w.stop - w.start ELSE w.stop + 1440 - w.start

(* Whatever the power does between the three writes, the plan the scheduler *)
(* has, and the one a restart would find, are windows of one temperature:   *)
(* a start of one and a stop of another would not last the duration.        *)
ScheduledIsWhole ==
  /\ active # None => IsWhole(active)
  /\ PlanOf(calc) # None => IsWhole(calc)

(* The curve and the order of the writes together: neither suffices.        *)
THEOREM NoMixedWindow ==
  ASSUME ~Failing, NEW Temps \in SUBSET Int, Plans = WindowsOf(Temps)
  PROVE  Spec => []ScheduledIsWhole
<1>1. \A w \in Plans : IsWhole(w)
  <2> SUFFICES ASSUME NEW w \in Plans PROVE IsWhole(w)
    OBVIOUS
  <2>1. PICK temp \in Int : w \in WindowsAt(temp) BY DEF WindowsOf
  <2> QED BY <2>1, WindowLastsItsDuration DEF IsWhole
<1>2. WholePlans => ScheduledIsWhole
  BY <1>1 DEF WholePlans, ScheduledIsWhole, PlanOf
<1> QED BY <1>2, NoPartialPlan, PTL
=============================================================================
