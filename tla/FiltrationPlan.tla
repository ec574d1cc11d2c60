--------------------------- MODULE FiltrationPlan ---------------------------
(***************************************************************************)
(* How PoolLogicModule stores the filtration plan it has calculated: three *)
(* configuration variables, each a key of its own in flash, written one    *)
(* after the other with the duration as the marker of a whole plan.  Power *)
(* may fail between any two writes, and the dispatcher reads the three     *)
(* variables when the 02:00 rollover adopts a stored plan.                 *)
(*                                                                         *)
(* ConfigStore::set changes a variable and its key together or neither, so *)
(* one record stands for both.                                             *)
(***************************************************************************)
EXTENDS Integers

CONSTANTS
  Plans,     \* the plans that computeFiltrationWindow_ can return
  None,      \* no plan
  Failing    \* may a write to flash fail

Minute == 0..1439
Stored == [start : Minute, stop : Minute, duration : 0..1440]

(* applyFiltrationWindowSlot_, loop: what makes a stored plan usable. *)
Usable(duration) == 120 <= duration /\ duration <= 1440

ASSUME PlansAssumption == /\ Plans \subseteq Stored /\ Plans # {}
                          /\ \A p \in Plans : Usable(p.duration)
                          /\ None \notin Stored
ASSUME FailingAssumption == Failing \in BOOLEAN

VARIABLES
  calc,       \* filtrationCalc{Start,Stop,Duration}Minute_ and their keys
  step,       \* the write that comes next
  next,       \* the plan being stored
  ok,         \* stored, the result so far
  immediate,  \* applyImmediately
  booting,    \* pendingStartupPlan_
  staged,     \* filtrationTempPlanStored_
  active      \* the plan PoolLogic gave to the scheduler since boot

vars == <<calc, step, next, ok, immediate, booting, staged, active>>

(* What a restart finds. *)
PlanOf(record) == IF Usable(record.duration) THEN record ELSE None

(* applyFiltrationWindowSlot_: an unusable plan is refused, and the        *)
(* scheduler takes a usable one if it can save its own table.              *)
Give(p, taken) ==
  /\ taken \in IF PlanOf(p) = None THEN {FALSE} ELSE IF Failing THEN BOOLEAN ELSE {TRUE}
  /\ active' = IF taken THEN p ELSE active
-----------------------------------------------------------------------------
(* An installed controller with a plan, or one that never had any. *)
Init ==
  /\ calc \in Plans \union {[start |-> 0, stop |-> 0, duration |-> 0]}
  /\ step = "rest" /\ next = None /\ ok = TRUE /\ immediate = FALSE
  /\ booting = TRUE /\ staged = FALSE /\ active = None

(* calculateAndStoreNextFiltrationPlan_; a measurement has been armed      *)
(* before, which gives up a plan that was staged.                          *)
Calculate(p, now) ==
  /\ step = "rest"
  /\ next' = p /\ immediate' = now /\ ok' = TRUE
  /\ step' = "invalidate"
  /\ staged' = (staged /\ now)
  /\ UNCHANGED <<calc, active>>

(* Mutant: a controller without a plan waits for somebody to make one. *)
StartupPlanIfStored ==
  /\ booting /\ step = "rest" /\ booting' = FALSE
  /\ active' = PlanOf(calc)
  /\ UNCHANGED <<calc, step, next, ok, immediate, staged>>

(* loop: the stored plan is taken over; only without one is a new one made. *)
StartupPlan ==
  /\ booting /\ step = "rest"
  /\ booting' = FALSE
  /\ IF PlanOf(calc) # None
     THEN /\ \E taken \in BOOLEAN : Give(calc, taken)
          /\ UNCHANGED <<calc, step, next, ok, immediate, staged>>
     ELSE \E p \in Plans : Calculate(p, TRUE)

(* poollogic.filtration.recalc, and the end of the temperature measurement. *)
Recalculate ==
  /\ ~booting
  /\ \E p \in Plans, now \in BOOLEAN : Calculate(p, now)
  /\ UNCHANGED booting

(* ConfigStore::set; the next write is made whatever this one returned. *)
Set(field, value) ==
  \/ calc' = [calc EXCEPT ![field] = value] /\ ok' = ok
  \/ Failing /\ calc[field] # value /\ calc' = calc /\ ok' = FALSE

(* Mutant: the old plan stays valid while its fields are replaced. *)
InvalidateLater ==
  /\ step = "invalidate" /\ step' = "start"
  /\ UNCHANGED <<calc, ok, next, immediate, booting, staged, active>>

Invalidate ==
  /\ step = "invalidate" /\ step' = "start"
  /\ Set("duration", 0)
  /\ UNCHANGED <<next, immediate, booting, staged, active>>

StoreStart ==
  /\ step = "start" /\ step' = "stop"
  /\ Set("start", next.start)
  /\ UNCHANGED <<next, immediate, booting, staged, active>>

(* Mutant: the stop is computed without regard to midnight. *)
StoreStopUnwrapped ==
  /\ step = "stop" /\ step' = "duration"
  /\ Set("stop", next.start + next.duration)
  /\ UNCHANGED <<next, immediate, booting, staged, active>>

StoreStop ==
  /\ step = "stop" /\ step' = "duration"
  /\ Set("stop", next.stop)
  /\ UNCHANGED <<next, immediate, booting, staged, active>>

(* The marker; a plan that was stored may be applied at once. *)
StoreDuration ==
  /\ step = "duration" /\ step' = "rest"
  /\ Set("duration", next.duration)
  /\ IF ok' /\ immediate THEN \E taken \in BOOLEAN : Give(next, taken) ELSE active' = active
  /\ staged' = IF immediate THEN staged ELSE ok'
  /\ UNCHANGED <<next, immediate, booting>>

(* Mutant: the plan is adopted without a look at its duration. *)
AdoptUnchecked ==
  /\ ~booting
  /\ \/ step = "rest" /\ staged /\ staged' = FALSE
     \/ active # None /\ active.duration = 1440 /\ staged' \in {staged, FALSE}
  /\ active' = calc
  /\ UNCHANGED <<calc, step, next, ok, immediate, booting>>

(* applyStoredFiltrationPlan_: by the logic task when a run has ended, for *)
(* the plan it staged, and by the dispatcher, at any moment, for a         *)
(* continuous plan.                                                        *)
Adopt ==
  /\ ~booting
  /\ \E taken \in BOOLEAN :
       /\ Give(calc, taken)
       /\ \/ step = "rest" /\ staged /\ staged' = ~taken
          \/ active # None /\ active.duration = 1440 /\ staged' \in {staged, FALSE}
  /\ UNCHANGED <<calc, step, next, ok, immediate, booting>>

PowerCut ==
  /\ step' = "rest" /\ next' = next /\ ok' = TRUE /\ immediate' = FALSE
  /\ booting' = TRUE /\ staged' = FALSE /\ active' = None
  /\ UNCHANGED calc

(* One store of the logic task. *)
Store == Invalidate \/ StoreStart \/ StoreStop \/ StoreDuration

Next == StartupPlan \/ Recalculate \/ Store \/ Adopt \/ PowerCut

Spec == Init /\ [][Next]_vars

(* The logic task runs. *)
FairSpec == Spec /\ WF_vars(StartupPlan \/ Store)
-----------------------------------------------------------------------------
TypeOK ==
  /\ calc \in Stored
  /\ step \in {"rest", "invalidate", "start", "stop", "duration"}
  /\ next \in Plans \union {None}
  /\ ok \in BOOLEAN /\ immediate \in BOOLEAN /\ booting \in BOOLEAN /\ staged \in BOOLEAN
  /\ active \in Stored \union {None}

(* calculateAndStoreNextFiltrationPlan_: a partially written plan is never *)
(* exposed as valid, neither to the scheduler nor to a restart.            *)
WholePlans == active \in Plans \union {None} /\ PlanOf(calc) \in Plans \union {None}

(* The three keys behave as one register that is written at once. *)
Register == INSTANCE PlanRegister WITH stored <- PlanOf(calc), asked <- next

StoreIsAtomic == Register!Spec

(* loop: a controller left without a plan makes another; once power stays, *)
(* there is a plan again and again, whatever was cut short.                *)
PlanReturns == <>[][~PowerCut]_vars => []<>(PlanOf(calc) # None /\ active # None)
=============================================================================
