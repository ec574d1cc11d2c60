------------------------- MODULE FiltrationSchedule -------------------------
(***************************************************************************)
(* The daily filtration window, from the plan to the pump: the scheduler   *)
(* slot of TimeModule, the event bus, and PoolLogicModule, which keeps its *)
(* own belief of whether the window is open.  Three tasks take part: the   *)
(* time task reloads and evaluates the slot table, the event dispatcher    *)
(* delivers edges, and the logic task applies plans and drives the pump.   *)
(* Applying a plan (applyFiltrationWindowSlot_, setSlot_) takes several    *)
(* steps and is run by the logic task and by the dispatcher.               *)
(*                                                                         *)
(* Left out: pressure, winter, freeze and heating demands (the window is   *)
(* the only demand in auto mode), and the parts of a plan's arithmetic.    *)
(***************************************************************************)
EXTENDS Integers, Sequences

CONSTANTS
  Day,        \* ticks in a day
  Plans,      \* the windows a water temperature can give
  Anchor,     \* the tick of the daily rollover (02:00)
  MaxBus,     \* bound: nothing interferes while so many events are queued
  Hazards     \* what may interfere; see HazardAssumption

NoPlan == [from |-> 0, to |-> 0, continuous |-> FALSE]

ASSUME PlanAssumption ==
  /\ Day \in Nat \ {0} /\ Anchor \in 0..(Day - 1)
  /\ Plans \subseteq [from : 0..(Day - 1), to : 0..(Day - 1), continuous : BOOLEAN]
  /\ NoPlan \notin Plans /\ MaxBus \in Nat
ASSUME HazardAssumption ==
  Hazards \subseteq {"preempt",   \* the logic task is suspended after it read isActive
                     "reload",    \* the table is reloaded while setSlot_ is persisting it
                     "resync",    \* the clock leaves Synced and comes back
                     "recalc",    \* poollogic.filtration.recalc
                     "manual",    \* poollogic.filtration.write
                     "auto",      \* poollogic.auto_mode.set
                     "write",     \* another client of the scheduler sets a slot
                     "flash",     \* a write to flash fails
                     "power"}     \* a power cut

VARIABLES
  now,         \* tick of the day
  synced,      \* state = Synced
  table,       \* the scheduler: slot 4, its active and mask bits, schedInitialized_,
               \* schedNeedsReload_, the blob, and what was done in this tick
  bus,         \* events posted and not yet dispatched
  belief,      \* filtrationWindowActive_
  continuous,  \* filtrationContinuous_
  adopted,     \* the plan that filtrationActiveDurationMinute_ belongs to
  pending,     \* pendingStartupPlan_, pendingManualRecalc_, pendingFiltrationReconcile_
  plan,        \* the stored plan (filtrationCalc*), NoPlan when its duration is 0
  staged,      \* filtrationTempPlanStored_
  armed,       \* filtrationTempSamplingArmed_
  sampled,     \* filtrationTempSampleCount_ > 0
  young,       \* the pump has run for less than five minutes
  auto,        \* autoMode_
  seen,        \* filtrationFsm_.on
  last,        \* filtrationFsm_.lastDesired
  pump,        \* the pump relay
  task         \* the logic task and the dispatcher

logic == <<belief, continuous, adopted, pending, plan, staged, armed, sampled>>
drive == <<auto, seen, young, last, pump>>
vars == <<now, synced, table, bus, logic, drive, task>>
-----------------------------------------------------------------------------
(* isRecurringActiveNow_; a continuous plan disables the slot. *)
WindowOpen(p, m) ==
  /\ ~p.continuous /\ p.from # p.to
  /\ IF p.from < p.to THEN p.from <= m /\ m < p.to ELSE m >= p.from \/ m < p.to

Boot(blob) ==
  [def |-> blob, active |-> FALSE, mask |-> FALSE, init |-> FALSE, reload |-> FALSE,
   blob |-> blob, done |-> FALSE, fired |-> FALSE]

Rest == [pc |-> "rest", plan |-> NoPlan, ret |-> "rest", was |-> Boot(NoPlan),
         window |-> FALSE, force |-> FALSE]

(* The next step of a task that is done with its locals. *)
Goto(t, pc) == task' = [task EXCEPT ![t] = [Rest EXCEPT !.pc = pc]]

Post(events) == bus' = bus \o events

(* A boot in auto mode.  At the first one no plan is stored, and           *)
(* ensureDailySlot_ has just added its slot to the blob.                   *)
Init ==
  /\ now \in 0..(Day - 1)
  /\ plan \in Plans \union {NoPlan}
  /\ table = Boot(plan)
  /\ synced = FALSE
  /\ bus = IF plan = NoPlan THEN <<"slots">> ELSE <<>>
  /\ belief = FALSE /\ continuous = FALSE /\ adopted = NoPlan
  /\ pending = [startup |-> TRUE, recalc |-> FALSE, reconcile |-> FALSE]
  /\ staged = FALSE /\ armed = FALSE /\ sampled = FALSE /\ young = FALSE
  /\ auto = TRUE /\ seen = FALSE /\ last = FALSE /\ pump = FALSE
  /\ task = [t \in {"loop", "events"} |-> Rest]

(* Something may interfere while the dispatcher is not far behind. *)
May(hazard) == hazard \in Hazards /\ Len(bus) < MaxBus
-----------------------------------------------------------------------------
(* The time task. *)

(* loadScheduleFromBlob_ *)
Reload ==
  /\ table.reload
  /\ "reload" \in Hazards \/ \A t \in {"loop", "events"} : task[t].pc # "persist"
  /\ table' = Boot(table.blob)
  /\ UNCHANGED <<now, synced, bus, logic, drive, task>>

(* Mutant: a window that closes is reported only if it was never replayed. *)
EdgesWithoutStop(open) == IF open /\ (~table.init \/ ~table.active) THEN <<"start">> ELSE <<>>

(* Edges of slot 4: the first evaluation after a change replays an open    *)
(* window and reports nothing else.                                        *)
Edges(open) ==
  IF open /\ (~table.init \/ ~table.active) THEN <<"start">>
  ELSE IF table.active /\ ~open /\ (table.init \/ table.def.continuous) THEN <<"stop">>
  ELSE <<>>

(* tickScheduler_ *)
Evaluate ==
  /\ synced
  /\ LET open == WindowOpen(table.def, now)
         rollover == now = Anchor /\ ~table.fired
     IN /\ table' = [table EXCEPT !.active = open, !.mask = open, !.init = TRUE, !.done = TRUE,
                                  !.fired = @ \/ rollover]
        /\ Post((IF rollover THEN <<"rollover">> ELSE <<>>) \o Edges(open))
  /\ UNCHANGED <<now, synced, logic, drive, task>>

(* setState: on leaving Synced the active windows are forgotten. *)
ClockSet ==
  /\ ~synced
  /\ synced' = TRUE
  /\ table' = [table EXCEPT !.init = FALSE]
  /\ UNCHANGED <<now, bus, logic, drive, task>>

ClockLost ==
  /\ May("resync") /\ synced
  /\ synced' = FALSE
  /\ table' = [table EXCEPT !.active = FALSE, !.mask = FALSE, !.init = FALSE, !.fired = FALSE]
  /\ UNCHANGED <<now, bus, logic, drive, task>>
-----------------------------------------------------------------------------
(* Applying a plan, by the logic task or by the dispatcher. *)

Apply(t, p, ret) ==
  task' = [task EXCEPT ![t].pc = "set", ![t].plan = p, ![t].ret = ret]

(* setSlot_ up to persistSchedule_ *)
SetSlot(t) ==
  /\ task[t].pc = "set"
  /\ table' = [table EXCEPT !.def = task[t].plan, !.active = FALSE, !.mask = FALSE,
                            !.init = FALSE]
  /\ task' = [task EXCEPT ![t].pc = "persist", ![t].was = table]
  /\ UNCHANGED <<now, synced, bus, logic, drive>>

(* persistSchedule_: an unchanged blob is neither written nor announced. *)
PersistSlot(t) ==
  /\ task[t].pc = "persist"
  /\ IF table.blob = table.def
     THEN UNCHANGED <<table, bus>>
     ELSE table' = [table EXCEPT !.blob = table.def] /\ Post(<<"slots">>)
  /\ task' = [task EXCEPT ![t].pc = "adopt", ![t].was = Boot(NoPlan)]
  /\ UNCHANGED <<now, synced, logic, drive>>

(* Mutant: a failed write is not rolled back. *)
PersistFailsKept(t) ==
  /\ "flash" \in Hazards
  /\ task[t].pc = "persist" /\ table.blob # table.def
  /\ Goto(t, task[t].ret)
  /\ UNCHANGED <<now, synced, table, bus, logic, drive>>

PersistFails(t) ==
  /\ "flash" \in Hazards
  /\ task[t].pc = "persist" /\ table.blob # table.def
  /\ LET was == task[t].was IN
       table' = [table EXCEPT !.def = was.def, !.active = was.active, !.init = was.init,
                              !.mask = was.mask]
  /\ Goto(t, task[t].ret)
  /\ UNCHANGED <<now, synced, bus, logic, drive>>

(* The rest of applyFiltrationWindowSlot_; a plan staged for the stop of   *)
(* the pump is staged no longer.                                           *)
Adopt(t) ==
  /\ task[t].pc = "adopt"
  /\ LET p == task[t].plan IN
       /\ belief' = (p.continuous \/ table.mask)
       /\ continuous' = p.continuous
       /\ adopted' = p
  /\ pending' = [pending EXCEPT !.reconcile = TRUE]
  /\ staged' = (staged /\ task[t].ret # "sample")
  /\ Goto(t, task[t].ret)
  /\ UNCHANGED <<now, synced, table, bus, plan, armed, sampled, drive>>
-----------------------------------------------------------------------------
(* The logic task: loop and runControlLoop_. *)

(* pendingStartupPlan_: the stored plan, or one from the first temperature. *)
StartupPlan ==
  /\ task["loop"].pc = "rest" /\ pending.startup
  /\ pending' = [pending EXCEPT !.startup = FALSE]
  /\ \E p \in IF plan = NoPlan THEN Plans ELSE {plan} : plan' = p /\ Apply("loop", p, "rest")
  /\ UNCHANGED <<now, synced, table, bus, belief, continuous, adopted, staged, armed, sampled, drive>>

(* pendingManualRecalc_: a new plan applied at once, or no temperature. *)
ManualRecalc ==
  /\ task["loop"].pc = "rest" /\ ~pending.startup /\ pending.recalc
  /\ pending' = [pending EXCEPT !.recalc = FALSE]
  /\ \/ \E p \in Plans : plan' = p /\ Apply("loop", p, "rest")
     \/ UNCHANGED <<plan, task>>
  /\ UNCHANGED <<now, synced, table, bus, belief, continuous, adopted, staged, armed, sampled, drive>>

(* armFiltrationTemperatureSampling_ *)
Arm == armed' = TRUE /\ staged' = FALSE /\ sampled' = FALSE

(* Mutant: the stop is looked for after the new state was noted. *)
SyncStateForgetful ==
  /\ task["loop"].pc = "rest" /\ ~pending.startup /\ ~pending.recalc
  /\ seen' = pump
  /\ young' = ((young \/ ~seen) /\ pump)
  /\ IF pump /\ ~seen THEN Arm
     ELSE armed' = (armed /\ pump) /\ UNCHANGED <<staged, sampled>>
  /\ Goto("loop", "sample")
  /\ UNCHANGED <<now, synced, table, bus, belief, continuous, adopted, pending, plan, auto,
                 last, pump>>

(* syncDeviceState_: a start of the pump arms the temperature sampling, a  *)
(* stop lets a staged plan in.                                             *)
SyncState ==
  /\ task["loop"].pc = "rest" /\ ~pending.startup /\ ~pending.recalc
  /\ seen' = pump
  /\ young' = ((young \/ ~seen) /\ pump)
  /\ IF pump /\ ~seen THEN Arm
     ELSE armed' = (armed /\ pump) /\ UNCHANGED <<staged, sampled>>
  /\ IF seen /\ ~pump /\ staged THEN Apply("loop", plan, "sample") ELSE Goto("loop", "sample")
  /\ UNCHANGED <<now, synced, table, bus, belief, continuous, adopted, pending, plan, auto,
                 last, pump>>

(* Mutant: the new plan is applied at once, to the cycle that is running.  *)
SampleAndApply ==
  /\ task["loop"].pc = "sample"
  /\ IF armed /\ seen /\ ~young /\ sampled
     THEN \E p \in Plans : plan' = p /\ armed' = FALSE /\ Apply("loop", p, "latch")
     ELSE /\ Goto("loop", "latch") /\ plan' = plan /\ armed' = (armed /\ (young \/ ~seen))
  /\ sampled' = (sampled \/ (armed /\ seen /\ young))
  /\ UNCHANGED <<now, synced, table, bus, belief, continuous, adopted, pending, staged, drive>>

(* Mutant: the mean of no samples gives a plan. *)
SampleOfNothing ==
  /\ task["loop"].pc = "sample"
  /\ Goto("loop", "latch")
  /\ IF ~armed \/ ~seen THEN UNCHANGED <<plan, staged, armed, sampled>>
     ELSE IF young THEN sampled' = TRUE /\ UNCHANGED <<plan, staged, armed>>
     ELSE /\ armed' = FALSE /\ staged' = TRUE /\ sampled' = sampled
          /\ plan' \in IF sampled THEN Plans ELSE {[NoPlan EXCEPT !.to = Day]}
  /\ UNCHANGED <<now, synced, table, bus, belief, continuous, adopted, pending, drive>>

(* updateFiltrationTemperatureSampling_: samples are taken in the first    *)
(* five minutes of circulation; after them the next plan is stored, not    *)
(* applied.                                                                *)
Sample ==
  /\ task["loop"].pc = "sample"
  /\ Goto("loop", "latch")
  /\ IF ~armed \/ ~seen THEN UNCHANGED <<plan, staged, armed, sampled>>
     ELSE IF young THEN sampled' = TRUE /\ UNCHANGED <<plan, staged, armed>>
     ELSE /\ armed' = FALSE
          /\ sampled' = sampled
          /\ IF sampled THEN plan' \in Plans /\ staged' = TRUE ELSE UNCHANGED <<plan, staged>>
  /\ UNCHANGED <<now, synced, table, bus, belief, continuous, adopted, pending, drive>>

Latch ==
  /\ task["loop"].pc = "latch"
  /\ pending' = [pending EXCEPT !.reconcile = FALSE]
  /\ task' = [task EXCEPT !["loop"].window = belief, !["loop"].force = pending.reconcile,
                          !["loop"].pc = IF pending.reconcile THEN "read" ELSE "decide"]
  /\ UNCHANGED <<now, synced, table, bus, belief, continuous, adopted, plan, staged, armed, sampled, drive>>

(* Mutant: the reconcile asks the slot, which a continuous plan disables. *)
ReadWindowOfSlot ==
  /\ task["loop"].pc = "read"
  /\ belief' = table.mask
  /\ task' = [task EXCEPT !["loop"].window = table.mask, !["loop"].pc = "decide"]
  /\ UNCHANGED <<now, synced, table, bus, continuous, adopted, pending, plan, staged, armed, sampled, drive>>

(* The reconcile asks the scheduler and then overwrites the belief. *)
ReadWindow ==
  /\ task["loop"].pc = "read"
  /\ LET open == continuous \/ table.mask IN
       /\ belief' = IF "preempt" \in Hazards THEN belief ELSE open
       /\ task' = [task EXCEPT !["loop"].window = open,
                               !["loop"].pc = IF "preempt" \in Hazards THEN "write" ELSE "decide"]
  /\ UNCHANGED <<now, synced, table, bus, continuous, adopted, pending, plan, staged, armed, sampled, drive>>

WriteBelief ==
  /\ task["loop"].pc = "write"
  /\ belief' = task["loop"].window
  /\ Goto("loop", "decide")
  /\ UNCHANGED <<now, synced, table, bus, continuous, adopted, pending, plan, staged, armed, sampled, drive>>

Desired(window) == IF auto THEN window ELSE seen

(* The arbitration; a forced reconcile makes the next write happen. *)
Decide ==
  /\ task["loop"].pc = "decide"
  /\ LET want == Desired(task["loop"].window) IN
       /\ task' = [task EXCEPT !["loop"].window = want, !["loop"].pc = "drive"]
       /\ last' = IF task["loop"].force THEN ~want ELSE last
  /\ UNCHANGED <<now, synced, table, bus, logic, auto, seen, young, pump>>

(* applyDeviceControl_: written on a change, and again while not followed. *)
Drive ==
  /\ task["loop"].pc = "drive"
  /\ LET want == task["loop"].window IN
       /\ pump' = IF want # last \/ want # seen THEN want ELSE pump
       /\ last' = want
  /\ Goto("loop", "rest")
  /\ UNCHANGED <<now, synced, table, bus, logic, auto, seen, young>>
-----------------------------------------------------------------------------
(* The dispatcher: onEvent_ of PoolLogicModule and of TimeModule. *)

Deliver(e) ==
  /\ task["events"].pc = "rest"
  /\ bus # <<>> /\ Head(bus) = e
  /\ bus' = Tail(bus)

OnStart ==
  /\ Deliver("start")
  /\ belief' = TRUE
  /\ UNCHANGED <<now, synced, table, continuous, adopted, pending, plan, staged, armed, sampled, drive, task>>

OnStop ==
  /\ Deliver("stop")
  /\ belief' = FALSE
  /\ UNCHANGED <<now, synced, table, continuous, adopted, pending, plan, staged, armed, sampled, drive, task>>

OnSlots ==
  /\ Deliver("slots")
  /\ table' = [table EXCEPT !.reload = TRUE]
  /\ UNCHANGED <<now, synced, logic, drive, task>>

OnAutoMode ==
  /\ Deliver("auto")
  /\ pending' = [pending EXCEPT !.reconcile = @ \/ auto]
  /\ UNCHANGED <<now, synced, table, belief, continuous, adopted, plan, staged, armed, sampled, drive, task>>

(* POOLLOGIC_EVENT_DAILY_RECALC: a continuous plan has no stop, so its     *)
(* successor is adopted here.                                              *)
OnRollover ==
  /\ Deliver("rollover")
  /\ IF continuous THEN Apply("events", plan, "arm") ELSE UNCHANGED task
  /\ UNCHANGED <<now, synced, table, logic, drive>>

ArmAgain ==
  /\ task["events"].pc = "arm"
  /\ IF seen THEN Arm ELSE UNCHANGED <<armed, staged, sampled>>
  /\ Goto("events", "rest")
  /\ UNCHANGED <<now, synced, table, bus, belief, continuous, adopted, pending, plan, drive>>
-----------------------------------------------------------------------------
(* Commands, other clients, power. *)

Recalc ==
  /\ May("recalc")
  /\ pending' = [pending EXCEPT !.recalc = TRUE]
  /\ UNCHANGED <<now, synced, table, bus, belief, continuous, adopted, plan, staged, armed,
                 sampled, drive, task>>

(* cmdFiltrationWrite_: leaves auto mode, then writes the relay. *)
ManualWrite ==
  /\ May("manual")
  /\ auto' = FALSE
  /\ Post(IF auto THEN <<"auto">> ELSE <<>>)
  /\ pump' \in BOOLEAN
  /\ UNCHANGED <<now, synced, table, logic, seen, young, last, task>>

AutoModeSet ==
  /\ May("auto")
  /\ auto' = ~auto
  /\ Post(<<"auto">>)
  /\ UNCHANGED <<now, synced, table, logic, seen, young, last, pump, task>>

(* setSlot_ for a slot of somebody else. *)
OtherSlotWrite ==
  /\ May("write")
  /\ table' = [table EXCEPT !.init = FALSE]
  /\ Post(<<"slots">>)
  /\ UNCHANGED <<now, synced, logic, drive, task>>

PowerCut ==
  /\ "power" \in Hazards
  /\ table' = Boot(table.blob)
  /\ synced' = FALSE /\ bus' = <<>>
  /\ belief' = FALSE /\ continuous' = FALSE /\ adopted' = NoPlan
  /\ pending' = [startup |-> TRUE, recalc |-> FALSE, reconcile |-> FALSE]
  /\ staged' = FALSE /\ armed' = FALSE /\ sampled' = FALSE /\ young' = FALSE
  /\ seen' = FALSE /\ last' = FALSE /\ pump' = FALSE
  /\ task' = [t \in {"loop", "events"} |-> Rest]
  /\ UNCHANGED <<now, plan, auto>>

(* Every task has caught up: no event, flag or step is outstanding. *)
Settled ==
  /\ bus = <<>> /\ \A t \in {"loop", "events"} : task[t].pc = "rest"
  /\ ~pending.startup /\ ~pending.recalc /\ ~pending.reconcile /\ ~table.reload
  /\ synced => table.init /\ table.done
  /\ seen = pump /\ last = Desired(belief)

(* A tick is long against the 200 and 250 ms of the tasks, and not shorter *)
(* than the five minutes of the sampling.                                  *)
Tick ==
  /\ Settled
  /\ now' = (now + 1) % Day
  /\ young' = FALSE
  /\ table' = [table EXCEPT !.fired = FALSE, !.done = FALSE]
  /\ UNCHANGED <<synced, bus, logic, auto, seen, last, pump, task>>

Applying(t) == SetSlot(t) \/ PersistSlot(t) \/ PersistFails(t) \/ Adopt(t)

Loop == \/ StartupPlan \/ ManualRecalc \/ SyncState \/ Sample \/ Latch \/ ReadWindow
        \/ WriteBelief \/ Decide \/ Drive \/ Applying("loop")
Dispatch == \/ OnStart \/ OnStop \/ OnSlots \/ OnAutoMode \/ OnRollover \/ ArmAgain
            \/ Applying("events")

Next == \/ Reload \/ Evaluate \/ ClockSet \/ ClockLost \/ Loop \/ Dispatch
        \/ Recalc \/ ManualWrite \/ AutoModeSet \/ OtherSlotWrite \/ PowerCut \/ Tick

Spec == Init /\ [][Next]_vars

(* Every task runs, time passes, and the clock is synchronised. *)
Fairness == /\ WF_vars(Reload) /\ WF_vars(Evaluate) /\ WF_vars(Loop) /\ WF_vars(Dispatch)
            /\ WF_vars(ClockSet) /\ SF_vars(Tick)

FairSpec == Spec /\ Fairness
-----------------------------------------------------------------------------
Slots == Plans \union {NoPlan}

Table == [def : Slots, active : BOOLEAN, mask : BOOLEAN, init : BOOLEAN, reload : BOOLEAN,
          blob : Slots, done : BOOLEAN, fired : BOOLEAN]

Steps == {"rest", "set", "persist", "adopt", "sample", "latch", "read", "write", "decide",
          "drive", "arm"}

TypeOK ==
  /\ now \in 0..(Day - 1) /\ synced \in BOOLEAN
  /\ table \in Table
  /\ bus \in Seq({"start", "stop", "slots", "auto", "rollover"})
  /\ belief \in BOOLEAN /\ continuous \in BOOLEAN /\ adopted \in Slots
  /\ pending \in [startup : BOOLEAN, recalc : BOOLEAN, reconcile : BOOLEAN]
  /\ plan \in Slots /\ staged \in BOOLEAN /\ armed \in BOOLEAN
  /\ sampled \in BOOLEAN /\ young \in BOOLEAN
  /\ auto \in BOOLEAN /\ seen \in BOOLEAN /\ last \in BOOLEAN /\ pump \in BOOLEAN
  /\ task \in [{"loop", "events"} -> [pc : Steps, plan : Slots, ret : Steps, was : Table,
                                      window : BOOLEAN, force : BOOLEAN]]

(* plan_tests_poollogic_pdm_io.csv A02, PoolLogicModule.md: in auto mode   *)
(* the filtration follows the scheduler's window; once every task has      *)
(* caught up, the pump runs exactly while the window is open.              *)
FiltrationFollowsWindow ==
  Settled /\ synced /\ auto => (pump <=> (continuous \/ WindowOpen(table.def, now)))

(* applyFiltrationWindowSlot_: the plan PoolLogic reports as active is the *)
(* one the scheduler has.                                                  *)
PlanIsScheduled == Settled /\ adopted # NoPlan => table.def = adopted

(* PoolLogicLifecycle.cpp: calculated values describe the next cycle and   *)
(* must not change the duration of the cycle currently running.            *)
RunKeepsItsPlan ==
  [][pump /\ ~continuous => table'.def = table.def]_vars

(* The edges and the 02:00 rollover refresh the belief: an edge that was   *)
(* lost is made good by the next, once the clock stays set and nobody      *)
(* takes the loop out of auto mode.                                        *)
HealsOnceUndisturbed ==
  <>[](synced /\ auto) => <>[](Settled => (pump <=> (continuous \/ WindowOpen(table.def, now))))

(* syncDeviceState_, onEvent_: a plan measured during a run is adopted     *)
(* when the run stops or, for a continuous plan, at the 02:00 rollover.    *)
StagedIsAdopted == staged ~> (~staged /\ table.def = plan)
=============================================================================
