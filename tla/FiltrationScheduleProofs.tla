---------------------- MODULE FiltrationScheduleProofs ----------------------
(***************************************************************************)
(* Proofs about the filtration window, for a day of any length and any set *)
(* of plans.  The types hold whatever interferes; what may interfere with  *)
(* the others is said by NoOverlap, NobodyAsks, Undisturbed and Replayed.  *)
(***************************************************************************)
EXTENDS FiltrationSchedule, SequenceTheorems, TLAPS

Tasks == {"loop", "events"}
Events == {"start", "stop", "slots", "auto", "rollover"}
Pending == [startup : BOOLEAN, recalc : BOOLEAN, reconcile : BOOLEAN]
TaskState == [pc : Steps, plan : Slots, ret : Steps, was : Table, window : BOOLEAN, force : BOOLEAN]

(* A slot as it comes out of flash, and a task without locals, are well    *)
(* formed.                                                                 *)
LEMMA BootType ==
  /\ NoPlan \in Slots
  /\ \A p \in Slots : Boot(p) \in Table /\ Boot(p).def = p /\ Boot(p).blob = p
  /\ Rest \in TaskState
  /\ Rest.pc = "rest"
  /\ \A s \in Steps : [Rest EXCEPT !.pc = s] \in TaskState
<1>1. NoPlan \in Slots
  BY DEF Slots
<1>2. \A p \in Slots : Boot(p) \in Table /\ Boot(p).def = p /\ Boot(p).blob = p
  BY DEF Boot, Table
<1>3. Boot(NoPlan) \in Table
  BY <1>1, <1>2
<1>4. Rest \in TaskState /\ Rest.pc = "rest"
  BY <1>1, <1>3 DEF Rest, TaskState, Steps
<1> QED BY <1>1, <1>2, <1>4 DEF TaskState

(* Posting and delivering keep the bus a sequence of events.               *)
LEMMA BusType ==
  ASSUME NEW b \in Seq(Events)
  PROVE  /\ <<>> \in Seq(Events)
         /\ \A e \in Events : <<e>> \in Seq(Events)
         /\ \A c \in Seq(Events) : b \o c \in Seq(Events)
         /\ b # <<>> => Tail(b) \in Seq(Events)
<1>1. \A e \in Events : <<e>> \in Seq(Events)
  OBVIOUS
<1>2. \A c \in Seq(Events) : b \o c \in Seq(Events)
  BY ConcatProperties
<1>3. b # <<>> => Tail(b) \in Seq(Events)
  BY HeadTailProperties
<1> QED BY <1>1, <1>2, <1>3

(* The two ways a task moves on.                                           *)
LEMMA GotoType ==
  ASSUME task \in [Tasks -> TaskState], NEW t \in Tasks, NEW s \in Steps, Goto(t, s)
  PROVE  /\ task' \in [Tasks -> TaskState]
         /\ task'[t] = [Rest EXCEPT !.pc = s] /\ task'[t].pc = s
         /\ \A u \in Tasks : u # t => task'[u] = task[u]
<1>1. [Rest EXCEPT !.pc = s] \in TaskState /\ [Rest EXCEPT !.pc = s].pc = s
  BY BootType DEF TaskState
<1> QED BY <1>1 DEF Goto

(* A task that begins to give a plan keeps its other locals.               *)
LEMMA ApplyType ==
  ASSUME task \in [Tasks -> TaskState], NEW t \in Tasks, NEW p \in Slots, NEW r \in Steps,
         Apply(t, p, r)
  PROVE  /\ task' \in [Tasks -> TaskState]
         /\ task'[t].pc = "set" /\ task'[t].plan = p
         /\ \A u \in Tasks : u # t => task'[u] = task[u]
<1> DEFINE next == [task[t] EXCEPT !.pc = "set", !.plan = p, !.ret = r]
<1>1. next \in TaskState /\ next.pc = "set" /\ next.plan = p
  BY DEF TaskState, Steps
<1>2. task' = [task EXCEPT ![t] = next]
  BY DEF Apply
<1> HIDE DEF next
<1> QED BY <1>1, <1>2
-----------------------------------------------------------------------------
(* The types of the variables, in the names of this module.                *)
Typed ==
  /\ now \in 0 .. (Day - 1) /\ synced \in BOOLEAN /\ table \in Table /\ bus \in Seq(Events)
  /\ belief \in BOOLEAN /\ continuous \in BOOLEAN /\ adopted \in Slots
  /\ pending \in Pending /\ plan \in Slots /\ staged \in BOOLEAN /\ armed \in BOOLEAN
  /\ sampled \in BOOLEAN /\ young \in BOOLEAN
  /\ auto \in BOOLEAN /\ seen \in BOOLEAN /\ last \in BOOLEAN /\ pump \in BOOLEAN
  /\ task \in [Tasks -> TaskState]

(* The names above say what TypeOK says.                                   *)
LEMMA TypedIsTypeOK == Typed <=> TypeOK
BY DEF Typed, TypeOK, Events, Tasks, TaskState, Pending

(* Applying a plan keeps the types.                                        *)
LEMMA ApplyingType ==
  ASSUME Typed, NEW t \in Tasks, Applying(t)
  PROVE  Typed'
<1> USE DEF Typed
<1>0. /\ task[t] \in TaskState /\ task[t].plan \in Slots /\ task[t].ret \in Steps
      /\ task[t].was \in Table
  BY DEF TaskState
<1>1. CASE SetSlot(t)
  <2>1. table' \in Table
    BY <1>0, <1>1 DEF SetSlot, Table
  <2>2. task' \in [Tasks -> TaskState]
    BY <1>0, <1>1 DEF SetSlot, TaskState, Steps
  <2> QED BY <1>1, <2>1, <2>2 DEF SetSlot, logic, drive
<1>2. CASE PersistSlot(t)
  <2>1. table' \in Table
    BY <1>2 DEF PersistSlot, Table
  <2>2. bus' \in Seq(Events)
    <3>1. <<"slots">> \in Seq(Events)
      BY DEF Events
    <3>2. bus \o <<"slots">> \in Seq(Events)
      BY <3>1, BusType
    <3> QED BY <1>2, <3>2 DEF PersistSlot, Post
  <2> DEFINE next == [task[t] EXCEPT !.pc = "adopt", !.was = Boot(NoPlan)]
  <2>3. Boot(NoPlan) \in Table
    BY BootType
  <2>4. next \in TaskState
    BY <1>0, <2>3 DEF TaskState, Steps
  <2>5. task' = [task EXCEPT ![t] = next]
    BY <1>2 DEF PersistSlot
  <2> HIDE DEF next
  <2>6. task' \in [Tasks -> TaskState]
    BY <2>4, <2>5
  <2> QED BY <1>2, <2>1, <2>2, <2>6 DEF PersistSlot, logic, drive
<1>3. CASE PersistFails(t)
  <2>1. table' \in Table
    BY <1>0, <1>3 DEF PersistFails, Table
  <2>2. task' \in [Tasks -> TaskState]
    BY <1>0, <1>3, GotoType DEF PersistFails
  <2> QED BY <1>3, <2>1, <2>2 DEF PersistFails, logic, drive
<1>4. CASE Adopt(t)
  <2>1. task' \in [Tasks -> TaskState]
    BY <1>0, <1>4, GotoType DEF Adopt
  <2>2. task[t].plan.continuous \in BOOLEAN
    <3>1. \A p \in Plans : p.continuous \in BOOLEAN
      BY PlanAssumption
    <3>2. NoPlan.continuous \in BOOLEAN
      BY DEF NoPlan
    <3> QED BY <1>0, <3>1, <3>2 DEF Slots
  <2>3. belief' \in BOOLEAN /\ continuous' \in BOOLEAN /\ staged' \in BOOLEAN
    BY <1>4, <2>2 DEF Adopt, Table
  <2>4. pending' \in Pending /\ adopted' \in Slots
    BY <1>0, <1>4 DEF Adopt, Pending
  <2> QED BY <1>4, <2>1, <2>3, <2>4 DEF Adopt, drive
<1> QED BY <1>1, <1>2, <1>3, <1>4 DEF Applying

(* The steps of the control loop keep the types.                           *)
LEMMA LoopType ==
  ASSUME Typed, Loop
  PROVE  Typed'
<1> USE DEF Typed
<1>0. /\ "loop" \in Tasks /\ task["loop"] \in TaskState /\ Plans \subseteq Slots
      /\ "rest" \in Steps /\ "sample" \in Steps /\ "latch" \in Steps /\ "decide" \in Steps
  BY DEF Tasks, Slots, Steps
<1>1. CASE StartupPlan
  <2>1. PICK p \in Slots : plan' = p /\ Apply("loop", p, "rest")
    BY <1>0, <1>1 DEF StartupPlan
  <2>2. task' \in [Tasks -> TaskState] BY <1>0, <2>1, ApplyType
  <2>3. pending' \in Pending BY <1>1 DEF StartupPlan, Pending
  <2> QED BY <1>1, <2>1, <2>2, <2>3 DEF StartupPlan, drive
<1>2. CASE ManualRecalc
  <2>1. pending' \in Pending BY <1>2 DEF ManualRecalc, Pending
  <2>2. plan' \in Slots /\ task' \in [Tasks -> TaskState]
    <3>1. CASE \E p \in Plans : plan' = p /\ Apply("loop", p, "rest")
      BY <1>0, <3>1, ApplyType
    <3>2. CASE UNCHANGED <<plan, task>>
      BY <3>2
    <3> QED BY <1>2, <3>1, <3>2 DEF ManualRecalc
  <2> QED BY <1>2, <2>1, <2>2 DEF ManualRecalc, drive
<1>3. CASE SyncState
  <2>1. task' \in [Tasks -> TaskState]
    BY <1>0, <1>3, ApplyType, GotoType DEF SyncState
  <2>2. /\ armed' \in BOOLEAN /\ staged' \in BOOLEAN /\ sampled' \in BOOLEAN
        /\ seen' \in BOOLEAN /\ young' \in BOOLEAN
    BY <1>3 DEF SyncState, Arm
  <2> QED BY <1>3, <2>1, <2>2 DEF SyncState
<1>4. CASE Sample
  <2>1. task' \in [Tasks -> TaskState]
    BY <1>0, <1>4, GotoType DEF Sample
  <2>2. /\ armed' \in BOOLEAN /\ staged' \in BOOLEAN /\ sampled' \in BOOLEAN /\ plan' \in Slots
    BY <1>0, <1>4 DEF Sample
  <2> QED BY <1>4, <2>1, <2>2 DEF Sample, drive
<1>5. CASE Latch
  <2>1. pending' \in Pending BY <1>5 DEF Latch, Pending
  <2>2. task' \in [Tasks -> TaskState]
    BY <1>0, <1>5 DEF Latch, TaskState, Steps, Pending
  <2> QED BY <1>5, <2>1, <2>2 DEF Latch, drive
<1>6. CASE ReadWindow
  <2>1. (continuous \/ table.mask) \in BOOLEAN
    OBVIOUS
  <2>2. belief' \in BOOLEAN
    BY <1>6, <2>1 DEF ReadWindow
  <2>3. task' \in [Tasks -> TaskState]
    BY <1>0, <1>6, <2>1 DEF ReadWindow, TaskState, Steps
  <2> QED BY <1>6, <2>2, <2>3 DEF ReadWindow, drive
<1>7. CASE WriteBelief
  <2>1. task' \in [Tasks -> TaskState] /\ belief' \in BOOLEAN
    BY <1>0, <1>7, GotoType DEF WriteBelief, TaskState
  <2> QED BY <1>7, <2>1 DEF WriteBelief, drive
<1>8. CASE Decide
  <2>1. Desired(task["loop"].window) \in BOOLEAN
    BY <1>0 DEF Desired, TaskState
  <2>2. task' \in [Tasks -> TaskState] /\ last' \in BOOLEAN
    BY <1>0, <1>8, <2>1 DEF Decide, TaskState, Steps
  <2> QED BY <1>8, <2>2 DEF Decide, logic
<1>9. CASE Drive
  <2>1. task' \in [Tasks -> TaskState]
    BY <1>0, <1>9, GotoType DEF Drive
  <2>2. pump' \in BOOLEAN /\ last' \in BOOLEAN
    BY <1>0, <1>9 DEF Drive, TaskState
  <2> QED BY <1>9, <2>1, <2>2 DEF Drive, logic
<1>10. CASE Applying("loop")
  BY <1>0, <1>10, ApplyingType
<1> QED
  BY <1>1, <1>2, <1>3, <1>4, <1>5, <1>6, <1>7, <1>8, <1>9, <1>10 DEF Loop

(* The steps of the dispatcher keep the types.                             *)
LEMMA DispatchType ==
  ASSUME Typed, Dispatch
  PROVE  Typed'
<1> USE DEF Typed
<1>0. "events" \in Tasks /\ "arm" \in Steps /\ "rest" \in Steps
  BY DEF Tasks, Steps
<1>1. ASSUME NEW e, Deliver(e) PROVE bus' \in Seq(Events)
  BY <1>1, BusType DEF Deliver
<1>2. CASE OnStart
  BY <1>1, <1>2 DEF OnStart, drive
<1>3. CASE OnStop
  BY <1>1, <1>3 DEF OnStop, drive
<1>4. CASE OnSlots
  BY <1>1, <1>4 DEF OnSlots, logic, drive, Table
<1>5. CASE OnAutoMode
  BY <1>1, <1>5 DEF OnAutoMode, drive, Pending
<1>6. CASE OnRollover
  <2>1. task' \in [Tasks -> TaskState]
    BY <1>0, <1>6, ApplyType DEF OnRollover
  <2> QED BY <1>1, <1>6, <2>1 DEF OnRollover, logic, drive
<1>7. CASE ArmAgain
  <2>1. task' \in [Tasks -> TaskState]
    BY <1>0, <1>7, GotoType DEF ArmAgain
  <2>2. armed' \in BOOLEAN /\ staged' \in BOOLEAN /\ sampled' \in BOOLEAN
    BY <1>7 DEF ArmAgain, Arm
  <2> QED BY <1>7, <2>1, <2>2 DEF ArmAgain, drive
<1>8. CASE Applying("events")
  BY <1>0, <1>8, ApplyingType
<1> QED
  BY <1>2, <1>3, <1>4, <1>5, <1>6, <1>7, <1>8 DEF Dispatch

(* Clocks, commands, other clients and power keep the types.               *)
LEMMA EnvironmentType ==
  ASSUME Typed,
         \/ Reload \/ Evaluate \/ ClockSet \/ ClockLost \/ Recalc \/ ManualWrite
         \/ AutoModeSet \/ OtherSlotWrite \/ PowerCut \/ Tick
  PROVE  Typed'
<1> USE DEF Typed
<1>1. CASE Reload
  <2>1. table' \in Table BY <1>1, BootType DEF Reload, Table
  <2> QED BY <1>1, <2>1 DEF Reload, logic, drive
<1>2. CASE Evaluate
  <2> DEFINE open == WindowOpen(table.def, now)
             rollover == now = Anchor /\ ~table.fired
  <2>1. open \in BOOLEAN /\ rollover \in BOOLEAN
    BY DEF WindowOpen
  <2>2. table' = [table EXCEPT !.active = open, !.mask = open, !.init = TRUE, !.done = TRUE,
                               !.fired = @ \/ rollover]
    BY <1>2 DEF Evaluate
  <2> HIDE DEF open
  <2>3. table' \in Table
    BY <2>1, <2>2 DEF Table
  <2>4. Edges(open) \in Seq(Events)
    BY BusType DEF Edges, Events
  <2>5. (IF rollover THEN <<"rollover">> ELSE <<>>) \in Seq(Events)
    BY BusType DEF Events
  <2>6. bus' = bus \o ((IF rollover THEN <<"rollover">> ELSE <<>>) \o Edges(open))
    BY <1>2 DEF Evaluate, Post, open
  <2>7. bus' \in Seq(Events)
    BY <2>4, <2>5, <2>6, BusType
  <2> QED BY <1>2, <2>3, <2>7 DEF Evaluate, logic, drive
<1>3. CASE ClockSet
  <2>1. table' \in Table BY <1>3 DEF ClockSet, Table
  <2> QED BY <1>3, <2>1 DEF ClockSet, logic, drive
<1>4. CASE ClockLost
  <2>1. table' \in Table BY <1>4 DEF ClockLost, Table
  <2> QED BY <1>4, <2>1 DEF ClockLost, logic, drive
<1>5. CASE Recalc
  BY <1>5 DEF Recalc, drive, Pending
<1>6. CASE ManualWrite
  <2>1. bus' \in Seq(Events)
    BY <1>6, BusType DEF ManualWrite, Post, Events
  <2> QED BY <1>6, <2>1 DEF ManualWrite, logic
<1>7. CASE AutoModeSet
  <2>1. bus' \in Seq(Events)
    BY <1>7, BusType DEF AutoModeSet, Post, Events
  <2> QED BY <1>7, <2>1 DEF AutoModeSet, logic
<1>8. CASE OtherSlotWrite
  <2>1. bus' \in Seq(Events)
    BY <1>8, BusType DEF OtherSlotWrite, Post, Events
  <2>2. table' \in Table
    BY <1>8 DEF OtherSlotWrite, Table
  <2> QED BY <1>8, <2>1, <2>2 DEF OtherSlotWrite, logic, drive
<1>9. CASE PowerCut
  <2>1. table' \in Table /\ adopted' \in Slots
    BY <1>9, BootType DEF PowerCut, Table
  <2>2. task' \in [Tasks -> TaskState]
    BY <1>9, BootType DEF PowerCut, Tasks
  <2>3. pending' \in Pending /\ bus' \in Seq(Events)
    BY <1>9 DEF PowerCut, Pending
  <2> QED BY <1>9, <2>1, <2>2, <2>3 DEF PowerCut
<1>10. CASE Tick
  <2>1. now' \in 0 .. (Day - 1)
    BY <1>10, PlanAssumption DEF Tick
  <2>2. table' \in Table BY <1>10 DEF Tick, Table
  <2> QED BY <1>10, <2>1, <2>2 DEF Tick, logic
<1> QED BY <1>1, <1>2, <1>3, <1>4, <1>5, <1>6, <1>7, <1>8, <1>9, <1>10

(* Every step keeps the types.                                             *)
LEMMA TypeStep == Typed /\ [Next]_vars => Typed'
<1>1. Typed /\ UNCHANGED vars => Typed'
  BY DEF Typed, vars, logic, drive
<1> QED
  BY <1>1, LoopType, DispatchType, EnvironmentType DEF Next

(* The variables start with their types.                                   *)
LEMMA TypeInit == Init => Typed
<1> SUFFICES ASSUME Init PROVE Typed
  OBVIOUS
<1>1. plan \in Slots /\ NoPlan \in Slots BY DEF Init, Slots
<1>2. table \in Table /\ task \in [Tasks -> TaskState]
  BY <1>1, BootType DEF Init, Tasks
<1>3. bus \in Seq(Events)
  <2>1. <<>> \in Seq(Events) /\ <<"slots">> \in Seq(Events) BY DEF Events
  <2> QED BY <2>1 DEF Init
<1>4. pending \in Pending BY DEF Init, Pending
<1> QED BY <1>1, <1>2, <1>3, <1>4 DEF Init, Typed

(* The table, the bus, the plans and the tasks always have their types.    *)
THEOREM TypeCorrect == Spec => []TypeOK
BY TypeInit, TypeStep, TypedIsTypeOK, PTL DEF Spec
-----------------------------------------------------------------------------
(* The plan PoolLogic reports is the one the scheduler has, when no plan is *)
(* continuous (the dispatcher then applies none) and the table is not       *)
(* reloaded between setSlot_ and its write of the blob.                     *)
NoOverlap == (\A p \in Plans : ~p.continuous) /\ "reload" \notin Hazards

Between == {"persist", "adopt"}

(* Between plans the table and the blob are the same, and what was adopted; *)
(* while one is applied, the loop knows what it replaced.                   *)
ScheduleInv ==
  LET loop == task["loop"] IN
  /\ ~continuous
  /\ task["events"].pc = "rest"
  /\ loop.ret \notin Between
  /\ IF loop.pc = "persist" THEN table.def = loop.plan /\ loop.was.def = table.blob
     ELSE table.def = table.blob
  /\ IF loop.pc = "adopt" THEN table.blob = loop.plan
     ELSE adopted # NoPlan => table.blob = adopted

(* What the invariant speaks of is left alone by most of the code.          *)
LEMMA ScheduleKept ==
  ASSUME ScheduleInv, UNCHANGED <<continuous, adopted>>,
         task'["events"].pc = task["events"].pc,
         \/ task' = task
         \/ /\ task["loop"].pc \notin Between
            /\ task'["loop"].pc \notin Between /\ task'["loop"].ret \notin Between,
         table'.def = table.def, table'.blob = table.blob
  PROVE  ScheduleInv'
BY DEF ScheduleInv, Between

(* Every step keeps it.                                                     *)
LEMMA ScheduleStep ==
  ASSUME NoOverlap, Typed, Typed', ScheduleInv, [Next]_vars
  PROVE  ScheduleInv'
<1>0. /\ task \in [Tasks -> TaskState] /\ task' \in [Tasks -> TaskState]
      /\ "loop" \in Tasks /\ "events" \in Tasks /\ table \in Table /\ table' \in Table
      /\ adopted \in Slots
  BY DEF Typed, Tasks
<1>1. CASE UNCHANGED <<continuous, adopted, task>> /\ table'.def = table.def
                                                 /\ table'.blob = table.blob
  BY <1>1, ScheduleKept
<1>2. CASE Reload
  <2>1. table'.def = table.blob /\ table'.blob = table.blob
    BY <1>2 DEF Reload, Boot
  <2>2. task["loop"].pc # "persist"
    BY <1>2 DEF Reload, NoOverlap
  <2> QED BY <1>2, <2>1, <2>2 DEF Reload, logic, ScheduleInv
<1>3. CASE PowerCut
  <2>1. table'.def = table.blob /\ table'.blob = table.blob
    BY <1>3 DEF PowerCut, Boot
  <2>2. task'["loop"] = Rest /\ task'["events"] = Rest
    BY <1>3 DEF PowerCut
  <2>3. Rest.pc = "rest" /\ Rest.ret = "rest"
    BY DEF Rest
  <2> QED BY <1>3, <2>1, <2>2, <2>3 DEF PowerCut, ScheduleInv, Between
<1>4. CASE SetSlot("loop")
  <2>1. /\ task["loop"].pc = "set" /\ task'["loop"].pc = "persist"
        /\ task'["loop"].plan = task["loop"].plan /\ task'["loop"].was = table
        /\ task'["loop"].ret = task["loop"].ret
        /\ task'["events"] = task["events"]
    BY <1>0, <1>4 DEF SetSlot, TaskState
  <2>2. table'.def = task["loop"].plan /\ table'.blob = table.blob
    BY <1>0, <1>4 DEF SetSlot, Table
  <2> QED BY <1>4, <2>1, <2>2 DEF SetSlot, logic, ScheduleInv
<1>5. CASE PersistSlot("loop")
  <2>1. /\ task["loop"].pc = "persist" /\ task'["loop"].pc = "adopt"
        /\ task'["loop"].plan = task["loop"].plan /\ task'["loop"].ret = task["loop"].ret
        /\ task'["events"] = task["events"]
    BY <1>0, <1>5 DEF PersistSlot, TaskState
  <2>2. table'.def = table.def /\ table'.blob = table.def
    BY <1>0, <1>5 DEF PersistSlot, Table
  <2> QED BY <1>5, <2>1, <2>2 DEF PersistSlot, logic, ScheduleInv
<1>6. CASE PersistFails("loop")
  <2>1. Goto("loop", task["loop"].ret) /\ task["loop"].ret \in Steps /\ task["loop"].pc = "persist"
    BY <1>0, <1>6 DEF PersistFails, TaskState
  <2>3. task'["loop"].pc \notin Between /\ task'["loop"].ret = "rest" /\ task'["events"] = task["events"]
    BY <1>0, <2>1, GotoType DEF ScheduleInv, Rest
  <2>2. table'.def = task["loop"].was.def /\ table'.blob = table.blob
    BY <1>0, <1>6 DEF PersistFails, Table
  <2> QED BY <1>6, <2>1, <2>2, <2>3 DEF PersistFails, logic, ScheduleInv, Between
<1>7. CASE Adopt("loop")
  <2>1. Goto("loop", task["loop"].ret) /\ task["loop"].ret \in Steps /\ task["loop"].pc = "adopt"
    BY <1>0, <1>7 DEF Adopt, TaskState
  <2>3. task'["loop"].pc \notin Between /\ task'["loop"].ret = "rest" /\ task'["events"] = task["events"]
    BY <1>0, <2>1, GotoType DEF ScheduleInv, Rest
  <2>2. ~task["loop"].plan.continuous
    BY <1>0 DEF NoOverlap, Slots, NoPlan, TaskState
  <2> QED BY <1>7, <2>1, <2>2, <2>3 DEF Adopt, ScheduleInv, Between
<1>8. ASSUME UNCHANGED <<continuous, adopted, table>>,
             task'["events"] = task["events"], task["loop"].pc \notin Between,
             task'["loop"].pc \notin Between, task'["loop"].ret \notin Between
      PROVE  ScheduleInv'
  BY <1>8, ScheduleKept
<1>9. ASSUME NEW s \in Steps \ Between, Goto("loop", s), task["loop"].pc \notin Between,
             UNCHANGED <<continuous, adopted, table>>
      PROVE  ScheduleInv'
  <2>1. /\ task'["loop"].pc = s /\ task'["loop"] = [Rest EXCEPT !.pc = s]
        /\ task'["events"] = task["events"]
    BY <1>0, <1>9, GotoType
  <2>2. task'["loop"].ret = "rest"
    BY <2>1 DEF Rest
  <2> QED BY <1>8, <1>9, <2>1, <2>2 DEF Between
<1>10. ASSUME NEW p \in Slots, NEW r \in Steps \ Between, Apply("loop", p, r),
              task["loop"].pc \notin Between, UNCHANGED <<continuous, adopted, table>>
       PROVE  ScheduleInv'
  <2>1. /\ task'["loop"].pc = "set" /\ task'["loop"].ret = r /\ task'["events"] = task["events"]
    BY <1>0, <1>10 DEF Apply, TaskState
  <2> QED BY <1>8, <1>10, <2>1 DEF Between
<1>s. {"rest", "sample", "latch", "decide"} \subseteq Steps \ Between /\ Plans \subseteq Slots
  BY DEF Steps, Between, Slots
<1>11. CASE StartupPlan
  <2>1. PICK p \in Slots : Apply("loop", p, "rest")
    BY <1>0, <1>11, <1>s DEF StartupPlan, Typed
  <2> QED BY <1>10, <1>11, <1>s, <2>1 DEF StartupPlan, Between
<1>12. CASE ManualRecalc
  <2>1. CASE \E p \in Plans : Apply("loop", p, "rest")
    BY <1>10, <1>12, <1>s, <2>1 DEF ManualRecalc, Between
  <2>2. CASE UNCHANGED task
    BY <1>1, <1>12, <2>2 DEF ManualRecalc
  <2> QED BY <1>12, <2>1, <2>2 DEF ManualRecalc
<1>13. CASE SyncState
  <2>1. plan \in Slots /\ task["loop"].pc \notin Between /\ UNCHANGED <<continuous, adopted, table>>
    BY <1>13 DEF SyncState, Typed, Between
  <2>2. Apply("loop", plan, "sample") \/ Goto("loop", "sample")
    BY <1>13 DEF SyncState
  <2> QED BY <1>9, <1>10, <1>s, <2>1, <2>2
<1>14. CASE Sample \/ WriteBelief \/ Drive
  <2>1. \E s \in Steps \ Between : Goto("loop", s)
    BY <1>14, <1>s DEF Sample, WriteBelief, Drive
  <2> QED BY <1>9, <1>14, <2>1 DEF Sample, WriteBelief, Drive, logic, Between
<1>15. CASE Latch \/ ReadWindow \/ Decide
  <2>1. /\ task["loop"].pc \notin Between /\ task'["loop"].pc \notin Between
        /\ task'["loop"].ret = task["loop"].ret /\ task'["events"] = task["events"]
    BY <1>0, <1>15 DEF Latch, ReadWindow, Decide, Between, TaskState
  <2>2. UNCHANGED <<continuous, adopted, table>>
    BY <1>15 DEF Latch, ReadWindow, Decide, logic
  <2> QED BY <1>8, <2>1, <2>2 DEF ScheduleInv
<1>16. CASE Applying("events") \/ ArmAgain
  BY <1>16 DEF Applying, SetSlot, PersistSlot, PersistFails, Adopt, ArmAgain, ScheduleInv
<1>17. CASE OnRollover
  BY <1>1, <1>17 DEF OnRollover, logic, ScheduleInv
<1>18. CASE OnStart \/ OnStop \/ OnAutoMode \/ Recalc \/ ManualWrite \/ AutoModeSet
  BY <1>1, <1>18 DEF OnStart, OnStop, OnAutoMode, Recalc, ManualWrite, AutoModeSet, logic
<1>19. CASE Evaluate \/ ClockSet \/ ClockLost \/ OnSlots \/ OtherSlotWrite \/ Tick
  <2>1. table'.def = table.def /\ table'.blob = table.blob
    BY <1>0, <1>19 DEF Evaluate, ClockSet, ClockLost, OnSlots, OtherSlotWrite, Tick, Table
  <2> QED BY <1>1, <1>19, <2>1 DEF Evaluate, ClockSet, ClockLost, OnSlots, OtherSlotWrite, Tick, logic
<1>20. CASE UNCHANGED vars
  BY <1>1, <1>20 DEF vars, logic
<1> QED
  BY <1>2, <1>3, <1>4, <1>5, <1>6, <1>7, <1>11, <1>12, <1>13, <1>14, <1>15, <1>16, <1>17, <1>18,
     <1>19, <1>20 DEF Next, Loop, Dispatch, Applying

(* It holds after a boot: the slot is what flash had.                       *)
LEMMA ScheduleInit == Init => ScheduleInv
<1> SUFFICES ASSUME Init PROVE ScheduleInv
  OBVIOUS
<1>1. table.def = table.blob BY DEF Init, Boot
<1>2. task["loop"] = Rest /\ task["events"] = Rest BY DEF Init
<1> QED BY <1>1, <1>2 DEF Init, ScheduleInv, Rest, Between
-----------------------------------------------------------------------------
(* Nobody asks for a new plan or takes over the pump, and no plan is        *)
(* continuous: tasks may be suspended, the table reloaded at any moment,    *)
(* the clock lost, other slots set, writes fail, and the power go.          *)
NobodyAsks == (\A p \in Plans : ~p.continuous) /\ Hazards \intersect {"recalc", "manual", "auto"} = {}

Applies(pc) == pc \in {"set", "persist", "adopt"}

(* A plan is applied while the pump is off, and outside of that nothing but *)
(* the plan in flash can get into the table.                                *)
RunInv ==
  LET loop == task["loop"] IN
  /\ ~continuous /\ task["events"].pc = "rest"
  /\ ~pending.recalc
  /\ pending.startup => loop.pc = "rest" /\ ~pump
  /\ ~Applies(loop.ret)
  /\ Applies(loop.pc) => ~pump
  /\ IF loop.pc = "persist" THEN loop.was.def = table.blob ELSE table.def = table.blob

(* The table of a run, and how a step of anybody else than the pump changes it. *)
LEMMA RunStep ==
  ASSUME NobodyAsks, Typed, Typed', RunInv, [Next]_vars
  PROVE  RunInv' /\ (pump /\ ~continuous => table'.def = table.def)
<1> DEFINE loop == task["loop"]
           Goal == RunInv' /\ (pump /\ ~continuous => table'.def = table.def)
<1> SUFFICES Goal
  OBVIOUS
<1>0. /\ task \in [Tasks -> TaskState] /\ task' \in [Tasks -> TaskState]
      /\ "loop" \in Tasks /\ "events" \in Tasks /\ table \in Table /\ table' \in Table
      /\ task["loop"] \in TaskState /\ pending \in Pending
  BY DEF Typed, Tasks
<1>s. /\ {"rest", "sample", "latch", "read", "write", "decide", "drive"} \subseteq Steps
      /\ \A s \in {"rest", "sample", "latch", "read", "write", "decide", "drive"} : ~Applies(s)
      /\ Plans \subseteq Slots
  BY DEF Steps, Applies, Slots
<1>1. ASSUME UNCHANGED continuous, pending'.startup => pending.startup, pending'.recalc = pending.recalc,
             task'["events"].pc = task["events"].pc, ~Applies(task'["loop"].ret),
             ~Applies(task'["loop"].pc), ~Applies(loop.pc),
             pending'.startup => task'["loop"].pc = "rest",
             pump' => pump \/ ~pending.startup,
             table'.def = table.def, table'.blob = table.blob
      PROVE  Goal
  <2>1. loop.pc # "persist" /\ task'["loop"].pc # "persist" BY <1>1 DEF Applies
  <2> QED BY <1>1, <2>1 DEF RunInv
<1>2. ASSUME UNCHANGED <<continuous, task, pump>>, pending'.startup = pending.startup,
             pending'.recalc = pending.recalc,
             table'.def = table.def, table'.blob = table.blob
      PROVE  Goal
  BY <1>2 DEF RunInv
<1>3. CASE Reload
  <2>1. table'.def = table.blob /\ table'.blob = table.blob
    BY <1>3 DEF Reload, Boot
  <2> QED BY <1>3, <2>1 DEF Reload, logic, drive, RunInv, Applies
<1>4. CASE PowerCut
  <2>1. table'.def = table.blob /\ table'.blob = table.blob
    BY <1>4 DEF PowerCut, Boot
  <2>2. task'["loop"] = Rest /\ task'["events"] = Rest
    BY <1>4 DEF PowerCut
  <2>3. Rest.pc = "rest" /\ Rest.ret = "rest"
    BY DEF Rest
  <2>4. ~continuous' /\ ~pump' /\ ~pending'.recalc
    BY <1>4 DEF PowerCut
  <2>5. pump => table.def = table.blob BY DEF RunInv, Applies
  <2>6. RunInv' BY <2>1, <2>2, <2>3, <2>4, <1>s DEF RunInv, Applies
  <2> QED BY <2>1, <2>5, <2>6
<1>5. CASE SetSlot("loop")
  <2>1. /\ task["loop"].pc = "set" /\ task'["loop"].pc = "persist"
        /\ task'["loop"].was = table /\ task'["loop"].ret = task["loop"].ret
        /\ task'["events"] = task["events"]
    BY <1>0, <1>5 DEF SetSlot, TaskState
  <2>2. table'.blob = table.blob
    BY <1>0, <1>5 DEF SetSlot, Table
  <2> QED BY <1>5, <2>1, <2>2 DEF SetSlot, logic, drive, RunInv, Applies
<1>6. CASE PersistSlot("loop")
  <2>1. /\ task["loop"].pc = "persist" /\ task'["loop"].pc = "adopt"
        /\ task'["loop"].ret = task["loop"].ret /\ task'["events"] = task["events"]
    BY <1>0, <1>6 DEF PersistSlot, TaskState
  <2>2. table'.def = table.def /\ table'.blob = table.def
    BY <1>0, <1>6 DEF PersistSlot, Table
  <2> QED BY <1>6, <2>1, <2>2 DEF PersistSlot, logic, drive, RunInv, Applies
<1>7. CASE PersistFails("loop")
  <2>1. Goto("loop", loop.ret) /\ loop.ret \in Steps /\ loop.pc = "persist"
    BY <1>0, <1>7 DEF PersistFails, TaskState
  <2>2. /\ ~Applies(task'["loop"].pc) /\ task'["loop"].ret = "rest"
        /\ task'["events"] = task["events"]
    BY <1>0, <2>1, GotoType DEF RunInv, Rest
  <2>3. table'.def = loop.was.def /\ table'.blob = table.blob
    BY <1>0, <1>7 DEF PersistFails, Table
  <2> QED BY <1>7, <2>1, <2>2, <2>3, <1>s DEF PersistFails, logic, drive, RunInv, Applies
<1>8. CASE Adopt("loop")
  <2>1. Goto("loop", loop.ret) /\ loop.ret \in Steps /\ loop.pc = "adopt"
    BY <1>0, <1>8 DEF Adopt, TaskState
  <2>2. /\ ~Applies(task'["loop"].pc) /\ task'["loop"].ret = "rest"
        /\ task'["events"] = task["events"]
    BY <1>0, <2>1, GotoType DEF RunInv, Rest
  <2>3. ~loop.plan.continuous
    BY <1>0 DEF NobodyAsks, Slots, NoPlan, TaskState
  <2>4. ~continuous' /\ pending'.startup = pending.startup /\ pending'.recalc = pending.recalc
    BY <1>0, <1>8, <2>3 DEF Adopt, Pending
  <2>5. UNCHANGED <<table, pump>> BY <1>8 DEF Adopt, drive
  <2> QED BY <2>1, <2>2, <2>4, <2>5, <1>s DEF RunInv, Applies
<1>9. ASSUME NEW p \in Slots, NEW r \in {"rest", "sample"}, Apply("loop", p, r), ~Applies(loop.pc),
             UNCHANGED <<continuous, table, pump>>, ~pump, ~pending'.startup,
             pending'.recalc = pending.recalc
      PROVE  Goal
  <2>1. /\ task'["loop"].pc = "set" /\ task'["loop"].ret = r /\ task'["events"] = task["events"]
    BY <1>0, <1>9 DEF Apply, TaskState
  <2>2. loop.pc # "persist" BY <1>9 DEF Applies
  <2> QED BY <1>9, <2>1, <2>2, <1>s DEF RunInv
<1>10. ASSUME NEW s \in {"rest", "sample", "latch", "decide"}, Goto("loop", s), ~Applies(loop.pc),
              loop.pc # "rest" \/ ~pending.startup, UNCHANGED <<continuous, pending, table>>,
              pump' => pump \/ ~pending.startup
       PROVE  Goal
  <2>1. /\ task'["loop"].pc = s /\ task'["loop"] = [Rest EXCEPT !.pc = s]
        /\ task'["events"] = task["events"]
    BY <1>0, <1>10, <1>s, GotoType
  <2>2. task'["loop"].ret = "rest" BY <2>1 DEF Rest
  <2>3. ~pending.startup BY <1>10 DEF RunInv
  <2> QED BY <1>1, <1>10, <2>1, <2>2, <2>3, <1>s
<1> HIDE DEF Goal
<1>11. CASE StartupPlan
  <2>1. PICK p \in Slots : Apply("loop", p, "rest")
    BY <1>0, <1>11, <1>s DEF StartupPlan, Typed
  <2>2. ~pump /\ ~pending'.startup /\ pending'.recalc = pending.recalc
    BY <1>0, <1>11 DEF StartupPlan, RunInv, Pending
  <2> QED BY <1>9, <1>11, <2>1, <2>2, <1>s DEF StartupPlan, drive
<1>12. CASE SyncState
  <2>1. /\ plan \in Slots /\ ~Applies(loop.pc) /\ ~pending.startup
        /\ UNCHANGED <<continuous, table, pending, pump>>
    BY <1>12, <1>s DEF SyncState, Typed
  <2>2. (~pump /\ Apply("loop", plan, "sample")) \/ Goto("loop", "sample")
    BY <1>12 DEF SyncState
  <2> QED BY <1>9, <1>10, <2>1, <2>2
<1>13. CASE Sample \/ WriteBelief \/ Drive
  <2>1. \E s \in {"rest", "sample", "latch", "decide"} : Goto("loop", s)
    BY <1>13 DEF Sample, WriteBelief, Drive
  <2>2. loop.pc \in {"sample", "write", "drive"} /\ UNCHANGED <<continuous, pending, table>>
    BY <1>13 DEF Sample, WriteBelief, Drive, logic
  <2>3. ~pending.startup BY <2>2 DEF RunInv
  <2> QED BY <1>10, <2>1, <2>2, <2>3, <1>s
<1>14. CASE Latch \/ ReadWindow \/ Decide
  <2>1. /\ ~Applies(loop.pc) /\ ~Applies(task'["loop"].pc) /\ loop.pc # "rest"
        /\ task'["loop"].ret = loop.ret /\ task'["events"] = task["events"]
    BY <1>0, <1>14, <1>s DEF Latch, ReadWindow, Decide, TaskState
  <2>2. UNCHANGED <<continuous, table, pump>> /\ pending'.startup = pending.startup
        /\ pending'.recalc = pending.recalc
    BY <1>0, <1>14 DEF Latch, ReadWindow, Decide, logic, drive, Pending
  <2>3. ~pending.startup /\ ~Applies(loop.ret) BY <2>1 DEF RunInv
  <2> QED BY <1>1, <2>1, <2>2, <2>3
<1>15. CASE Applying("events") \/ ArmAgain \/ ManualRecalc
  BY <1>15 DEF Applying, SetSlot, PersistSlot, PersistFails, Adopt, ArmAgain, ManualRecalc, RunInv
<1>16. CASE OnRollover
  BY <1>2, <1>16 DEF OnRollover, logic, drive, RunInv
<1>17. CASE OnStart \/ OnStop \/ OnAutoMode
  <2>1. UNCHANGED <<continuous, task, pump, table>> /\ pending'.startup = pending.startup
        /\ pending'.recalc = pending.recalc
    BY <1>0, <1>17 DEF OnStart, OnStop, OnAutoMode, drive, Pending
  <2> QED BY <1>2, <2>1
<1>18. CASE Evaluate \/ ClockSet \/ ClockLost \/ OnSlots \/ OtherSlotWrite \/ Tick
  <2>1. table'.def = table.def /\ table'.blob = table.blob
    BY <1>0, <1>18 DEF Evaluate, ClockSet, ClockLost, OnSlots, OtherSlotWrite, Tick, Table
  <2>2. UNCHANGED <<continuous, task, pump, pending>>
    BY <1>18 DEF Evaluate, ClockSet, ClockLost, OnSlots, OtherSlotWrite, Tick, logic, drive
  <2> QED BY <1>2, <2>1, <2>2
<1>19. ~Recalc /\ ~ManualWrite /\ ~AutoModeSet
  BY DEF NobodyAsks, Recalc, ManualWrite, AutoModeSet, May
<1>20. CASE UNCHANGED vars
  BY <1>2, <1>20 DEF vars, logic, drive
<1> QED
  BY <1>3, <1>4, <1>5, <1>6, <1>7, <1>8, <1>11, <1>12, <1>13, <1>14, <1>15, <1>16, <1>17, <1>18,
     <1>19, <1>20 DEF Next, Loop, Dispatch, Applying

(* It holds after a boot.                                                   *)
LEMMA RunInit == Init => RunInv
<1> SUFFICES ASSUME Init PROVE RunInv
  OBVIOUS
<1>1. table.def = table.blob BY DEF Init, Boot
<1>2. task["loop"] = Rest /\ task["events"] = Rest BY DEF Init
<1> QED BY <1>1, <1>2 DEF Init, RunInv, Rest, Applies
-----------------------------------------------------------------------------
(* Nothing interferes but an operator who takes over the pump, and with it  *)
(* leaves auto mode.                                                        *)
Undisturbed == Hazards \subseteq {"manual"}

Has(b, e) == \E i \in 1 .. Len(b) : b[i] = e
Pass == task["loop"]
Handler == task["events"]
Open == WindowOpen(table.def, now)
Writes(t) == task[t].pc \in {"persist", "adopt"}

(* A new day minute, and the slot not evaluated since.                      *)
Stale == table.init /\ ~table.done

(* No plan can be measured before the pump stops; the plan is the          *)
(* scheduler's, and no other before the tasks settle; the pump may be off.  *)
Quiet == seen /\ ~young /\ ~(armed /\ sampled)
Holding == plan = table.def /\ (armed /\ seen /\ sampled => young)
MayStop == ~Open \/ Holding

(* Where the tasks can be: they do not give plans at a time, the logic task *)
(* gives one while the pump is off, the dispatcher the successor of a       *)
(* continuous one.                                                          *)
Turns ==
  /\ ~pending.recalc
  /\ Pass.pc \notin {"write", "arm"} /\ Handler.pc \in {"rest", "set", "persist", "adopt", "arm"}
  /\ Applies(Pass.pc) => /\ Pass.ret \in {"rest", "sample"} /\ Pass.plan = plan /\ ~continuous
                         /\ ~pump /\ ~seen /\ ~armed
  /\ Applies(Handler.pc) => /\ Handler.ret = "arm" /\ continuous /\ ~Applies(Pass.pc)
                            /\ IF Handler.plan.continuous THEN Handler.plan \in {plan, table.def}
                               ELSE Handler.plan = plan /\ Quiet
  /\ pending.startup => /\ Pass.pc = "rest" /\ Handler.pc = "rest" /\ ~continuous
                        /\ ~pump /\ ~seen /\ ~armed /\ ~pending.reconcile /\ table.def = plan

(* What the slot says of the plan, of the day and of the mode.              *)
SlotSays ==
  /\ Pass.pc # "persist" /\ Handler.pc # "persist" => table.def = table.blob
  /\ Writes("loop") => table.def = Pass.plan
  /\ Writes("events") => table.def = Handler.plan
  /\ ~pending.startup /\ ~Applies(Pass.pc) /\ ~Writes("events")
     => continuous = table.def.continuous
  /\ table.mask = table.active /\ (table.active => table.init /\ ~table.def.continuous)
  /\ table.init /\ table.done => table.active = Open
  /\ ~synced => /\ ~table.init /\ belief = continuous
                /\ ~Has(bus, "start") /\ ~Has(bus, "stop") /\ ~Has(bus, "rollover")

(* A plan that is not the scheduler's waits for the stop of this run, or   *)
(* for the rollover; the window is not looked at between plans.             *)
PlanWaits ==
  /\ plan # table.def /\ Pass.pc # "set" => Quiet /\ (staged \/ continuous)
  /\ Pass.pc = "set" => plan = table.def \/ ~Open
  /\ (pending.reconcile \/ Pass.pc = "read") /\ ~continuous => Holding
  /\ Handler.pc = "arm" => continuous \/ Holding

(* The pump follows what was decided, and stops for a closed window.        *)
Relay ==
  /\ IF Pass.pc = "drive" THEN Pass.window # last \/ pump = last ELSE pump = last
  /\ continuous => belief /\ ~(seen /\ ~pump) /\ (Pass.pc \in {"decide", "drive"} => Pass.window)
  /\ pump /\ ~belief => MayStop
  /\ Pass.pc \in {"decide", "drive"} /\ Pass.window /\ ~belief => MayStop
  /\ seen /\ ~pump => MayStop
  /\ pump /\ Pass.pc \in {"decide", "drive"} /\ ~Pass.window => MayStop

(* Nothing is outstanding but what the slot still has to say.               *)
Steady ==
  /\ ~pending.startup /\ ~pending.reconcile /\ ~table.reload
  /\ ~Applies(Pass.pc) /\ Pass.pc # "read" /\ Handler.pc = "rest"
  /\ pump = belief /\ last = belief /\ seen = belief
  /\ Pass.pc \in {"decide", "drive"} => Pass.window = belief /\ ~Pass.force

(* The belief and the edges under way tell the window.                      *)
Edged ==
  /\ ~Has(bus, "auto")
  /\ Has(bus, "start") => Open
  /\ table.active => belief \/ Has(bus, "start")
  /\ ~Stale /\ ~Has(bus, "stop") /\ ~Writes("loop") /\ ~Writes("events") /\ belief
     => continuous \/ Open
  /\ Stale => bus = <<>> /\ Steady /\ belief = (continuous \/ table.active)
  /\ Has(bus, "stop") =>
       /\ bus \in {<<"stop">>, <<"rollover", "stop">>} /\ Steady /\ belief /\ ~continuous
       /\ table.init /\ table.done /\ ~Open /\ (now = Anchor => table.fired)

FollowInv == Turns /\ SlotSays /\ PlanWaits /\ Relay /\ Edged

(* Posting, delivering.                                                     *)
LEMMA HasFacts ==
  /\ \A e \in Events : ~Has(<<>>, e)
  /\ \A d \in Events, e \in Events : Has(<<d>>, e) <=> d = e
  /\ \A b \in Seq(Events), c \in Seq(Events), e \in Events :
        Has(b \o c, e) <=> Has(b, e) \/ Has(c, e)
  /\ \A b \in Seq(Events), e \in Events : b # <<>> => (Has(b, e) <=> Has(Tail(b), e) \/ Head(b) = e)
<1>1. \A e \in Events : ~Has(<<>>, e)
  BY DEF Has
<1>4. \A d \in Events, e \in Events : Has(<<d>>, e) <=> d = e
  BY DEF Has
<1>2. ASSUME NEW b \in Seq(Events), NEW c \in Seq(Events), NEW e \in Events
      PROVE  Has(b \o c, e) <=> Has(b, e) \/ Has(c, e)
  <2>1. /\ Len(b \o c) = Len(b) + Len(c) /\ Len(b) \in Nat /\ Len(c) \in Nat
        /\ \A i \in 1 .. Len(b) : (b \o c)[i] = b[i]
        /\ \A i \in 1 .. Len(c) : (b \o c)[Len(b) + i] = c[i]
    OBVIOUS
  <2>2. ASSUME NEW i \in 1 .. Len(b) + Len(c), (b \o c)[i] = e PROVE Has(b, e) \/ Has(c, e)
    <3>1. CASE i \in 1 .. Len(b) BY <2>1, <2>2, <3>1 DEF Has
    <3>2. CASE i \notin 1 .. Len(b)
      <4>1. i - Len(b) \in 1 .. Len(c) /\ Len(b) + (i - Len(b)) = i BY <2>1, <3>2
      <4>2. c[i - Len(b)] = e BY <2>1, <2>2, <4>1
      <4> QED BY <4>1, <4>2 DEF Has
    <3> QED BY <3>1, <3>2
  <2>3. ASSUME NEW i \in 1 .. Len(b), b[i] = e PROVE Has(b \o c, e)
    BY <2>1, <2>3 DEF Has
  <2>4. ASSUME NEW i \in 1 .. Len(c), c[i] = e PROVE Has(b \o c, e)
    <3>1. Len(b) + i \in 1 .. Len(b) + Len(c) BY <2>1
    <3> QED BY <2>1, <2>4, <3>1 DEF Has
  <2> QED BY <2>1, <2>2, <2>3, <2>4 DEF Has
<1>3. ASSUME NEW b \in Seq(Events), NEW e \in Events, b # <<>>
      PROVE  Has(b, e) <=> Has(Tail(b), e) \/ Head(b) = e
  <2>1. b = <<Head(b)>> \o Tail(b) /\ Head(b) \in Events /\ Tail(b) \in Seq(Events)
        /\ <<Head(b)>> \in Seq(Events)
    BY <1>3
  <2>2. Has(<<Head(b)>> \o Tail(b), e) <=> Has(<<Head(b)>>, e) \/ Has(Tail(b), e)
    BY <1>2, <2>1
  <2>3. Has(<<Head(b)>>, e) <=> Head(b) = e BY <1>4, <2>1
  <2> QED BY <2>1, <2>2, <2>3
<1> QED BY <1>1, <1>2, <1>3, <1>4

(* Two events make a sequence of two.                                       *)
LEMMA TwoEvents ==
  ASSUME NEW a \in Events, NEW b \in Events
  PROVE  <<a>> \o <<b>> = <<a, b>> /\ Tail(<<a, b>>) = <<b>>
<1> DEFINE s == <<a>> \o <<b>>
           t == <<a, b>>
<1>1. /\ <<a>> \in Seq(Events) /\ <<b>> \in Seq(Events) /\ t \in Seq(Events)
      /\ Len(t) = 2 /\ t[1] = a /\ t[2] = b /\ Tail(t) = <<b>>
  OBVIOUS
<1>2. s \in Seq(Events) /\ Len(s) = 2 /\ s[1] = a /\ s[2] = b
  BY <1>1
<1> HIDE DEF s, t
<1>3. s = t
  BY <1>1, <1>2, SeqEqual
<1> QED BY <1>1, <1>3 DEF s, t

(* It holds after a boot.                                                   *)
LEMMA FollowInit == Init => FollowInv
<1> SUFFICES ASSUME Init PROVE FollowInv
  OBVIOUS
<1>1. /\ table.def = plan /\ table.blob = plan /\ table.active = FALSE /\ table.mask = FALSE
      /\ ~table.init /\ ~table.done
  BY DEF Init, Boot
<1>2. /\ task["loop"] = Rest /\ task["events"] = Rest /\ Rest.pc = "rest"
      /\ ~Writes("loop") /\ ~Writes("events")
  BY DEF Init, Rest, Writes
<1>3. \A e \in {"start", "stop", "rollover", "auto"} : ~Has(bus, e)
  BY DEF Init, Has
<1>4. Turns BY <1>1, <1>2 DEF Init, Turns, Pass, Handler, Applies
<1>5. SlotSays BY <1>1, <1>2, <1>3 DEF Init, SlotSays, Pass, Handler, Applies
<1>6. PlanWaits BY <1>1, <1>2 DEF Init, PlanWaits, Pass, Handler
<1>7. Relay BY <1>1, <1>2 DEF Init, Relay, Pass, Handler
<1>8. Edged BY <1>1, <1>2, <1>3 DEF Init, Edged, Pass, Handler, Stale
<1> QED BY <1>4, <1>5, <1>6, <1>7, <1>8 DEF FollowInv

(* It says what the property asks.                                          *)
LEMMA FollowSays == Typed /\ FollowInv => (Settled /\ synced /\ auto => (pump <=> (continuous \/ Open)))
<1> SUFFICES ASSUME Typed, FollowInv, Settled, synced, auto PROVE pump = (continuous \/ Open)
  OBVIOUS
<1>1. /\ Pass.pc = "rest" /\ Handler.pc = "rest" /\ bus = <<>> /\ ~pending.startup
      /\ table.init /\ table.done /\ last = belief /\ ~Writes("loop") /\ ~Writes("events")
  BY DEF Settled, Pass, Handler, Writes, Desired
<1>2. ~Has(bus, "start") /\ ~Has(bus, "stop")
  BY <1>1, HasFacts DEF Events
<1>3. pump = belief BY <1>1 DEF FollowInv, Relay
<1>4. belief => continuous \/ Open BY <1>1, <1>2 DEF FollowInv, Edged, Stale
<1>5. continuous => belief BY DEF FollowInv, Relay
<1>6. Open => belief BY <1>1, <1>2 DEF FollowInv, Edged, SlotSays
<1> QED BY <1>3, <1>4, <1>5, <1>6 DEF Typed

(* A task that moves on.                                                    *)
LEMMA MovesOn ==
  ASSUME Typed, NEW t \in Tasks, NEW s \in Steps, Goto(t, s)
  PROVE  /\ task'[t].pc = s /\ (t = "loop" => Handler' = Handler) /\ (t = "events" => Pass' = Pass)
<1> QED BY GotoType DEF Typed, Tasks, Pass, Handler

(* Steps of the time task.                                                  *)
LEMMA FollowClock ==
  ASSUME Undisturbed, Typed, Typed', FollowInv, auto, auto',
         Reload \/ Evaluate \/ ClockSet \/ Tick
  PROVE  FollowInv'
<1>0. /\ table \in Table /\ table' \in Table /\ bus \in Seq(Events)
      /\ <<>> \in Seq(Events) /\ <<"rollover">> \in Seq(Events)
      /\ {"start", "stop", "slots", "rollover", "auto"} \subseteq Events
  BY DEF Typed, Events
<1>1. CASE Reload
  <2>1. Pass.pc # "persist" /\ Handler.pc # "persist"
    BY <1>1 DEF Reload, Undisturbed, Pass, Handler
  <2>2. /\ table'.def = table.def /\ table'.blob = table.def /\ table'.active = FALSE
        /\ table'.mask = FALSE /\ ~table'.init /\ ~table'.done
    BY <1>1, <2>1 DEF Reload, Boot, FollowInv, SlotSays
  <2>3. /\ table.reload /\ UNCHANGED <<now, synced, bus, Pass, Handler, Writes("loop"), Writes("events")>>
        /\ UNCHANGED <<belief, continuous, pending, plan, staged, armed, sampled>>
        /\ UNCHANGED <<seen, young, last, pump>>
    BY <1>1 DEF Reload, logic, drive, Pass, Handler, Writes
  <2>4. ~Stale /\ ~Has(bus, "stop") /\ ~Stale'
    BY <2>2, <2>3 DEF FollowInv, Edged, Steady, Stale
  <2>5. Open' = Open BY <2>2, <2>3 DEF Open
  <2>6. Turns' BY <2>2, <2>3 DEF FollowInv, Turns, Quiet
  <2>7. SlotSays' BY <2>2, <2>3, <2>5 DEF FollowInv, SlotSays
  <2>8. PlanWaits' BY <2>2, <2>3, <2>5 DEF FollowInv, PlanWaits, Quiet, Holding
  <2>9. Relay' BY <2>2, <2>3, <2>5 DEF FollowInv, Relay, MayStop, Holding
  <2>10. Edged' BY <2>2, <2>3, <2>4, <2>5 DEF FollowInv, Edged
  <2> QED BY <2>6, <2>7, <2>8, <2>9, <2>10 DEF FollowInv
<1>2. CASE ClockSet
  <2>2. /\ table'.def = table.def /\ table'.blob = table.blob /\ table'.active = table.active
        /\ table'.mask = table.mask /\ ~table'.init
    BY <1>0, <1>2 DEF ClockSet, Table
  <2>3. /\ ~synced /\ synced' /\ UNCHANGED <<now, bus, Pass, Handler, Writes("loop"), Writes("events")>>
        /\ UNCHANGED <<belief, continuous, pending, plan, staged, armed, sampled>>
        /\ UNCHANGED <<seen, young, last, pump>>
    BY <1>2 DEF ClockSet, logic, drive, Pass, Handler, Writes
  <2>4. ~Stale /\ ~Has(bus, "stop") /\ ~Stale' /\ ~table.init
    BY <2>2, <2>3 DEF FollowInv, SlotSays, Stale
  <2>5. Open' = Open BY <2>2, <2>3 DEF Open
  <2>6. Turns' BY <2>2, <2>3 DEF FollowInv, Turns, Quiet
  <2>7. SlotSays' BY <2>2, <2>3, <2>4, <2>5 DEF FollowInv, SlotSays
  <2>8. PlanWaits' BY <2>2, <2>3, <2>5 DEF FollowInv, PlanWaits, Quiet, Holding
  <2>9. Relay' BY <2>2, <2>3, <2>5 DEF FollowInv, Relay, MayStop, Holding
  <2>10. Edged' BY <2>2, <2>3, <2>4, <2>5 DEF FollowInv, Edged
  <2> QED BY <2>6, <2>7, <2>8, <2>9, <2>10 DEF FollowInv
<1>3. CASE Tick
  <2>2. /\ table'.def = table.def /\ table'.blob = table.blob /\ table'.active = table.active
        /\ table'.mask = table.mask /\ table'.init = table.init /\ ~table'.done
        /\ table'.reload = table.reload
    BY <1>0, <1>3 DEF Tick, Table
  <2>3. /\ UNCHANGED <<synced, bus, Pass, Handler, Writes("loop"), Writes("events")>> /\ ~young'
        /\ UNCHANGED <<belief, continuous, pending, plan, staged, armed, sampled>>
        /\ UNCHANGED <<seen, last, pump>>
    BY <1>3 DEF Tick, logic, Pass, Handler, Writes
  <2>4. /\ Pass.pc = "rest" /\ Handler.pc = "rest" /\ bus = <<>> /\ ~pending.startup
        /\ ~pending.reconcile /\ ~table.reload /\ seen = pump /\ last = belief
        /\ (synced => table.init /\ table.done)
    BY <1>3 DEF Tick, Settled, Desired, Pass, Handler
  <2>5. \A e \in Events : ~Has(bus, e) /\ ~Has(bus', e)
    BY <2>3, <2>4, HasFacts
  <2>6. pump = belief /\ continuous = table.def.continuous
    BY <2>4 DEF FollowInv, Relay, SlotSays, Applies, Writes, Handler
  <2>7. /\ Settled /\ (synced => pump = (continuous \/ Open)) /\ (continuous => ~Open)
        /\ (synced => table.active = Open)
    BY <1>3, <2>4, <2>6, FollowSays DEF Tick, Typed, Open, WindowOpen, FollowInv, SlotSays
  <2>8. ~synced => belief = continuous /\ ~table.init BY DEF FollowInv, SlotSays
  <2>9. Turns' BY <2>2, <2>3, <2>4 DEF FollowInv, Turns, Applies
  <2>10. SlotSays' BY <1>0, <2>2, <2>3, <2>4, <2>5 DEF FollowInv, SlotSays, Applies
  <2>11. PlanWaits' BY <2>2, <2>3, <2>4 DEF FollowInv, PlanWaits, Quiet
  <2>12. Relay' BY <2>2, <2>3, <2>4, <2>6 DEF FollowInv, Relay
  <2>13. Edged'
    BY <1>0, <2>2, <2>3, <2>4, <2>5, <2>6, <2>7, <2>8
       DEF FollowInv, SlotSays, Edged, Stale, Steady, Applies, Typed, Table
  <2> QED BY <2>9, <2>10, <2>11, <2>12, <2>13 DEF FollowInv
<1>4. CASE Evaluate
  <2> DEFINE rolled == now = Anchor /\ ~table.fired
             roll == IF rolled THEN <<"rollover">> ELSE <<>>
             starts == Open /\ ~table.active
             stops == table.active /\ ~Open
  <2>1. /\ table'.def = table.def /\ table'.blob = table.blob /\ table'.active = Open
        /\ table'.mask = Open /\ table'.init /\ table'.done /\ table'.reload = table.reload
        /\ table'.fired = (table.fired \/ rolled)
    BY <1>0, <1>4 DEF Evaluate, Table, Open
  <2>2. /\ synced /\ UNCHANGED <<now, synced, Pass, Handler, Writes("loop"), Writes("events")>>
        /\ UNCHANGED <<belief, continuous, pending, plan, staged, armed, sampled>>
        /\ UNCHANGED <<seen, young, last, pump>>
    BY <1>4 DEF Evaluate, logic, drive, Pass, Handler, Writes
  <2>3. bus' = bus \o (roll \o Edges(Open))
    BY <1>0, <1>4 DEF Evaluate, Post, Open
  <2>4. Open \in BOOLEAN /\ Open' = Open /\ (Open => ~table.def.continuous)
    BY <2>1, <2>2 DEF Open, WindowOpen
  <2>5. /\ Edges(Open) = IF starts THEN <<"start">> ELSE IF stops THEN <<"stop">> ELSE <<>>
        /\ table.active => table.init /\ ~table.def.continuous
    BY <1>0, <2>4 DEF Edges, FollowInv, SlotSays
  <2> HIDE DEF rolled
  <2>6. /\ roll \in Seq(Events) /\ Edges(Open) \in Seq(Events)
        /\ \A e \in {"start", "stop", "auto"} : ~Has(roll, e)
        /\ Has(Edges(Open), "start") <=> starts
        /\ Has(Edges(Open), "stop") <=> stops
        /\ ~Has(Edges(Open), "auto")
    <3>1. /\ <<"start">> \in Seq(Events) /\ <<"stop">> \in Seq(Events)
      BY DEF Events
    <3>2. /\ ~Has(<<>>, "start") /\ ~Has(<<>>, "stop") /\ ~Has(<<>>, "auto")
          /\ Has(<<"start">>, "start") /\ ~Has(<<"start">>, "stop") /\ ~Has(<<"start">>, "auto")
          /\ ~Has(<<"stop">>, "start") /\ Has(<<"stop">>, "stop") /\ ~Has(<<"stop">>, "auto")
          /\ \A e \in {"start", "stop", "auto"} : ~Has(<<"rollover">>, e)
      BY <1>0, HasFacts
    <3>3. CASE starts BY <1>0, <2>5, <3>1, <3>2, <3>3
    <3>4. CASE stops BY <1>0, <2>5, <3>1, <3>2, <3>4
    <3>5. CASE ~starts /\ ~stops BY <1>0, <2>5, <3>1, <3>2, <3>5
    <3> QED BY <3>3, <3>4, <3>5
  <2>7. /\ Has(bus', "start") <=> Has(bus, "start") \/ starts
        /\ Has(bus', "stop") <=> Has(bus, "stop") \/ stops
        /\ Has(bus', "auto") <=> Has(bus, "auto")
    <3> DEFINE posted == roll \o Edges(Open)
    <3>1. posted \in Seq(Events) BY <2>6, ConcatProperties
    <3>2. \A e \in Events : Has(bus', e) <=> Has(bus, e) \/ Has(roll, e) \/ Has(Edges(Open), e)
      <4>1. bus' = bus \o posted BY <2>3
      <4>2. \A e \in Events : Has(posted, e) <=> Has(roll, e) \/ Has(Edges(Open), e)
        BY <2>6, HasFacts
      <4> HIDE DEF posted
      <4>3. \A e \in Events : Has(bus \o posted, e) <=> Has(bus, e) \/ Has(posted, e)
        BY <1>0, <3>1, HasFacts
      <4> QED BY <4>1, <4>2, <4>3
    <3> QED BY <1>0, <2>6, <3>2
  <2>8. stops => Stale
    BY <1>0, <2>5 DEF FollowInv, SlotSays, Stale, Table
  <2>9. stops => bus' \in {<<"stop">>, <<"rollover", "stop">>}
    <3> SUFFICES ASSUME stops PROVE bus' \in {<<"stop">>, <<"rollover", "stop">>}
      OBVIOUS
    <3>1. bus = <<>> /\ Edges(Open) = <<"stop">> BY <2>5, <2>8 DEF FollowInv, Edged
    <3>2. bus' = roll \o <<"stop">> BY <1>0, <2>3, <2>6, <3>1
    <3>3. <<"rollover">> \o <<"stop">> = <<"rollover", "stop">> /\ <<>> \o <<"stop">> = <<"stop">>
      BY <1>0, TwoEvents, ConcatEmptySeq
    <3>4. roll = <<"rollover">> \/ roll = <<>> OBVIOUS
    <3> HIDE DEF roll
    <3>5. bus' = <<"rollover">> \o <<"stop">> \/ bus' = <<>> \o <<"stop">> BY <3>2, <3>4
    <3> QED BY <3>3, <3>5
  <2>10. Has(bus, "stop") => bus' = bus /\ ~stops /\ ~starts
    <3> SUFFICES ASSUME Has(bus, "stop") PROVE bus' = bus /\ ~stops /\ ~starts
      OBVIOUS
    <3>1. ~stops /\ ~starts /\ ~rolled BY DEF FollowInv, Edged, SlotSays, rolled
    <3>2. bus' = bus \o (<<>> \o <<>>) BY <2>3, <2>5, <3>1
    <3> QED BY <1>0, <3>1, <3>2
  <2>11. now = Anchor => table'.fired BY <2>1 DEF rolled
  <2> HIDE DEF roll, starts, stops
  <2>12. Turns' BY <2>1, <2>2 DEF FollowInv, Turns, Quiet
  <2>13. SlotSays' BY <2>1, <2>2, <2>4 DEF FollowInv, SlotSays
  <2>14. PlanWaits' BY <2>1, <2>2, <2>4 DEF FollowInv, PlanWaits, Quiet, Holding
  <2>15. Relay' BY <2>1, <2>2, <2>4 DEF FollowInv, Relay, MayStop, Holding
  <2>16. Steady' <=> Steady BY <2>1, <2>2 DEF Steady
  <2>17. Edged'
    <3> USE <1>0, <2>1, <2>2, <2>4, <2>7 DEF FollowInv, Edged
    <3>1. ~Has(bus, "auto")' /\ (Has(bus, "start") => Open)' /\ ~Stale'
      BY DEF starts, Stale
    <3>2. (table.active => belief \/ Has(bus, "start"))'
      BY DEF starts
    <3>3. (belief /\ ~Has(bus, "stop") /\ ~Writes("loop") /\ ~Writes("events")
           => continuous \/ Open)'
      <4> SUFFICES ASSUME belief, ~Has(bus', "stop"), ~Writes("loop"), ~Writes("events"), ~Open
                   PROVE  continuous
        OBVIOUS
      <4>1. ~Has(bus, "stop") /\ ~table.active BY DEF stops
      <4>2. CASE Stale BY <4>1, <4>2
      <4>3. CASE ~Stale BY <4>1, <4>3
      <4> QED BY <4>2, <4>3
    <3>4. (Has(bus, "stop") =>
             /\ bus \in {<<"stop">>, <<"rollover", "stop">>} /\ Steady /\ belief /\ ~continuous
             /\ table.init /\ table.done /\ ~Open /\ (now = Anchor => table.fired))'
      <4>1. CASE stops
        <5>1. Steady /\ belief BY <2>8, <4>1 DEF stops
        <5>2. ~continuous
          BY <2>5, <4>1, <5>1 DEF SlotSays, Steady, stops, Writes, Handler
        <5> QED BY <2>9, <2>11, <2>16, <4>1, <5>1, <5>2 DEF stops
      <4>2. CASE ~stops BY <2>10, <2>16, <4>2
      <4> QED BY <4>1, <4>2
    <3> QED BY <3>1, <3>2, <3>3, <3>4
  <2> QED BY <2>12, <2>13, <2>14, <2>15, <2>17 DEF FollowInv
<1> QED BY <1>1, <1>2, <1>3, <1>4

(* A pass of the logic task, up to the pump.                                *)
LEMMA FollowPass ==
  ASSUME Undisturbed, Typed, Typed', FollowInv, auto, auto',
         StartupPlan \/ SyncState \/ Sample \/ Latch \/ ReadWindow \/ Decide \/ Drive
  PROVE  FollowInv'
<1>0. /\ task \in [Tasks -> TaskState] /\ Pass \in TaskState /\ table \in Table /\ "loop" \in Tasks
      /\ pending \in Pending /\ plan \in Slots /\ Plans \subseteq Slots
      /\ {"rest", "sample", "latch", "decide", "drive", "set"} \subseteq Steps
  BY DEF Typed, Tasks, Pass, Slots, Steps
<1>a. UNCHANGED <<now, synced, table, bus, continuous, Handler, Writes("events")>>
  BY <1>0 DEF StartupPlan, SyncState, Sample, Latch, ReadWindow, Decide, Drive, Goto, Apply, logic,
     Handler, Writes, Tasks
<1>b. Open' = Open /\ Stale' = Stale /\ ~Writes("loop") /\ (Applies(Pass.pc) <=> FALSE)
  BY <1>a DEF Open, Stale, StartupPlan, SyncState, Sample, Latch, ReadWindow, Decide, Drive, Writes,
     Pass, Applies
<1>c. ASSUME NEW s \in Steps, Goto("loop", s)
      PROVE  Pass'.pc = s
  BY <1>0, <1>c, MovesOn DEF Pass
<1>d. ASSUME NEW p \in Slots, NEW r \in Steps, Apply("loop", p, r)
      PROVE  Pass'.pc = "set" /\ Pass'.plan = p /\ Pass'.ret = r
  BY <1>0, <1>d DEF Apply, Pass, TaskState
<1>1. CASE StartupPlan
  <2>1. PICK p \in Slots : /\ Apply("loop", p, "rest") /\ plan' = p
                           /\ p = IF plan = NoPlan THEN p ELSE plan
    BY <1>0, <1>1 DEF StartupPlan
  <2>2. Pass'.pc = "set" /\ Pass'.plan = plan' /\ Pass'.ret = "rest" /\ ~Writes("loop")'
    BY <1>0, <1>d, <2>1 DEF Writes, Pass
  <2>3. /\ UNCHANGED <<belief, staged, armed, sampled, seen, young, last, pump>> /\ pending.startup
        /\ ~pending'.startup /\ pending'.recalc = pending.recalc
        /\ pending'.reconcile = pending.reconcile
    BY <1>0, <1>1 DEF StartupPlan, drive, Pending
  <2>4. plan' = table.def \/ ~Open
    BY <2>1, <2>3 DEF FollowInv, Turns, Open, WindowOpen, NoPlan
  <2>5. ~Stale /\ ~Has(bus, "stop") /\ Handler.pc = "rest" /\ ~continuous /\ ~pending.reconcile
        /\ ~pump /\ ~seen /\ ~armed /\ last = pump /\ Pass.pc = "rest"
    BY <1>1, <2>3 DEF FollowInv, Edged, Steady, Turns, Relay, StartupPlan, Pass
  <2>6. Turns' BY <1>a, <2>2, <2>3, <2>5 DEF FollowInv, Turns, Applies
  <2>7. SlotSays' BY <1>a, <1>b, <2>2, <2>3, <2>5 DEF FollowInv, SlotSays, Applies
  <2>8. PlanWaits' BY <1>a, <1>b, <2>2, <2>3, <2>4, <2>5 DEF PlanWaits
  <2>9. Relay' BY <1>a, <1>b, <2>2, <2>3, <2>5 DEF FollowInv, Relay, MayStop
  <2>10. Edged' BY <1>a, <1>b, <2>2, <2>3, <2>5 DEF FollowInv, Edged
  <2> QED BY <2>6, <2>7, <2>8, <2>9, <2>10 DEF FollowInv
<1>2. CASE SyncState
  <2>1. /\ UNCHANGED <<belief, pending, plan, last, pump>> /\ seen' = pump /\ ~pending.startup
        /\ young' = ((young \/ ~seen) /\ pump) /\ Pass.pc = "rest"
        /\ IF pump /\ ~seen THEN armed' /\ ~staged' /\ ~sampled'
           ELSE armed' = (armed /\ pump) /\ staged' = staged /\ sampled' = sampled
    BY <1>2 DEF SyncState, Arm, Pass
  <2>2. IF seen /\ ~pump /\ staged
        THEN Pass'.pc = "set" /\ Pass'.plan = plan /\ Pass'.ret = "sample"
        ELSE Pass'.pc = "sample"
    BY <1>0, <1>2, <1>c, <1>d DEF SyncState
  <2>3. ~Writes("loop")' /\ (Applies(Pass'.pc) <=> seen /\ ~pump /\ staged)
    BY <2>2 DEF Writes, Pass, Applies
  <2>4. pump = last /\ (continuous => ~(seen /\ ~pump)) /\ (seen /\ ~pump => MayStop)
        /\ (plan # table.def => Quiet /\ (staged \/ continuous))
    BY <2>1 DEF FollowInv, Relay, PlanWaits
  <2>5. Stale \/ Has(bus, "stop") => seen = pump /\ Steady
    BY DEF FollowInv, Edged, Steady
  <2>6. Turns'
    BY <1>a, <1>b, <2>1, <2>2, <2>3, <2>4 DEF FollowInv, Turns, Quiet
  <2>7. SlotSays' BY <1>a, <1>b, <2>1, <2>3, <2>4, <2>2 DEF FollowInv, SlotSays
  <2>8. PlanWaits'
    BY <1>a, <1>b, <2>1, <2>2, <2>4 DEF FollowInv, PlanWaits, Quiet, Holding, MayStop
  <2>9. Relay' BY <1>a, <1>b, <2>1, <2>2, <2>4 DEF FollowInv, Relay, MayStop, Holding
  <2>10. Steady /\ seen = pump => Steady'
    BY <1>a, <2>1, <2>2, <2>3 DEF Steady
  <2>11. Edged' BY <1>a, <1>b, <2>1, <2>3, <2>5, <2>10 DEF FollowInv, Edged
  <2> QED BY <2>6, <2>7, <2>8, <2>9, <2>11 DEF FollowInv
<1>3. CASE Sample
  <2>1. /\ UNCHANGED <<belief, pending, last, pump, seen, young>> /\ Pass.pc = "sample"
    BY <1>3 DEF Sample, drive, Pass
  <2>2. IF ~armed \/ ~seen THEN UNCHANGED <<plan, staged, armed, sampled>>
        ELSE IF young THEN sampled' /\ UNCHANGED <<plan, staged, armed>>
        ELSE /\ ~armed' /\ sampled' = sampled
             /\ IF sampled THEN staged' ELSE UNCHANGED <<plan, staged>>
    BY <1>3 DEF Sample
  <2>3. Pass'.pc = "latch" /\ ~Writes("loop")' /\ ~Applies(Pass'.pc)
    BY <1>0, <1>3, <1>c DEF Sample, Writes, Pass, Applies
  <2>4. plan' # plan => plan = table.def /\ seen /\ ~young /\ armed /\ sampled /\ ~armed' /\ staged'
    BY <2>1, <2>2 DEF FollowInv, PlanWaits, Quiet
  <2>5. ~pending.startup BY <2>1 DEF FollowInv, Turns
  <2>6. Quiet => Quiet' /\ plan' = plan BY <2>1, <2>2 DEF Quiet
  <2>7. Holding => Holding' BY <1>a, <2>1, <2>2 DEF Holding
  <2>8. Turns' BY <1>a, <1>b, <2>1, <2>2, <2>3, <2>4, <2>5, <2>6 DEF FollowInv, Turns
  <2>9. SlotSays' BY <1>a, <1>b, <2>1, <2>3 DEF FollowInv, SlotSays
  <2>10. PlanWaits'
    BY <1>a, <1>b, <2>1, <2>2, <2>3, <2>4, <2>6, <2>7 DEF FollowInv, PlanWaits, Quiet
  <2>11. Relay' BY <1>a, <1>b, <2>1, <2>3, <2>7 DEF FollowInv, Relay, MayStop
  <2>12. Steady => Steady' BY <1>a, <2>1, <2>3 DEF Steady
  <2>13. Edged' BY <1>a, <1>b, <2>1, <2>3, <2>12 DEF FollowInv, Edged
  <2> QED BY <2>8, <2>9, <2>10, <2>11, <2>13 DEF FollowInv
<1>4. CASE Latch
  <2>1. /\ UNCHANGED <<belief, plan, staged, armed, sampled, last, pump, seen, young>>
        /\ Pass.pc = "latch"
    BY <1>4 DEF Latch, drive, Pass
  <2>2. /\ Pass'.window = belief /\ Pass'.force = pending.reconcile
        /\ Pass'.pc = IF pending.reconcile THEN "read" ELSE "decide"
        /\ ~pending'.reconcile /\ pending'.startup = pending.startup
        /\ pending'.recalc = pending.recalc
    BY <1>0, <1>4 DEF Latch, Pass, TaskState, Pending
  <2>3. ~Writes("loop")' /\ ~Applies(Pass'.pc) /\ pending.reconcile \in BOOLEAN
    BY <1>0, <2>2 DEF Writes, Pass, Applies, Pending
  <2>4. ~pending.startup BY <2>1 DEF FollowInv, Turns
  <2>7. Holding' <=> Holding BY <1>a, <2>1 DEF Holding
  <2>8. Turns' BY <1>a, <1>b, <2>1, <2>2, <2>3, <2>4 DEF FollowInv, Turns, Quiet
  <2>9. SlotSays' BY <1>a, <1>b, <2>1, <2>2, <2>3 DEF FollowInv, SlotSays
  <2>10. PlanWaits'
    BY <1>a, <1>b, <2>1, <2>2, <2>3, <2>7 DEF FollowInv, PlanWaits, Quiet
  <2>11. Relay' BY <1>a, <1>b, <2>1, <2>2, <2>3, <2>7 DEF FollowInv, Relay, MayStop
  <2>12. Steady => Steady' BY <1>a, <2>1, <2>2, <2>3 DEF Steady
  <2>13. Edged' BY <1>a, <1>b, <2>1, <2>3, <2>12 DEF FollowInv, Edged
  <2> QED BY <2>8, <2>9, <2>10, <2>11, <2>13 DEF FollowInv
<1>5. CASE ReadWindow
  <2> DEFINE open == continuous \/ table.mask
  <2>1. /\ UNCHANGED <<pending, plan, staged, armed, sampled, last, pump, seen, young>>
        /\ Pass.pc = "read" /\ belief' = open
    BY <1>5 DEF ReadWindow, drive, Pass, Undisturbed
  <2>2. Pass'.window = open /\ Pass'.pc = "decide"
    BY <1>0, <1>5 DEF ReadWindow, Pass, TaskState, Undisturbed, Typed, Table
  <2>3. ~Writes("loop")' /\ ~Applies(Pass'.pc) /\ table.mask = table.active
        /\ table.active \in BOOLEAN /\ continuous \in BOOLEAN
    BY <1>0, <2>2 DEF Writes, Pass, Applies, FollowInv, SlotSays, Typed, Table
  <2>4. ~pending.startup /\ ~Stale /\ ~Has(bus, "stop")
    BY <2>1 DEF FollowInv, Turns, Edged, Steady
  <2>7. (Holding' <=> Holding) /\ (continuous \/ Holding)
    BY <1>a, <2>1 DEF Holding, FollowInv, PlanWaits
  <2>8. Turns' BY <1>a, <1>b, <2>1, <2>2, <2>3, <2>4 DEF FollowInv, Turns, Quiet
  <2>9. SlotSays' BY <1>a, <1>b, <2>1, <2>2, <2>3 DEF FollowInv, SlotSays
  <2>10. PlanWaits'
    BY <1>a, <1>b, <2>1, <2>2, <2>3, <2>7 DEF FollowInv, PlanWaits, Quiet
  <2>11. Relay' BY <1>a, <1>b, <2>1, <2>2, <2>3, <2>7 DEF FollowInv, Relay, MayStop
  <2>13. Edged' BY <1>a, <1>b, <2>1, <2>3, <2>4 DEF FollowInv, Edged, SlotSays, Stale
  <2> QED BY <2>8, <2>9, <2>10, <2>11, <2>13 DEF FollowInv
<1>6. CASE Decide
  <2>1. /\ UNCHANGED <<belief, pending, plan, staged, armed, sampled, pump, seen, young>>
        /\ Pass.pc = "decide" /\ last' = IF Pass.force THEN ~Pass.window ELSE last
    BY <1>6 DEF Decide, logic, Pass, Desired
  <2>2. Pass'.window = Pass.window /\ Pass'.pc = "drive" /\ Pass'.force = Pass.force
    BY <1>0, <1>6 DEF Decide, Pass, TaskState, Desired
  <2>3. ~Writes("loop")' /\ ~Applies(Pass'.pc) /\ Pass.window \in BOOLEAN
    BY <1>0, <2>2 DEF Writes, Pass, Applies, TaskState
  <2>4. ~pending.startup BY <2>1 DEF FollowInv, Turns
  <2>7. Holding' <=> Holding BY <1>a, <2>1 DEF Holding
  <2>8. Turns' BY <1>a, <1>b, <2>1, <2>2, <2>3, <2>4 DEF FollowInv, Turns, Quiet
  <2>9. SlotSays' BY <1>a, <1>b, <2>1, <2>2, <2>3 DEF FollowInv, SlotSays
  <2>10. PlanWaits'
    BY <1>a, <1>b, <2>1, <2>2, <2>3, <2>7 DEF FollowInv, PlanWaits, Quiet
  <2>11. Relay' BY <1>a, <1>b, <2>1, <2>2, <2>3, <2>7 DEF FollowInv, Relay, MayStop
  <2>12. Steady => Steady' BY <1>a, <2>1, <2>2, <2>3 DEF Steady
  <2>13. Edged' BY <1>a, <1>b, <2>1, <2>3, <2>12 DEF FollowInv, Edged
  <2> QED BY <2>8, <2>9, <2>10, <2>11, <2>13 DEF FollowInv
<1>7. CASE Drive
  <2>1. /\ UNCHANGED <<belief, pending, plan, staged, armed, sampled, seen, young>>
        /\ Pass.pc = "drive" /\ last' = Pass.window
        /\ pump' = IF Pass.window # last \/ Pass.window # seen THEN Pass.window ELSE pump
    BY <1>7 DEF Drive, logic, Pass
  <2>2. Pass'.pc = "rest"
    BY <1>0, <1>7, <1>c DEF Drive
  <2>3. ~Writes("loop")' /\ ~Applies(Pass'.pc) /\ Pass.window \in BOOLEAN
    BY <1>0, <2>2 DEF Writes, Pass, Applies, TaskState
  <2>4. ~pending.startup BY <2>1 DEF FollowInv, Turns
  <2>5. pump' = Pass.window BY <2>1 DEF FollowInv, Relay
  <2>6. /\ continuous => pump'
        /\ seen /\ ~pump' => MayStop
        /\ pump' /\ ~belief => MayStop
        /\ Steady => Steady'
    <3>1. continuous => pump' BY <2>1, <2>5 DEF FollowInv, Relay
    <3>2. seen /\ ~pump' => MayStop BY <2>1, <2>5 DEF FollowInv, Relay
    <3>3. pump' /\ ~belief => MayStop BY <2>1, <2>5 DEF FollowInv, Relay
    <3>4. Steady => Steady'
      BY <1>a, <2>1, <2>2, <2>3, <2>5 DEF Steady
    <3> QED BY <3>1, <3>2, <3>3, <3>4
  <2>7. Holding' <=> Holding BY <1>a, <2>1 DEF Holding
  <2>8. Turns' BY <1>a, <1>b, <2>1, <2>2, <2>3, <2>4 DEF FollowInv, Turns, Quiet
  <2>9. SlotSays' BY <1>a, <1>b, <2>1, <2>2, <2>3 DEF FollowInv, SlotSays
  <2>10. PlanWaits'
    BY <1>a, <1>b, <2>1, <2>2, <2>3, <2>7 DEF FollowInv, PlanWaits, Quiet
  <2>11. Relay' BY <1>a, <1>b, <2>1, <2>2, <2>3, <2>5, <2>6, <2>7 DEF FollowInv, Relay, MayStop
  <2>13. Edged' BY <1>a, <1>b, <2>1, <2>3, <2>6 DEF FollowInv, Edged
  <2> QED BY <2>8, <2>9, <2>10, <2>11, <2>13 DEF FollowInv
<1> QED BY <1>1, <1>2, <1>3, <1>4, <1>5, <1>6, <1>7

(* Giving the scheduler a plan.                                             *)
LEMMA FollowApply ==
  ASSUME Undisturbed, Typed, Typed', FollowInv, auto, auto', NEW t \in Tasks, Applying(t)
  PROVE  FollowInv'
<1>0. /\ task \in [Tasks -> TaskState] /\ Pass \in TaskState /\ Handler \in TaskState
      /\ table \in Table /\ bus \in Seq(Events) /\ pending \in Pending /\ "slots" \in Events
      /\ "start" \in Events /\ "stop" \in Events /\ "auto" \in Events /\ "rollover" \in Events
      /\ Tasks = {"loop", "events"} /\ {"rest", "sample", "arm"} \subseteq Steps
      /\ <<"slots">> \in Seq(Events)
  BY DEF Typed, Tasks, Pass, Handler, Events, Steps
<1>a. ~PersistFails(t) /\ Applies(task[t].pc) /\ ~pending.startup
  <2>1. ~PersistFails(t) BY DEF PersistFails, Undisturbed
  <2>2. Applies(task[t].pc)
    BY <2>1 DEF Applying, SetSlot, PersistSlot, Adopt, Applies
  <2>3. t = "loop" \/ t = "events" BY <1>0
  <2>4. Applies(Pass.pc) \/ Applies(Handler.pc) BY <2>2, <2>3 DEF Pass, Handler
  <2> QED BY <2>1, <2>2, <2>4 DEF FollowInv, Turns, Applies
<1>b. ~Stale /\ ~Has(bus, "stop")
  BY <1>a, <1>0 DEF FollowInv, Edged, Steady, Applies, Pass, Handler
<1>1. CASE SetSlot(t)
  <2>1. /\ task[t].pc = "set" /\ UNCHANGED <<now, synced, bus, belief, continuous, pending, plan, staged>>
        /\ UNCHANGED <<armed, sampled, seen, young, last, pump>>
    BY <1>1 DEF SetSlot, logic, drive
  <2>2. /\ table'.def = task[t].plan /\ table'.blob = table.blob /\ table'.active = FALSE
        /\ table'.mask = FALSE /\ ~table'.init /\ table'.done = table.done
        /\ ~Stale'
    BY <1>0, <1>1 DEF SetSlot, Table, Stale
  <2>3. CASE t = "loop"
    <3>1. /\ Pass.pc = "set" /\ Pass'.pc = "persist" /\ Pass'.plan = Pass.plan
          /\ Pass'.ret = Pass.ret /\ UNCHANGED <<Handler, Writes("events")>> /\ Writes("loop")'
      BY <1>0, <1>1, <2>3 DEF SetSlot, Pass, Handler, TaskState, Writes
    <3>2. /\ table'.def = plan /\ table'.def = Pass.plan /\ ~Applies(Handler.pc) /\ ~Writes("events")
          /\ ~continuous /\ ~pump /\ ~seen /\ ~armed
      BY <2>2, <2>3, <3>1 DEF FollowInv, Turns, Applies, Pass, Handler, Writes
    <3>3. Open' => Open \/ plan # table.def
      BY <2>1, <2>2, <3>2 DEF Open
    <3>4. Holding' BY <2>1, <3>2 DEF Holding
    <3>5. Has(bus, "start") => Open'
      BY <2>1, <3>1, <3>2 DEF FollowInv, PlanWaits, Edged, Open
    <3>6. Turns' BY <1>a, <2>1, <3>1, <3>2 DEF FollowInv, Turns, Applies
    <3>7. SlotSays' BY <2>1, <2>2, <3>1, <3>2, <1>b DEF FollowInv, SlotSays, Applies
    <3>8. PlanWaits' BY <2>1, <3>1, <3>2, <3>4 DEF PlanWaits
    <3>9. Relay' BY <2>1, <3>1, <3>2, <3>4 DEF FollowInv, Relay, MayStop
    <3>10. Edged' BY <2>1, <2>2, <3>1, <3>5, <1>b DEF FollowInv, Edged
    <3> QED BY <3>6, <3>7, <3>8, <3>9, <3>10 DEF FollowInv
  <2>4. CASE t = "events"
    <3>1. /\ Handler.pc = "set" /\ Handler'.pc = "persist" /\ Handler'.plan = Handler.plan
          /\ Handler'.ret = Handler.ret /\ UNCHANGED <<Pass, Writes("loop")>> /\ Writes("events")'
          /\ table'.def = Handler.plan
      BY <1>0, <1>1, <2>2, <2>4 DEF SetSlot, Pass, Handler, TaskState, Writes
    <3>2. /\ continuous /\ Handler.ret = "arm" /\ ~Applies(Pass.pc) /\ ~Writes("loop")
          /\ IF Handler.plan.continuous THEN Handler.plan \in {plan, table.def}
             ELSE Handler.plan = plan /\ Quiet
      BY <3>1 DEF FollowInv, Turns, Applies, Writes, Pass
    <3>3. continuous = table.def.continuous /\ table.def = table.blob
      BY <1>a, <3>1, <3>2 DEF FollowInv, SlotSays, Applies, Writes, Handler
    <3>4. ~Open BY <3>2, <3>3 DEF Open, WindowOpen
    <3>5. ~Has(bus, "start") BY <3>4 DEF FollowInv, Edged
    <3>6. Turns' BY <1>a, <2>1, <3>1, <3>2 DEF FollowInv, Turns, Applies, Quiet
    <3>7. SlotSays' BY <2>1, <2>2, <3>1, <3>2, <3>3, <1>a DEF FollowInv, SlotSays, Applies
    <3>8. plan # table'.def => plan # table.def
      BY <3>1, <3>2, <3>3
    <3>9. PlanWaits' BY <2>1, <3>1, <3>2, <3>8 DEF FollowInv, PlanWaits, Quiet, Applies
    <3>10. Relay' BY <2>1, <3>1, <3>2 DEF FollowInv, Relay
    <3>11. Edged' BY <2>1, <2>2, <3>1, <3>5, <1>b DEF FollowInv, Edged
    <3> QED BY <3>6, <3>7, <3>9, <3>10, <3>11 DEF FollowInv
  <2> QED BY <1>0, <2>3, <2>4
<1>2. CASE PersistSlot(t)
  <2>1. /\ task[t].pc = "persist" /\ UNCHANGED <<now, synced, belief, continuous, pending, plan, staged>>
        /\ UNCHANGED <<armed, sampled, seen, young, last, pump>>
        /\ task'[t].pc = "adopt" /\ task'[t].plan = task[t].plan /\ task'[t].ret = task[t].ret
        /\ task'[t].window = task[t].window /\ task'[t].force = task[t].force
    BY <1>0, <1>2 DEF PersistSlot, logic, drive, TaskState
  <2>2. /\ table'.def = table.def /\ table'.blob = table.def /\ table'.active = table.active
        /\ table'.mask = table.mask /\ table'.init = table.init /\ table'.done = table.done
        /\ (Stale' <=> Stale) /\ Open' = Open
    BY <1>0, <1>2, <2>1 DEF PersistSlot, Table, Stale, Open
  <2>3. \A e \in Events : e # "slots" => (Has(bus', e) <=> Has(bus, e))
    <3> DEFINE note == <<"slots">>
    <3>1. bus' = bus \/ bus' = bus \o note BY <1>2 DEF PersistSlot, Post
    <3>2. note \in Seq(Events) /\ \A e \in Events : Has(note, e) <=> e = "slots"
      BY <1>0, HasFacts
    <3> HIDE DEF note
    <3>3. \A e \in Events : Has(bus \o note, e) <=> Has(bus, e) \/ Has(note, e)
      BY <1>0, <3>2, HasFacts
    <3> QED BY <3>1, <3>2, <3>3
  <2>4. Has(bus', "start") = Has(bus, "start") /\ ~Has(bus', "stop") /\ Has(bus', "auto") = Has(bus, "auto")
        /\ Has(bus', "rollover") = Has(bus, "rollover")
    BY <1>0, <1>b, <2>3 DEF Has
  <2>5. /\ t = "loop" => UNCHANGED <<Handler, Writes("events")>> /\ Writes("loop") /\ Writes("loop")'
        /\ t = "events" => UNCHANGED <<Pass, Writes("loop")>> /\ Writes("events") /\ Writes("events")'
    BY <1>0, <1>2, <2>1 DEF PersistSlot, Pass, Handler, Writes
  <2>6. Turns' /\ SlotSays' /\ PlanWaits' /\ Relay'
    <3>1. CASE t = "loop"
      <4>1. Pass.pc = "persist" /\ Pass'.pc = "adopt" /\ Pass'.plan = Pass.plan /\ Pass'.ret = Pass.ret
        BY <2>1, <3>1 DEF Pass
      <4>2. Turns' BY <1>a, <2>1, <2>2, <2>5, <3>1, <4>1 DEF FollowInv, Turns, Applies, Quiet
      <4>3. SlotSays' BY <2>1, <2>2, <2>4, <2>5, <3>1, <4>1 DEF FollowInv, SlotSays, Applies
      <4>4. PlanWaits' BY <2>1, <2>2, <2>5, <3>1, <4>1 DEF FollowInv, PlanWaits, Quiet, Holding
      <4>5. Relay' BY <2>1, <2>2, <2>5, <3>1, <4>1 DEF FollowInv, Relay, MayStop, Holding
      <4> QED BY <4>2, <4>3, <4>4, <4>5
    <3>2. CASE t = "events"
      <4>1. Handler.pc = "persist" /\ Handler'.pc = "adopt" /\ Handler'.plan = Handler.plan
            /\ Handler'.ret = Handler.ret
        BY <2>1, <3>2 DEF Handler
      <4>2. Turns' BY <1>a, <2>1, <2>2, <2>5, <3>2, <4>1 DEF FollowInv, Turns, Applies, Quiet
      <4>3. SlotSays' BY <1>a, <2>1, <2>2, <2>4, <2>5, <3>2, <4>1 DEF FollowInv, SlotSays, Turns, Applies
      <4>4. PlanWaits' BY <2>1, <2>2, <2>5, <3>2, <4>1 DEF FollowInv, PlanWaits, Quiet, Holding
      <4>5. Relay' BY <2>1, <2>2, <2>5, <3>2, <4>1 DEF FollowInv, Relay, MayStop, Holding
      <4> QED BY <4>2, <4>3, <4>4, <4>5
    <3> QED BY <1>0, <3>1, <3>2
  <2>7. Edged' BY <1>0, <1>b, <2>1, <2>2, <2>4, <2>5 DEF FollowInv, Edged
  <2> QED BY <2>6, <2>7 DEF FollowInv
<1>3. CASE Adopt(t)
  <2> DEFINE p == task[t].plan
  <2>1. /\ task[t].pc = "adopt" /\ UNCHANGED <<now, synced, table, bus, plan, armed, sampled>>
        /\ UNCHANGED <<seen, young, last, pump, Open, Stale>>
        /\ belief' = (p.continuous \/ table.mask) /\ continuous' = p.continuous
        /\ pending'.reconcile /\ pending'.startup = pending.startup
        /\ pending'.recalc = pending.recalc
        /\ staged' = (staged /\ task[t].ret # "sample")
    BY <1>0, <1>3 DEF Adopt, drive, Pending, Open, Stale
  <2>2. table.def = p /\ table.mask = table.active /\ table.active \in BOOLEAN
        /\ (table.active => Open) /\ table.def = table.blob
    BY <1>0, <1>b, <1>a, <2>1 DEF FollowInv, SlotSays, Turns, Applies, Writes, Pass, Handler, Table, Stale
  <2>5. ~synced => ~table.init /\ belief' = continuous'
    BY <2>1, <2>2 DEF FollowInv, SlotSays, Typed
  <2>3. CASE t = "loop"
    <3>1. /\ Pass.pc = "adopt" /\ Pass'.pc \in {"rest", "sample"} /\ p = plan
          /\ ~continuous /\ ~pump /\ ~seen /\ ~armed /\ ~Applies(Handler.pc)
          /\ UNCHANGED <<Handler, Writes("events")>> /\ ~Writes("loop")' /\ ~Applies(Pass'.pc)
      <4>1. Pass.pc = "adopt" /\ Pass.plan = p /\ Pass.ret = task[t].ret BY <2>1, <2>3 DEF Pass
      <4>2. /\ Pass.ret \in {"rest", "sample"} /\ p = plan
            /\ ~continuous /\ ~pump /\ ~seen /\ ~armed /\ ~Applies(Handler.pc)
        BY <4>1 DEF FollowInv, Turns, Applies
      <4>3. Goto("loop", Pass.ret) /\ Pass.ret \in Steps
        BY <1>0, <1>3, <2>3, <4>2 DEF Adopt, Pass
      <4>4. Pass'.pc = Pass.ret /\ Handler' = Handler
        BY <1>0, <4>3, MovesOn DEF Pass
      <4> QED BY <4>1, <4>2, <4>4 DEF Writes, Pass, Handler, Applies
    <3>2. Holding' BY <2>1, <2>2, <3>1 DEF Holding
    <3>3. ~Writes("events") BY <3>1 DEF Writes, Applies, Handler
    <3>4. Turns' BY <1>a, <2>1, <3>1 DEF FollowInv, Turns
    <3>5. SlotSays' BY <2>1, <2>2, <2>5, <3>1, <3>3 DEF FollowInv, SlotSays
    <3>6. PlanWaits' BY <2>1, <2>2, <3>1, <3>2 DEF PlanWaits
    <3>7. Relay' BY <2>1, <2>2, <3>1, <3>2 DEF FollowInv, Relay, MayStop
    <3>8. Edged' BY <1>b, <2>1, <2>2, <3>1, <3>3 DEF FollowInv, Edged
    <3> QED BY <3>4, <3>5, <3>6, <3>7, <3>8 DEF FollowInv
  <2>4. CASE t = "events"
    <3>1. /\ Handler.pc = "adopt" /\ Handler'.pc = "arm" /\ continuous /\ ~Applies(Pass.pc)
          /\ UNCHANGED <<Pass, Writes("loop")>> /\ ~Writes("events")' /\ staged' = staged
          /\ IF p.continuous THEN TRUE ELSE p = plan /\ Quiet
      <4>1. Handler.pc = "adopt" /\ Handler.plan = p /\ Handler.ret = task[t].ret
        BY <2>1, <2>4 DEF Handler
      <4>2. /\ Handler.ret = "arm" /\ continuous /\ ~Applies(Pass.pc)
            /\ IF p.continuous THEN TRUE ELSE p = plan /\ Quiet
        BY <4>1 DEF FollowInv, Turns, Applies
      <4>3. Goto("events", "arm")
        BY <1>3, <2>4, <4>1, <4>2 DEF Adopt
      <4>4. Handler'.pc = "arm" /\ Pass' = Pass
        BY <1>0, <4>3, MovesOn DEF Handler
      <4> QED BY <1>0, <2>1, <4>1, <4>2, <4>4 DEF Writes, Pass, Handler, Typed
    <3>2. p.continuous \/ Holding' BY <2>1, <2>2, <3>1 DEF Holding, Quiet
    <3>3. ~Writes("loop") BY <3>1 DEF Writes, Applies, Pass
    <3>4. Turns' BY <1>a, <2>1, <3>1 DEF FollowInv, Turns, Applies
    <3>5. SlotSays' BY <2>1, <2>2, <2>5, <3>1, <3>3 DEF FollowInv, SlotSays
    <3>6. plan # table.def => p.continuous BY <2>2, <3>1
    <3>7. PlanWaits' BY <2>1, <2>2, <3>1, <3>2, <3>6 DEF FollowInv, PlanWaits, Quiet, Applies
    <3>8. Relay' BY <2>1, <2>2, <3>1, <3>2 DEF FollowInv, Relay, MayStop
    <3>9. Edged' BY <1>b, <2>1, <2>2, <3>1, <3>3 DEF FollowInv, Edged
    <3> QED BY <3>4, <3>5, <3>7, <3>8, <3>9 DEF FollowInv
  <2> QED BY <1>0, <2>3, <2>4
<1> QED BY <1>1, <1>2, <1>3, <1>a DEF Applying

(* The dispatcher hands out an event: what is left, and what it was.        *)
LEMMA DeliverFacts ==
  ASSUME bus \in Seq(Events), NEW e \in Events, Deliver(e)
  PROVE  /\ Handler.pc = "rest" /\ Has(bus, e) /\ bus # <<>>
         /\ \A d \in Events : Has(bus', d) => Has(bus, d)
         /\ \A d \in Events : d # e => (Has(bus', d) <=> Has(bus, d))
<1>1. bus # <<>> /\ Head(bus) = e /\ bus' = Tail(bus) /\ Handler.pc = "rest"
  BY DEF Deliver, Handler
<1>2. \A d \in Events : Has(bus, d) <=> Has(bus', d) \/ e = d
  BY <1>1, HasFacts
<1> QED BY <1>1, <1>2

(* While an edge to closed is under way only a rollover comes before it.    *)
LEMMA DeliverStop ==
  ASSUME NEW e \in Events, Deliver(e), bus \in {<<"stop">>, <<"rollover", "stop">>}
  PROVE  \/ e = "stop" /\ bus' = <<>>
         \/ e = "rollover" /\ bus' = <<"stop">>
<1>1. Head(bus) = e /\ bus' = Tail(bus) BY DEF Deliver
<1>2. CASE bus = <<"stop">>
  <2>1. Head(<<"stop">>) = "stop" /\ Tail(<<"stop">>) = <<>> OBVIOUS
  <2> QED BY <1>1, <1>2, <2>1
<1>3. CASE bus = <<"rollover", "stop">>
  <2>1. Head(<<"rollover", "stop">>) = "rollover" OBVIOUS
  <2>2. Tail(<<"rollover", "stop">>) = <<"stop">> BY TwoEvents DEF Events
  <2> QED BY <1>1, <1>3, <2>1, <2>2
<1> QED BY <1>2, <1>3

(* Events.                                                                  *)
LEMMA FollowDispatch ==
  ASSUME Undisturbed, Typed, Typed', FollowInv, auto, auto',
         OnStart \/ OnStop \/ OnSlots \/ OnAutoMode \/ OnRollover \/ ArmAgain
  PROVE  FollowInv'
<1>0. /\ task \in [Tasks -> TaskState] /\ Pass \in TaskState /\ Handler \in TaskState
      /\ table \in Table /\ bus \in Seq(Events) /\ plan \in Slots
      /\ {"start", "stop", "slots", "rollover", "auto"} \subseteq Events
      /\ Tasks = {"loop", "events"} /\ {"rest", "arm"} \subseteq Steps
  BY DEF Typed, Tasks, Pass, Handler, Events, Steps
<1>a. ~Has(bus, "auto") BY DEF FollowInv, Edged
<1>s. ASSUME NEW e \in Events, Deliver(e)
      PROVE  /\ Handler.pc = "rest" /\ Has(bus, e) /\ ~Stale
             /\ \A d \in Events : Has(bus', d) => Has(bus, d)
             /\ \A d \in Events : d # e => (Has(bus', d) <=> Has(bus, d))
             /\ Has(bus, "stop") => \/ e = "stop" /\ bus' = <<>>
                                    \/ e = "rollover" /\ bus' = <<"stop">>
  <2>1. /\ Handler.pc = "rest" /\ Has(bus, e) /\ bus # <<>>
        /\ \A d \in Events : Has(bus', d) => Has(bus, d)
        /\ \A d \in Events : d # e => (Has(bus', d) <=> Has(bus, d))
    BY <1>0, <1>s, DeliverFacts
  <2>2. Has(bus, "stop") => bus \in {<<"stop">>, <<"rollover", "stop">>}
    BY DEF FollowInv, Edged
  <2>3. Has(bus, "stop") => \/ e = "stop" /\ bus' = <<>>
                            \/ e = "rollover" /\ bus' = <<"stop">>
    BY <1>s, <2>2, DeliverStop
  <2> QED BY <2>1, <2>3 DEF FollowInv, Edged
<1>1. CASE OnStart
  <2>1. /\ UNCHANGED <<now, synced, table, continuous, pending, plan, staged, armed, sampled>>
        /\ UNCHANGED <<seen, young, last, pump, Pass, Handler, Writes("loop"), Writes("events")>>
        /\ belief' = TRUE /\ Deliver("start")
    BY <1>1 DEF OnStart, drive, Pass, Handler, Writes
  <2>2. /\ Has(bus, "start") /\ Handler.pc = "rest" /\ ~Stale /\ ~Has(bus, "stop") /\ ~Has(bus', "stop")
        /\ (Has(bus', "start") => Has(bus, "start")) /\ ~Has(bus', "auto")
    BY <1>0, <1>a, <1>s, <2>1
  <2>3. Open' = Open /\ Stale' = Stale /\ (Holding' <=> Holding) /\ synced /\ Open
    BY <2>1, <2>2 DEF Open, Stale, Holding, FollowInv, SlotSays, Edged
  <2>4. Turns' BY <2>1 DEF FollowInv, Turns, Quiet
  <2>5. SlotSays' BY <2>1, <2>3 DEF FollowInv, SlotSays
  <2>6. PlanWaits' BY <2>1, <2>3 DEF FollowInv, PlanWaits, Quiet
  <2>7. Relay' BY <2>1, <2>3 DEF FollowInv, Relay, MayStop
  <2>8. Edged' BY <2>1, <2>2, <2>3 DEF Edged
  <2> QED BY <2>4, <2>5, <2>6, <2>7, <2>8 DEF FollowInv
<1>2. CASE OnStop
  <2>1. /\ UNCHANGED <<now, synced, table, continuous, pending, plan, staged, armed, sampled>>
        /\ UNCHANGED <<seen, young, last, pump, Pass, Handler, Writes("loop"), Writes("events")>>
        /\ belief' = FALSE /\ Deliver("stop")
    BY <1>2 DEF OnStop, drive, Pass, Handler, Writes
  <2>2. Has(bus, "stop") /\ ~Stale /\ bus' = <<>>
    BY <1>0, <1>s, <2>1
  <2>3. \A e \in Events : ~Has(bus', e) BY <2>2, HasFacts
  <2>4. /\ Steady /\ ~continuous /\ ~Open /\ table.init /\ table.done
    BY <2>2 DEF FollowInv, Edged
  <2>5. Open' = Open /\ Stale' = Stale /\ (Holding' <=> Holding) /\ synced /\ ~table.active
    BY <2>1, <2>2, <2>4 DEF Open, Stale, Holding, FollowInv, SlotSays
  <2>6. Turns' BY <2>1 DEF FollowInv, Turns, Quiet
  <2>7. SlotSays' BY <2>1, <2>5 DEF FollowInv, SlotSays
  <2>8. PlanWaits' BY <2>1, <2>5 DEF FollowInv, PlanWaits, Quiet
  <2>9. Relay' BY <2>1, <2>4, <2>5 DEF FollowInv, Relay, MayStop
  <2>10. Edged' BY <1>0, <2>1, <2>2, <2>3, <2>5 DEF Edged
  <2> QED BY <2>6, <2>7, <2>8, <2>9, <2>10 DEF FollowInv
<1>3. CASE OnSlots
  <2>1. /\ UNCHANGED <<now, synced, belief, continuous, pending, plan, staged, armed, sampled>>
        /\ UNCHANGED <<seen, young, last, pump, Pass, Handler, Writes("loop"), Writes("events")>>
        /\ Deliver("slots")
    BY <1>3 DEF OnSlots, logic, drive, Pass, Handler, Writes
  <2>2. /\ table'.def = table.def /\ table'.blob = table.blob /\ table'.active = table.active
        /\ table'.mask = table.mask /\ table'.init = table.init /\ table'.done = table.done
    BY <1>0, <1>3 DEF OnSlots, Table
  <2>3. /\ ~Stale /\ ~Has(bus, "stop") /\ ~Has(bus', "stop")
        /\ (Has(bus', "start") <=> Has(bus, "start")) /\ ~Has(bus', "auto")
        /\ (Has(bus', "rollover") <=> Has(bus, "rollover"))
    BY <1>0, <1>a, <1>s, <2>1
  <2>4. Open' = Open /\ (Stale' <=> Stale) /\ (Holding' <=> Holding)
    BY <2>1, <2>2 DEF Open, Stale, Holding
  <2>5. Turns' BY <2>1, <2>2 DEF FollowInv, Turns, Quiet
  <2>6. SlotSays' BY <2>1, <2>2, <2>3, <2>4 DEF FollowInv, SlotSays
  <2>7. PlanWaits' BY <2>1, <2>2, <2>4 DEF FollowInv, PlanWaits, Quiet
  <2>8. Relay' BY <2>1, <2>4 DEF FollowInv, Relay, MayStop
  <2>9. Edged' BY <2>1, <2>2, <2>3, <2>4 DEF FollowInv, Edged
  <2> QED BY <2>5, <2>6, <2>7, <2>8, <2>9 DEF FollowInv
<1>4. CASE OnRollover
  <2>1. /\ UNCHANGED <<now, synced, table, belief, continuous, pending, plan, staged, armed, sampled>>
        /\ UNCHANGED <<seen, young, last, pump, Pass, Writes("loop")>>
        /\ Deliver("rollover")
    BY <1>0, <1>4 DEF OnRollover, logic, drive, Apply, Pass, Writes
  <2>2. /\ Handler.pc = "rest" /\ ~Stale /\ (Has(bus', "start") <=> Has(bus, "start")) /\ ~Has(bus', "auto")
        /\ (Has(bus', "stop") <=> Has(bus, "stop"))
        /\ (Has(bus, "stop") => bus' = <<"stop">>)
        /\ ~Writes("events") /\ Has(bus, "rollover")
    <3>1. Handler.pc = "rest" BY <1>0, <1>s, <2>1
    <3> QED BY <1>0, <1>a, <1>s, <2>1, <3>1 DEF Writes, Handler
  <2>3. Open' = Open /\ (Stale' <=> Stale) /\ (Holding' <=> Holding) /\ synced
    BY <2>1, <2>2 DEF Open, Stale, Holding, FollowInv, SlotSays
  <2>4. IF continuous
        THEN Handler'.pc = "set" /\ Handler'.plan = plan /\ Handler'.ret = "arm"
        ELSE Handler' = Handler
    BY <1>0, <1>4 DEF OnRollover, Apply, Handler, TaskState
  <2>5. ~Writes("events")'
    BY <2>2, <2>4 DEF Writes, Handler
  <2>6. continuous => /\ ~Applies(Pass.pc) /\ ~pending.startup /\ table.def.continuous
                      /\ (~plan.continuous => Quiet)
    <3> SUFFICES ASSUME continuous
                 PROVE  /\ ~Applies(Pass.pc) /\ ~pending.startup /\ table.def.continuous
                        /\ (~plan.continuous => Quiet)
      OBVIOUS
    <3>1. ~Applies(Pass.pc) /\ ~pending.startup BY DEF FollowInv, Turns
    <3>2. table.def.continuous BY <2>2, <3>1 DEF FollowInv, SlotSays
    <3> QED BY <3>1, <3>2 DEF FollowInv, PlanWaits, Applies
  <2>7. Turns' BY <2>1, <2>2, <2>4, <2>6 DEF FollowInv, Turns, Quiet, Applies
  <2>8. SlotSays'
    BY <2>1, <2>2, <2>3, <2>4, <2>5, <2>6 DEF FollowInv, SlotSays, Turns, Applies
  <2>9. PlanWaits' BY <2>1, <2>2, <2>3, <2>4 DEF FollowInv, PlanWaits, Quiet
  <2>10. Relay' BY <2>1, <2>3 DEF FollowInv, Relay, MayStop
  <2>11. Has(bus, "stop") => Steady /\ Steady' /\ ~continuous
    BY <2>1, <2>4 DEF FollowInv, Edged, Steady
  <2>12. Edged' BY <2>1, <2>2, <2>3, <2>5, <2>11 DEF FollowInv, Edged
  <2> QED BY <2>7, <2>8, <2>9, <2>10, <2>12 DEF FollowInv
<1>5. CASE ArmAgain
  <2>1. /\ UNCHANGED <<now, synced, table, bus, belief, continuous, pending, plan>>
        /\ UNCHANGED <<seen, young, last, pump>>
        /\ Handler.pc = "arm"
        /\ IF seen THEN armed' /\ ~staged' /\ ~sampled' ELSE UNCHANGED <<armed, staged, sampled>>
    BY <1>5 DEF ArmAgain, Arm, drive, Handler
  <2>2. Handler'.pc = "rest" /\ Pass' = Pass
    BY <1>0, <1>5, MovesOn DEF ArmAgain, Handler
  <2>3. UNCHANGED Writes("loop") /\ ~Writes("events") /\ ~Writes("events")'
    BY <2>1, <2>2 DEF Writes, Pass, Handler
  <2>4. Open' = Open /\ Stale' = Stale /\ ~Stale /\ ~Has(bus, "stop")
    BY <2>1 DEF Open, Stale, FollowInv, Edged, Steady
  <2>5. continuous \/ Holding BY <2>1 DEF FollowInv, PlanWaits
  <2>6. (Holding => Holding') /\ (Quiet => Quiet') BY <2>1 DEF Holding, Quiet
  <2>7. ~pending.startup BY <2>1 DEF FollowInv, Turns
  <2>8. Turns' BY <2>1, <2>2, <2>7 DEF FollowInv, Turns, Applies
  <2>9. SlotSays' BY <2>1, <2>2, <2>3, <2>4 DEF FollowInv, SlotSays, Applies
  <2>10. PlanWaits' BY <2>1, <2>2, <2>4, <2>5, <2>6 DEF FollowInv, PlanWaits, Holding
  <2>11. Relay' BY <2>1, <2>2, <2>4, <2>6 DEF FollowInv, Relay, MayStop
  <2>12. Edged' BY <2>1, <2>2, <2>3, <2>4 DEF FollowInv, Edged
  <2> QED BY <2>8, <2>9, <2>10, <2>11, <2>12 DEF FollowInv
<1>6. ~OnAutoMode
  <2>1. OnAutoMode => Has(bus, "auto") BY <1>0, <1>s DEF OnAutoMode
  <2> QED BY <1>a, <2>1
<1> QED BY <1>1, <1>2, <1>3, <1>4, <1>5, <1>6

(* Two commands change the mode.                                            *)
LEMMA AutoStays ==
  ASSUME [Next]_vars, ~ManualWrite, ~AutoModeSet
  PROVE  auto' = auto
<1>1. CASE Loop \/ Dispatch
  BY <1>1 DEF Loop, Dispatch, Applying, StartupPlan, ManualRecalc, SyncState, Sample, Latch,
     ReadWindow, WriteBelief, Decide, Drive, SetSlot, PersistSlot, PersistFails, Adopt, OnStart,
     OnStop, OnSlots, OnAutoMode, OnRollover, ArmAgain, drive
<1>2. CASE \/ Reload \/ Evaluate \/ ClockSet \/ ClockLost \/ Recalc \/ OtherSlotWrite
           \/ PowerCut \/ Tick \/ UNCHANGED vars
  BY <1>2 DEF Reload, Evaluate, ClockSet, ClockLost, Recalc, OtherSlotWrite, PowerCut, Tick, vars,
     drive
<1> QED BY <1>1, <1>2 DEF Next

(* Every step in auto mode; nobody comes back to it.                        *)
LEMMA FollowStep ==
  ASSUME Undisturbed, Typed, Typed', auto => FollowInv, [Next]_vars
  PROVE  auto' => auto /\ FollowInv'
<1> SUFFICES ASSUME auto' PROVE auto /\ FollowInv'
  OBVIOUS
<1>1. /\ ~ClockLost /\ ~Recalc /\ ~ManualWrite /\ ~AutoModeSet /\ ~OtherSlotWrite /\ ~PowerCut
      /\ ~WriteBelief \/ ~auto
  <2>1. auto => ~WriteBelief
    BY DEF WriteBelief, FollowInv, Turns, Pass
  <2> QED BY <2>1 DEF ClockLost, Recalc, ManualWrite, AutoModeSet, OtherSlotWrite, PowerCut, May, Undisturbed
<1>2. auto => ~ManualRecalc
  BY DEF ManualRecalc, FollowInv, Turns
<1>3. auto
  BY <1>1, AutoStays
<1>4. CASE UNCHANGED vars
  BY <1>3, <1>4 DEF vars, logic, drive, FollowInv, Turns, SlotSays, PlanWaits, Relay, Edged, Steady,
     Pass, Handler, Open, Writes, Stale, Quiet, Holding, MayStop
<1>5. CASE Reload \/ Evaluate \/ ClockSet \/ Tick
  BY <1>3, <1>5, FollowClock
<1>6. CASE Loop
  <2>1. CASE Applying("loop") BY <1>3, <2>1, FollowApply DEF Tasks
  <2> QED BY <1>1, <1>2, <1>3, <1>6, <2>1, FollowPass DEF Loop
<1>7. CASE Dispatch
  <2>1. CASE Applying("events") BY <1>3, <2>1, FollowApply DEF Tasks
  <2> QED BY <1>3, <1>7, <2>1, FollowDispatch DEF Dispatch
<1> QED BY <1>1, <1>3, <1>4, <1>5, <1>6, <1>7 DEF Next

(* In auto mode the pump runs exactly while the window is open, once every *)
(* task has caught up: the edges, the belief and the relay agree, over the *)
(* start of a plan, its end, the rollover of a continuous plan and an       *)
(* operator who takes over.                                                 *)
THEOREM PumpFollowsWindow ==
  ASSUME Undisturbed
  PROVE  Spec => []FiltrationFollowsWindow
<1>1. Init => (auto => FollowInv)
  BY FollowInit
<1>2. Typed /\ Typed' /\ (auto => FollowInv) /\ [Next]_vars => (auto => FollowInv)'
  BY FollowStep
<1>3. Typed /\ (auto => FollowInv) => FiltrationFollowsWindow
  BY FollowSays DEF FiltrationFollowsWindow, Open
<1>4. Typed /\ [Next]_vars => Typed'
  BY TypeStep
<1> QED BY <1>1, <1>2, <1>3, <1>4, TypeInit, PTL DEF Spec

(* In auto mode a step that gives the slot another plan comes while the    *)
(* pump is off or the plan is continuous.                                   *)
LEMMA FollowKeepsPlan ==
  ASSUME Undisturbed, Typed, auto, FollowInv, [Next]_vars, pump, ~continuous
  PROVE  table'.def = table.def
<1>0. table \in Table /\ Tasks = {"loop", "events"}
  BY DEF Typed, Tasks
<1>1. CASE Reload
  <2>1. Pass.pc # "persist" /\ Handler.pc # "persist"
    BY <1>1 DEF Reload, Undisturbed, Pass, Handler
  <2> QED BY <1>1, <2>1 DEF Reload, Boot, FollowInv, SlotSays
<1>2. ASSUME NEW t \in Tasks, SetSlot(t) PROVE FALSE
  <2>1. Applies(Pass.pc) \/ Applies(Handler.pc)
    BY <1>0, <1>2 DEF SetSlot, Applies, Pass, Handler
  <2> QED BY <2>1 DEF FollowInv, Turns
<1>3. ASSUME NEW t \in Tasks, Applying(t) PROVE table'.def = table.def
  <2>1. ~PersistFails(t) BY DEF PersistFails, Undisturbed
  <2> QED BY <1>0, <1>2, <1>3, <2>1 DEF Applying, PersistSlot, Adopt, Table
<1>4. ~PowerCut BY DEF PowerCut, Undisturbed
<1>5. CASE Evaluate \/ ClockSet \/ ClockLost \/ OnSlots \/ OtherSlotWrite \/ Tick
  BY <1>0, <1>5 DEF Evaluate, ClockSet, ClockLost, OnSlots, OtherSlotWrite, Tick, Table
<1>6. CASE /\ Loop \/ Dispatch \/ Recalc \/ ManualWrite \/ AutoModeSet \/ UNCHANGED vars
           /\ ~Applying("loop") /\ ~Applying("events") /\ ~OnSlots
  BY <1>6 DEF Loop, Dispatch, StartupPlan, ManualRecalc, SyncState, Sample, Latch, ReadWindow,
     WriteBelief, Decide, Drive, OnStart, OnStop, OnAutoMode, OnRollover, ArmAgain, Recalc,
     ManualWrite, AutoModeSet, vars
<1> QED BY <1>0, <1>1, <1>3, <1>4, <1>5, <1>6 DEF Next, Loop, Dispatch

(* With no hazard at all the loop stays in auto mode.                       *)
LEMMA CalmStep ==
  ASSUME Hazards = {}, Typed, Typed', auto, FollowInv, [Next]_vars
  PROVE  Undisturbed /\ auto' /\ FollowInv'
<1>1. Undisturbed BY DEF Undisturbed
<1>2. ~ManualWrite /\ ~AutoModeSet BY DEF ManualWrite, AutoModeSet, May
<1>3. auto' BY <1>2, AutoStays
<1> QED BY <1>1, <1>3, FollowStep

(* Between plans the plan reported as active is the scheduler's.            *)
AdoptedInv == ~Writes("loop") /\ ~Writes("events") => adopted = NoPlan \/ adopted = table.def

(* It is kept while the tasks give plans one at a time.                     *)
LEMMA AdoptedStep ==
  ASSUME Undisturbed, Typed, FollowInv, AdoptedInv, [Next]_vars
  PROVE  AdoptedInv'
<1>0. /\ table \in Table /\ Tasks = {"loop", "events"} /\ task \in [Tasks -> TaskState]
      /\ plan \in Slots /\ Plans \subseteq Slots
  BY DEF Typed, Tasks, Slots
<1>1. CASE Reload
  <2>1. Pass.pc # "persist" /\ Handler.pc # "persist"
    BY <1>1 DEF Reload, Undisturbed, Pass, Handler
  <2>2. table'.def = table.def BY <1>1, <2>1 DEF Reload, Boot, FollowInv, SlotSays
  <2> QED BY <1>1, <2>2 DEF Reload, logic, AdoptedInv, Writes
<1>2. ASSUME NEW t \in Tasks, Applying(t) PROVE AdoptedInv'
  <2>1. ~PersistFails(t) BY DEF PersistFails, Undisturbed
  <2>2. CASE SetSlot(t) \/ PersistSlot(t)
    <3>1. task'[t].pc \in {"persist", "adopt"}
      BY <1>0, <2>2 DEF SetSlot, PersistSlot, TaskState
    <3> QED BY <1>0, <3>1 DEF AdoptedInv, Writes
  <2>3. CASE Adopt(t)
    <3>1. table' = table /\ adopted' = task[t].plan /\ task[t].pc = "adopt"
      BY <2>3 DEF Adopt
    <3>2. table.def = task[t].plan
      BY <1>0, <3>1 DEF FollowInv, SlotSays, Writes, Pass, Handler
    <3> QED BY <3>1, <3>2 DEF AdoptedInv
  <2> QED BY <1>2, <2>1, <2>2, <2>3 DEF Applying
<1>3. CASE Evaluate \/ ClockSet \/ OnSlots \/ Tick
  <2>1. table'.def = table.def
    BY <1>0, <1>3 DEF Evaluate, ClockSet, OnSlots, Tick, Table
  <2>2. UNCHANGED <<adopted, task>>
    BY <1>3 DEF Evaluate, ClockSet, OnSlots, Tick, logic
  <2> QED BY <2>1, <2>2 DEF AdoptedInv, Writes
<1>4. CASE OnStart \/ OnStop \/ OnAutoMode \/ ManualWrite \/ UNCHANGED vars
  BY <1>4 DEF OnStart, OnStop, OnAutoMode, ManualWrite, vars, logic, AdoptedInv, Writes
<1>5. CASE StartupPlan \/ ManualRecalc \/ SyncState \/ Sample \/ Latch \/ ReadWindow \/ WriteBelief
           \/ Decide \/ Drive
  <2>1. UNCHANGED <<adopted, table>> /\ Handler' = Handler
    BY <1>0, <1>5 DEF StartupPlan, ManualRecalc, SyncState, Sample, Latch, ReadWindow, WriteBelief,
       Decide, Drive, Goto, Apply, logic, Handler
  <2>2. ~Writes("loop")
    BY <1>5 DEF StartupPlan, ManualRecalc, SyncState, Sample, Latch, ReadWindow, WriteBelief,
       Decide, Drive, Writes
  <2> QED BY <2>1, <2>2 DEF AdoptedInv, Writes, Handler
<1>6. CASE OnRollover \/ ArmAgain
  <2>1. UNCHANGED <<adopted, table>> /\ Pass' = Pass
    BY <1>0, <1>6 DEF OnRollover, ArmAgain, Goto, Apply, logic, Pass
  <2>2. ~Writes("events")
    BY <1>6 DEF OnRollover, ArmAgain, Deliver, Writes
  <2> QED BY <2>1, <2>2 DEF AdoptedInv, Writes, Pass
<1>7. ~ClockLost /\ ~Recalc /\ ~AutoModeSet /\ ~OtherSlotWrite /\ ~PowerCut
  BY DEF ClockLost, Recalc, AutoModeSet, OtherSlotWrite, PowerCut, May, Undisturbed
<1> QED BY <1>0, <1>1, <1>2, <1>3, <1>4, <1>5, <1>6, <1>7 DEF Next, Loop, Dispatch

(* Whatever power cuts, failing writes, recalculations, other clients and   *)
(* clocks do, the plan PoolLogic reports as active is the scheduler's; and  *)
(* with continuous plans too when nothing interferes.                       *)
THEOREM ReportedIsScheduled ==
  ASSUME NoOverlap \/ Hazards = {}
  PROVE  Spec => []PlanIsScheduled
<1>1. CASE NoOverlap
  <2>1. Typed /\ ScheduleInv /\ [Next]_vars => Typed' /\ ScheduleInv'
    BY <1>1, TypeStep, ScheduleStep
  <2>2. ScheduleInv => PlanIsScheduled
    BY DEF ScheduleInv, PlanIsScheduled, Settled
  <2> QED BY <2>1, <2>2, TypeInit, ScheduleInit, PTL DEF Spec
<1>2. CASE Hazards = {}
  <2>1. Init => auto /\ FollowInv /\ AdoptedInv BY FollowInit DEF Init, AdoptedInv
  <2>2. Typed /\ Typed' /\ auto /\ FollowInv /\ AdoptedInv /\ [Next]_vars
        => auto' /\ FollowInv' /\ AdoptedInv'
    BY <1>2, CalmStep, AdoptedStep
  <2>3. AdoptedInv => PlanIsScheduled
    BY DEF AdoptedInv, PlanIsScheduled, Settled, Writes
  <2>4. Typed /\ [Next]_vars => Typed' BY TypeStep
  <2> QED BY <2>1, <2>2, <2>3, <2>4, TypeInit, PTL DEF Spec
<1> QED BY <1>1, <1>2

(* A plan calculated during a run does not touch the run: whatever failing  *)
(* writes, reloads, power cuts, clocks and other clients do, unless somebody *)
(* asks for a plan; and with continuous plans too when nothing interferes.  *)
THEOREM RunKeepsPlan ==
  ASSUME NobodyAsks \/ Hazards = {}
  PROVE  Spec => RunKeepsItsPlan
<1>1. CASE NobodyAsks
  <2>1. Typed /\ RunInv /\ [Next]_vars => Typed' /\ RunInv'
    BY <1>1, TypeStep, RunStep
  <2>2. Typed /\ Typed' /\ RunInv /\ [Next]_vars => [pump /\ ~continuous => table'.def = table.def]_vars
    BY <1>1, RunStep
  <2> QED BY <2>1, <2>2, TypeInit, RunInit, PTL DEF Spec, RunKeepsItsPlan
<1>2. CASE Hazards = {}
  <2>1. Undisturbed BY <1>2 DEF Undisturbed
  <2>2. Init => auto /\ FollowInv BY FollowInit DEF Init
  <2>3. Typed /\ Typed' /\ auto /\ FollowInv /\ [Next]_vars => auto' /\ FollowInv'
    BY <1>2, CalmStep
  <2>4. Typed /\ Typed' /\ auto /\ FollowInv /\ [Next]_vars
        => [pump /\ ~continuous => table'.def = table.def]_vars
    BY <2>1, FollowKeepsPlan
  <2>5. Typed /\ [Next]_vars => Typed' BY TypeStep
  <2> QED BY <2>2, <2>3, <2>4, <2>5, TypeInit, PTL DEF Spec, RunKeepsItsPlan
<1> QED BY <1>1, <1>2
-----------------------------------------------------------------------------
(* What may interfere without an open window being missed: anything but a  *)
(* suspended logic task, and not a failed write together with somebody who *)
(* asks for plans or changes the mode.                                      *)
Replayed ==
  /\ \A p \in Plans : ~p.continuous
  /\ "preempt" \notin Hazards
  /\ "flash" \in Hazards => "recalc" \notin Hazards /\ "auto" \notin Hazards

(* What the belief will be once these events have been delivered.          *)
Told(b, f) ==
  \/ f /\ ~Has(b, "stop")
  \/ \E i \in 1 .. Len(b) : b[i] = "start" /\ \A j \in (i + 1) .. Len(b) : b[j] # "stop"

(* Only the logic task gives plans.                                         *)
Alone == /\ continuous = FALSE /\ Handler.pc = "rest"
         /\ Pass.pc # "write" /\ Pass.ret \in {"rest", "sample"}

(* A slot that was found open has been heard of, also one that may be      *)
(* rolled back to.                                                          *)
Heard ==
  /\ table.mask = table.active
  /\ table.mask => Told(bus, belief)
  /\ Pass.pc = "persist" => /\ Pass.was.mask = Pass.was.active
                            /\ Pass.was.mask => Told(bus, belief)
                            /\ table.active => Open

Evaluated == table.init /\ table.done => table.mask = Open

(* Nothing happens before the first evaluation of a minute.                 *)
Calm ==
  /\ bus = <<>> /\ seen = pump /\ last = pump /\ belief = pump
  /\ ~pending.startup /\ ~pending.recalc /\ ~pending.reconcile
  /\ Pass.pc \in {"rest", "sample", "latch", "decide", "drive"}
  /\ Pass.pc \in {"decide", "drive"} => Pass.window = pump /\ ~Pass.force

(* A write that fails undoes the evaluations of this minute only.          *)
Undone ==
  "flash" \in Hazards =>
    /\ Stale => Calm
    /\ Pass.pc = "persist" /\ table.def # table.blob /\ Pass.was.init
       => table.done /\ Pass.was.mask = WindowOpen(Pass.was.def, now)

(* The pump is what was written last, or the loop will write it again.     *)
Due == \/ Has(bus, "auto") \/ pending.reconcile
       \/ Pass.pc \in {"read", "decide"} /\ Pass.force
       \/ Pass.pc = "drive" /\ last # Pass.window
Relayed == auto => Due \/ last = pump

(* With failing writes this is said until somebody leaves auto mode.        *)
Kept == auto \/ "flash" \notin Hazards

ReplayInv == Alone /\ Heard /\ Evaluated /\ Undone /\ Relayed

(* What the belief will be, as events are delivered and posted.             *)
LEMMA ToldFacts ==
  ASSUME NEW b \in Seq(Events), NEW f \in BOOLEAN, NEW g \in BOOLEAN, f => g
  PROVE  /\ Told(<<>>, f) <=> f
         /\ Told(b, f) => Told(b, g)
         /\ \A c \in Seq(Events) : ~Has(c, "stop") /\ Told(b, f) => Told(b \o c, f)
         /\ \A c \in Seq(Events) : ~Has(c, "stop") /\ Has(c, "start") => Told(b \o c, f)
         /\ b # <<>> /\ Told(b, f) =>
              /\ Head(b) = "start" => Told(Tail(b), TRUE)
              /\ Head(b) = "stop" => Told(Tail(b), FALSE)
              /\ Head(b) \notin {"start", "stop"} => Told(Tail(b), f)
<1>0. "start" \in Events /\ "stop" \in Events BY DEF Events
<1>1. Told(<<>>, f) <=> f
  BY DEF Told, Has
<1>2. Told(b, f) => Told(b, g)
  BY DEF Told
<1>3. ASSUME NEW c \in Seq(Events), ~Has(c, "stop")
      PROVE  /\ Told(b, f) => Told(b \o c, f)
             /\ Has(c, "start") => Told(b \o c, f)
  <2>1. /\ Len(b \o c) = Len(b) + Len(c) /\ Len(b) \in Nat /\ Len(c) \in Nat
        /\ \A i \in 1 .. Len(b) : (b \o c)[i] = b[i]
        /\ \A i \in 1 .. Len(c) : (b \o c)[Len(b) + i] = c[i]
    OBVIOUS
  <2>2. \A j \in 1 .. Len(c) : c[j] # "stop"
    BY <1>3 DEF Has
  <2>3. \A j \in 1 .. Len(b) + Len(c) : j > Len(b) => (b \o c)[j] # "stop"
    <3> SUFFICES ASSUME NEW j \in 1 .. Len(b) + Len(c), j > Len(b) PROVE (b \o c)[j] # "stop"
      OBVIOUS
    <3>1. j - Len(b) \in 1 .. Len(c) /\ Len(b) + (j - Len(b)) = j BY <2>1
    <3>2. c[j - Len(b)] # "stop" BY <2>2, <3>1
    <3> QED BY <2>1, <3>1, <3>2
  <2>4. CASE f /\ ~Has(b, "stop")
    BY <1>0, <1>3, <2>4, HasFacts DEF Told
  <2>5. ASSUME NEW i \in 1 .. Len(b), b[i] = "start", \A j \in (i + 1) .. Len(b) : b[j] # "stop"
        PROVE  Told(b \o c, f)
    <3>1. i \in 1 .. Len(b \o c) /\ (b \o c)[i] = "start"
      BY <2>1, <2>5
    <3>2. ASSUME NEW j \in (i + 1) .. Len(b \o c) PROVE (b \o c)[j] # "stop"
      <4>1. CASE j <= Len(b)
        <5>1. j \in 1 .. Len(b) /\ j \in (i + 1) .. Len(b) BY <2>1, <4>1
        <5> QED BY <2>1, <2>5, <5>1
      <4>2. CASE j > Len(b)
        <5>1. j \in 1 .. Len(b) + Len(c) BY <2>1
        <5> QED BY <2>3, <4>2, <5>1
      <4> QED BY <2>1, <4>1, <4>2
    <3> QED BY <3>1, <3>2 DEF Told
  <2>6. ASSUME NEW i \in 1 .. Len(c), c[i] = "start" PROVE Told(b \o c, f)
    <3>1. Len(b) + i \in 1 .. Len(b \o c) /\ (b \o c)[Len(b) + i] = "start"
      BY <2>1, <2>6
    <3>2. \A j \in (Len(b) + i + 1) .. Len(b \o c) : (b \o c)[j] # "stop"
      <4> SUFFICES ASSUME NEW j \in (Len(b) + i + 1) .. Len(b \o c) PROVE (b \o c)[j] # "stop"
        OBVIOUS
      <4>1. j \in 1 .. Len(b) + Len(c) /\ j > Len(b) BY <2>1
      <4> QED BY <2>3, <4>1
    <3> QED BY <3>1, <3>2 DEF Told
  <2>7. Told(b, f) => Told(b \o c, f) BY <2>4, <2>5 DEF Told
  <2>8. Has(c, "start") => Told(b \o c, f) BY <2>6 DEF Has
  <2> QED BY <2>7, <2>8
<1>4. ASSUME b # <<>>, Told(b, f)
      PROVE  /\ Head(b) = "start" => Told(Tail(b), TRUE)
             /\ Head(b) = "stop" => Told(Tail(b), FALSE)
             /\ Head(b) \notin {"start", "stop"} => Told(Tail(b), f)
  <2>1. /\ Tail(b) \in Seq(Events) /\ Head(b) = b[1] /\ Len(b) \in Nat \ {0}
        /\ Len(Tail(b)) = Len(b) - 1 /\ \A i \in 1 .. Len(b) - 1 : Tail(b)[i] = b[i + 1]
    BY <1>4
  <2>2. ~Has(b, "stop") => ~Has(Tail(b), "stop") /\ Head(b) # "stop"
    BY <1>0, <1>4, HasFacts
  <2>3. CASE f /\ ~Has(b, "stop") BY <2>2, <2>3 DEF Told
  <2>4. ASSUME NEW i \in 1 .. Len(b), b[i] = "start", \A j \in (i + 1) .. Len(b) : b[j] # "stop",
               NEW h \in BOOLEAN, i = 1 => h
        PROVE  Told(Tail(b), h)
    <3>1. CASE i = 1
      <4>1. ~Has(Tail(b), "stop")
        <5> SUFFICES ASSUME NEW j \in 1 .. Len(b) - 1 PROVE Tail(b)[j] # "stop"
          BY <2>1 DEF Has
        <5>1. j + 1 \in (i + 1) .. Len(b) BY <2>1, <3>1
        <5> QED BY <2>1, <2>4, <5>1
      <4> QED BY <2>4, <3>1, <4>1 DEF Told
    <3>2. CASE i # 1
      <4>1. i - 1 \in 1 .. Len(Tail(b)) /\ Tail(b)[i - 1] = "start"
        <5>1. i - 1 \in 1 .. Len(b) - 1 /\ (i - 1) + 1 = i BY <2>1, <3>2
        <5> QED BY <2>1, <2>4, <5>1
      <4>2. \A j \in ((i - 1) + 1) .. Len(Tail(b)) : Tail(b)[j] # "stop"
        <5> SUFFICES ASSUME NEW j \in ((i - 1) + 1) .. Len(Tail(b)) PROVE Tail(b)[j] # "stop"
          OBVIOUS
        <5>1. j \in 1 .. Len(b) - 1 /\ j + 1 \in (i + 1) .. Len(b) BY <2>1
        <5> QED BY <2>1, <2>4, <5>1
      <4> QED BY <4>1, <4>2 DEF Told
    <3> QED BY <3>1, <3>2
  <2>5. CASE \E i \in 1 .. Len(b) : b[i] = "start" /\ \A j \in (i + 1) .. Len(b) : b[j] # "stop"
    <3>1. PICK i \in 1 .. Len(b) : b[i] = "start" /\ \A j \in (i + 1) .. Len(b) : b[j] # "stop"
      BY <2>5
    <3>2. i = 1 => Head(b) = "start" BY <2>1, <3>1
    <3> QED BY <2>4, <3>1, <3>2
  <2> QED BY <1>4, <2>3, <2>5 DEF Told
<1> QED BY <1>1, <1>2, <1>3, <1>4

(* It holds after a boot.                                                   *)
LEMMA ReplayInit == Init => ReplayInv
<1> SUFFICES ASSUME Init PROVE ReplayInv
  OBVIOUS
<1>1. ~table.active /\ ~table.mask /\ table.mask = table.active /\ ~table.init
  BY DEF Init, Boot
<1>2. Pass = Rest /\ Handler = Rest /\ Rest.pc = "rest" /\ Rest.ret = "rest"
  BY DEF Init, Rest, Pass, Handler
<1>3. Alone BY <1>2 DEF Init, Alone
<1>4. Heard /\ Evaluated BY <1>1, <1>2 DEF Heard, Evaluated
<1>5. Undone BY <1>1, <1>2 DEF Undone, Stale
<1>6. Relayed BY DEF Init, Relayed
<1> QED BY <1>3, <1>4, <1>5, <1>6 DEF ReplayInv

(* Once the tasks have caught up, an open window is evaluated, heard of,   *)
(* and written.                                                             *)
LEMMA ReplaySays == Typed /\ ReplayInv => (Settled /\ synced /\ auto => (Open => pump))
<1> SUFFICES ASSUME Typed, ReplayInv, Settled, synced, auto, Open PROVE pump
  OBVIOUS
<1>1. /\ Pass.pc = "rest" /\ bus = <<>> /\ ~pending.reconcile
      /\ table.init /\ table.done /\ last = belief
  BY DEF Settled, Pass, Desired
<1>2. ~Has(bus, "auto") BY <1>1, HasFacts DEF Events
<1>3. last = pump BY <1>1, <1>2 DEF ReplayInv, Relayed, Due
<1>4. table.mask BY <1>1 DEF ReplayInv, Evaluated
<1>5. Told(<<>>, belief) BY <1>1, <1>4 DEF ReplayInv, Heard
<1>6. belief = TRUE
  <2>1. belief \in BOOLEAN /\ <<>> \in Seq(Events) BY BusType DEF Typed
  <2> QED BY <1>5, <2>1, ToldFacts
<1>7. last = belief /\ last = pump BY <1>1, <1>3
<1> QED BY <1>6, <1>7

(* Steps of the time task.                                                  *)
LEMMA ReplayClock ==
  ASSUME Replayed, Typed, Typed', ReplayInv, Kept,
         Reload \/ Evaluate \/ ClockSet \/ ClockLost \/ Tick
  PROVE  ReplayInv'
<1>0. /\ table \in Table /\ table' \in Table /\ bus \in Seq(Events) /\ <<>> \in Seq(Events)
      /\ {"start", "stop", "slots", "rollover", "auto"} \subseteq Events
      /\ belief \in BOOLEAN
  BY DEF Typed, Events
<1>a. UNCHANGED <<belief, continuous, pending, auto, seen, last, pump, Pass, Handler>>
  BY DEF Reload, Evaluate, ClockSet, ClockLost, Tick, logic, drive, Pass, Handler
<1>b. Alone' BY <1>a DEF ReplayInv, Alone
<1>1. CASE Reload
  <2>1. /\ table'.def = table'.blob /\ table'.active = FALSE /\ table'.mask = FALSE /\ ~table'.init
        /\ bus' = bus
    BY <1>1 DEF Reload, Boot
  <2>2. Heard' BY <1>a, <2>1 DEF ReplayInv, Heard
  <2>3. Evaluated' /\ Undone' BY <2>1 DEF Evaluated, Undone, Stale
  <2>4. Relayed' BY <1>a, <2>1 DEF ReplayInv, Relayed, Due
  <2> QED BY <1>b, <2>2, <2>3, <2>4 DEF ReplayInv
<1>2. CASE ClockSet \/ ClockLost
  <2>1. /\ table'.def = table.def /\ table'.blob = table.blob /\ table'.done = table.done
        /\ table'.active = table'.mask /\ (table'.mask => table.mask) /\ ~table'.init
        /\ bus' = bus /\ now' = now
    BY <1>0, <1>2 DEF ClockSet, ClockLost, Table, ReplayInv, Heard
  <2>2. Open' = Open BY <2>1 DEF Open
  <2>3. Heard' BY <1>a, <2>1, <2>2 DEF ReplayInv, Heard
  <2>4. Evaluated' BY <2>1 DEF Evaluated
  <2>5. Undone' BY <1>a, <2>1 DEF ReplayInv, Undone, Stale
  <2>6. Relayed' BY <1>a, <2>1 DEF ReplayInv, Relayed, Due
  <2> QED BY <1>b, <2>3, <2>4, <2>5, <2>6 DEF ReplayInv
<1>3. CASE Tick
  <2>1. /\ table'.active = table.active /\ table'.mask = table.mask /\ ~table'.done
        /\ bus' = bus
    BY <1>0, <1>3 DEF Tick, Table
  <2>2. /\ Pass.pc = "rest" /\ bus = <<>> /\ ~pending.startup /\ ~pending.recalc
        /\ ~pending.reconcile /\ seen = pump /\ last = Desired(belief)
    BY <1>3 DEF Tick, Settled, Pass
  <2>3. Heard' BY <1>a, <2>1, <2>2 DEF ReplayInv, Heard
  <2>4. Evaluated' BY <2>1 DEF Evaluated
  <2>5. auto => last = pump /\ belief = pump
    BY <1>0, <2>2, HasFacts DEF ReplayInv, Relayed, Due, Desired
  <2>6. Undone' BY <1>a, <2>1, <2>2, <2>5 DEF Undone, Kept, Calm
  <2>7. Relayed' BY <1>a, <2>1 DEF ReplayInv, Relayed, Due
  <2> QED BY <1>b, <2>3, <2>4, <2>6, <2>7 DEF ReplayInv
<1>4. CASE Evaluate
  <2> DEFINE rolled == now = Anchor /\ ~table.fired
             roll == IF rolled THEN <<"rollover">> ELSE <<>>
             posted == roll \o Edges(Open)
  <2>1. /\ table'.def = table.def /\ table'.blob = table.blob /\ table'.active = Open
        /\ table'.mask = Open /\ table'.init /\ table'.done /\ now' = now
    BY <1>0, <1>4 DEF Evaluate, Table, Open
  <2>2. bus' = bus \o posted
    BY <1>0, <1>4 DEF Evaluate, Post, Open
  <2>3. Open' = Open BY <2>1 DEF Open
  <2> HIDE DEF rolled
  <2>4. /\ roll \in Seq(Events) /\ Edges(Open) \in Seq(Events)
        /\ ~Has(roll, "stop")
        /\ Open \/ ~table.active => ~Has(Edges(Open), "stop")
        /\ Open => Has(Edges(Open), "start") \/ table.active
    <3>1. /\ <<"start">> \in Seq(Events) /\ <<"stop">> \in Seq(Events)
          /\ <<"rollover">> \in Seq(Events)
      BY DEF Events
    <3>2. /\ ~Has(<<>>, "stop") /\ Has(<<"start">>, "start") /\ ~Has(<<"start">>, "stop")
          /\ ~Has(<<"rollover">>, "stop")
      BY <1>0, HasFacts
    <3>3. roll \in Seq(Events) /\ ~Has(roll, "stop") BY <1>0, <3>1, <3>2
    <3>4. /\ Edges(Open) \in {<<"start">>, <<"stop">>, <<>>}
          /\ Open \/ ~table.active => Edges(Open) \in {<<"start">>, <<>>}
          /\ Open => Edges(Open) = <<"start">> \/ table.active
      BY DEF Edges
    <3> QED BY <1>0, <3>1, <3>2, <3>3, <3>4
  <2>5. /\ posted \in Seq(Events)
        /\ Open \/ ~table.active => ~Has(posted, "stop")
        /\ Open => Has(posted, "start") \/ table.active
    <3>1. posted \in Seq(Events) BY <2>4, ConcatProperties
    <3>2. \A e \in Events : Has(posted, e) <=> Has(roll, e) \/ Has(Edges(Open), e)
      BY <2>4, HasFacts
    <3> QED BY <1>0, <2>4, <3>1, <3>2
  <2> HIDE DEF posted
  <2>6. Open \/ ~table.active => (Told(bus, belief) => Told(bus', belief))
    BY <1>0, <2>2, <2>5, ToldFacts
  <2>7. Open => Told(bus', belief)
    <3>1. Has(posted, "start") /\ Open => Told(bus', belief)
      BY <1>0, <2>2, <2>5, ToldFacts
    <3>2. table.active => Told(bus, belief) BY DEF ReplayInv, Heard
    <3> QED BY <2>5, <2>6, <3>1, <3>2
  <2>8. Heard' BY <1>a, <2>1, <2>3, <2>6, <2>7 DEF ReplayInv, Heard
  <2>9. Evaluated' BY <2>1, <2>3 DEF Evaluated
  <2>10. Undone' BY <1>a, <2>1 DEF ReplayInv, Undone, Stale
  <2>11. Has(bus, "auto") => Has(bus', "auto") BY <1>0, <2>2, <2>5, HasFacts
  <2>12. Relayed' BY <1>a, <2>11 DEF ReplayInv, Relayed, Due
  <2> QED BY <1>b, <2>8, <2>9, <2>10, <2>12 DEF ReplayInv
<1> QED BY <1>1, <1>2, <1>3, <1>4

(* A pass of the logic task.                                                *)
LEMMA ReplayPass ==
  ASSUME Replayed, Typed, Typed', ReplayInv, Kept,
         \/ StartupPlan \/ ManualRecalc \/ SyncState \/ Sample \/ Latch \/ ReadWindow
         \/ Decide \/ Drive
  PROVE  ReplayInv'
<1>0. /\ task \in [Tasks -> TaskState] /\ Pass \in TaskState /\ table \in Table /\ "loop" \in Tasks
      /\ pending \in Pending /\ bus \in Seq(Events) /\ belief \in BOOLEAN
      /\ {"rest", "sample", "latch", "decide", "drive", "set"} \subseteq Steps
  BY DEF Typed, Tasks, Pass, Steps
<1>a. UNCHANGED <<now, table, bus, continuous, auto, Handler>>
  BY <1>0 DEF StartupPlan, ManualRecalc, SyncState, Sample, Latch, ReadWindow, Decide, Drive, Goto,
     Apply, logic, drive, Handler, Tasks
<1>b. Open' = Open /\ Stale' = Stale /\ Pass.pc # "persist"
  BY <1>a DEF Open, Stale, StartupPlan, ManualRecalc, SyncState, Sample, Latch, ReadWindow, Decide,
     Drive, Pass
<1>c. ASSUME NEW s \in Steps, Goto("loop", s)
      PROVE  Pass'.pc = s /\ Pass'.ret = "rest"
  BY <1>0, <1>c DEF Goto, Pass, Rest
<1>d. ASSUME NEW p, NEW r \in {"rest", "sample"}, Apply("loop", p, r)
      PROVE  Pass'.pc = "set" /\ Pass'.ret = r
  BY <1>0, <1>d DEF Apply, Pass, TaskState
<1>e. ASSUME Pass'.pc \notin {"persist", "write"}, Pass'.ret \in {"rest", "sample"},
             belief' = belief \/ (Pass.pc = "read" /\ belief' = table.mask),
             auto => Due' \/ last' = pump',
             "flash" \in Hazards /\ Stale => Calm'
      PROVE  ReplayInv'
  <2>1. Alone' BY <1>a, <1>e DEF ReplayInv, Alone
  <2>2. Heard'
    <3>1. table.mask => Told(bus, belief') BY <1>0, <1>e, ToldFacts DEF ReplayInv, Heard, Table
    <3> QED BY <1>a, <1>e, <3>1 DEF ReplayInv, Heard
  <2>3. Evaluated' BY <1>a, <1>b DEF ReplayInv, Evaluated
  <2>4. Undone' BY <1>b, <1>e DEF Undone
  <2>5. Relayed' BY <1>a, <1>e DEF Relayed
  <2> QED BY <2>1, <2>2, <2>3, <2>4, <2>5 DEF ReplayInv
<1>f. /\ auto => Due \/ last = pump
      /\ "flash" \in Hazards /\ Stale => Calm /\ auto
  BY DEF ReplayInv, Relayed, Undone, Kept
<1>1. CASE StartupPlan
  <2>1. PICK p : Apply("loop", p, "rest") BY <1>1 DEF StartupPlan
  <2>2. Pass'.pc = "set" /\ Pass'.ret = "rest" BY <1>d, <2>1
  <2>3. /\ UNCHANGED <<belief, last, pump>> /\ pending.startup /\ Pass.pc = "rest"
        /\ pending'.reconcile = pending.reconcile
    BY <1>0, <1>1 DEF StartupPlan, drive, Pass, Pending
  <2>4. Due => Due' BY <1>a, <2>3 DEF Due
  <2>5. Stale => ~Calm BY <2>3 DEF Calm
  <2> QED BY <1>e, <1>f, <2>2, <2>3, <2>4, <2>5
<1>2. CASE ManualRecalc
  <2>1. (Pass'.pc = "set" /\ Pass'.ret = "rest") \/ Pass' = Pass
    <3>1. CASE \E p \in Plans : Apply("loop", p, "rest") BY <1>d, <3>1
    <3>2. CASE task' = task BY <3>2 DEF Pass
    <3> QED BY <1>2, <3>1, <3>2 DEF ManualRecalc
  <2>2. /\ UNCHANGED <<belief, last, pump>> /\ pending.recalc /\ Pass.pc = "rest"
        /\ pending'.reconcile = pending.reconcile
    BY <1>0, <1>2 DEF ManualRecalc, drive, Pass, Pending
  <2>3. Pass'.pc \notin {"persist", "write"} /\ Pass'.ret \in {"rest", "sample"}
    BY <2>1, <2>2 DEF ReplayInv, Alone
  <2>4. Due => Due' BY <1>a, <2>2 DEF Due
  <2>5. Stale => ~Calm BY <2>2 DEF Calm
  <2> QED BY <1>e, <1>f, <2>2, <2>3, <2>4, <2>5
<1>3. CASE SyncState
  <2>1. /\ UNCHANGED <<belief, last, pump, pending>> /\ Pass.pc = "rest" /\ seen' = pump
    BY <1>3 DEF SyncState, Pass
  <2>2. /\ Pass'.ret \in {"rest", "sample"}
        /\ IF seen /\ ~pump /\ staged THEN Pass'.pc = "set" ELSE Pass'.pc = "sample"
    BY <1>0, <1>3, <1>c, <1>d DEF SyncState
  <2>3. Due => Due' BY <1>a, <2>1 DEF Due
  <2>4. Calm => Calm' BY <1>a, <2>1, <2>2 DEF Calm
  <2>5. Pass'.pc \notin {"persist", "write"} BY <2>2
  <2> QED BY <1>e, <1>f, <2>1, <2>2, <2>3, <2>4, <2>5
<1>4. CASE Sample
  <2>1. /\ UNCHANGED <<belief, last, pump, pending, seen>> /\ Pass.pc = "sample"
    BY <1>4 DEF Sample, drive, Pass
  <2>2. Pass'.pc = "latch" /\ Pass'.ret = "rest" BY <1>0, <1>4, <1>c DEF Sample
  <2>3. Due => Due' BY <1>a, <2>1 DEF Due
  <2>4. Calm => Calm' BY <1>a, <2>1, <2>2 DEF Calm
  <2> QED BY <1>e, <1>f, <2>1, <2>2, <2>3, <2>4
<1>5. CASE Latch
  <2>1. UNCHANGED <<belief, last, pump, seen>> /\ Pass.pc = "latch"
    BY <1>5 DEF Latch, drive, Pass
  <2>2. /\ Pass'.window = belief /\ Pass'.force = pending.reconcile /\ Pass'.ret = Pass.ret
        /\ Pass'.pc = IF pending.reconcile THEN "read" ELSE "decide"
        /\ ~pending'.reconcile /\ pending'.startup = pending.startup
        /\ pending'.recalc = pending.recalc
    BY <1>0, <1>5 DEF Latch, Pass, TaskState, Pending
  <2>3. Due => Due' BY <1>a, <2>1, <2>2 DEF Due
  <2>4. Calm => Calm' BY <1>a, <2>1, <2>2 DEF Calm
  <2>5. Pass'.pc \notin {"persist", "write"} /\ Pass'.ret \in {"rest", "sample"}
    BY <2>2 DEF ReplayInv, Alone
  <2> QED BY <1>e, <1>f, <2>1, <2>3, <2>4, <2>5
<1>6. CASE ReadWindow
  <2>1. /\ UNCHANGED <<last, pump, pending>> /\ Pass.pc = "read"
        /\ belief' = (continuous \/ table.mask)
    BY <1>6 DEF ReadWindow, drive, Pass, Replayed
  <2>2. Pass'.pc = "decide" /\ Pass'.ret = Pass.ret /\ Pass'.force = Pass.force
    BY <1>0, <1>6 DEF ReadWindow, Pass, TaskState, Replayed
  <2>3. Due => Due' BY <1>a, <2>1, <2>2 DEF Due
  <2>4. ~Calm BY <2>1 DEF Calm
  <2>5. belief' = table.mask BY <1>0, <2>1 DEF ReplayInv, Alone, Table
  <2>6. Pass'.pc \notin {"persist", "write"} /\ Pass'.ret \in {"rest", "sample"}
    BY <2>2 DEF ReplayInv, Alone
  <2> QED BY <1>e, <1>f, <2>1, <2>3, <2>4, <2>5, <2>6
<1>7. CASE Decide
  <2> DEFINE want == Desired(Pass.window)
  <2>1. /\ UNCHANGED <<belief, pending, pump, seen>> /\ Pass.pc = "decide"
        /\ last' = IF Pass.force THEN ~want ELSE last
    BY <1>7 DEF Decide, logic, Pass
  <2>2. /\ Pass'.window = want /\ Pass'.pc = "drive" /\ Pass'.ret = Pass.ret /\ want \in BOOLEAN
        /\ Pass'.force = Pass.force
    BY <1>0, <1>7 DEF Decide, Pass, TaskState, Desired, Typed
  <2>3. auto => want = Pass.window BY DEF Desired
  <2> HIDE DEF want
  <2>4. auto /\ Due => Due' \/ last' = pump'
    BY <1>a, <2>1, <2>2 DEF Due
  <2>5. auto /\ last = pump => Due' \/ last' = pump'
    BY <1>a, <2>1, <2>2 DEF Due
  <2>6. auto /\ Calm => Calm' BY <1>a, <2>1, <2>2, <2>3 DEF Calm
  <2>7. Pass'.pc \notin {"persist", "write"} /\ Pass'.ret \in {"rest", "sample"}
    BY <2>2 DEF ReplayInv, Alone
  <2> QED BY <1>e, <1>f, <2>1, <2>4, <2>5, <2>6, <2>7
<1>8. CASE Drive
  <2>1. /\ UNCHANGED <<belief, pending, seen>> /\ Pass.pc = "drive" /\ last' = Pass.window
        /\ pump' = IF Pass.window # last \/ Pass.window # seen THEN Pass.window ELSE pump
    BY <1>8 DEF Drive, logic, Pass
  <2>2. Pass'.pc = "rest" /\ Pass'.ret = "rest" BY <1>0, <1>8, <1>c DEF Drive
  <2>3. Due => Due' \/ last' = pump' BY <1>a, <2>1, <2>2 DEF Due
  <2>4. last = pump => last' = pump' BY <2>1
  <2>5. Calm => Calm' BY <1>a, <2>1, <2>2 DEF Calm
  <2> QED BY <1>e, <1>f, <2>1, <2>2, <2>3, <2>4, <2>5
<1> QED BY <1>1, <1>2, <1>3, <1>4, <1>5, <1>6, <1>7, <1>8

(* Applying a plan.                                                         *)
LEMMA ReplayApply ==
  ASSUME Replayed, Typed, Typed', ReplayInv, Kept, Applying("loop")
  PROVE  ReplayInv'
<1>0. /\ task \in [Tasks -> TaskState] /\ Pass \in TaskState /\ table \in Table /\ "loop" \in Tasks
      /\ Pass.was \in Table /\ Pass.plan \in Slots /\ Pass.ret \in {"rest", "sample"}
      /\ pending \in Pending /\ bus \in Seq(Events) /\ belief \in BOOLEAN
      /\ {"rest", "sample"} \subseteq Steps /\ {"slots", "auto", "stop"} \subseteq Events
  BY DEF Typed, Tasks, Pass, Steps, Events, TaskState, ReplayInv, Alone
<1>a. UNCHANGED <<now, last, pump, seen, auto, Handler>>
  BY <1>0 DEF Applying, SetSlot, PersistSlot, PersistFails, Adopt, Goto, logic, drive, Handler, Tasks
<1>b. Pass.pc \in {"set", "persist", "adopt"}
  BY DEF Applying, SetSlot, PersistSlot, PersistFails, Adopt, Pass
<1>c. "flash" \in Hazards => ~Stale
  BY <1>b DEF ReplayInv, Undone, Calm
<1>d. ASSUME Goto("loop", Pass.ret)
      PROVE  Pass'.pc \in {"rest", "sample"} /\ Pass'.ret = "rest"
  <2>1. /\ [Rest EXCEPT !.pc = Pass.ret].pc = Pass.ret
        /\ [Rest EXCEPT !.pc = Pass.ret].ret = "rest"
    BY DEF Rest
  <2>2. Pass' = [Rest EXCEPT !.pc = Pass.ret] BY <1>0, <1>d DEF Goto, Pass
  <2> QED BY <1>0, <2>1, <2>2
<1>1. CASE SetSlot("loop")
  <2>1. /\ table'.def = Pass.plan /\ table'.blob = table.blob /\ table'.active = FALSE
        /\ table'.mask = FALSE /\ ~table'.init /\ table'.done = table.done
    BY <1>0, <1>1 DEF SetSlot, Table, Pass
  <2>2. /\ Pass'.pc = "persist" /\ Pass'.was = table /\ Pass'.ret = Pass.ret
        /\ UNCHANGED <<bus, belief, continuous, pending>>
    BY <1>0, <1>1 DEF SetSlot, Pass, TaskState, logic
  <2>3. Alone' BY <1>a, <2>2 DEF ReplayInv, Alone
  <2>4. Heard' BY <2>1, <2>2 DEF ReplayInv, Heard
  <2>5. Evaluated' BY <2>1 DEF Evaluated
  <2>6. Undone'
    BY <1>a, <1>c, <2>1, <2>2 DEF ReplayInv, Evaluated, Undone, Stale, Open
  <2>7. Relayed' BY <1>a, <1>b, <2>2 DEF ReplayInv, Relayed, Due
  <2> QED BY <2>3, <2>4, <2>5, <2>6, <2>7 DEF ReplayInv
<1>2. CASE PersistSlot("loop")
  <2>1. /\ table'.def = table.def /\ table'.active = table.active
        /\ table'.mask = table.mask /\ table'.init = table.init /\ table'.done = table.done
        /\ bus' = bus \/ bus' = bus \o <<"slots">>
    BY <1>0, <1>2 DEF PersistSlot, Table, Post
  <2>2. /\ Pass'.pc = "adopt" /\ Pass'.ret = Pass.ret /\ Pass.pc = "persist"
        /\ UNCHANGED <<belief, continuous, pending>>
    BY <1>0, <1>2 DEF PersistSlot, Pass, TaskState, logic
  <2>3. Told(bus, belief) => Told(bus', belief)
    <3>1. <<"slots">> \in Seq(Events) /\ ~Has(<<"slots">>, "stop") BY <1>0, HasFacts
    <3>2. Told(bus, belief) => Told(bus \o <<"slots">>, belief) BY <1>0, <3>1, ToldFacts
    <3> QED BY <2>1, <3>2
  <2>4. Has(bus, "auto") => Has(bus', "auto")
    <3>1. <<"slots">> \in Seq(Events) BY <1>0
    <3>2. Has(bus, "auto") => Has(bus \o <<"slots">>, "auto") BY <1>0, <3>1, HasFacts
    <3> QED BY <2>1, <3>2
  <2>5. Alone' BY <1>a, <2>2 DEF ReplayInv, Alone
  <2>6. Heard' BY <2>1, <2>2, <2>3 DEF ReplayInv, Heard
  <2>7. Evaluated' BY <1>a, <2>1 DEF ReplayInv, Evaluated, Open
  <2>8. Undone' BY <1>c, <2>1, <2>2 DEF Undone, Stale
  <2>9. Relayed' BY <1>a, <2>2, <2>4 DEF ReplayInv, Relayed, Due
  <2> QED BY <2>5, <2>6, <2>7, <2>8, <2>9 DEF ReplayInv
<1>3. CASE PersistFails("loop")
  <2>1. /\ table'.def = Pass.was.def /\ table'.active = Pass.was.active
        /\ table'.mask = Pass.was.mask /\ table'.init = Pass.was.init /\ table'.done = table.done
    BY <1>0, <1>3 DEF PersistFails, Table, Pass
  <2>2. /\ "flash" \in Hazards /\ Pass.pc = "persist" /\ table.def # table.blob
        /\ UNCHANGED <<bus, belief, continuous, pending>> /\ Goto("loop", Pass.ret)
    BY <1>0, <1>3 DEF PersistFails, Pass, logic
  <2>3. Pass'.pc \in {"rest", "sample"} /\ Pass'.ret = "rest" BY <1>d, <2>2
  <2>4. Pass.was.init => table.done /\ Pass.was.mask = WindowOpen(Pass.was.def, now)
    BY <2>2 DEF ReplayInv, Undone
  <2>5. Alone' BY <1>a, <2>2, <2>3 DEF ReplayInv, Alone
  <2>6. Heard' BY <2>1, <2>2, <2>3 DEF ReplayInv, Heard
  <2>7. Evaluated' BY <1>a, <2>1, <2>4 DEF Evaluated, Open
  <2>8. Undone' BY <2>1, <2>3, <2>4 DEF Undone, Stale
  <2>9. Relayed' BY <1>a, <2>2, <2>3 DEF ReplayInv, Relayed, Due
  <2> QED BY <2>5, <2>6, <2>7, <2>8, <2>9 DEF ReplayInv
<1>4. CASE Adopt("loop")
  <2>1. ~Pass.plan.continuous BY <1>0 DEF Replayed, Slots, NoPlan
  <2>2. /\ belief' = (Pass.plan.continuous \/ table.mask) /\ continuous' = Pass.plan.continuous
        /\ pending'.reconcile /\ UNCHANGED <<table, bus>> /\ Goto("loop", Pass.ret)
    BY <1>0, <1>4 DEF Adopt, Pass, Pending
  <2>3. Pass'.pc \in {"rest", "sample"} /\ Pass'.ret = "rest" BY <1>d, <2>2
  <2>4. continuous' = FALSE /\ belief' = table.mask
    BY <1>0, <2>1, <2>2 DEF Table, Slots, NoPlan, PlanAssumption, Typed
  <2>5. Alone' BY <1>a, <2>3, <2>4 DEF ReplayInv, Alone
  <2>6. table.mask => Told(bus, belief')
    <3> SUFFICES ASSUME table.mask PROVE Told(bus, TRUE)
      BY <1>0, <2>4 DEF Table
    <3> QED BY <1>0, ToldFacts DEF ReplayInv, Heard
  <2>7. Heard' BY <2>2, <2>3, <2>6 DEF ReplayInv, Heard
  <2>8. Evaluated' BY <1>a, <2>2 DEF ReplayInv, Evaluated, Open
  <2>9. Undone' BY <1>c, <2>2, <2>3 DEF Undone, Stale
  <2>10. Relayed' BY <2>2 DEF Relayed, Due
  <2> QED BY <2>5, <2>7, <2>8, <2>9, <2>10 DEF ReplayInv
<1> QED BY <1>1, <1>2, <1>3, <1>4 DEF Applying

(* The dispatcher gives no plan, and what it delivers was counted on.       *)
LEMMA ReplayDispatch ==
  ASSUME Replayed, Typed, Typed', ReplayInv, Kept, Dispatch
  PROVE  ReplayInv'
<1>0. /\ table \in Table /\ bus \in Seq(Events) /\ belief \in BOOLEAN /\ pending \in Pending
      /\ {"start", "stop", "slots", "rollover", "auto"} \subseteq Events
      /\ Handler.pc = "rest" /\ continuous = FALSE
  BY DEF Typed, Events, ReplayInv, Alone
<1>1. ASSUME UNCHANGED <<now, auto, last, pump, continuous, Pass, Handler>>, bus # <<>>,
             table'.def = table.def, table'.blob = table.blob, table'.mask = table.mask,
             table'.active = table.active, table'.init = table.init, table'.done = table.done,
             Told(bus, belief) => Told(bus', belief'), auto /\ Due => Due'
      PROVE  ReplayInv'
  <2>1. "flash" \in Hazards => ~Stale BY <1>1 DEF ReplayInv, Undone, Calm
  <2>2. Alone' BY <1>1 DEF ReplayInv, Alone
  <2>3. Open' = Open BY <1>1 DEF Open
  <2>4. Heard' BY <1>1, <2>3 DEF ReplayInv, Heard
  <2>5. Evaluated' BY <1>1, <2>3 DEF ReplayInv, Evaluated
  <2>6. Undone' BY <1>1, <2>1 DEF ReplayInv, Undone, Stale
  <2>7. Relayed' BY <1>1 DEF ReplayInv, Relayed
  <2> QED BY <2>2, <2>4, <2>5, <2>6, <2>7 DEF ReplayInv
<1>2. ASSUME NEW e \in Events, Deliver(e)
      PROVE  /\ bus # <<>> /\ Head(bus) = e /\ bus' = Tail(bus)
             /\ e # "auto" => (Has(bus', "auto") <=> Has(bus, "auto"))
  BY <1>0, <1>2, DeliverFacts DEF Deliver
<1>3. Told(bus, belief) /\ bus # <<>> =>
        /\ Head(bus) = "start" => Told(Tail(bus), TRUE)
        /\ Head(bus) = "stop" => Told(Tail(bus), FALSE)
        /\ Head(bus) \notin {"start", "stop"} => Told(Tail(bus), belief)
  BY <1>0, ToldFacts
<1>4. CASE OnStart \/ OnStop
  <2>1. /\ UNCHANGED <<now, auto, last, pump, pending, continuous, table, Pass, Handler>>
        /\ \/ Deliver("start") /\ belief' = TRUE
           \/ Deliver("stop") /\ belief' = FALSE
    BY <1>4 DEF OnStart, OnStop, drive, Pass, Handler
  <2>2. /\ bus # <<>> /\ (Has(bus', "auto") <=> Has(bus, "auto"))
        /\ Told(bus, belief) => Told(bus', belief')
    BY <1>0, <1>2, <1>3, <2>1
  <2>3. Due => Due' BY <2>1, <2>2 DEF Due
  <2> QED BY <1>1, <2>1, <2>2, <2>3
<1>5. CASE OnSlots \/ OnRollover
  <2>1. /\ UNCHANGED <<now, auto, last, pump, pending, continuous, belief, Pass, Handler>>
        /\ table'.def = table.def /\ table'.blob = table.blob /\ table'.mask = table.mask
        /\ table'.active = table.active /\ table'.init = table.init /\ table'.done = table.done
        /\ Deliver("slots") \/ Deliver("rollover")
    BY <1>0, <1>5 DEF OnSlots, OnRollover, logic, drive, Pass, Handler, Table
  <2>2. /\ bus # <<>> /\ (Has(bus', "auto") <=> Has(bus, "auto"))
        /\ Told(bus, belief) => Told(bus', belief)
    BY <1>0, <1>2, <1>3, <2>1
  <2>3. Due => Due' BY <2>1, <2>2 DEF Due
  <2> QED BY <1>1, <2>1, <2>2, <2>3
<1>6. CASE OnAutoMode
  <2>1. /\ UNCHANGED <<now, auto, last, pump, continuous, belief, table, Pass, Handler>>
        /\ auto => pending'.reconcile
        /\ Deliver("auto")
    BY <1>0, <1>6 DEF OnAutoMode, drive, Pass, Handler, Pending
  <2>2. bus # <<>> /\ (Told(bus, belief) => Told(bus', belief))
    BY <1>0, <1>2, <1>3, <2>1
  <2>3. auto => Due' BY <2>1 DEF Due
  <2> QED BY <1>1, <2>1, <2>2, <2>3
<1>7. ~ArmAgain /\ ~Applying("events")
  BY <1>0 DEF ArmAgain, Applying, SetSlot, PersistSlot, PersistFails, Adopt, Handler
<1> QED BY <1>4, <1>5, <1>6, <1>7 DEF Dispatch

(* Commands, other clients and power.                                       *)
LEMMA ReplayAsk ==
  ASSUME Replayed, Typed, Typed', ReplayInv, Kept, Kept',
         Recalc \/ ManualWrite \/ AutoModeSet \/ OtherSlotWrite \/ PowerCut \/ UNCHANGED vars
  PROVE  ReplayInv'
<1>0. /\ table \in Table /\ bus \in Seq(Events) /\ belief \in BOOLEAN
      /\ {"slots", "auto", "stop"} \subseteq Events /\ <<>> \in Seq(Events)
  BY DEF Typed, Events
<1>1. ASSUME NEW c \in Seq(Events), ~Has(c, "stop"), bus' = bus \o c
      PROVE  /\ Told(bus, belief) => Told(bus', belief)
             /\ Has(bus', "auto") <=> Has(bus, "auto") \/ Has(c, "auto")
  <2>1. Told(bus, belief) => Told(bus', belief) BY <1>0, <1>1, ToldFacts
  <2>2. Has(bus', "auto") <=> Has(bus, "auto") \/ Has(c, "auto") BY <1>0, <1>1, HasFacts
  <2> QED BY <2>1, <2>2
<1>2. ASSUME UNCHANGED <<now, belief, continuous, Pass, Handler>>,
             table'.def = table.def, table'.blob = table.blob, table'.mask = table.mask,
             table'.active = table.active, table'.done = table.done, table'.init => table.init,
             Told(bus, belief) => Told(bus', belief), Relayed',
             "flash" \in Hazards => (Stale' => Calm')
      PROVE  ReplayInv'
  <2>1. Open' = Open BY <1>2 DEF Open
  <2>2. Alone' BY <1>2 DEF ReplayInv, Alone
  <2>3. Heard' BY <1>2, <2>1 DEF ReplayInv, Heard
  <2>4. Evaluated' BY <1>2, <2>1 DEF ReplayInv, Evaluated
  <2>5. Undone' BY <1>2 DEF ReplayInv, Undone
  <2> QED BY <1>2, <2>2, <2>3, <2>4, <2>5 DEF ReplayInv
<1>3. CASE Recalc
  <2>1. /\ UNCHANGED <<now, table, bus, belief, continuous, auto, last, pump, Pass, Handler>>
        /\ pending'.reconcile = pending.reconcile /\ "recalc" \in Hazards
    BY <1>3 DEF Recalc, May, drive, Pass, Handler, Typed, Pending
  <2>2. "flash" \notin Hazards BY <2>1 DEF Replayed
  <2>3. Relayed' BY <2>1 DEF ReplayInv, Relayed, Due
  <2> QED BY <1>2, <2>1, <2>2, <2>3
<1>4. CASE ManualWrite
  <2>1. /\ UNCHANGED <<now, table, belief, continuous, pending, Pass, Handler>> /\ ~auto'
        /\ bus' = bus \o (IF auto THEN <<"auto">> ELSE <<>>)
    BY <1>4 DEF ManualWrite, Post, logic, Pass, Handler
  <2>2. "flash" \notin Hazards BY <2>1 DEF Kept
  <2>3. <<"auto">> \in Seq(Events) /\ ~Has(<<"auto">>, "stop") /\ ~Has(<<>>, "stop")
    BY <1>0, HasFacts
  <2>4. Told(bus, belief) => Told(bus', belief)
    <3>1. CASE auto BY <1>1, <2>1, <2>3, <3>1
    <3>2. CASE ~auto BY <1>0, <1>1, <2>1, <2>3, <3>2
    <3> QED BY <3>1, <3>2
  <2>5. Relayed' BY <2>1 DEF Relayed
  <2> QED BY <1>2, <2>1, <2>2, <2>4, <2>5
<1>5. CASE AutoModeSet
  <2>1. /\ UNCHANGED <<now, table, belief, continuous, pending, Pass, Handler>>
        /\ bus' = bus \o <<"auto">> /\ "auto" \in Hazards
    BY <1>5 DEF AutoModeSet, Post, May, logic, Pass, Handler
  <2>2. "flash" \notin Hazards BY <2>1 DEF Replayed
  <2>3. <<"auto">> \in Seq(Events) /\ ~Has(<<"auto">>, "stop") /\ Has(<<"auto">>, "auto")
    BY <1>0, HasFacts
  <2>4. (Told(bus, belief) => Told(bus', belief)) /\ Has(bus', "auto") BY <1>1, <2>1, <2>3
  <2>5. Relayed' BY <2>4 DEF Relayed, Due
  <2> QED BY <1>2, <2>1, <2>2, <2>4, <2>5
<1>6. CASE OtherSlotWrite
  <2>1. /\ UNCHANGED <<now, belief, continuous, pending, auto, last, pump, Pass, Handler>>
        /\ table'.def = table.def /\ table'.blob = table.blob /\ table'.mask = table.mask
        /\ table'.active = table.active /\ table'.done = table.done /\ ~table'.init
        /\ bus' = bus \o <<"slots">>
    BY <1>0, <1>6 DEF OtherSlotWrite, Post, logic, drive, Pass, Handler, Table
  <2>2. <<"slots">> \in Seq(Events) /\ ~Has(<<"slots">>, "stop") BY <1>0, HasFacts
  <2>3. (Told(bus, belief) => Told(bus', belief)) /\ (Has(bus, "auto") => Has(bus', "auto"))
    BY <1>1, <2>1, <2>2
  <2>4. Relayed' BY <2>1, <2>3 DEF ReplayInv, Relayed, Due
  <2>5. ~Stale' BY <2>1 DEF Stale
  <2> QED BY <1>2, <2>1, <2>3, <2>4, <2>5
<1>7. CASE PowerCut
  <2>1. /\ table'.active = FALSE /\ table'.mask = FALSE /\ ~table'.init
    BY <1>7 DEF PowerCut, Boot
  <2>2. /\ Pass'.pc = "rest" /\ Pass'.ret = "rest" /\ Handler'.pc = "rest"
        /\ continuous' = FALSE /\ last' = pump'
    BY <1>7 DEF PowerCut, Pass, Handler, Rest
  <2>3. Alone' /\ Heard' /\ Evaluated' BY <2>1, <2>2 DEF Alone, Heard, Evaluated
  <2>4. Undone' /\ Relayed' BY <2>1, <2>2 DEF Undone, Stale, Relayed
  <2> QED BY <2>3, <2>4 DEF ReplayInv
<1>8. CASE UNCHANGED vars
  <2>1. /\ UNCHANGED <<now, belief, continuous, table, bus, pending, seen, auto, last, pump>>
        /\ UNCHANGED <<Pass, Handler>>
    BY <1>8 DEF vars, logic, drive, Pass, Handler
  <2>2. Relayed' BY <2>1 DEF ReplayInv, Relayed, Due
  <2>3. "flash" \in Hazards => (Stale' => Calm') BY <2>1 DEF ReplayInv, Undone, Stale, Calm
  <2> QED BY <1>2, <2>1, <2>2, <2>3
<1> QED BY <1>3, <1>4, <1>5, <1>6, <1>7, <1>8

(* Every step keeps it, as long as it is claimed.                           *)
LEMMA ReplayStep ==
  ASSUME Replayed, Typed, Typed', Kept => ReplayInv, [Next]_vars
  PROVE  Kept' => ReplayInv'
<1> SUFFICES ASSUME Kept' PROVE ReplayInv'
  OBVIOUS
<1>1. Kept
  <2>1. CASE "flash" \notin Hazards BY <2>1 DEF Kept
  <2>2. CASE "flash" \in Hazards
    <3>1. auto' BY <2>2 DEF Kept
    <3>2. ~AutoModeSet /\ ~ManualWrite BY <2>2, <3>1 DEF AutoModeSet, ManualWrite, May, Replayed
    <3> QED BY <3>1, <3>2, AutoStays DEF Kept
  <2> QED BY <2>1, <2>2
<1>2. ReplayInv BY <1>1
<1>4. ~WriteBelief BY <1>2 DEF ReplayInv, Alone, WriteBelief, Pass
<1>5. CASE Reload \/ Evaluate \/ ClockSet \/ ClockLost \/ Tick
  BY <1>1, <1>2, <1>5, ReplayClock
<1>6. CASE Loop
  <2>1. CASE Applying("loop") BY <1>1, <1>2, <2>1, ReplayApply
  <2>2. CASE ~Applying("loop")
    <3>1. \/ StartupPlan \/ ManualRecalc \/ SyncState \/ Sample \/ Latch \/ ReadWindow
          \/ Decide \/ Drive
      BY <1>4, <1>6, <2>2 DEF Loop
    <3> QED BY <1>1, <1>2, <3>1, ReplayPass
  <2> QED BY <2>1, <2>2
<1>7. CASE Dispatch BY <1>1, <1>2, <1>7, ReplayDispatch
<1>8. CASE Recalc \/ ManualWrite \/ AutoModeSet \/ OtherSlotWrite \/ PowerCut \/ UNCHANGED vars
  BY <1>1, <1>2, <1>8, ReplayAsk
<1> QED BY <1>5, <1>6, <1>7, <1>8 DEF Next

(* Once the tasks have caught up, the pump runs while the window is open.   *)
NoWindowMissed == Settled /\ synced /\ auto => (Open => pump)

(* An open window is never missed, whatever manual writes, changes of mode, *)
(* recalculations, reloads in the middle of a write, other clients, lost    *)
(* clocks and power cuts do together, and failing writes as well as long    *)
(* as nobody asks for a plan or changes the mode by command.                *)
THEOREM WindowIsNotMissed ==
  ASSUME Replayed
  PROVE  Spec => []NoWindowMissed
<1>1. Init => (Kept => ReplayInv) BY ReplayInit
<1>2. Typed /\ Typed' /\ (Kept => ReplayInv) /\ [Next]_vars => (Kept' => ReplayInv')
  BY ReplayStep
<1>3. Typed /\ (Kept => ReplayInv) => NoWindowMissed
  BY ReplaySays DEF Kept, NoWindowMissed
<1>4. Typed /\ [Next]_vars => Typed' BY TypeStep
<1> QED BY <1>1, <1>2, <1>3, <1>4, TypeInit, PTL DEF Spec
=============================================================================
