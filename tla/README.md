# Formal models of the Flow.io pool controller

TLA+ models of the Flow.io firmware (ESP32-S3, FreeRTOS, about 52 000 lines of
C++ under `src/`), the TLC configurations that check them on small instances,
and TLAPS proofs of the results that hold for every instance.

## 1. The system

The firmware is a set of modules, most of them with a FreeRTOS task of their
own, that meet in a handful of shared services.

| Part | State it keeps | Operations | Talks to |
| --- | --- | --- | --- |
| `EventBus` (`Core/EventBus`) | a bounded queue of events with their payloads, subscribers | `post`, `postFromISR`, `dispatch` | every module posts; one task dispatches |
| `ConfigStore` | live variables, NVS | `set`, `applyJson`, `loadPersistent` | posts `ConfigChanged`, writes NVS |
| `DataStore` | the runtime values modules publish | typed setters | posts `DataChanged` |
| `CommandRegistry`, `ServiceRegistry` | name to handler, name to service | register, execute | called from MQTT, web, panel tasks |
| `ModuleManager` | module table, dependency order, tasks | init, staged start | every module |
| `LogHub`, log sinks, `ActivityLog` | log queue, files | enqueue, dispatch, rotate | every module |
| `TimeModule` | clock synchronisation, 16 schedule slots | sync loop, `setSlot`, `tickScheduler_` | posts `SchedulerEventTriggered` |
| `PoolLogicModule` | modes, daily filtration plan, filtration window, pH/ORP regulation, heat assist, robot, filling | control loop, event handler, commands | calls `PoolDeviceService`, `TimeScheduler`, `AlarmService` |
| `PoolDeviceModule` | eight relays with interlocks, counters, tanks | `writeDesired`, `refillTank`, sweep, commands | calls `IOService`, persists through `ConfigStore` |
| `AlarmModule` | alarm slots with delays, latches, reminders | periodic evaluation, resets | read by PoolLogic |
| `IOModule` | endpoints, analog filters, counters, bus drivers | poll jobs, `readDigital`, `writeDigital` | hardware |
| `MQTTModule`, `HAModule` | connection state, job table and rings, producers, reception queue | connect loop, publish, receive | broker |
| `WifiModule`, `EthernetModule`, `WifiProvisioningModule` | link state machines, recovery access point | loop, services | network |
| `WebInterfaceModule`, `FirmwareUpdateModule`, `HMIModule` | sessions, update state, panel pages | HTTP, serial | users |
| `SystemModule`, `SystemMonitorModule` | reboot and reset requests, heap and watchdog statistics | commands, sampling | platform |

What makes the code hard is in four places. The pool relays are swept by
several tasks over an array that nothing locks. Events travel through a bounded
queue that may drop them, while modules keep beliefs ("the filtration window is
open", "this route is published") that only events refresh. Plans and counters
live in flash, written one key at a time, across power cuts. And two tasks
command one radio.

### What makes each part correct

- **PoolDeviceModule** (`PoolDeviceControl.cpp`, `-Runtime`, `-Lifecycle`,
  `-Commands`). Eight slots, each with the requested state, the relay state it
  believes in, a block reason and running counters. `svcWriteDesired` checks the
  recovery lock, the enable flag, the daily limit and the dependencies, drives
  the relay and then runs the same sweep (`tickDevices_`) as the 200 ms task, in
  the caller's task and without a lock. Correct when no relay stays on in a state
  the interlocks forbid, when nothing comes on during the physical recovery
  window, and when the counters lose little to a power cut and start again with
  the day.
- **TimeModule** (`Network/TimeModule/TimeModule.cpp`). A clock that leaves
  `Synced` for every resynchronisation, and sixteen scheduler slots, read from
  one blob, edited by `setSlot_`, evaluated every second. Correct when the Start
  and Stop edges it posts add up to the state of the window, and when a failed
  write of the blob leaves the table as it was.
- **PoolLogicModule** (`PoolLogicControl.cpp`, `-Scheduler`, `-Lifecycle`,
  `-Commands`). Calculates a daily filtration plan from the water temperature of
  the first five minutes of circulation, stores it as three keys, gives it to the
  scheduler between two runs, keeps its own belief of whether the window is open,
  and drives the pump, the dosing pumps, the heat assist, the robot, the filling
  and the electrolysis. Correct when the pump follows the window in auto mode,
  when a run keeps the plan it started with, when a whole plan or none is in
  flash, when alarms stop what they must within a few passes, and when nothing
  heats, doses or cleans without the flow it needs.
- **AlarmModule** (`AlarmModule/AlarmModule.cpp`). Slots with on and off delays,
  latches and a reminder interval; the condition callback runs outside the
  lock. Correct when an alarm becomes active after its condition held for the
  delay, neither earlier nor much later, and when a latched one is only cleared
  by a reset of a condition that is over.
- **EventBus** (`Core/EventBus/EventBus.cpp`). `post` copies the payload into the
  queue and never waits: a full queue drops the event, as do an oversized payload
  and a bus without a queue. Correct when what was accepted is delivered once, in
  order.
- **ConfigStore** (`Core/ConfigStore.h`). `set` changes a variable, writes its
  key, and rolls the variable back when the write fails. Correct when a variable
  and its key never differ after `set` has returned.
- **MQTTModule** (`Network/MQTTModule`). A table of jobs, three rings of tickets,
  one per priority, retries with backoff, and producers that build a publication
  when it is due. Correct when a request that was accepted is served by a build
  that begins after it, no job is lost between table and rings, and the broker
  has the last state in the end.
- **WifiModule, EthernetModule, WifiProvisioningModule.** Link state machines and
  a portal (recovery access point). Correct when the controller is reachable
  again and again, over the station or the access point, when the station
  returns once its network is there, and when a user of the portal is not thrown
  off it.

## 2. Modules and plan

Written in this order, the most important behaviour first.

| | Modules | Models | State |
| --- | --- | --- | --- |
| 1 | `PoolDevice`, `MCPoolDevice`, `PoolDeviceProofs` | relays, interlocks, the sweeps of several tasks | done, with proofs |
| 2 | `PoolDeviceMetrics`, `PoolDeviceMetricsProofs` | running-time counters, day starts, flash | done, with proofs |
| 3 | `FiltrationSchedule`, `MCFiltrationSchedule`, `FiltrationScheduleProofs` | the window from the plan through scheduler and event bus to the pump (composition of TimeModule, EventBus and PoolLogicModule) | done, with proofs |
| 4 | `FiltrationPlan`, `PlanRegister`, `MCFiltrationPlan`, `FiltrationPlanProofs` | the three keys of the stored plan, and the register they implement | done, with proofs |
| 5 | `FiltrationWindow` | the arithmetic of a plan | done, with proofs in `FiltrationPlanProofs` |
| 6 | `AlarmModule`, `AlarmLatch`, `MCAlarmModule`, `AlarmModuleProofs` | the alarm engine, and the latch its readers rely on | done, with proofs |
| 7 | `PoolControl`, `MCPoolControl`, `PoolControlProofs` | the control loop over relays and alarms (composition of PoolLogicModule with what PoolDevice and AlarmModule promise) | done, with proofs |
| 8 | `MqttQueue`, `MqttJobs`, `MqttOutbox`, `MCMqttJobs`, `MqttJobsProofs` | jobs, rings, producers and the tasks that drive them | done, with proofs |
| 9 | `WifiStation`, `WifiProvisioning`, `WifiProvisioningProofs` | the station and the portal over one radio | done, with proofs |
| - | `EventBus`, `ConfigStore`, `ModuleManager` on their own | | left out, see section 7 |

Abstract specifications: `PlanRegister` (one plan or none, written at once),
implemented by `FiltrationPlan`; `AlarmLatch` (an alarm without its timers),
implemented by `AlarmModule` and used in place of it by `PoolControl`; and
`MqttOutbox` (a request is owed a build that begins after it), implemented by
`MqttJobs`. All three refinements are proved.

Theorems: every safety and action property of a passing run has one, and some that
no run checks are stated for proof alone. What is left to the runs is liveness
(section 6).

## 3. What each model says

### PoolDevice

One slot record per relay holds `desiredOn`, `actualOn`, `blockReason` and
`output`, the state IOModule last drove the relay to. A task `p` is at `pc[p]`,
and the locals of its sweep are in `tick[p]`. A sweep is cut where other tasks
can change what it uses:

- `BeginSweep` is the head of `tickDevices_`: day reset, edge of the recovery
  lock, and the reading of `millis()` the whole sweep works with;
- `Look` reads the relay state and the dependencies of one slot;
- `Act` is the rest of the slot, as the composition of the stages of the code
  (recovery, enable flag, daily limit, interlock, drive), and then accounts the
  running time.

`CheckWrite` and `CommitWrite` are `svcWriteDesiredImpl_` up to its last early
return and from there on; `ResetUptime`, `RefillTank`, `DayStart` and `Configure`
are the remaining entries. IOModule is external: a write to a relay in `Faulty`
may be refused at each of the points where the code calls it. Time wraps at
`Wrap`, so `Elapsed` and the signed comparison of the recovery deadline behave as
in 32 bits.

`held` and `failed` are history variables: which slots have been in which breach
ever since the pass of the pooldev task began, and for which it reported an I/O
error. `NoBreachOutlivesAPass` relates the two.

### PoolDeviceMetrics

One slot: its counter of the day, its total, the date they belong to, the three
write flags, and the blob in flash. Interlocks are reduced to a free choice of
the relay state. A sweep by a caller accounts time and leaves the writing to the
pooldev task, whose sweep (`LoopSweep`) ends with the encoding of the blob
(`Encoded`) when a write is due. The rest of `persistMetrics_` is a step of its
own, `Persist`, since the write is slow and holds no lock: sweeps of other tasks,
restarts of the counter, events, midnight, time and power cuts fall in between,
and the end of the write clears the marks, those of others too. Two things are
still one step: a sweep up to its write (the interleavings within sweeps are in
`PoolDevice`), and the arrival of the blob in flash with the clearing of the marks
(two assignments later).

The clock side (`NewDay`, `DayStartTrigger`, `MinuteEnds`, `ClockSet`,
`ClockLost`) follows TimeModule, and `OnEvent` sets the two pending flags. History
variables: `stale` is 1 when part of the counter was accounted on an earlier date, else 0
(time from before any date was known belongs to the first date the code learns,
which is how it books it); `failed`, that the last write failed; `overtaken`, that
the counter was set back or dated anew within the last write that cleared the
marks, and no sweep has left an urgent mark since.

### FiltrationSchedule

`table` is scheduler slot 4 with its two active bits, the "first evaluation"
flag, the reload flag and the blob. `belief`, `continuous`, `pending`, `staged`,
`armed` and `seen` are PoolLogic's variables. `setSlot_` and
`applyFiltrationWindowSlot_` are run by two tasks, the logic task and the
dispatcher, as `SetSlot`, `PersistSlot` or `PersistFails`, and `Adopt`. The
control loop is `SyncState`, `Sample`, `Latch`, `ReadWindow`, `WriteBelief`,
`Decide`, `Drive`. `Hazards` names what may interfere in a run. A minute ends
(`Tick`) when every task has caught up, which is what 200 ms loops do within a
minute.

### FiltrationPlan and FiltrationWindow

The three configuration variables and their keys are one record, because
`ConfigStore::set` changes both or neither. `Invalidate`, `StoreStart`,
`StoreStop` and `StoreDuration` are the four writes; `Adopt` is what the 02:00
rollover and the end of a run do, `StartupPlan` what a boot does, and `Give` the
scheduler's answer.

`FiltrationWindow` is the arithmetic that makes the plans: duration and window
of a water temperature, in thousandths of a degree. The code computes in floats;
the model computes exactly and allows both neighbours where the exact value is a
tie, so `WindowsAt(temp)` is a set. The definitions were compared with the
compiled C++ for every thousandth of a degree from -5 to 45 °C. The plans of
`FiltrationPlan_store` are those of four temperatures, one in each piece of the
curve.

### AlarmModule

`slots[a]` is an `AlarmSlot`: active, last condition, and the readings of
`millis()` at which its timers were started, 0 when they are not running.
`evaluateOnce_` is `Begin` (one reading of the clock), then `ReadCondition`
(outside the lock) and `Commit` (under it) for each slot. `CmdReset` and
`CmdResetSlot` are one critical section each, `CmdResetAll` one per slot
(`ResetNext`). `lag` bounds the time from one evaluation to the next by
`MaxPeriod`; `steady` is a history variable, how long every evaluation has found
the condition true.

`AlarmLatch` is the same engine for its readers: an alarm is raised on a
condition found true, cleared on one found false, and a latched one only by a
reset.

### PoolControl

One pass of `runControlLoop_` is two steps. `Decide` reads relays, sensors,
alarms and modes, and computes what every device should be: the filtration
through its cascade (pressure, manual, freeze, winter, heating, window), then
heat assist, dosing, robot, electrolysis and filling. `Apply` writes what
changed, and what was not followed for `RetryAfter` passes. Commands,
configuration events, window edges, alarm steps (the actions of `AlarmLatch`)
and stops by PoolDevice fall between the two, or between two passes. PoolDevice
is its promise: a dependent start without filtration is refused, and a stop of
the filtration drops its dependents.

`fsm[d]` is the `DeviceFsm` of the code with its age in passes, cut off at the
horizon beyond which no rule asks (`Horizons`). `heat` is the heat assist with
its 16-bit second counter, of modulus `Seconds`. `hist` is history: `late[k]`
counts the passes for which rule `k` has not been followed (pressure alarm,
faulty electrolysis contactor, heating without flow, empty tank, full basin), and
starts again when somebody else moves the device, or has the filtration run;
`idle` the time since the last probe, `flow` the passes of steady filtration.

An installation, chosen by `Init`, says which devices and alarms there are, what
the sensors may answer, what the operator changes and which relays may refuse.

### MqttQueue, MqttJobs

`MqttQueue` is the critical sections of `MQTTQueue.cpp` as operators from a
queue to a queue: `QueueSlot`, `EnqueueJob` (with `Coalesce` and `Admit`),
`DequeueNextJob` (a scan of looks, `TryRing`), `Finish` and `RetryLater`. Rings
are bounded, tokens wrap, and stale items stay in the rings until they are
popped. `notBeforeMs` is 0 for a fresh job, or lies ahead of the clock or behind
it; `Due` is the signed comparison of the code, so that a fresh job waits while
`millis()` is in its upper half (`upper`, which `HalfTurn` flips). `MqttJobs` adds
the producers' flags and three tasks. A call of
`enqueueByRoute_` is `Mark`, `Enqueue`, `Conclude`, each of which touches shared
state once; the mqtt task goes from `Serve` to a build, to `Publish`,
`PublishFails` or `Drop`, and to the callbacks, the clearing of the flags in
`onMessagePublished_` being a step of its own (`ClearPublished`). The client's
task runs `onConnect_`, which asks for the runtime values, the alarms and the
module's own configuration (`OwnRoutes`); the dispatcher runs the events, among
them the rise of `mqttReady`, which asks for every configuration. `refused` is a
history variable: the messages whose last request met a full table or ring while
there was a link. Configuration producers have
one route here; the masks of those with several are not atomic, which is not
modelled. `scenario` is chosen by `Init`: the messages a device has, and how many
changes, drops of the link and failures befall them.

`MqttOutbox` has one mailbox per message; `MailOf` reads it off the queue.

### WifiStation, WifiProvisioning

`station` is WifiModule (state, whether retries are allowed, the begin in
progress), `radio` the driver (external: mode and link), `portal` the
provisioning module. `startConnect` is cut where it reads the mode of the radio
(`StartConnect`), where it writes the one it wants (`ApplyMode`), and where the
driver has begun (`Begun`). A decision of the provisioning task is taken at the
end of a pass, and carried out in the steps `open`, `quiet`, `close` and
`closing`, between which the wifi task runs. Timers are ages or flags that are
raised at any time both tasks are between two passes; only their order is kept
where the code's constants fix it (a probe, 6 s, ends before a connect times
out, 15 s). `config` and `inRange` are the settings and the network, `guest` a
client on the access point.

## 4. Runs

| Run | Shows |
| --- | --- |
| `PoolDevice_day` | a filtration pump and a dosing pump with a daily limit that depends on it, swept by the pooldev task and one caller in every order, with configuration writes, day resets, refused relay writes, the recovery window and a wrapping clock: no relay outlives a pass of the pooldev task in a breach, and nothing is on before the window ends |
| `PoolDeviceMetrics_days` | power cuts, failing writes, service calls, resets, a midnight and a clock that comes and goes, between sweeps and within a write: the loss is bounded, a counter stays restarted unless the restart fell within a write, today's counter holds no time of yesterday, and a counter of yesterday is about to be restarted |
| `FiltrationSchedule_day` | days of every plan, from every start minute: the pump follows the window, a run keeps its plan, a measured plan is adopted |
| `FiltrationSchedule_faults` | power cuts, failing writes, recalculation and other clients: the plan PoolLogic reports is the one the scheduler has |
| `FiltrationSchedule_heal` | clock, operator and power disturb; once that ends the pump follows the window again |
| `FiltrationPlan_store` | power cuts between any two writes: no partial plan, the keys refine `PlanRegister`, and a plan comes back |
| `AlarmModule_engine` | a latched and an unlatched alarm with reminders, conditions that change at will, resets of one or all in any step: raised in time and not before, the latch kept (`AlarmLatch`), and an unlatched alarm cleared once its condition is over |
| `PoolControl_pool` | the control loop on eight installations: a pressure alarm or a contactor fault stops its device within `RetryAfter` passes (`SafetyStopsInTime`), the heater does not stay on without flow (`NoDryHeating`), the next probe comes in time across the wrap of its counter (`ProbeComesInTime`), filling ends (`FillingEnds`), no dosing pump runs by itself before the flow was steady (`DosesIntoSteadyFlow`), and the robot is not started twice a day (`OneCleaningADay`) |
| `PoolControl_dosing` | violation: the tank runs empty while the pump doses, and the pump is asked to stay on |
| `MqttJobs_pipeline` | a queued job is reachable, accepted requests are kept (`MqttOutbox`), only a full ring strands a job and all else that is owed is built, alarms the queue took reach the broker, and a connection that stays repairs what was missed of the runtime values the queue took, within half a turn of the clock |
| `MqttJobs_lost` | violation: a change of a configuration that meets the end of the publication of an earlier one is not published |
| `WifiProvisioning_portal` | networks, users, settings and the radio come and go: the controller is reachable again and again, the station returns once it is left in peace, and a user of the portal is left alone |

Bounds, and why they are enough:

- two slots are a dependency and its dependent, the only relation between slots;
  a caller besides the pooldev task lets either overtake the other. `MaxNow` 3
  passes the end of the recovery window at 2, one unit of running (the limit) and
  the sweep after it; `RunCap` saturates the day counter at that limit. What
  holds for more callers and slots is proved (section 6);
- three units of running time reach what `LossIsBounded` allows outside a write
  (below `PersistEvery` 2 + `MaxGap` 1), and two dates are a midnight, with any
  number of restarts before it, after it and within a write (1 864 000 states).
  `PersistEvery` is a commit and a gap at least: the code's 60 s are 1 s and a
  pass of 200 ms, with its writes, many times over;
- a day of four ticks is the shortest with a tick inside, one outside and both
  edges of a daytime window and of one over midnight; `MaxBus` holds back new
  interference while an event is queued, never an edge or its delivery;
- two alarms, one of each kind, with delays of 0, 1 and 2 units and a period of
  up to 2, which lets an evaluation come late by more than a delay; `Wrap` 5 is
  the least that still tells a delay and a period from the wrap, and makes 0, the
  mark of a timer that is not running, a frequent reading of the clock;
- in `PoolControl` each delay is the least that differs from none, and differs
  from its neighbours where their order matters (`RetryAfter` 2, `RobotDuration`
  2, `IdleSlow` 2 against `IdleFast` 1); `Seconds` 3 lets the heat assist meet
  second 0 of the wrap, which its code takes for "no probe yet". Parts of the
  loop that read nothing of one another vary in different installations:
  `Pressed`, `Heated`, `HeatedUnderPressure`, `HeatedByHand`, `Cleaned`, `Dosed`,
  `Chlorinated` and `Filled` (985 000 states together). What holds for devices
  that vary together is proved (section 6);
- in `MqttJobs` two slots of the table, and Low and High rings of one place, make
  the table and the rings run full, by stale items too (in the code the table has
  80 slots, the High and Normal rings 80 places and the Low ring 60, and the
  configuration alone has about 80 routes, so that the table and the Low ring can
  fill; the instance also has a short ring where the traffic is small).
  `TokenSpan` 3 lets stale items meet the token of a later job, and `Budget` 1
  ends a pass after every job. The scenarios take one to three messages of the
  kinds, with up to one change, one drop and one failure, because calls of more
  together only interleave what already interleaves (84 600 states);
- `WifiProvisioning` has no constants: its 157 000 states are all there are.

Each property of a passing run is also broken by a deliberate change of one
definition, kept beside the original and marked "Mutant" (an interlock checked at
the start only, an unlocked call, a write that is not rolled back, a marker
written last, a job popped and not put back), so no property holds for want of
cases.

Fairness. Tasks are loops that a FreeRTOS scheduler runs for ever, the dispatcher
drains its queue, and a caller that has begun a service call finishes it: weak
fairness on each of these, none on commands, configuration writes or faults.
Safety runs use `Spec`.

- `FiltrationSchedule`: `ClockSet` is weakly fair because a lost clock is
  synchronised again by retries without end. `Tick` is strongly fair: time
  passes, though the tasks wake between two ticks and are not always settled.
- `AlarmModule`: the evaluations and the clock go on.
- `MqttJobs`: each of the three tasks goes on; `StartPass({s})` is strongly fair
  for each slot, because a pass of the mqtt task begins at one reading of the
  clock and every backoff ends. `HalfTurn` is strongly fair because time passes,
  and so is a pass in the lower half of the clock, which lasts 24.9 days of passes
  every 50 ms. Nothing is assumed of how long the upper half takes, so what must
  happen by a fresh job happens within that half turn.
- `WifiProvisioning`: both tasks go on; polls, the ageing of a connect and the
  grace period come; time-outs that only fall between two passes (boot time-out,
  recovery window, ages of a probe) are strongly fair, and so is
  `AssociateInPeace`: a station that is connecting, in range and not disturbed
  associates. The radio itself, users and settings owe nothing; the properties
  say as premises what must have ceased.

## 5. What the models disagree with

Two runs show the code to differ from what the repository says of it:

1. `PoolLogicControl.cpp:779` (`PoolControl_dosing`, `EmptyTankStopsPump`): when
   dosing is not allowed any more (empty tank, missing reading, electrolysis set)
   the regulation is reset and the pump is asked to stay as it is. A pump that
   was dosing goes on until the filtration stops or the daily limit ends it.
   `docs/integration/plan_tests_poollogic_pdm_io.csv:18` and `:62` expect it off.
2. `MqttConfigRouteProducer.cpp:444` (`MqttJobs_lost`, `ChangesAreNotLost`):
   `onMessagePublished_` clears `pending` after the lock was left, so a change
   that arrives between the test of the republish mark and the clearing is not
   published until the next change or connection; `:286-287` says such changes
   are not lost. `RuntimeProducer` clears in the same way, but a numeric value
   changes again soon.

Properties that one would expect and that do not hold of this code. No run
checks them; the models have the behaviour, or would with the change named:

- *The recovery lock closes for good.* The deadline is compared by a signed
  difference and never cleared (`PoolDeviceControl.cpp:53`): 2^31 ms of uptime
  later the lock is active again, for as long. `RecoveryKeepsOff` therefore
  assumes half a turn of the clock.
- *A slot blocked as `max_uptime` has run for its limit.* The elapsed time of a
  sweep is an unsigned difference of two readings by different tasks
  (`PoolDeviceControl.cpp:532`): a sweep that was overtaken by a younger one adds
  nearly 2^32 ms.
- *The pump follows the window when the clock was away.* No Stop edge is posted
  for a window that ended meanwhile (`TimeModule.cpp:241`, `:1722-1727`); with
  the hazard `"resync"` `FiltrationFollowsWindow` fails, and `_heal` shows that it
  is over within a day.
- *What must happen happens, over a queue that drops.* `DAY_START`, Start and
  Stop are posted once (`TimeModule.cpp:1755`, `EventBus.cpp:113`). The models
  let an event wait for ever, which covers a loss for what must never happen,
  but not for what must happen: with a lossy queue `DayIsCaughtUp` and
  `HealsOnceUndisturbed` fail.
- *A failed write keeps the old plan.* A failed write of the start or stop does
  not keep the marker from being committed (`PoolLogicScheduler.cpp:138-140`): a
  mixture of two plans passes for valid. With `Failing = TRUE` `WholePlans`
  fails.
- *A restart is written at once.* `docs/modules/PoolDeviceModule.md:127-129` says
  of the counters "persistance conditionnelle: immédiate si arrêt équipement ou
  reset période ou refill". `persistMetrics_` clears `persistDirty` and
  `persistImmediate` at its end (`PoolDeviceControl.cpp:386-387`), also those that
  a restart or a refill has set since the blob was encoded: the old count stays
  in flash until the next commit of the slot is written, and with the relay off
  that is none. Without the exception `~overtaken` `RestartIsDurable` fails. The
  same line does not hold of a stop by service call either: the relay is switched
  before the sweep looks for the edge, so that the stop is not marked.
  `LossIsBounded` bounds the effect of both.
- *A request is published at once, or after a backoff of ten seconds at most.*
  `docs/modules/MQTTModule.md:121` says "retry centralisé: backoff exponentiel
  `250 ms -> 10 s`". A fresh, coalesced or queued-again job has `notBeforeMs` 0
  and is due by a signed difference (`MQTTQueue.cpp:344`): from 24.9 to 49.7 days
  of uptime, and so on, no such job is taken, and nothing but retries already in
  backoff is published. `OwedIsBuilt`, `AlarmsReachBroker` and `ConnectionRepairs`
  therefore promise half a turn of the clock, and without a fair lower half they
  fail.
- *A request waits for its turn.* The ticket of a job that is put back after its
  turn, or queued again when it ends, may meet a full ring: the job is then used
  and in no ring (`MQTTQueue.cpp:345`, `:458`, `:476`, `:484`) until something asks for
  its message. A request for an alarm or a runtime value that meets a full table
  or ring is dropped, and nobody looks (`MQTTLifecycle.cpp:232-242`). These are
  the premises `Stranded` and `Admitted` of the three properties; without them
  they fail.
- *A new cycle of the filtration re-arms the robot.* Here the documents
  disagree with one another. `docs/modules/PoolLogicModule.md:304` ("un cycle/jour
  (`cleaningDone_`)") and `docs/integration/flowio-poollogic-business.md:173`,
  `:176` (only when the cleaning of the day is not done; `cleaning_done` falls with
  the change of day) say what the code does and `OneCleaningADay` states;
  `docs/integration/plan_tests_poollogic_pdm_io.csv:76` (H07: with
  `cleaningDone=true`, a filtration that stops and starts again allows the robot
  once more) and `plan_tests_sequentiel_poollogic_pdm_io.csv:22` expect what the
  mutant `CleaningDoneRearmed` does.
- *The rollover measures a continuous plan.* The measurement armed at 02:00 in a
  run that never stops ends at once, without a sample, because its five minutes
  are counted from the start of the run (`PoolLogicScheduler.cpp:208`).

Seen while modelling, and kept out of the passing runs by their `Hazards`,
plans, premises or installations:

- *Schedule.* An edge delivered between the scheduler's answer and its use by the
  control loop is overwritten (hazard `"preempt"` with
  `FiltrationFollowsWindow`). The rollover of a continuous plan and the logic
  task may apply plans at the same time and each keep half; a reload while
  `setSlot_` is between the table and the blob takes the new plan out of the
  table (hazard `"reload"`).
- *Control.* An operator's command that lands between `Decide` and `Apply` is
  overwritten, a stop and restart between two passes is not seen, and a manual
  mode keeps what the loop wrote last. `disinfection_mode.set` stores two
  variables and may fail between them. The heater has no interlock in
  PoolDevice: while the filtration refuses to start, or in manual mode, only the
  loop looks after it. A freeze hold is overridden once the heat assist reaches
  its setpoint (`PoolLogicControl.cpp:711-718`).
- *MQTT.* A route that was refused more than ten seconds before a connection is
  given up at the first pass after it, together with the synchronisation
  (`ConnectionRepairs` is therefore of runtime values). `connectMqtt_` and the dispatcher overwrite a state that changed since
  they read it.
- *WiFi.* `startConnect` may switch off an access point that was opened since it
  read the mode, which is found out at the end of the next probe only if a
  network is configured (hence the premise of `ReachableAgain`), or leave one on
  without a portal. `stopCaptivePortal_` sends a station that is connecting back
  to Idle. Settings stored by a user of the portal are tried once they have left,
  and two minutes later. `requestReconnect` revives a disabled station.

## 6. Proofs

Eight modules hold proofs. The assumptions on the constants are the named ASSUMEs
of the modules, which TLC evaluates in every run; what a theorem assumes beyond
them is named here.

`PoolDeviceProofs`, for every number of slots and callers, every set of
configurations and faulty relays:

- `TypeCorrect`: `TypeOK` is inductive.
- `NoBreachSurvives`: `[]NoBreachOutlivesAPass`. The property speaks of the end
  of a pass only, so the proof needs to know how far the pass has come
  (`PassInv`). Slots in `held` are in breach now; slots the pass has left behind
  and that are still held have failed; the recovery lock the pass read is the one
  that holds for a slot held in it; and between `Look` and `Act` a held slot was
  seen on and, if it is held for its interlock, without a dependency. The core is
  `SweptSlotLemma`: one sweep of a slot that was seen on and must not be ends
  with the relay off or an I/O error.
- `RecoveryKeepsOff`: `[]LockKeepsOutputsOff`, from `LockInv`: while the lock is
  active nothing is requested, nothing is on, and no caller is about to commit a
  start. It assumes `HalfATurn`, that the window and the time explored lie within
  half a turn of `millis()`, without which it is not true (section 5).

`PoolDeviceMetricsProofs`, for all intervals with `CommitEvery + MaxGap <=
PersistEvery`, any number of days and any running time. The runs'
bounds `MaxDay` and `MaxTotal` are constants of which nothing is assumed but that
they are natural numbers. One invariant `Inv` is inductive and gives all five
results. Every sweep is the same operator, so `HeadLemma` (what a reset and a
reconcile make of the counter), `BodyLemma` and `SweepLemma` are proved once, and
the four actions that sweep only choose the counter to start from.

- `TypeCorrect`: `[]TypeOK`.
- `LossBounded`: `[]LossIsBounded`. The property is not inductive: that unsaved
  time is small says nothing of the time not yet accounted. `LossInv` adds the
  ages. Until `PersistEvery` is over, unsaved and unaccounted time together are
  at most the time since the sweep that wrote last (`UnsavedIsRecent`). A counter
  that is not marked lost its marks at the end of a write; what was accounted since
  that write began and no commit has marked is less than a gap and a commit
  (`UnmarkedIsLittle`), which is why taking away the marks of others does no harm to
  the bound. What is accounted during a write is no more than the time it takes
  (`BlobIsRecent`), and what a caller's sweeps account is bounded by the time since
  the pooldev task last came round (`LoopSaves`). `PersistLemma` is the end of a
  write.
- `RestartsLast`, `CountIsOfToday`, `OutdatedIsCaughtUp`:
  `[]RestartIsDurable`, `[]DayCountIsToday`, `[]DayIsCaughtUp`. The first needs that
  a blob on its way to flash is of the live counter unless a restart has met the
  write (`BlobIsOfCounter`); the second the same statement of the blob in flash,
  which a restart brings back, and of the one on its way there (`DatesInv`).

`FiltrationScheduleProofs`, for a day of any length and any plans (continuous or
empty ones too, where nothing else is said):

- `TypeCorrect`: `TypeOK` is inductive, whatever interferes.
- `PumpFollowsWindow`: `[]FiltrationFollowsWindow`, assuming `Undisturbed`: nothing
  interferes but an operator who takes over, and with it leaves auto mode. Every
  other hazard alone makes it fail, as TLC shows. The property only speaks of moments
  at which every task has caught up; `FollowInv` says what is true in between. It
  has five parts. `Turns`: the two tasks that give plans do it one at a time, the
  logic task while the pump is off, the dispatcher in place of a continuous plan.
  `SlotSays`: what the slot, its bits and the blob say of the plan and the minute.
  `PlanWaits`: a plan that is not the scheduler's waits, for the stop of this run or
  for the rollover, and none can be measured meanwhile. `Relay`: the pump is what
  was decided last, and is stopped only for a window that is closed or for one that
  was just written (the slot forgets that it is open until it is evaluated again).
  `Edged`: while an edge to open is under way the window is open; an edge to closed
  is posted only by the first evaluation of a minute, when nothing else is
  outstanding, so that it and a rollover before it are all there is on the bus.
- `ReportedIsScheduled`: `[]PlanIsScheduled`, assuming either `NoOverlap`: no plan is
  continuous, so that only the logic task applies plans, and the table is not
  reloaded between `setSlot_` and its write (both are disagreements of section
  5); or that nothing interferes. In the first case `ScheduleInv` follows a plan
  through its three steps: between plans, the table, the blob and what was adopted
  agree; from `SetSlot` to the write the blob is what the task will roll back to;
  and until `Adopt` the blob is the new plan. In the second it follows from
  `FollowInv`, whose `Turns` keeps the tasks apart (`AdoptedInv`).
- `RunKeepsPlan`: `RunKeepsItsPlan`, assuming either `NobodyAsks`: no plan is
  continuous and nobody asks for one or takes over the pump, whatever else
  interferes (suspended tasks, reloads, clocks, other clients, failing writes, power
  cuts); or that nothing interferes. `RunInv`: plans are applied while the pump is
  off, and otherwise only the plan in flash can get into the table. Taking over the
  pump while a plan is being applied does replace the window of a run.
- `WindowIsNotMissed`: `[]NoWindowMissed`, one half of `FiltrationFollowsWindow`: once
  the tasks have caught up in automatic mode, the pump runs while the window is open.
  It holds under far more interference than the other half, because an open window
  is replayed by the first evaluation after every change of the slot, while a stop
  is posted once. `Replayed` says what may interfere: manual writes, changes of mode,
  recalculations, reloads in the middle of a write, other clients, lost clocks and
  power cuts, all together; failing writes with all of them but recalculations and
  changes of mode by command (with failing writes the claim lasts until the pump is
  taken over, `Kept`). TLC finds a missed window when the logic task is suspended
  within its pass, and when a write fails of a plan that a recalculation, or a pump
  stopped and started by changes of mode, lets in before the first evaluation of a
  minute: the evaluation is spent on the new plan, and the roll-back restores bits
  of the minute before. Continuous plans are left out of the proof because the
  dispatcher applies plans too then, not because a run refutes them. `ReplayInv` has five parts. `Heard`:
  a slot marked open, also the one a task may have to roll back to, has its start in
  the belief or on the bus, with no stop after it (`Told`, about the order of events,
  and its lemma `ToldFacts`). `Evaluated`: the bits are those of this minute.
  `Undone`: so are those a failing write would restore, because no plan is applied
  before the first evaluation of a minute (`Calm`). `Relayed`: the relay is what was
  written last, or the loop will write it again (`Due`). `Alone`: only the logic task
  applies plans.

`FiltrationPlanProofs`, for every set of plans, under the assumption that no
write fails (`~Failing`; section 5 shows what happens otherwise), except
`TypeCorrect` and the theorems about the arithmetic, which need no such assumption:

- `TypeCorrect`: `TypeOK` is inductive.
- `NoPartialPlan`: `[]WholePlans`, from `StoreInv`: from `Invalidate` to
  `StoreDuration` the marker is down, and the fields written so far are those of
  the new plan.
- `KeysImplementRegister`: every step of the keys is a step of `PlanRegister` or
  a stutter.

- for every temperature, `EveryPlanIsUsable` (the scheduler accepts it),
  `WindowLastsItsDuration` (over midnight too, and never empty), `RunsAtThePivot`
  (from 12 °C on, 15:00 is inside), and `WarmerIsLonger` (across every seam of the
  curve, whichever way ties are rounded).
- `CurveMeetsAssumption`: for any temperatures, the plans of the curve are what
  `PlansAssumption` asks, so that the theorems above are about plans the code makes.
- `NoMixedWindow`: with the plans of any temperatures and power cuts anywhere, the
  window the scheduler has, and the one a restart would find, is not empty and lasts
  the stored duration. It needs the order of the writes (`NoPartialPlan`) and the
  arithmetic (`WindowLastsItsDuration`).

`AlarmModuleProofs`, for any number of alarms and any delays below the wrap:

- `TypeCorrect`: `TypeOK` is inductive.
- `EngineKeepsLatch`: `KeepsLatch`; every step of the engine is a step of
  `AlarmLatch` or a stutter, whatever resets come between a reading and its use.
- `RaisesInTime`, `NothingIsRaisedEarly`: `[]RaisedInTime` and
  `RaisedAfterDelay`, from `TimerInv`: a running timer holds the reading at which
  `steady` began, up to one that was 0 and is started again an evaluation later,
  and no timer is older than what the wrap can tell.

`PoolControlProofs`, for every set of installations (any devices, alarms, modes,
sensors and refusing relays) and all delays, provided that a retry takes at least
one pass (the code's 5 s take many), that the idle periods fit in the second
counter, and that a heater comes with a filtration. `TypeInv` adds to `TypeOK`
that a device is only seen on once it is known, and that the heat assist is off
where nobody can switch it on.

- `TypeCorrect`: `[]TypeOK`.
- `SafetyStops`, `FillingIsBounded`, `HeaterNeverDry`: `[]SafetyStopsInTime`,
  `[]FillingEnds`, `[]NoDryHeating`. Each bounds a count of passes, and a count
  says nothing of the next pass; what bounds it is in the code's own timers.
  `WaitsToStop` ties them: a device that is late and was last told to stop has
  been late for as long as that command is old, and once the command is as old as
  the retry period the next pass repeats it (`UncommandedLemma`). A valve may
  also be late because it keeps its minimum time, so that `FillInv` ties its count
  to the age of its state; and a heater without flow waits either for its own stop
  or for the start of the filtration, two chains between which it may change from
  pass to pass (`DryInv`).
- `ProbesInTime`: `[]ProbeComesInTime`, from `IdleInv`: the time the counter shows
  since the last probe covers the passes counted, because it does not wrap before
  the idle period is over (`ElapsedLemma`).
- `DosesSteady`: `[]DosesIntoSteadyFlow`, from `DoseInv`: a regulation that has
  started has seen the filtration on for the delay, an edge of the filtration
  ends it, and what a pass wants has been so for longer.
- `CleansOnceADay`: `OneCleaningADay`, from `CleanInv`: a cleaning that is over is
  marked, or the robot still runs with its time used up, and its stop is seen.

`DecideFacts`, `ApplyFacts` and `OtherTaskFacts` say once what the two halves of
a pass and a step of any other task do, as far as these invariants ask.
Proving them corrected the model in one place: `hist.late` of the heater counted
on across runs of the filtration that somebody else had started, so that an
operator who starts the pump and enters automatic mode again and again could
exceed the bound without any dry heating; the installation `HeatedByHand` has
that operator now.

`MqttJobsProofs`, for any messages, table, rings and tokens:

- `TypeCorrect`: `[]TypeOK`; with it, that no ring takes more than its places.
- `QueuedStaysReachable`: `[]QueuedIsReachable`. The invariant (`JobsInv`) adds
  that a queued job is in use (`Kept`), since an item of an unused slot is thrown
  away, and that the slot the mqtt task works on stays in use until its job ends.
  Each critical section keeps the queue sound (`QueueSlotKeeps`, `EnqueueKeeps`,
  `DequeueKeeps`, `EndKeeps`); the scan of `dequeueNextJob_` is a recursive
  function over the looks, of which `ScanExists` shows that it is one, both by
  the least number for which it would fail (`Least`).
- `QueueKeepsRequests`: `KeepsRequests`; every critical section of the queue, its
  rings and its tasks is a step of `MqttOutbox` or a stutter. The mail of a message is
  read off its job, so that the invariant (`MailInv`) says that a message has one job
  at most, and that a job that is being published is the one the mqtt task works on.
  A critical section then changes the job of one slot and with it the mail of one
  message, by a step of the outbox (`Moves`, `Legal`): a request (`EnqueueMoves`), a
  dequeue, which is not visible (`ServeMoves`), a build (`BuildMoves`) and the end of a
  job (`EndMoves`).

`WifiProvisioningProofs`. The model has no constants and TLC sees all of its states;
the proofs say why it works. `Inv` adds to the types what the two tasks know of each
other: `Users` (the clients the module counts are the guests of its portal, and a
`startConnect` that has read the mode of the radio has seen the access point of
whoever is on it) and `Decisions` (what the provisioning task decided on still holds
at the line that carries it out). It rests on the timing assumption of the model
that a guest joins or leaves, and its event is handled, between two decisions.

- `TypeCorrect`: `[]TypeOK`; with it, that nobody is on an access point that is off.
- `ClientsAreGuests`: the count of clients is right in every state.
- `NoProbeOverGuests`: a probe, which takes the radio to other channels, is begun
  only when nobody is on the portal, nobody may come back, and there is a network.
- `PortalHasReason`: when the access point comes up, the reason still holds, and the
  portal has not been open for it before.
- `GuestIsNotThrownOff`: of the many writes of the mode of the radio, by two tasks and
  from modes read before, none takes the access point from a guest of the portal; it
  goes only when the portal closes.

Model-checked only: everything that is liveness (`StagedIsAdopted`,
`HealsOnceUndisturbed`, `PlanReturns`, `ClearsOnceOver`, `OwedIsBuilt`,
`AlarmsReachBroker`, `ConnectionRepairs`, and the three temporal properties of
`WifiProvisioning`), which is beyond the proof system: it proves nothing about
fairness and ENABLED.

## 7. Not modelled

Formatting, logging, JSON and the text of persisted blobs; in the modules that
are modelled: the week, month and total counters (the same code as the day's);
tank levels and dosed volumes; the PID arithmetic and its automatic tuning;
one-shot scheduler slots and the scheduler's commands; NTP and RTC sources;
acknowledgements, status and periodic messages, topics, received messages and
producers with several routes; scans, mDNS and Ethernet.

Whole parts that are left out, and why:

- **EventBus**: what matters of it, order and asynchrony, is in the models of its
  users; its bound and its drops are in section 5. Its own code is a call of the
  FreeRTOS queue.
- **ConfigStore**: `set` is in `FiltrationPlan`. `applyJson`, migrations, import
  and export are parsing and bookkeeping over one variable after the other.
- **DataStore, CommandRegistry, ServiceRegistry**: setters and tables; their
  effects are inputs of the models.
- **ModuleManager, board profiles, startup**: one sequential run before any task
  exists; they give the constants.
- **IOModule**: analog filters, conversions, counters and bus drivers are
  numerical code over hardware; the failures of `readDigital` and `writeDigital`
  are modelled where PoolDevice meets them.
- **HAModule**: builds discovery messages, which go through the MQTT queue.
- **WebInterface, HMI**: handlers, pages and a serial protocol; the commands they
  issue are modelled at their receivers.
- **FirmwareUpdate**: downloads and flashing, sequential, with checks of formats.
- **Logging, SystemModule, SystemMonitor**: no control decision depends on them.
