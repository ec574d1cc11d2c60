----------------------------- MODULE PoolDevice -----------------------------
(***************************************************************************)
(* The actuator layer of the pool controller (PoolDeviceModule).           *)
(*                                                                         *)
(* Eight relays ("slots") are described by the shared array slots_[].      *)
(* Nothing locks that array: the pooldev task sweeps it every 200 ms       *)
(* (tickDevices_), and every caller of the service (PoolLogic, MQTT, web,  *)
(* the panel) edits one slot and then runs the same sweep in its own task. *)
(* A sweep of one slot is two steps here: Look reads what belongs to       *)
(* others (the cached relay state, the other slots' actualOn), Act decides *)
(* and writes.  A service call is a step that checks and a step that       *)
(* commits.  Other tasks may run between any two of these steps.           *)
(*                                                                         *)
(* Time is millis() in coarse units; it wraps at Wrap like the 32-bit      *)
(* counter does at 2^32.                                                   *)
(***************************************************************************)
EXTENDS Integers, FiniteSets

CONSTANTS
  N,            \* number of slots (POOL_DEVICE_MAX)
  Loop,         \* the pooldev task
  Clients,      \* tasks that call the service
  Defs,         \* Defs[i]: the definitions the configuration of slot i may hold
  Faulty,       \* slots whose relay writes may fail
  Wrap,         \* modulus of millis()
  RecoveryEnd,  \* physicalRecoveryLockDeadlineMs_; 0 when no lock was requested
  MaxNow,       \* bound on the elapsed time explored
  RunCap        \* bound at which the day counter saturates

Slot == 0 .. N - 1
Procs == {Loop} \union Clients
BlockReason == {"none", "disabled", "interlock", "io_error", "max_uptime"}
Definition == [enabled : BOOLEAN, dependsOn : SUBSET Slot, maxUptimeDay : Nat]

(* The points of a sweep at which the relay is driven, in code order. *)
WritePoints == {"recovery", "uptime", "interlock", "drive"}

ASSUME SlotAssumption == N \in Nat \ {0}
ASSUME TaskAssumption == Loop \notin Clients
ASSUME DefsAssumption == \A i \in Slot : Defs[i] # {} /\ Defs[i] \subseteq Definition
ASSUME TimeAssumption == /\ Wrap \in Nat \ {0}
                         /\ RecoveryEnd \in Nat
                         /\ MaxNow \in Nat
                         /\ RunCap \in Nat

VARIABLES
  def,           \* def[i]: the live configuration of slot i
  slots,         \* slots[i]: requested, believed and cached relay state, block reason
  runningMsDay,  \* runningMsDay[i]: today's accounted running time
  lastTickMs,    \* lastTickMs[i]: millis() of the last sweep of slot i, 0 = unset
  resetPending,  \* a day start has been announced and not yet applied
  lockWasActive, \* physicalRecoveryLockWasActive_
  now,           \* elapsed time since boot
  pc,            \* pc[p]: where task p is
  call,          \* call[p]: the writeDesired call p is committing
  tick,          \* tick[p]: the locals of p's sweep
  failed,        \* history: slots the loop reported io_error for in its last pass
  held           \* history: held[r]: slots in breach r since the loop's pass began

vars == <<def, slots, runningMsDay, lastTickMs, resetPending, lockWasActive,
          now, pc, call, tick, failed, held>>
-----------------------------------------------------------------------------
(* millis(), the cast to a signed difference, and the recovery lock. *)
Millis == now % Wrap
Elapsed(from, to) == (to - from) % Wrap
IsPositive(x) == x # 0 /\ 2 * x < Wrap

LockActiveAt(ms) == /\ RecoveryEnd # 0
                    /\ IsPositive(Elapsed(ms, RecoveryEnd % Wrap))

Capped(x) == IF x > RunCap THEN RunCap ELSE x

MaxUptimeReached(i) == /\ def[i].maxUptimeDay > 0
                       /\ runningMsDay[i] >= def[i].maxUptimeDay

DependenciesSatisfied(i) == \A d \in def[i].dependsOn \ {i} : slots[d].actualOn
-----------------------------------------------------------------------------
(* The stages of one slot's sweep, each a function of the slot record s.   *)
(* s.output is what IOModule last drove the relay to; fails is the set of  *)
(* write points at which IOModule refuses the write.                       *)

SwitchOff(s, reason, fail) ==
  IF fail THEN [s EXCEPT !.blockReason = "io_error"]
          ELSE [s EXCEPT !.actualOn = FALSE, !.output = FALSE, !.blockReason = reason]

SwitchOn(s, fail) ==
  IF fail THEN [s EXCEPT !.blockReason = "io_error"]
          ELSE [s EXCEPT !.actualOn = TRUE, !.output = TRUE, !.blockReason = "none"]

(* Keep a slot down: forget the request, drop the relay, say why. *)
HoldOff(s, reason, fail) ==
  LET t == [s EXCEPT !.desiredOn = FALSE]
  IN  IF t.actualOn THEN SwitchOff(t, reason, fail)
      ELSE IF t.blockReason = "io_error" THEN t
      ELSE [t EXCEPT !.blockReason = reason]

RecoveryStage(s, locked, fails) ==
  IF locked THEN HoldOff(s, "disabled", "recovery" \in fails) ELSE s

EnabledStage(s, d) ==
  IF ~d.enabled /\ s.desiredOn
  THEN [s EXCEPT !.desiredOn = FALSE, !.blockReason = "disabled"]
  ELSE s

UptimeStage(s, d, reached, fails) ==
  IF d.enabled /\ reached THEN HoldOff(s, "max_uptime", "uptime" \in fails)
  ELSE IF s.blockReason = "max_uptime" THEN [s EXCEPT !.blockReason = "none"]
  ELSE s

(* Mutant: the interlock is checked when a slot starts, not while it runs. *)
InterlockStageAtStartOnly(s, deps, fails) == s

InterlockStage(s, deps, fails) ==
  IF s.actualOn /\ ~deps
  THEN SwitchOff([s EXCEPT !.desiredOn = FALSE], "interlock", "interlock" \in fails)
  ELSE s

DriveStage(s, deps, reached, fails) ==
  IF s.desiredOn /\ ~s.actualOn
  THEN IF deps THEN SwitchOn(s, "drive" \in fails)
               ELSE [s EXCEPT !.desiredOn = FALSE, !.blockReason = "interlock"]
  ELSE IF ~s.desiredOn /\ s.actualOn
  THEN SwitchOff(s, IF reached THEN "max_uptime" ELSE "none", "drive" \in fails)
  ELSE s

SweptSlot(s, d, locked, reached, deps, fails) ==
  DriveStage(
    InterlockStage(
      UptimeStage(
        EnabledStage(RecoveryStage(s, locked, fails), d),
        d, reached, fails),
      deps, fails),
    deps, reached, fails)
-----------------------------------------------------------------------------
(* The conditions a relay must not stay on under, and the two histories    *)
(* that say what the pooldev loop did about them.                          *)
Breaches == {"recovery", "disabled", "interlock", "max_uptime"}

Breach(r, i) ==
  /\ slots[i].output
  /\ \/ r = "recovery" /\ LockActiveAt(Millis)
     \/ r = "disabled" /\ ~def[i].enabled
     \/ r = "interlock" /\ ~DependenciesSatisfied(i)
     \/ r = "max_uptime" /\ def[i].enabled /\ MaxUptimeReached(i)

LoopPassBegins == pc[Loop] = "idle" /\ pc'[Loop] = "look"

Observe ==
  held' = [r \in Breaches |->
             {i \in Slot : (LoopPassBegins \/ i \in held[r]) /\ Breach(r, i)'}]
-----------------------------------------------------------------------------
NoTick == [ms |-> 0, locked |-> FALSE, slot |-> 0, deps |-> FALSE, on |-> FALSE]
NoCall == [slot |-> 0, on |-> FALSE, reached |-> FALSE]

(* onConfigLoaded has run, configureRuntime_ succeeded, every output is off. *)
Init ==
  /\ now = 1
  /\ def \in [Slot -> UNION {Defs[i] : i \in Slot}]
  /\ \A i \in Slot : def[i] \in Defs[i]
  /\ slots = [i \in Slot |-> [desiredOn |-> FALSE, actualOn |-> FALSE,
                              output |-> FALSE, blockReason |-> "none"]]
  /\ runningMsDay = [i \in Slot |-> 0]
  /\ lastTickMs = [i \in Slot |-> Millis]
  /\ resetPending = FALSE
  /\ lockWasActive = FALSE
  /\ pc = [p \in Procs |-> "idle"]
  /\ call = [p \in Procs |-> NoCall]
  /\ tick = [p \in Procs |-> NoTick]
  /\ failed = {}
  /\ held = [r \in Breaches |-> {}]

(* The head of tickDevices_: the pending day reset, the edge of the        *)
(* recovery lock, and the time and lock state the whole sweep will use.    *)
BeginSweep(p) ==
  /\ pc[p] = (IF p = Loop THEN "idle" ELSE "begin")
  /\ LET locked == LockActiveAt(Millis) IN
       /\ slots' = [i \in Slot |->
            IF /\ lockWasActive /\ ~locked
               /\ def[i].enabled /\ slots[i].blockReason = "disabled"
            THEN [slots[i] EXCEPT !.blockReason = "none"]
            ELSE slots[i]]
       /\ lockWasActive' = locked
       /\ tick' = [tick EXCEPT ![p] = [NoTick EXCEPT !.ms = Millis, !.locked = locked]]
  /\ runningMsDay' = IF resetPending THEN [i \in Slot |-> 0] ELSE runningMsDay
  /\ resetPending' = FALSE
  /\ pc' = [pc EXCEPT ![p] = "look"]
  /\ failed' = IF p = Loop THEN {} ELSE failed
  /\ UNCHANGED <<def, lastTickMs, now, call>>

(* The sweep of a slot reads the relay and the slots it depends on ... *)
Look(p) ==
  /\ pc[p] = "look"
  /\ LET i == tick[p].slot IN
       tick' = [tick EXCEPT ![p].deps = DependenciesSatisfied(i),
                            ![p].on = slots[i].output]
  /\ pc' = [pc EXCEPT ![p] = "act"]
  /\ UNCHANGED <<def, slots, runningMsDay, lastTickMs, resetPending,
                 lockWasActive, now, call, failed>>

(* Mutant: the sweep runs one slot past the array. *)
NextSlotUnchecked(k) == k + 1

NextSlot(k) == IF k = N - 1 THEN 0 ELSE k + 1

(* ... and then updates the slot, its relay and its running time. *)
Act(p) ==
  /\ pc[p] = "act"
  /\ LET i == tick[p].slot
         seen == [slots[i] EXCEPT !.actualOn = tick[p].on]
         last == IF lastTickMs[i] = 0 THEN tick[p].ms ELSE lastTickMs[i]
         delta == Elapsed(last, tick[p].ms)
     IN  \E fails \in IF i \in Faulty THEN SUBSET WritePoints ELSE {{}} :
           LET s == SweptSlot(seen, def[i], tick[p].locked, MaxUptimeReached(i),
                              tick[p].deps, fails)
           IN  /\ slots' = [slots EXCEPT ![i] = s]
               /\ runningMsDay' = IF s.actualOn
                                  THEN [runningMsDay EXCEPT ![i] = Capped(@ + delta)]
                                  ELSE runningMsDay
               /\ lastTickMs' = [lastTickMs EXCEPT ![i] = tick[p].ms]
               /\ failed' = IF p = Loop /\ s.blockReason = "io_error"
                            THEN failed \union {i} ELSE failed
  /\ LET next == NextSlot(tick[p].slot) IN
       /\ pc' = [pc EXCEPT ![p] = IF next = 0 THEN "idle" ELSE "look"]
       /\ tick' = [tick EXCEPT ![p] =
                     IF next = 0 THEN NoTick
                     ELSE [NoTick EXCEPT !.ms = tick[p].ms, !.locked = tick[p].locked,
                                         !.slot = next]]
  /\ UNCHANGED <<def, resetPending, lockWasActive, now, call>>
-----------------------------------------------------------------------------
(* svcWriteDesiredImpl_ up to the last early return.  A refused start      *)
(* records its reason and touches no relay; it does not run the sweep.     *)
Refuse(p, i, reason) ==
  /\ slots' = [slots EXCEPT ![i].blockReason = reason,
                            ![i].desiredOn = @ /\ ~LockActiveAt(Millis)]
  /\ UNCHANGED <<pc, call>>

(* Mutant: the service forgets the recovery lock. *)
CheckWriteUnlocked(p, i, on) ==
  /\ p \in Clients
  /\ pc[p] = "idle"
  /\ IF on /\ ~def[i].enabled THEN Refuse(p, i, "disabled")
     ELSE IF on /\ MaxUptimeReached(i) THEN Refuse(p, i, "max_uptime")
     ELSE IF on /\ ~DependenciesSatisfied(i) THEN Refuse(p, i, "interlock")
     ELSE /\ pc' = [pc EXCEPT ![p] = "commit"]
          /\ call' = [call EXCEPT ![p] = [slot |-> i, on |-> on,
                                          reached |-> MaxUptimeReached(i)]]
          /\ UNCHANGED slots
  /\ UNCHANGED <<def, runningMsDay, lastTickMs, resetPending, lockWasActive,
                 now, tick, failed>>

CheckWrite(p, i, on) ==
  /\ p \in Clients
  /\ pc[p] = "idle"
  /\ IF on /\ (LockActiveAt(Millis) \/ ~def[i].enabled) THEN Refuse(p, i, "disabled")
     ELSE IF on /\ MaxUptimeReached(i) THEN Refuse(p, i, "max_uptime")
     ELSE IF on /\ ~DependenciesSatisfied(i) THEN Refuse(p, i, "interlock")
     ELSE /\ pc' = [pc EXCEPT ![p] = "commit"]
          /\ call' = [call EXCEPT ![p] = [slot |-> i, on |-> on,
                                          reached |-> MaxUptimeReached(i)]]
          /\ UNCHANGED slots
  /\ UNCHANGED <<def, runningMsDay, lastTickMs, resetPending, lockWasActive,
                 now, tick, failed>>

(* The rest of it: the request, the relay, then a sweep in the caller's task. *)
CommitWrite(p) ==
  /\ pc[p] = "commit"
  /\ LET i == call[p].slot
         on == call[p].on
         asked == [slots[i] EXCEPT
                     !.desiredOn = on,
                     !.blockReason = IF ~on /\ ~call[p].reached THEN "none" ELSE @]
     IN  \E fail \in IF i \in Faulty THEN BOOLEAN ELSE {FALSE} :
           slots' = [slots EXCEPT ![i] =
                       IF asked.actualOn = on THEN asked
                       ELSE IF on THEN SwitchOn(asked, fail)
                       ELSE SwitchOff(asked, "none", fail)]
  /\ pc' = [pc EXCEPT ![p] = "begin"]
  /\ call' = [call EXCEPT ![p] = NoCall]
  /\ UNCHANGED <<def, runningMsDay, lastTickMs, resetPending, lockWasActive,
                 now, tick, failed>>

(* pool.uptime.reset / reset_all: the counters restart, the sweep follows. *)
ResetUptime(p, chosen) ==
  /\ p \in Clients
  /\ pc[p] = "idle"
  /\ runningMsDay' = [i \in Slot |-> IF i \in chosen THEN 0 ELSE runningMsDay[i]]
  /\ slots' = [i \in Slot |->
       IF i \in chosen /\ slots[i].blockReason = "max_uptime"
       THEN [slots[i] EXCEPT !.blockReason = "none"] ELSE slots[i]]
  /\ pc' = [pc EXCEPT ![p] = "begin"]
  /\ UNCHANGED <<def, lastTickMs, resetPending, lockWasActive, now, call, tick, failed>>

(* pool.refill: only the tank estimate changes, the sweep follows. *)
RefillTank(p) ==
  /\ p \in Clients
  /\ pc[p] = "idle"
  /\ pc' = [pc EXCEPT ![p] = "begin"]
  /\ UNCHANGED <<def, slots, runningMsDay, lastTickMs, resetPending,
                 lockWasActive, now, call, tick, failed>>
-----------------------------------------------------------------------------
(* onEvent_: the scheduler announced a new day. *)
DayStart ==
  /\ ~resetPending
  /\ resetPending' = TRUE
  /\ UNCHANGED <<def, slots, runningMsDay, lastTickMs, lockWasActive, now, pc,
                 call, tick, failed>>

(* A configuration write lands in the live definition of a slot. *)
Configure(i) ==
  /\ \E d \in Defs[i] \ {def[i]} : def' = [def EXCEPT ![i] = d]
  /\ UNCHANGED <<slots, runningMsDay, lastTickMs, resetPending, lockWasActive,
                 now, pc, call, tick, failed>>

Clock ==
  /\ now < MaxNow
  /\ now' = now + 1
  /\ UNCHANGED <<def, slots, runningMsDay, lastTickMs, resetPending,
                 lockWasActive, pc, call, tick, failed>>

Sweep(p) == BeginSweep(p) \/ Look(p) \/ Act(p)

Request(p) == \/ \E i \in Slot, on \in BOOLEAN : CheckWrite(p, i, on)
              \/ \E chosen \in {{i} : i \in Slot} \union {Slot} : ResetUptime(p, chosen)
              \/ RefillTank(p)

Environment == DayStart \/ Clock \/ \E i \in Slot : Configure(i)

Next ==
  /\ \/ \E p \in Procs : Sweep(p) \/ CommitWrite(p)
     \/ \E p \in Clients : Request(p)
     \/ Environment
  /\ Observe

Spec == Init /\ [][Next]_vars

-----------------------------------------------------------------------------
TypeOK ==
  /\ def \in [Slot -> Definition]
  /\ slots \in [Slot -> [desiredOn : BOOLEAN, actualOn : BOOLEAN,
                         output : BOOLEAN, blockReason : BlockReason]]
  /\ runningMsDay \in [Slot -> Nat]
  /\ lastTickMs \in [Slot -> Nat]
  /\ resetPending \in BOOLEAN
  /\ lockWasActive \in BOOLEAN
  /\ now \in Nat
  /\ pc \in [Procs -> {"idle", "begin", "look", "act", "commit"}]
  /\ call \in [Procs -> [slot : Slot, on : BOOLEAN, reached : BOOLEAN]]
  /\ tick \in [Procs -> [ms : Nat, locked : BOOLEAN, slot : Slot,
                         deps : BOOLEAN, on : BOOLEAN]]
  /\ failed \in SUBSET Slot
  /\ held \in [Breaches -> SUBSET Slot]

(* No relay stays on through a whole pass of the pooldev task in a state   *)
(* the interlocks forbid, whatever the callers' tasks do meanwhile, unless *)
(* the loop reported an I/O error for it in that pass.                     *)
NoBreachOutlivesAPass ==
  pc[Loop] = "idle" => \A r \in Breaches : held[r] \subseteq failed

(* While the physical recovery window is open every relay is off: no call  *)
(* that was let through, no sweep and no configuration write turns one on. *)
LockKeepsOutputsOff ==
  LockActiveAt(Millis) => \A i \in Slot : ~slots[i].output
=============================================================================
