----------------------------- MODULE AlarmModule ----------------------------
(***************************************************************************)
(* The alarm engine (AlarmModule).                                         *)
(*                                                                         *)
(* The alarms task evaluates every slot once per period: it reads the      *)
(* condition callback outside the lock, then takes slotsMux_ and moves the *)
(* slot with the result.  Commands (reset, reset_all) run in other tasks   *)
(* and lock for each slot on its own, so they may fall between the reading *)
(* of a condition and its use.                                             *)
(*                                                                         *)
(* Time is millis() in coarse units, wrapping at Wrap; a timer holds the   *)
(* reading it was started at, and 0 means that it is not running.          *)
(***************************************************************************)
EXTENDS Integers, Sequences, FiniteSets

CONSTANTS
  Alarms,     \* registered alarms, in slot order
  Latched,    \* those with def.latched
  OnDelay,    \* OnDelay[a]: def.onDelayMs
  OffDelay,   \* OffDelay[a]: def.offDelayMs
  MinRepeat,  \* MinRepeat[a]: def.minRepeatMs, 0 = no reminders
  Wrap,       \* modulus of millis()
  MaxPeriod   \* longest time between two evaluations

ASSUME AlarmAssumption == IsFiniteSet(Alarms) /\ Alarms = 1 .. Cardinality(Alarms) /\ Alarms # {}
ASSUME DelayAssumption == /\ Latched \subseteq Alarms
                          /\ OnDelay \in [Alarms -> Nat]
                          /\ OffDelay \in [Alarms -> Nat]
                          /\ MinRepeat \in [Alarms -> Nat]
                          /\ MaxPeriod \in Nat \ {0}
                          /\ Wrap \in Nat
                          /\ \A a \in Alarms : /\ OnDelay[a] + MaxPeriod < Wrap
                                               /\ OffDelay[a] + MaxPeriod < Wrap

CondState == {"unknown", "true", "false"}

VARIABLES
  slots,    \* slots[a]: the AlarmSlot fields that change
  now,      \* millis()
  task,     \* the alarms task: where it is, its slot, its nowMs and its reading
  pending,  \* reset_all: the alarms it collected and has not reset yet
  lag,      \* time since the last evaluation began
  steady    \* history: steady[a]: how long, as the evaluations saw it, the
            \* condition of a has been what lastCond says

vars == <<slots, now, task, pending, lag, steady>>

Slot == [active : BOOLEAN, lastCond : CondState, onSinceMs : 0 .. Wrap - 1,
         offSinceMs : 0 .. Wrap - 1, lastNotifyMs : 0 .. Wrap - 1]
-----------------------------------------------------------------------------
(* Mutant: the timer is compared without the wrap of millis(). *)
DelayReachedNoWrap(sinceMs, delayMs, nowMs) ==
  \/ delayMs = 0
  \/ sinceMs # 0 /\ nowMs >= sinceMs + delayMs

DelayReached(sinceMs, delayMs, nowMs) ==
  \/ delayMs = 0
  \/ sinceMs # 0 /\ (nowMs - sinceMs) % Wrap >= delayMs

Started(sinceMs, nowMs) == IF sinceMs = 0 THEN nowMs ELSE sinceMs

(* Mutant: an unknown condition leaves the timers running. *)
OnUnknownKept(s) == s

(* The three outcomes of an evaluation, each a function of the slot. *)
OnUnknown(s) == [s EXCEPT !.onSinceMs = 0, !.offSinceMs = 0]

OnTrue(a, s, nowMs) ==
  LET since == Started(s.onSinceMs, nowMs)
      raise == DelayReached(since, OnDelay[a], nowMs)
  IN  IF s.active \/ raise
      THEN [s EXCEPT !.active = TRUE, !.onSinceMs = 0, !.offSinceMs = 0]
      ELSE [s EXCEPT !.onSinceMs = since, !.offSinceMs = 0]

(* Mutant: each false evaluation starts the clearing delay again. *)
OnFalseRestarting(a, s, nowMs) ==
  IF s.active /\ a \notin Latched
  THEN IF DelayReached(nowMs, OffDelay[a], nowMs) THEN [s EXCEPT !.active = FALSE]
       ELSE [s EXCEPT !.onSinceMs = 0, !.offSinceMs = nowMs]
  ELSE [s EXCEPT !.onSinceMs = 0, !.offSinceMs = 0]

OnFalse(a, s, nowMs) ==
  LET since == Started(s.offSinceMs, nowMs)
      clear == DelayReached(since, OffDelay[a], nowMs)
  IN  IF s.active /\ a \notin Latched
      THEN IF clear THEN [s EXCEPT !.active = FALSE, !.onSinceMs = 0, !.offSinceMs = 0]
                    ELSE [s EXCEPT !.onSinceMs = 0, !.offSinceMs = since]
      ELSE [s EXCEPT !.onSinceMs = 0, !.offSinceMs = 0]

Evaluated(a, s, c, nowMs) ==
  [CASE c = "true"    -> OnTrue(a, s, nowMs)
     [] c = "false"   -> OnFalse(a, s, nowMs)
     [] c = "unknown" -> OnUnknown(s)
   EXCEPT !.lastCond = c]

(* noteAlarmNotified_ follows a raise, a clear and a change to true/false. *)
Announced(before, after) == \/ before.active # after.active
                            \/ before.lastCond # after.lastCond /\ after.lastCond # "unknown"

IsResettable(a) == slots[a].active /\ a \in Latched /\ slots[a].lastCond = "false"

ReminderDue(a, nowMs) ==
  /\ slots[a].active /\ slots[a].lastCond = "true"
  /\ MinRepeat[a] > 0 /\ slots[a].lastNotifyMs # 0
  /\ DelayReached(slots[a].lastNotifyMs, MinRepeat[a], nowMs)
-----------------------------------------------------------------------------
Idle == [pc |-> "idle", slot |-> 1, nowMs |-> 0, cond |-> "unknown", gap |-> 0]

Init ==
  /\ slots = [a \in Alarms |-> [active |-> FALSE, lastCond |-> "unknown", onSinceMs |-> 0,
                                offSinceMs |-> 0, lastNotifyMs |-> 0]]
  /\ now \in 0 .. Wrap - 1
  /\ task = Idle
  /\ pending = {}
  /\ lag = 0
  /\ steady = [a \in Alarms |-> 0]

(* evaluateOnce_ begins, a period after the last one: the reminders that are *)
(* due are stamped and posted.                                              *)
Begin ==
  /\ task.pc = "idle"
  /\ lag >= 1
  /\ task' = [Idle EXCEPT !.pc = "read", !.nowMs = now, !.gap = lag]
  /\ slots' = [a \in Alarms |-> IF ReminderDue(a, now)
                                THEN [slots[a] EXCEPT !.lastNotifyMs = now] ELSE slots[a]]
  /\ lag' = 0
  /\ UNCHANGED <<now, pending, steady>>

(* The condition callback runs without the lock; what it answers is the      *)
(* affair of the module that registered the alarm.                           *)
ReadCondition ==
  /\ task.pc = "read"
  /\ \E c \in CondState : task' = [task EXCEPT !.pc = "commit", !.cond = c]
  /\ UNCHANGED <<slots, now, pending, lag, steady>>

(* The longest steadiness told apart: what RaisedInTime asks for. *)
Bound(a) == OnDelay[a] + MaxPeriod

(* Mutant: the loop runs one slot past the last. *)
NextSlotUnchecked(a) == [task EXCEPT !.pc = "read", !.slot = a + 1, !.cond = "unknown"]

NextSlot(a) == IF a = Cardinality(Alarms) THEN Idle
               ELSE [task EXCEPT !.pc = "read", !.slot = a + 1, !.cond = "unknown"]

(* The slot moves under the lock; the next slot follows. *)
Commit ==
  /\ task.pc = "commit"
  /\ LET a == task.slot
         c == task.cond
         s == Evaluated(a, slots[a], c, task.nowMs)
         held == steady[a] + task.gap
     IN  /\ slots' = [slots EXCEPT ![a] =
                        IF Announced(slots[a], s) THEN [s EXCEPT !.lastNotifyMs = task.nowMs]
                        ELSE s]
         /\ steady' = [steady EXCEPT ![a] = IF slots[a].lastCond # c THEN 0
                                            ELSE IF held > Bound(a) THEN Bound(a) ELSE held]
         /\ task' = NextSlot(a)
  /\ UNCHANGED <<now, pending, lag>>

(* Mutant: a latched alarm may be reset while its condition holds. *)
ResetSlotAnytime(a) == [slots EXCEPT ![a].active = FALSE]

(* reset_ under the lock; nothing changes for an alarm that may not be reset. *)
ResetSlot(a) ==
  IF IsResettable(a)
  THEN [slots EXCEPT ![a].active = FALSE, ![a].offSinceMs = 0, ![a].lastNotifyMs = now]
  ELSE slots

(* alarms.reset: the alarm by its identifier. *)
CmdReset(a) ==
  /\ slots' = ResetSlot(a)
  /\ UNCHANGED <<now, task, pending, lag, steady>>

(* alarms.reset_slot: the alarm by its slot; a slot that is not used is      *)
(* refused.                                                                  *)
CmdResetSlot(n) ==
  /\ slots' = IF n \in Alarms THEN ResetSlot(n) ELSE slots
  /\ UNCHANGED <<now, task, pending, lag, steady>>

(* alarms.reset_all collects the resettable alarms in one lock ... *)
CmdResetAll ==
  /\ pending = {}
  /\ pending' = {a \in Alarms : IsResettable(a)}
  /\ UNCHANGED <<slots, now, task, lag, steady>>

(* ... and resets them one by one, each under its own. *)
ResetNext ==
  /\ pending # {}
  /\ LET a == CHOOSE x \in pending : \A y \in pending : x <= y IN
       /\ slots' = ResetSlot(a)
       /\ pending' = pending \ {a}
  /\ UNCHANGED <<now, task, lag, steady>>
-----------------------------------------------------------------------------
Tick == /\ lag < MaxPeriod
        /\ task.pc = "idle"
        /\ now' = (now + 1) % Wrap
        /\ lag' = lag + 1
        /\ UNCHANGED <<slots, task, pending, steady>>

Evaluation == Begin \/ ReadCondition \/ Commit

Next == \/ Evaluation \/ CmdResetAll \/ ResetNext \/ Tick
        \/ \E a \in Alarms : CmdReset(a)
        \/ \E n \in 1 .. Cardinality(Alarms) + 1 : CmdResetSlot(n)

Spec == Init /\ [][Next]_vars

(* The alarms task keeps running and time keeps passing. *)
FairSpec == Spec /\ WF_vars(Evaluation) /\ WF_vars(Tick)
-----------------------------------------------------------------------------
TypeOK ==
  /\ slots \in [Alarms -> Slot]
  /\ now \in 0 .. Wrap - 1
  /\ task \in [pc : {"idle", "read", "commit"}, slot : Alarms, nowMs : 0 .. Wrap - 1,
               cond : CondState, gap : 0 .. MaxPeriod]
  /\ pending \subseteq Alarms
  /\ lag \in 0 .. MaxPeriod
  /\ steady \in [Alarms -> Nat] /\ \A a \in Alarms : steady[a] <= Bound(a)

(* An alarm is raised in time: once the condition has been found true, with  *)
(* no other finding between, for the delay and one more period, the alarm is *)
(* active whenever the task rests.  The extra period is what is lost when    *)
(* the timer starts at millis() = 0, the value that marks it as stopped      *)
(* (evaluateOnce_, onSinceMs); resets and the wrap of millis() cost nothing. *)
RaisedInTime ==
  task.pc = "idle" =>
    \A a \in Alarms :
      slots[a].lastCond = "true" /\ steady[a] >= Bound(a) => slots[a].active

(* An alarm is never raised early: whenever one becomes active, every        *)
(* evaluation for at least its delay has found the condition true; a false   *)
(* or unknown one in between started the delay again.                        *)
RaisedAfterDelay ==
  [][\A a \in Alarms : ~slots[a].active /\ slots'[a].active
        => slots'[a].lastCond = "true" /\ steady'[a] >= OnDelay[a]]_vars

(* What the readers of the alarm service rely on: raising, clearing and      *)
(* acknowledging follow AlarmLatch, even though the condition is read        *)
(* outside the lock and a reset may come between the reading and its use.    *)
AL == INSTANCE AlarmLatch WITH active <- [a \in Alarms |-> slots[a].active],
                               lastCond <- [a \in Alarms |-> slots[a].lastCond]
KeepsLatch == AL!LatchSpec

(* An alarm that needs no acknowledgement does not stay on once the          *)
(* evaluations find its condition false for good, whatever the timers held.  *)
ClearsOnceOver ==
  \A a \in Alarms \ Latched :
    (<>[](slots[a].lastCond = "false")) => <>[](~slots[a].active)
=============================================================================
