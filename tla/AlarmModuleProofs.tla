------------------------- MODULE AlarmModuleProofs --------------------------
(***************************************************************************)
(* Proofs about the alarm engine, for any number of alarms, any delays     *)
(* that fit in a turn of millis(), any order of evaluations and resets and *)
(* any answers of the condition callbacks.                                 *)
(***************************************************************************)
EXTENDS AlarmModule, FiniteSetTheorems, TLAPS

TaskState == [pc : {"idle", "read", "commit"}, slot : Alarms, nowMs : 0 .. Wrap - 1,
              cond : CondState, gap : 0 .. MaxPeriod]

(* The constants in the form the steps use them.                           *)
LEMMA Constants ==
  /\ Cardinality(Alarms) \in Nat /\ 1 \in Alarms
  /\ \A a \in Alarms : a \in Nat /\ 1 <= a /\ a <= Cardinality(Alarms)
  /\ \A a \in Alarms : a # Cardinality(Alarms) => a + 1 \in Alarms
  /\ Wrap \in Nat /\ MaxPeriod \in Nat /\ 1 <= MaxPeriod /\ MaxPeriod < Wrap
  /\ \A a \in Alarms : OnDelay[a] \in Nat /\ OnDelay[a] + MaxPeriod < Wrap
<1>1. Cardinality(Alarms) \in Nat
  BY AlarmAssumption, FS_CardinalityType
<1>2. \A a : a \in Alarms <=> a \in 1 .. Cardinality(Alarms)
  BY AlarmAssumption
<1>3. 1 \in Alarms
  BY <1>1, <1>2, AlarmAssumption
<1>4. \A a \in Alarms : OnDelay[a] \in Nat /\ OnDelay[a] + MaxPeriod < Wrap
  BY DelayAssumption
<1>5. Wrap \in Nat /\ MaxPeriod \in Nat /\ 1 <= MaxPeriod
  BY DelayAssumption
<1>6. MaxPeriod < Wrap
  BY <1>3, <1>4, <1>5
<1> QED
  BY <1>1, <1>2, <1>3, <1>4, <1>5, <1>6

(* The two cases of an unsigned difference.                                *)
LEMMA Wrapped ==
  ASSUME NEW W \in Nat \ {0}, NEW x \in Int
  PROVE  /\ x % W \in Int /\ 0 <= x % W /\ x % W < W
         /\ 0 <= x /\ x < W => x % W = x
         /\ -W <= x /\ x < 0 => x % W = x + W
OBVIOUS

(* What an evaluation makes of a slot, field by field.                     *)
LEMMA EvaluatedType ==
  ASSUME NEW a \in Alarms, NEW s \in Slot, NEW c \in CondState, NEW t \in 0 .. Wrap - 1
  PROVE  /\ Evaluated(a, s, c, t) \in Slot
         /\ Evaluated(a, s, c, t).lastCond = c
         /\ Evaluated(a, s, c, t).active # s.active =>
              \/ c = "true" /\ Evaluated(a, s, c, t).active
              \/ c = "false" /\ a \notin Latched /\ ~Evaluated(a, s, c, t).active
<1> USE Constants
<1>0. 0 \in 0 .. Wrap - 1
  OBVIOUS
<1>1. CASE c = "true"
  <2>1. Evaluated(a, s, c, t) = [OnTrue(a, s, t) EXCEPT !.lastCond = c]
    BY <1>1 DEF Evaluated
  <2>2. Started(s.onSinceMs, t) \in 0 .. Wrap - 1
    BY DEF Started, Slot
  <2> QED
    BY <1>0, <1>1, <2>1, <2>2 DEF OnTrue, Slot, CondState
<1>2. CASE c = "false"
  <2>1. Evaluated(a, s, c, t) = [OnFalse(a, s, t) EXCEPT !.lastCond = c]
    BY <1>2 DEF Evaluated
  <2>2. Started(s.offSinceMs, t) \in 0 .. Wrap - 1
    BY DEF Started, Slot
  <2>3. /\ OnFalse(a, s, t) \in Slot
        /\ OnFalse(a, s, t).active # s.active => a \notin Latched /\ ~OnFalse(a, s, t).active
    BY <1>0, <2>2 DEF OnFalse, Slot
  <2> QED
    BY <1>2, <2>1, <2>3 DEF Slot, CondState
<1>3. CASE c = "unknown"
  <2>1. Evaluated(a, s, c, t) = [OnUnknown(s) EXCEPT !.lastCond = c]
    BY <1>3 DEF Evaluated
  <2> QED
    BY <1>0, <1>3, <2>1 DEF OnUnknown, Slot, CondState
<1> QED
  BY <1>1, <1>2, <1>3 DEF CondState

(* A reset keeps every field but three, and clears only what is over.      *)
LEMMA ResetType ==
  ASSUME TypeOK, NEW a
  PROVE  /\ ResetSlot(a) \in [Alarms -> Slot]
         /\ \A b \in Alarms :
              /\ ResetSlot(a)[b].lastCond = slots[b].lastCond
              /\ ResetSlot(a)[b].onSinceMs = slots[b].onSinceMs
              /\ b # a => ResetSlot(a)[b] = slots[b]
              /\ ResetSlot(a)[b].active # slots[b].active =>
                   b = a /\ IsResettable(a) /\ ~ResetSlot(a)[b].active
<1>1. CASE IsResettable(a)
  <2>1. a \in Alarms BY <1>1, DelayAssumption DEF IsResettable
  <2>2. ResetSlot(a) = [slots EXCEPT ![a] = [slots[a] EXCEPT !.active = FALSE, !.offSinceMs = 0,
                                                             !.lastNotifyMs = now]]
    BY <1>1, <2>1 DEF ResetSlot, TypeOK, Slot
  <2>3. /\ slots \in [Alarms -> Slot] /\ now \in 0 .. Wrap - 1 /\ 0 \in 0 .. Wrap - 1
    BY Constants DEF TypeOK
  <2> DEFINE s == [slots[a] EXCEPT !.active = FALSE, !.offSinceMs = 0, !.lastNotifyMs = now]
  <2>4. /\ s \in Slot /\ ~s.active
        /\ s.lastCond = slots[a].lastCond /\ s.onSinceMs = slots[a].onSinceMs
    BY <2>1, <2>3 DEF Slot
  <2> HIDE DEF s
  <2>5. /\ ResetSlot(a) \in [Alarms -> Slot] /\ ResetSlot(a)[a] = s
        /\ \A b \in Alarms : b # a => ResetSlot(a)[b] = slots[b]
    BY <2>1, <2>2, <2>3, <2>4 DEF s
  <2> QED BY <1>1, <2>1, <2>4, <2>5
<1>2. CASE ~IsResettable(a)
  BY <1>2 DEF ResetSlot, TypeOK
<1> QED BY <1>1, <1>2

(* The loop goes on with a registered alarm or rests.                      *)
LEMMA NextSlotType ==
  ASSUME TypeOK, task.pc = "commit"
  PROVE  /\ NextSlot(task.slot) \in TaskState
         /\ task.slot = Cardinality(Alarms) => NextSlot(task.slot) = Idle
         /\ task.slot # Cardinality(Alarms) =>
              /\ NextSlot(task.slot).pc = "read" /\ NextSlot(task.slot).slot = task.slot + 1
              /\ NextSlot(task.slot).nowMs = task.nowMs /\ NextSlot(task.slot).gap = task.gap
<1>1. task \in TaskState
  BY DEF TypeOK, TaskState
<1>2. 0 \in 0 .. Wrap - 1 /\ 0 \in 0 .. MaxPeriod /\ "unknown" \in CondState
  BY Constants DEF CondState
<1> QED
  BY <1>1, <1>2, Constants DEF NextSlot, Idle, TaskState

(* Commit, spelled out.                                                    *)
LEMMA CommitFacts ==
  ASSUME TypeOK, Commit
  PROVE  LET a == task.slot
             s == Evaluated(a, slots[a], task.cond, task.nowMs)
             held == steady[a] + task.gap
         IN  /\ a \in Alarms /\ s \in Slot /\ s.lastCond = task.cond
             /\ slots' \in [Alarms -> Slot]
             /\ slots'[a].active = s.active /\ slots'[a].lastCond = task.cond
             /\ slots'[a].onSinceMs = s.onSinceMs
             /\ \A b \in Alarms : b # a => slots'[b] = slots[b] /\ steady'[b] = steady[b]
             /\ steady'[a] = IF slots[a].lastCond # task.cond THEN 0
                             ELSE IF held > Bound(a) THEN Bound(a) ELSE held
<1> DEFINE a == task.slot
           s == Evaluated(a, slots[a], task.cond, task.nowMs)
           held == steady[a] + task.gap
           t == IF Announced(slots[a], s) THEN [s EXCEPT !.lastNotifyMs = task.nowMs] ELSE s
           k == IF slots[a].lastCond # task.cond THEN 0
                ELSE IF held > Bound(a) THEN Bound(a) ELSE held
<1>1. /\ a \in Alarms /\ slots \in [Alarms -> Slot] /\ slots[a] \in Slot
      /\ task.cond \in CondState /\ task.nowMs \in 0 .. Wrap - 1
  BY DEF TypeOK
<1>2. s \in Slot /\ s.lastCond = task.cond
  BY <1>1, EvaluatedType
<1>3. slots' = [slots EXCEPT ![a] = t] /\ steady' = [steady EXCEPT ![a] = k]
  BY DEF Commit
<1> HIDE DEF s, k
<1>4. t \in Slot /\ t.active = s.active /\ t.lastCond = s.lastCond /\ t.onSinceMs = s.onSinceMs
  BY <1>1, <1>2 DEF Slot
<1> HIDE DEF t
<1>5. /\ slots' \in [Alarms -> Slot] /\ slots'[a] = t
      /\ \A b \in Alarms : b # a => slots'[b] = slots[b]
  BY <1>1, <1>3, <1>4
<1>6. /\ steady'[a] = k
      /\ \A b \in Alarms : b # a => steady'[b] = steady[b]
  BY <1>1, <1>3 DEF TypeOK
<1> QED
  BY <1>1, <1>2, <1>4, <1>5, <1>6 DEF s, k
-----------------------------------------------------------------------------
(* Every step keeps the types.                                             *)
LEMMA TypeStep == TypeOK /\ [Next]_vars => TypeOK'
<1> SUFFICES ASSUME TypeOK, [Next]_vars PROVE TypeOK'
  OBVIOUS
<1>0. /\ task \in TaskState /\ 0 \in 0 .. Wrap - 1 /\ 0 \in 0 .. MaxPeriod
      /\ "unknown" \in CondState /\ 1 \in Alarms
  BY Constants DEF TypeOK, TaskState, CondState
<1>i. Idle \in TaskState
  BY <1>0 DEF Idle, TaskState
<1>1. CASE Begin
  <2>1. task' \in TaskState
    BY <1>0, <1>1, <1>i DEF Begin, TypeOK, TaskState
  <2>2. slots' \in [Alarms -> Slot]
    BY <1>1 DEF Begin, TypeOK, Slot
  <2> QED
    BY <1>0, <1>1, <2>1, <2>2 DEF Begin, TypeOK, TaskState, Bound
<1>2. CASE ReadCondition
  BY <1>0, <1>2 DEF ReadCondition, TypeOK, TaskState, Bound
<1>3. CASE Commit
  <2> DEFINE a == task.slot
             held == steady[a] + task.gap
  <2>1. /\ a \in Alarms /\ slots' \in [Alarms -> Slot]
        /\ \A b \in Alarms : b # a => steady'[b] = steady[b]
        /\ steady'[a] = IF slots[a].lastCond # task.cond THEN 0
                        ELSE IF held > Bound(a) THEN Bound(a) ELSE held
    BY <1>3, CommitFacts
  <2>2. steady[a] \in Nat /\ task.gap \in Nat /\ Bound(a) \in Nat
    BY <2>1, Constants DEF TypeOK, Bound
  <2>3. steady'[a] \in Nat /\ steady'[a] <= Bound(a)
    BY <2>1, <2>2
  <2>4. \E k : steady' = [steady EXCEPT ![a] = k]
    BY <1>3 DEF Commit
  <2>5. steady' \in [Alarms -> Nat] /\ \A b \in Alarms : steady'[b] <= Bound(b)
    BY <2>1, <2>3, <2>4 DEF TypeOK
  <2>6. task' \in TaskState
    BY <1>3, NextSlotType DEF Commit
  <2>7. UNCHANGED <<now, pending, lag>>
    BY <1>3 DEF Commit
  <2> HIDE DEF a, held
  <2> QED
    BY <2>1, <2>5, <2>6, <2>7 DEF TypeOK, TaskState, Bound
<1>4. ASSUME NEW a, slots' = ResetSlot(a), UNCHANGED <<now, task, lag, steady>>,
             pending' \subseteq Alarms
      PROVE  TypeOK'
  BY <1>4, ResetType DEF TypeOK, Bound
<1>5. CASE \E a \in Alarms : CmdReset(a)
  BY <1>4, <1>5 DEF CmdReset, TypeOK
<1>6. CASE \E n \in 1 .. Cardinality(Alarms) + 1 : CmdResetSlot(n)
  <2>1. PICK n : CmdResetSlot(n)
    BY <1>6
  <2>2. CASE n \in Alarms
    BY <1>4, <2>1, <2>2 DEF CmdResetSlot, TypeOK
  <2>3. CASE n \notin Alarms
    BY <2>1, <2>3 DEF CmdResetSlot, TypeOK, Bound
  <2> QED
    BY <2>2, <2>3
<1>7. CASE CmdResetAll
  BY <1>7 DEF CmdResetAll, TypeOK, Bound
<1>8. CASE ResetNext
  BY <1>4, <1>8 DEF ResetNext, TypeOK
<1>9. CASE Tick
  <2>1. now' \in 0 .. Wrap - 1 /\ lag' \in 0 .. MaxPeriod
    BY <1>9, Constants, Wrapped DEF Tick, TypeOK
  <2> QED
    BY <1>9, <2>1 DEF Tick, TypeOK, Bound
<1>10. CASE UNCHANGED vars
  BY <1>10 DEF vars, TypeOK, Bound
<1> QED
  BY <1>1, <1>2, <1>3, <1>5, <1>6, <1>7, <1>8, <1>9, <1>10 DEF Next, Evaluation

(* The slots and the task start with their types.                          *)
LEMMA TypeInit == Init => TypeOK
BY Constants DEF Init, TypeOK, Idle, Slot, CondState, Bound

(* The slots, the task and the clock always have their types.              *)
THEOREM TypeCorrect == Spec => []TypeOK
<1>1. Init => TypeOK BY TypeInit
<1>2. TypeOK /\ [Next]_vars => TypeOK' BY TypeStep
<1> QED BY <1>1, <1>2, PTL DEF Spec
-----------------------------------------------------------------------------
(* The latch.  A reset checks the alarm under the lock it clears it under, *)
(* and an evaluation moves the slot as it is then, so no step needs to     *)
(* know what was read before.                                              *)
On == [a \in Alarms |-> slots[a].active]
Cond == [a \in Alarms |-> slots[a].lastCond]

(* A reset is a reset of the latch, or changes nothing it sees.            *)
LEMMA ResetRefines ==
  ASSUME TypeOK, NEW a, slots' = ResetSlot(a)
  PROVE  AL!LatchNext \/ (On' = On /\ Cond' = Cond)
<1>1. \A b \in Alarms : slots'[b].lastCond = slots[b].lastCond
  BY ResetType
<1>2. Cond' = Cond
  BY <1>1 DEF Cond
<1>3. CASE \A b \in Alarms : slots'[b].active = slots[b].active
  BY <1>2, <1>3 DEF On
<1>4. CASE \E b \in Alarms : slots'[b].active # slots[b].active
  <2>1. a \in Alarms /\ IsResettable(a) /\ ~slots'[a].active
        /\ \A b \in Alarms : b # a => slots'[b].active = slots[b].active
    BY <1>4, ResetType
  <2>2. slots' \in [Alarms -> Slot] BY ResetType
  <2>3. slots'[a].active = FALSE BY <2>1, <2>2 DEF Slot
  <2>4. On' = [On EXCEPT ![a] = FALSE]
    BY <2>1, <2>3 DEF On
  <2>5. AL!Reset(a)
    BY <1>2, <2>1, <2>4 DEF AL!Reset, AL!Resettable, IsResettable, On, Cond
  <2> QED BY <2>1, <2>5 DEF AL!LatchNext
<1> QED BY <1>3, <1>4

(* An evaluation moves one alarm as its condition permits.                 *)
LEMMA CommitRefines ==
  ASSUME TypeOK, Commit
  PROVE  AL!LatchNext
<1>0. PICK a \in Alarms, c \in CondState, t \in 0 .. Wrap - 1 :
        a = task.slot /\ c = task.cond /\ t = task.nowMs
  BY DEF TypeOK
<1> DEFINE s == Evaluated(a, slots[a], c, t)
<1>1. /\ s \in Slot
      /\ slots'[a].active = s.active /\ slots'[a].lastCond = c
      /\ \A b \in Alarms : b # a => slots'[b] = slots[b]
  BY <1>0, CommitFacts
<1>2. slots[a] \in Slot
  BY DEF TypeOK
<1>3. s.active # slots[a].active => \/ c = "true" /\ s.active
                                    \/ c = "false" /\ a \notin Latched /\ ~s.active
  BY <1>2, EvaluatedType
<1> HIDE DEF s
<1>4. PICK on \in BOOLEAN : on = s.active
  BY <1>1 DEF Slot
<1>5. on \in AL!Outcomes(a, c)
  BY <1>2, <1>3, <1>4 DEF AL!Outcomes, Slot
<1>6. On' = [On EXCEPT ![a] = on]
  BY <1>1, <1>4 DEF On
<1>7. Cond' = [Cond EXCEPT ![a] = c]
  BY <1>1 DEF Cond
<1>8. AL!Evaluate(a, c)
  BY <1>5, <1>6, <1>7 DEF AL!Evaluate, On, Cond
<1>9. c \in AL!CondState
  BY DEF AL!CondState, CondState
<1> QED BY <1>8, <1>9 DEF AL!LatchNext

(* So every step of the engine is a step of the latch or none.             *)
LEMMA StepRefines ==
  ASSUME TypeOK, [Next]_vars
  PROVE  [AL!LatchNext]_(AL!latchVars)
<1>0. AL!LatchNext \/ (On' = On /\ Cond' = Cond) => [AL!LatchNext]_(AL!latchVars)
  BY DEF AL!latchVars, On, Cond
<1> SUFFICES AL!LatchNext \/ (On' = On /\ Cond' = Cond)
  BY <1>0
<1>1. CASE UNCHANGED slots
  BY <1>1 DEF On, Cond
<1>2. CASE Begin
  <2>1. \A a \in Alarms : slots'[a].active = slots[a].active /\ slots'[a].lastCond = slots[a].lastCond
    BY <1>2 DEF Begin, TypeOK, Slot
  <2> QED BY <2>1 DEF On, Cond
<1>3. CASE Commit
  BY <1>3, CommitRefines
<1>4. CASE \E a : slots' = ResetSlot(a)
  BY <1>4, ResetRefines
<1>5. \/ Begin \/ Commit \/ UNCHANGED slots \/ \E a : slots' = ResetSlot(a)
  BY DEF Next, Evaluation, ReadCondition, CmdReset, CmdResetSlot, CmdResetAll, ResetNext, Tick, vars
<1> QED
  BY <1>1, <1>2, <1>3, <1>4, <1>5

(* For the readers of the alarm service the engine is AlarmLatch: raised   *)
(* on a condition found true, a latched alarm cleared by a reset only, and *)
(* only after its condition was found false.                               *)
THEOREM EngineKeepsLatch == Spec => KeepsLatch
<1>1. Init => AL!LatchInit
  BY DEF Init, AL!LatchInit
<1>2. TypeOK /\ [Next]_vars => [AL!LatchNext]_(AL!latchVars)
  BY StepRefines
<1> QED
  BY <1>1, <1>2, TypeCorrect, PTL DEF Spec, KeepsLatch, AL!LatchSpec
-----------------------------------------------------------------------------
(* The timers.  A slot that is on its way to being raised has a timer as    *)
(* old as the condition has been steady, give or take the period that is    *)
(* lost when the timer starts at millis() = 0; w is the time the slot still *)
(* waits for, between the clock and the evaluation its steadiness counts to.*)
Age(since, t) == (t - since) % Wrap

TimerOK(a, s, st, w, t) ==
  /\ s.onSinceMs # 0 => s.lastCond = "true" /\ ~s.active
  /\ s.lastCond = "true" /\ ~s.active =>
       IF s.onSinceMs = 0 THEN st = 0 /\ t = w
       ELSE LET age == Age(s.onSinceMs, t)
            IN  w <= age /\ age - w < OnDelay[a] /\ age - w <= st /\ st <= age - w + MaxPeriod

Wait(a) == IF task.pc = "idle" THEN lag ELSE IF a < task.slot THEN 0 ELSE task.gap

(* While the task evaluates the clock of the model stands still.            *)
PassInv == task.pc # "idle" => lag = 0 /\ task.nowMs = now /\ task.gap >= 1

TimerInv == TypeOK /\ PassInv /\ \A a \in Alarms : TimerOK(a, slots[a], steady[a], Wait(a), now)

(* Nothing else of a slot matters to its timer.                             *)
LEMMA TimerFields ==
  ASSUME NEW a, NEW s, NEW s2, NEW st, NEW w, NEW t,
         s2.active = s.active, s2.lastCond = s.lastCond, s2.onSinceMs = s.onSinceMs,
         TimerOK(a, s, st, w, t)
  PROVE  TimerOK(a, s2, st, w, t)
BY DEF TimerOK

(* The clock moves on: a timer grows with the wait.                         *)
LEMMA TimerTicks ==
  ASSUME NEW a \in Alarms, NEW s \in Slot, NEW st \in Nat, NEW w \in Nat, w < MaxPeriod,
         NEW t \in 0 .. Wrap - 1, TimerOK(a, s, st, w, t)
  PROVE  TimerOK(a, s, st, w + 1, (t + 1) % Wrap)
<1> DEFINE since == s.onSinceMs
           d == OnDelay[a]
           u == (t + 1) % Wrap
<1>1. /\ since \in Nat /\ since < Wrap /\ t \in Nat /\ t < Wrap /\ Wrap \in Nat \ {0}
      /\ d \in Nat /\ MaxPeriod \in Nat /\ d + MaxPeriod < Wrap /\ MaxPeriod < Wrap
  BY Constants DEF Slot
<1>2. u = IF t + 1 = Wrap THEN 0 ELSE t + 1
  <2>1. CASE t + 1 = Wrap
    <3>1. Wrap % Wrap = 0 BY <1>1
    <3> QED BY <2>1, <3>1
  <2>2. CASE t + 1 # Wrap
    BY <1>1, <2>2, Wrapped
  <2> QED BY <2>1, <2>2
<1>3. Age(since, t) = IF since <= t THEN t - since ELSE t - since + Wrap
  <2>1. t - since \in Int /\ -Wrap <= t - since /\ t - since < Wrap
    BY <1>1
  <2> QED BY <1>1, <2>1, Wrapped DEF Age
<1>4. Age(since, u) = IF since <= u THEN u - since ELSE u - since + Wrap
  <2>1. u - since \in Int /\ -Wrap <= u - since /\ u - since < Wrap
    BY <1>1, <1>2
  <2> QED BY <1>1, <2>1, Wrapped DEF Age
<1> HIDE DEF since, d, u
<1>5. CASE since = 0
  <2>1. t = w => u = w + 1
    BY <1>1, <1>2
  <2> QED BY <1>5, <2>1 DEF TimerOK, since, u
<1>6. CASE since # 0
  <2>1. w <= Age(since, t) /\ Age(since, t) - w < d => Age(since, u) = Age(since, t) + 1
    BY <1>1, <1>2, <1>3, <1>4, <1>6
  <2>2. Age(since, t) \in Int
    BY <1>1, <1>3
  <2>3. TimerOK(a, s, st, w, t)
    OBVIOUS
  <2> QED BY <1>1, <1>6, <2>1, <2>2, <2>3 DEF TimerOK, since, d, u
<1> QED BY <1>5, <1>6

(* An evaluation: the wait is over, and what it raises was steady.          *)
LEMMA TimerCommits ==
  ASSUME NEW a \in Alarms, NEW s \in Slot, NEW st \in Nat, NEW w \in Nat,
         1 <= w, w <= MaxPeriod, NEW t \in 0 .. Wrap - 1, NEW c \in CondState,
         TimerOK(a, s, st, w, t), NEW st2,
         st2 = IF s.lastCond # c THEN 0 ELSE IF st + w > Bound(a) THEN Bound(a) ELSE st + w
  PROVE  /\ TimerOK(a, Evaluated(a, s, c, t), st2, 0, t)
         /\ ~s.active /\ Evaluated(a, s, c, t).active => c = "true" /\ st2 >= OnDelay[a]
<1> DEFINE since == s.onSinceMs
           start == Started(since, t)
           d == OnDelay[a]
           e == Evaluated(a, s, c, t)
<1>1. /\ since \in Nat /\ since < Wrap /\ t \in Nat /\ t < Wrap /\ Wrap \in Nat \ {0}
      /\ d \in Nat /\ MaxPeriod \in Nat /\ d + MaxPeriod < Wrap /\ MaxPeriod < Wrap
      /\ Bound(a) = d + MaxPeriod
  BY Constants DEF Slot, Bound
<1>2. e \in Slot /\ e.lastCond = c
      /\ (e.active # s.active => c = "true" \/ ~e.active)
  BY EvaluatedType
<1>3. CASE c # "true"
  <2>1. e.onSinceMs = 0
    <3>1. CASE c = "false"
      BY <3>1, Constants DEF Evaluated, OnFalse, Slot
    <3>2. CASE c = "unknown"
      BY <3>2, Constants DEF Evaluated, OnUnknown, Slot
    <3> QED BY <1>3, <3>1, <3>2 DEF CondState
  <2>2. ~(~s.active /\ e.active)
    BY <1>2, <1>3
  <2> QED BY <1>2, <1>3, <2>1, <2>2 DEF TimerOK
<1>4. CASE c = "true"
  <2>1. /\ e.active = (s.active \/ DelayReached(start, d, t))
        /\ e.onSinceMs = IF e.active THEN 0 ELSE start
    <3>1. e = [OnTrue(a, s, t) EXCEPT !.lastCond = c]
      BY <1>4 DEF Evaluated
    <3>2. CASE s.active \/ DelayReached(start, d, t)
      BY <3>1, <3>2 DEF OnTrue, Slot
    <3>3. CASE ~(s.active \/ DelayReached(start, d, t))
      BY <3>1, <3>3 DEF OnTrue, Slot
    <3> QED BY <3>2, <3>3
  <2>2. CASE s.active
    BY <1>2, <2>1, <2>2 DEF TimerOK
  <2>3. CASE ~s.active /\ since # 0
    <3>1. /\ start = since /\ s.lastCond = "true"
          /\ w <= Age(since, t) /\ Age(since, t) - w < d
          /\ Age(since, t) - w <= st /\ st <= Age(since, t) - w + MaxPeriod
      BY <2>3 DEF TimerOK, Started
    <3>2. st2 = IF st + w > d + MaxPeriod THEN d + MaxPeriod ELSE st + w
      BY <1>1, <1>4, <3>1
    <3>3. Age(since, t) \in Int
      BY <1>1, Wrapped DEF Age
    <3>4. DelayReached(start, d, t) <=> Age(since, t) >= d
      BY <1>1, <2>3, <3>1, <3>3 DEF DelayReached, Age
    <3> HIDE DEF since, start, d, e
    <3>5. CASE Age(since, t) >= d
      <4>1. e.active /\ e.onSinceMs = 0
        BY <2>1, <3>4, <3>5
      <4>2. st2 >= d
        BY <1>1, <3>1, <3>2, <3>3, <3>5
      <4> QED BY <1>2, <1>4, <4>1, <4>2 DEF TimerOK, e, d
    <3>6. CASE ~(Age(since, t) >= d)
      <4>1. ~e.active /\ e.onSinceMs = since
        BY <2>1, <2>3, <3>1, <3>4, <3>6 DEF e
      <4>2. st + w <= d + MaxPeriod /\ st2 = st + w
        BY <1>1, <3>1, <3>2, <3>3, <3>6
      <4>3. /\ 0 <= Age(since, t) /\ Age(since, t) - 0 < d
            /\ Age(since, t) - 0 <= st2 /\ st2 <= Age(since, t) - 0 + MaxPeriod
        BY <1>1, <3>1, <3>3, <3>6, <4>2
      <4> QED BY <1>2, <1>4, <2>3, <4>1, <4>3 DEF TimerOK, e, d, since
    <3> QED BY <3>5, <3>6
  <2>4. CASE ~s.active /\ since = 0
    <3>1. start = t
      BY <2>4 DEF Started
    <3>2. Age(t, t) = 0
      BY <1>1, Wrapped DEF Age
    <3>3. DelayReached(start, d, t) <=> d = 0
      BY <1>1, <3>1, <3>2 DEF DelayReached, Age
    <3>4. s.lastCond = c => st = 0 /\ t = w
      BY <1>4, <2>4 DEF TimerOK
    <3>5. st2 \in Nat /\ st2 <= MaxPeriod /\ (t = 0 => st2 = 0)
      BY <1>1, <3>4
    <3> HIDE DEF since, start, d, e
    <3>6. CASE d = 0
      <4>1. e.active /\ e.onSinceMs = 0
        BY <2>1, <3>3, <3>6
      <4> QED BY <1>2, <1>4, <3>5, <3>6, <4>1 DEF TimerOK, e, d
    <3>7. CASE d # 0
      <4>1. ~e.active /\ e.onSinceMs = t
        BY <2>1, <2>4, <3>1, <3>3, <3>7 DEF e
      <4>2. t # 0 => /\ 0 <= Age(t, t) /\ Age(t, t) - 0 < d
                     /\ Age(t, t) - 0 <= st2 /\ st2 <= Age(t, t) - 0 + MaxPeriod
        BY <1>1, <3>2, <3>5, <3>7
      <4> QED BY <1>1, <1>2, <1>4, <3>5, <4>1, <4>2 DEF TimerOK, e, d
    <3> QED BY <3>6, <3>7
  <2> QED BY <2>2, <2>3, <2>4
<1> QED BY <1>3, <1>4

(* A reset leaves the timer: it clears only what is over.                   *)
LEMMA TimerSurvivesReset ==
  ASSUME TypeOK, NEW a, NEW b \in Alarms, NEW st, NEW w, NEW t,
         TimerOK(b, slots[b], st, w, t)
  PROVE  TimerOK(b, ResetSlot(a)[b], st, w, t)
<1>1. /\ ResetSlot(a)[b].lastCond = slots[b].lastCond
      /\ ResetSlot(a)[b].onSinceMs = slots[b].onSinceMs
      /\ ResetSlot(a)[b].active # slots[b].active =>
           b = a /\ IsResettable(a) /\ ~ResetSlot(a)[b].active
  BY ResetType
<1>2. CASE ResetSlot(a)[b].active # slots[b].active
  <2>1. slots[b].lastCond = "false"
    BY <1>1, <1>2 DEF IsResettable
  <2> QED BY <1>1, <2>1 DEF TimerOK
<1>3. CASE ResetSlot(a)[b].active = slots[b].active
  BY <1>1, <1>3, TimerFields
<1> QED BY <1>2, <1>3

(* What one evaluated slot does to its timer, and what a raise needs.       *)
LEMMA CommitTimer ==
  ASSUME TimerInv, Commit
  PROVE  LET a == task.slot
         IN  /\ TimerOK(a, slots'[a], steady'[a], 0, now)
             /\ ~slots[a].active /\ slots'[a].active =>
                  slots'[a].lastCond = "true" /\ steady'[a] >= OnDelay[a]
<1>0. PICK a \in Alarms, c \in CondState, t \in 0 .. Wrap - 1, w \in Nat :
        a = task.slot /\ c = task.cond /\ t = now /\ w = task.gap
  BY Constants DEF TimerInv, TypeOK
<1>1. PICK s \in Slot, st \in Nat : s = slots[a] /\ st = steady[a]
  BY DEF TimerInv, TypeOK
<1> DEFINE e == Evaluated(a, s, c, t)
           st2 == IF s.lastCond # c THEN 0 ELSE IF st + w > Bound(a) THEN Bound(a) ELSE st + w
<1>2. task.nowMs = now /\ 1 <= w /\ w <= MaxPeriod /\ Wait(a) = w
  <2>1. task.pc = "commit" BY DEF Commit
  <2> QED BY <1>0, <2>1, Constants DEF TimerInv, PassInv, TypeOK, Wait
<1>3. TimerOK(a, s, st, w, t)
  BY <1>0, <1>1, <1>2 DEF TimerInv
<1>4. /\ slots'[a].active = e.active /\ slots'[a].lastCond = c
      /\ slots'[a].onSinceMs = e.onSinceMs /\ steady'[a] = st2 /\ e.lastCond = c
  BY <1>0, <1>1, <1>2, CommitFacts DEF TimerInv
<1>5. /\ TimerOK(a, e, st2, 0, t)
      /\ ~s.active /\ e.active => c = "true" /\ st2 >= OnDelay[a]
  BY <1>2, <1>3, TimerCommits
<1> HIDE DEF e, st2
<1>6. TimerOK(a, slots'[a], st2, 0, t)
  BY <1>4, <1>5, TimerFields
<1> QED BY <1>0, <1>1, <1>4, <1>5, <1>6

(* Every step keeps the timers.                                             *)
LEMMA TimerStep == TimerInv /\ [Next]_vars => TimerInv'
<1> SUFFICES ASSUME TimerInv, [Next]_vars PROVE TimerInv'
  OBVIOUS
<1>0. TypeOK /\ TypeOK' /\ PassInv
  BY TypeStep DEF TimerInv
<1>1. CASE Begin
  <2>1. PassInv'
    BY <1>0, <1>1 DEF Begin, PassInv, Idle
  <2>2. ASSUME NEW a \in Alarms PROVE TimerOK(a, slots'[a], steady'[a], Wait(a)', now')
    <3>1. Wait(a)' = lag /\ Wait(a) = lag
      BY <1>0, <1>1, Constants DEF Begin, Wait, Idle
    <3>2. /\ slots'[a].active = slots[a].active /\ slots'[a].lastCond = slots[a].lastCond
          /\ slots'[a].onSinceMs = slots[a].onSinceMs
      BY <1>0, <1>1 DEF Begin, TypeOK, Slot
    <3>3. steady'[a] = steady[a] /\ now' = now
      BY <1>1 DEF Begin
    <3>4. TimerOK(a, slots[a], steady[a], lag, now)
      BY <3>1 DEF TimerInv
    <3> QED BY <3>1, <3>2, <3>3, <3>4, TimerFields
  <2> QED BY <1>0, <2>1, <2>2 DEF TimerInv
<1>2. CASE ReadCondition
  <2>1. /\ task'.pc = "commit" /\ task.pc = "read" /\ task'.slot = task.slot
        /\ task'.gap = task.gap /\ task'.nowMs = task.nowMs
        /\ UNCHANGED <<slots, now, lag, steady>>
    BY <1>0, <1>2 DEF ReadCondition, TypeOK
  <2>2. PassInv' /\ \A a \in Alarms : Wait(a)' = Wait(a)
    BY <1>0, <2>1 DEF PassInv, Wait
  <2> QED BY <1>0, <2>1, <2>2 DEF TimerInv
<1>3. CASE Commit
  <2>1. task.pc = "commit" /\ task' = NextSlot(task.slot) /\ UNCHANGED <<now, lag>>
    BY <1>3 DEF Commit
  <2>2. /\ task.slot = Cardinality(Alarms) => task' = Idle
        /\ task.slot # Cardinality(Alarms) =>
             /\ task'.pc = "read" /\ task'.slot = task.slot + 1
             /\ task'.nowMs = task.nowMs /\ task'.gap = task.gap
    BY <1>0, <2>1, NextSlotType
  <2>3. lag = 0 /\ task.nowMs = now /\ task.gap >= 1 /\ task.slot \in Alarms
    BY <1>0, <2>1 DEF PassInv, TypeOK
  <2>4. PassInv'
    BY <2>1, <2>2, <2>3 DEF PassInv, Idle
  <2>5. ASSUME NEW a \in Alarms PROVE TimerOK(a, slots'[a], steady'[a], Wait(a)', now')
    <3>1. CASE a = task.slot
      <4>1. Wait(a)' = 0
        BY <2>1, <2>2, <2>3, <3>1, Constants DEF Wait, Idle
      <4>2. TimerOK(a, slots'[a], steady'[a], 0, now)
        BY <1>3, <3>1, CommitTimer
      <4> QED BY <2>1, <4>1, <4>2
    <3>2. CASE a # task.slot
      <4>1. Wait(a)' = Wait(a)
        BY <2>1, <2>2, <2>3, <3>2, Constants DEF Wait, Idle
      <4>2. slots'[a] = slots[a] /\ steady'[a] = steady[a]
        BY <1>0, <1>3, <3>2, CommitFacts
      <4> QED BY <2>1, <4>1, <4>2 DEF TimerInv
    <3> QED BY <3>1, <3>2
  <2> QED BY <1>0, <2>4, <2>5 DEF TimerInv
<1>4. CASE Tick
  <2>1. /\ task.pc = "idle" /\ lag < MaxPeriod /\ lag \in Nat /\ lag' = lag + 1
        /\ now' = (now + 1) % Wrap /\ UNCHANGED <<slots, task, steady>>
    BY <1>0, <1>4, Constants DEF Tick, TypeOK
  <2>2. PassInv'
    BY <2>1 DEF PassInv
  <2>3. ASSUME NEW a \in Alarms PROVE TimerOK(a, slots'[a], steady'[a], Wait(a)', now')
    <3>1. Wait(a) = lag /\ Wait(a)' = lag + 1
      BY <2>1 DEF Wait
    <3>2. TimerOK(a, slots[a], steady[a], lag, now)
      BY <3>1 DEF TimerInv
    <3>3. slots[a] \in Slot /\ steady[a] \in Nat /\ now \in 0 .. Wrap - 1
      BY <1>0 DEF TypeOK
    <3>4. TimerOK(a, slots[a], steady[a], lag + 1, (now + 1) % Wrap)
      BY <2>1, <3>2, <3>3, TimerTicks
    <3> QED BY <2>1, <3>1, <3>4
  <2> QED BY <1>0, <2>2, <2>3 DEF TimerInv
<1>5. ASSUME NEW x, slots' = ResetSlot(x), UNCHANGED <<now, task, lag, steady>>
      PROVE  TimerInv'
  <2>1. PassInv' /\ \A a \in Alarms : Wait(a)' = Wait(a)
    BY <1>0, <1>5 DEF PassInv, Wait
  <2>2. ASSUME NEW a \in Alarms PROVE TimerOK(a, slots'[a], steady'[a], Wait(a)', now')
    <3>1. TimerOK(a, slots[a], steady[a], Wait(a), now)
      BY DEF TimerInv
    <3>2. TimerOK(a, ResetSlot(x)[a], steady[a], Wait(a), now)
      BY <1>0, <3>1, TimerSurvivesReset
    <3> QED BY <1>5, <2>1, <3>2
  <2> QED BY <1>0, <2>1, <2>2 DEF TimerInv
<1>6. CASE UNCHANGED <<slots, now, task, lag, steady>>
  BY <1>0, <1>6 DEF TimerInv, PassInv, Wait
<1>7. \/ Begin \/ ReadCondition \/ Commit \/ Tick
      \/ UNCHANGED <<slots, now, task, lag, steady>>
      \/ \E x : slots' = ResetSlot(x) /\ UNCHANGED <<now, task, lag, steady>>
  BY DEF Next, Evaluation, CmdReset, CmdResetSlot, CmdResetAll, ResetNext, vars
<1> QED
  BY <1>1, <1>2, <1>3, <1>4, <1>5, <1>6, <1>7

(* The engine starts with its timers stopped.                               *)
LEMMA TimerInit == Init => TimerInv
BY TypeInit DEF Init, TimerInv, PassInv, TimerOK, Wait, Idle

(* So the timers hold for ever.                                            *)
LEMMA TimersHold == Spec => []TimerInv
BY TimerInit, TimerStep, PTL DEF Spec

(* An alarm whose condition was found true for its delay and one period     *)
(* more is active, for any delays and any wrap of millis().                 *)
THEOREM RaisesInTime == Spec => []RaisedInTime
<1>1. TimerInv => RaisedInTime
  <2> SUFFICES ASSUME TimerInv, NEW a \in Alarms, slots[a].lastCond = "true",
                      steady[a] >= Bound(a), ~slots[a].active
               PROVE  FALSE
    BY DEF RaisedInTime, TimerInv, TypeOK, Slot
  <2>1. /\ OnDelay[a] \in Nat /\ MaxPeriod \in Nat /\ 1 <= MaxPeriod /\ steady[a] \in Nat
        /\ Bound(a) = OnDelay[a] + MaxPeriod
    BY Constants DEF TimerInv, TypeOK, Bound
  <2>2. TimerOK(a, slots[a], steady[a], Wait(a), now)
    BY DEF TimerInv
  <2>3. Wait(a) \in Int /\ Age(slots[a].onSinceMs, now) \in Int
    <3>1. /\ lag \in Int /\ task.gap \in Int /\ now \in Int /\ slots[a].onSinceMs \in Int
          /\ Wrap \in Nat \ {0}
      BY Constants DEF TimerInv, TypeOK, Slot
    <3> QED BY <3>1, Wrapped DEF Wait, Age
  <2> QED BY <2>1, <2>2, <2>3 DEF TimerOK
<1> QED BY <1>1, TimersHold, PTL

(* Nothing is raised before every evaluation of its delay found it true.    *)
THEOREM NothingIsRaisedEarly == Spec => RaisedAfterDelay
<1> DEFINE Raise == \A a \in Alarms : ~slots[a].active /\ slots'[a].active
                       => slots'[a].lastCond = "true" /\ steady'[a] >= OnDelay[a]
<1>1. TimerInv /\ [Next]_vars => [Raise]_vars
  <2> SUFFICES ASSUME TimerInv, Next, NEW a \in Alarms, ~slots[a].active, slots'[a].active
               PROVE  slots'[a].lastCond = "true" /\ steady'[a] >= OnDelay[a]
    BY DEF vars
  <2>0. TypeOK
    BY DEF TimerInv
  <2>1. CASE Begin
    BY <2>0, <2>1 DEF Begin, TypeOK, Slot
  <2>2. CASE Commit
    <3>1. a = task.slot
      BY <2>0, <2>2, CommitFacts
    <3> QED BY <2>2, <3>1, CommitTimer
  <2>3. CASE \E x : slots' = ResetSlot(x)
    BY <2>0, <2>3, ResetType
  <2>4. \/ Begin \/ Commit \/ UNCHANGED slots \/ \E x : slots' = ResetSlot(x)
    BY DEF Next, Evaluation, ReadCondition, CmdReset, CmdResetSlot, CmdResetAll, ResetNext, Tick
  <2> QED BY <2>1, <2>2, <2>3, <2>4
<1> QED BY <1>1, TimersHold, PTL DEF Spec, RaisedAfterDelay
=============================================================================
