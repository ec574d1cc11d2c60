--------------------------- MODULE PoolDeviceProofs ---------------------------
(***************************************************************************)
(* Proofs about the actuator layer, for any number of slots, any number of *)
(* calling tasks, any configuration history and any pattern of I/O faults: *)
(* the variables keep their types, and no relay outlives a whole pass of   *)
(* the pooldev task in a state the interlocks forbid.                      *)
(***************************************************************************)
EXTENDS PoolDevice, TLAPS

SlotState == [desiredOn : BOOLEAN, actualOn : BOOLEAN,
              output : BOOLEAN, blockReason : BlockReason]

(* An output that is on is known to be on. *)
Known(s) == s.output => s.actualOn

(* Such a slot, not requested any more. *)
Released(s) == ~s.desiredOn /\ Known(s)

(* One stage keeps the slot's type, what is known of the output, and a     *)
(* release once it has happened.                                           *)
LEMMA HoldOffLemma ==
  ASSUME NEW s \in SlotState, NEW reason \in BlockReason, NEW fail \in BOOLEAN
  PROVE  /\ HoldOff(s, reason, fail) \in SlotState
         /\ Known(s) => Released(HoldOff(s, reason, fail))
BY DEF HoldOff, SwitchOff, SlotState, BlockReason, Known, Released

(* The recovery window releases the slot.                                  *)
LEMMA RecoveryStageLemma ==
  ASSUME NEW s \in SlotState, NEW locked \in BOOLEAN, NEW fails \in SUBSET WritePoints
  PROVE  LET t == RecoveryStage(s, locked, fails) IN
         /\ t \in SlotState
         /\ Known(s) => Known(t)
         /\ Known(s) /\ locked => Released(t)
<1>1. ("recovery" \in fails) \in BOOLEAN
  OBVIOUS
<1>2. "disabled" \in BlockReason
  BY DEF BlockReason
<1> QED
  BY <1>1, <1>2, HoldOffLemma DEF RecoveryStage, Released

(* So does the enable flag, and neither stage takes a release back.        *)
LEMMA EnabledStageLemma ==
  ASSUME NEW s \in SlotState, NEW d \in Definition
  PROVE  LET t == EnabledStage(s, d) IN
         /\ t \in SlotState
         /\ Known(s) => Known(t)
         /\ Released(s) => Released(t)
         /\ Known(s) /\ ~d.enabled => Released(t)
BY DEF EnabledStage, SlotState, BlockReason, Definition, Known, Released

(* The daily limit releases a slot that is enabled.                        *)
LEMMA UptimeStageLemma ==
  ASSUME NEW s \in SlotState, NEW d \in Definition, NEW reached \in BOOLEAN,
         NEW fails \in SUBSET WritePoints
  PROVE  LET t == UptimeStage(s, d, reached, fails) IN
         /\ t \in SlotState
         /\ Known(s) => Known(t)
         /\ Released(s) => Released(t)
         /\ Known(s) /\ d.enabled /\ reached => Released(t)
<1> DEFINE t == UptimeStage(s, d, reached, fails)
<1>1. CASE d.enabled /\ reached
  <2>1. t = HoldOff(s, "max_uptime", "uptime" \in fails)
    BY <1>1 DEF UptimeStage
  <2>2. ("uptime" \in fails) \in BOOLEAN /\ "max_uptime" \in BlockReason
    BY DEF BlockReason
  <2> QED
    BY <2>1, <2>2, HoldOffLemma DEF Released
<1>2. CASE ~(d.enabled /\ reached)
  BY <1>2 DEF UptimeStage, SlotState, BlockReason, Known, Released
<1> QED
  BY <1>1, <1>2

(* The interlock keeps what the stages before it released.                 *)
LEMMA InterlockStageLemma ==
  ASSUME NEW s \in SlotState, NEW deps \in BOOLEAN, NEW fails \in SUBSET WritePoints
  PROVE  LET t == InterlockStage(s, deps, fails) IN
         /\ t \in SlotState
         /\ Known(s) => Known(t)
         /\ Released(s) => Released(t)
BY DEF InterlockStage, SwitchOff, SlotState, BlockReason, Known, Released

(* A slot that was released, or that lacks a dependency, ends its sweep    *)
(* with its relay off or with an I/O error.                                *)
LEMMA DriveStageLemma ==
  ASSUME NEW s \in SlotState, NEW deps \in BOOLEAN, NEW reached \in BOOLEAN,
         NEW fails \in SUBSET WritePoints
  PROVE  LET t == DriveStage(s, deps, reached, fails) IN
         /\ t \in SlotState
         /\ Released(s) /\ t.output => t.blockReason = "io_error"
<1> DEFINE t == DriveStage(s, deps, reached, fails)
<1>1. CASE s.desiredOn /\ ~s.actualOn
  BY <1>1 DEF DriveStage, SwitchOn, SlotState, BlockReason, Known, Released
<1>2. CASE ~s.desiredOn /\ s.actualOn
  BY <1>2 DEF DriveStage, SwitchOff, SlotState, BlockReason, Known, Released
<1>3. CASE s.desiredOn <=> s.actualOn
  BY <1>3 DEF DriveStage, SlotState, Known, Released
<1> QED
  BY <1>1, <1>2, <1>3 DEF SlotState

(* Without its dependency a slot ends off or with an I/O error.            *)
LEMMA NoDependencyLemma ==
  ASSUME NEW s \in SlotState, NEW reached \in BOOLEAN,
         NEW fails \in SUBSET WritePoints, Known(s)
  PROVE  LET u == DriveStage(InterlockStage(s, FALSE, fails), FALSE, reached, fails)
         IN  u.output => u.blockReason = "io_error"
<1> DEFINE t == InterlockStage(s, FALSE, fails)
           u == DriveStage(t, FALSE, reached, fails)
<1>1. t \in SlotState /\ Known(t)
  BY InterlockStageLemma
<1>2. CASE s.actualOn
  <2>1. ~t.desiredOn
    BY <1>2 DEF InterlockStage, SwitchOff, SlotState
  <2> QED
    BY <1>1, <2>1, DriveStageLemma DEF Released
<1>3. CASE ~s.actualOn
  <2>1. t = s
    BY <1>3 DEF InterlockStage
  <2>2. ~u.output
    BY <1>3, <2>1 DEF DriveStage, SlotState, Known
  <2> QED
    BY <2>2
<1> QED
  BY <1>2, <1>3 DEF SlotState

(* What one sweep of one slot promises. *)
LEMMA SweptSlotLemma ==
  ASSUME NEW s \in SlotState, NEW d \in Definition, NEW locked \in BOOLEAN,
         NEW reached \in BOOLEAN, NEW deps \in BOOLEAN,
         NEW fails \in SUBSET WritePoints
  PROVE  LET u == SweptSlot(s, d, locked, reached, deps, fails) IN
         /\ u \in SlotState
         /\ /\ Known(s)
            /\ locked \/ ~d.enabled \/ (d.enabled /\ reached) \/ ~deps
            /\ u.output
            => u.blockReason = "io_error"
<1> DEFINE s1 == RecoveryStage(s, locked, fails)
           s2 == EnabledStage(s1, d)
           s3 == UptimeStage(s2, d, reached, fails)
           s4 == InterlockStage(s3, deps, fails)
           s5 == DriveStage(s4, deps, reached, fails)
<1>1. SweptSlot(s, d, locked, reached, deps, fails) = s5
  BY DEF SweptSlot
<1>2. /\ s1 \in SlotState
      /\ Known(s) => Known(s1)
      /\ Known(s) /\ locked => Released(s1)
  BY RecoveryStageLemma
<1> HIDE DEF s1
<1>3. /\ s2 \in SlotState
      /\ Known(s1) => Known(s2)
      /\ Released(s1) \/ (Known(s1) /\ ~d.enabled) => Released(s2)
  BY <1>2, EnabledStageLemma
<1> HIDE DEF s2
<1>4. /\ s3 \in SlotState
      /\ Known(s2) => Known(s3)
      /\ Released(s2) \/ (Known(s2) /\ d.enabled /\ reached) => Released(s3)
  BY <1>3, UptimeStageLemma
<1> HIDE DEF s3
<1>5. s4 \in SlotState /\ (Released(s3) => Released(s4))
  BY <1>4, InterlockStageLemma
<1>6. ASSUME Known(s3), ~deps, s5.output
      PROVE  s5.blockReason = "io_error"
  <2>1. deps = FALSE
    BY <1>6
  <2> QED
    BY <1>4, <1>6, <2>1, NoDependencyLemma
<1> HIDE DEF s4
<1>7. s5 \in SlotState /\ (Released(s4) /\ s5.output => s5.blockReason = "io_error")
  BY <1>5, DriveStageLemma
<1> QED
  BY <1>1, <1>2, <1>3, <1>4, <1>5, <1>6, <1>7

-----------------------------------------------------------------------------
(* An elapsed time is a natural number, wrapped or not.                    *)
LEMMA ElapsedType ==
  ASSUME NEW a \in Nat, NEW b \in Nat
  PROVE  Elapsed(a, b) \in Nat
BY TimeAssumption DEF Elapsed

(* A sweep goes on with the next slot and ends after the last one.         *)
LEMMA NextSlotLemma ==
  ASSUME NEW k \in Slot
  PROVE  NextSlot(k) \in Slot /\ NextSlot(k) \in {0, k + 1}
                             /\ (NextSlot(k) = 0 => k = N - 1)
BY SlotAssumption DEF NextSlot, Slot

(* Every step keeps the types. *)
LEMMA TypeStep == TypeOK /\ [Next]_vars => TypeOK'
<1> SUFFICES ASSUME TypeOK, [Next]_vars PROVE TypeOK'
  OBVIOUS
<1> USE DEF TypeOK
<1>0. slots \in [Slot -> SlotState]
  BY DEF SlotState
<1>t. SlotState = [desiredOn : BOOLEAN, actualOn : BOOLEAN,
                   output : BOOLEAN, blockReason : BlockReason]
  BY DEF SlotState
<1>m. Millis \in Nat
  BY TimeAssumption DEF Millis
<1>h. ASSUME Observe PROVE held' \in [Breaches -> SUBSET Slot]
  BY <1>h DEF Observe
<1>z. 0 \in Slot
  BY SlotAssumption DEF Slot
<1>b. /\ LockActiveAt(Millis) \in BOOLEAN
      /\ \A i \in Slot : /\ DependenciesSatisfied(i) \in BOOLEAN
                         /\ MaxUptimeReached(i) \in BOOLEAN
  BY DEF LockActiveAt, DependenciesSatisfied, MaxUptimeReached
<1>1. ASSUME NEW p \in Procs, BeginSweep(p), Observe PROVE TypeOK'
  <2>1. tick' \in [Procs -> [ms : Nat, locked : BOOLEAN, slot : Slot,
                             deps : BOOLEAN, on : BOOLEAN]]
    <3>1. [NoTick EXCEPT !.ms = Millis, !.locked = LockActiveAt(Millis)]
            \in [ms : Nat, locked : BOOLEAN, slot : Slot, deps : BOOLEAN, on : BOOLEAN]
      BY <1>m, <1>z, <1>b DEF NoTick
    <3> QED
      BY <1>1, <3>1 DEF BeginSweep
  <2>2. slots' \in [Slot -> SlotState]
    BY <1>1, <1>0 DEF BeginSweep, SlotState, BlockReason
  <2> QED
    BY <1>1, <1>h, <1>t, <1>b, <2>1, <2>2 DEF BeginSweep
<1>2. ASSUME NEW p \in Procs, Look(p), Observe PROVE TypeOK'
  <2> DEFINE k == tick[p].slot
  <2>1. k \in Slot
    OBVIOUS
  <2>2. tick' = [tick EXCEPT ![p] = [tick[p] EXCEPT !.deps = DependenciesSatisfied(k),
                                                    !.on = slots[k].output]]
    BY <1>2 DEF Look
  <2>3. tick' \in [Procs -> [ms : Nat, locked : BOOLEAN, slot : Slot,
                             deps : BOOLEAN, on : BOOLEAN]]
    <3>1. ASSUME NEW b \in BOOLEAN, NEW o \in BOOLEAN
          PROVE  [tick[p] EXCEPT !.deps = b, !.on = o]
                   \in [ms : Nat, locked : BOOLEAN, slot : Slot, deps : BOOLEAN, on : BOOLEAN]
      OBVIOUS
    <3>2. DependenciesSatisfied(k) \in BOOLEAN /\ slots[k].output \in BOOLEAN
      BY <2>1, <1>b
    <3> QED
      BY <2>2, <3>1, <3>2
  <2> QED
    BY <1>2, <1>h, <2>3 DEF Look
<1>3. ASSUME NEW p \in Procs, Act(p), Observe PROVE TypeOK'
  <2> DEFINE i == tick[p].slot
             seen == [slots[i] EXCEPT !.actualOn = tick[p].on]
             last == IF lastTickMs[i] = 0 THEN tick[p].ms ELSE lastTickMs[i]
             delta == Elapsed(last, tick[p].ms)
             swept(fails) == SweptSlot(seen, def[i], tick[p].locked,
                                       MaxUptimeReached(i), tick[p].deps, fails)
  <2>1. i \in Slot /\ seen \in SlotState /\ def[i] \in Definition
    BY <1>0 DEF SlotState
  <2>2. MaxUptimeReached(i) \in BOOLEAN
    BY DEF MaxUptimeReached
  <2>3. PICK fails \in SUBSET WritePoints :
          /\ slots' = [slots EXCEPT ![i] = swept(fails)]
          /\ runningMsDay' = IF swept(fails).actualOn
                             THEN [runningMsDay EXCEPT ![i] = Capped(@ + delta)]
                             ELSE runningMsDay
          /\ failed' = IF p = Loop /\ swept(fails).blockReason = "io_error"
                       THEN failed \union {i} ELSE failed
    BY <1>3 DEF Act
  <2>4. swept(fails) \in SlotState
    BY <2>1, <2>2, SweptSlotLemma
  <2>5. slots' \in [Slot -> SlotState]
    BY <2>1, <2>3, <2>4, <1>0
  <2>6. lastTickMs' \in [Slot -> Nat]
    BY <1>3 DEF Act
  <2>7. delta \in Nat
    BY <2>1, ElapsedType
  <2>8. ASSUME NEW x \in Nat PROVE Capped(x) \in Nat
    BY TimeAssumption DEF Capped
  <2>9. runningMsDay' \in [Slot -> Nat]
    <3> HIDE DEF delta
    <3>1. runningMsDay[i] + delta \in Nat
      BY <2>1, <2>7
    <3> QED
      BY <2>1, <2>3, <2>8, <3>1
  <2>10. NextSlot(i) \in Slot
    BY <2>1, NextSlotLemma
  <2>11. tick' \in [Procs -> [ms : Nat, locked : BOOLEAN, slot : Slot,
                              deps : BOOLEAN, on : BOOLEAN]]
    BY <1>3, <2>10, SlotAssumption DEF Act, NoTick, Slot
  <2> QED
    BY <1>3, <1>h, <1>t, <2>1, <2>3, <2>5, <2>6, <2>9, <2>11 DEF Act
<1>4. ASSUME NEW p \in Procs, CommitWrite(p), Observe PROVE TypeOK'
  <2>1. slots' \in [Slot -> SlotState]
    <3>1. PICK asked \in SlotState, on \in BOOLEAN, fail \in BOOLEAN :
            slots' = [slots EXCEPT ![call[p].slot] =
                        IF asked.actualOn = on THEN asked
                        ELSE IF on THEN SwitchOn(asked, fail)
                        ELSE SwitchOff(asked, "none", fail)]
      <4> DEFINE a == [slots[call[p].slot] EXCEPT
                         !.desiredOn = call[p].on,
                         !.blockReason = IF ~call[p].on /\ ~call[p].reached
                                         THEN "none" ELSE @]
      <4>1. a \in SlotState
        <5>1. ASSUME NEW x \in SlotState, NEW b \in BOOLEAN, NEW r \in BlockReason
              PROVE  [x EXCEPT !.desiredOn = b, !.blockReason = r] \in SlotState
          BY DEF SlotState
        <5>2. /\ slots[call[p].slot] \in SlotState
              /\ slots[call[p].slot].blockReason \in BlockReason
          BY <1>0
        <5>3. "none" \in BlockReason
          BY DEF BlockReason
        <5>4. CASE ~call[p].on /\ ~call[p].reached
          BY <5>1, <5>2, <5>3, <5>4
        <5>5. CASE ~(~call[p].on /\ ~call[p].reached)
          BY <5>1, <5>2, <5>5
        <5> QED
          BY <5>4, <5>5
      <4> QED
        BY <1>4, <4>1 DEF CommitWrite
    <3>2. SwitchOn(asked, fail) \in SlotState /\ SwitchOff(asked, "none", fail) \in SlotState
      BY DEF SwitchOn, SwitchOff, SlotState, BlockReason
    <3> QED
      BY <1>0, <3>1, <3>2
  <2>2. call' \in [Procs -> [slot : Slot, on : BOOLEAN, reached : BOOLEAN]]
    BY <1>4, SlotAssumption DEF CommitWrite, NoCall, Slot
  <2> QED
    BY <1>4, <1>h, <1>t, <2>1, <2>2 DEF CommitWrite
<1>5. ASSUME NEW p \in Clients, NEW i \in Slot, NEW on \in BOOLEAN,
             CheckWrite(p, i, on), Observe PROVE TypeOK'
  <2>1. ASSUME NEW reason \in BlockReason, Refuse(p, i, reason)
        PROVE  slots' \in [Slot -> SlotState]
    BY <2>1, <1>0 DEF Refuse, SlotState
  <2>2. slots' \in [Slot -> SlotState]
    BY <1>5, <1>0, <2>1 DEF CheckWrite, BlockReason
  <2>3. /\ pc' \in [Procs -> {"idle", "begin", "look", "act", "commit"}]
        /\ call' \in [Procs -> [slot : Slot, on : BOOLEAN, reached : BOOLEAN]]
    <3> DEFINE c == [slot |-> i, on |-> on, reached |-> MaxUptimeReached(i)]
    <3>1. MaxUptimeReached(i) \in BOOLEAN
      BY <1>b
    <3>2. c \in [slot : Slot, on : BOOLEAN, reached : BOOLEAN]
      BY <3>1
    <3>3. \/ pc' = pc /\ call' = call
          \/ /\ pc' = [pc EXCEPT ![p] = "commit"]
             /\ call' = [call EXCEPT ![p] = c]
      BY <1>5 DEF CheckWrite, Refuse
    <3> HIDE DEF c
    <3>4. p \in Procs
      BY DEF Procs
    <3>5. CASE pc' = pc /\ call' = call
      BY <3>5
    <3>6. CASE /\ pc' = [pc EXCEPT ![p] = "commit"]
               /\ call' = [call EXCEPT ![p] = c]
      BY <3>2, <3>4, <3>6
    <3> QED
      BY <3>3, <3>5, <3>6
  <2> QED
    BY <1>5, <1>h, <1>t, <2>2, <2>3 DEF CheckWrite
<1>6. ASSUME NEW p \in Clients, NEW chosen, ResetUptime(p, chosen), Observe
      PROVE  TypeOK'
  <2>1. slots' \in [Slot -> SlotState]
    BY <1>6, <1>0 DEF ResetUptime, SlotState, BlockReason
  <2> QED
    BY <1>6, <1>h, <1>t, <2>1 DEF ResetUptime
<1>7. ASSUME NEW p \in Clients, RefillTank(p), Observe PROVE TypeOK'
  BY <1>7, <1>h DEF RefillTank
<1>8. ASSUME NEW i \in Slot, Configure(i), Observe PROVE TypeOK'
  BY <1>8, <1>h, DefsAssumption DEF Configure
<1>9. ASSUME DayStart \/ Clock, Observe PROVE TypeOK'
  <2>1. CASE DayStart
    BY <1>9, <1>h, <2>1 DEF DayStart
  <2>2. CASE Clock
    BY <1>9, <1>h, <2>2 DEF Clock
  <2> QED
    BY <1>9, <2>1, <2>2
<1>10. CASE UNCHANGED vars
  BY <1>10 DEF vars
<1> QED
  BY <1>1, <1>2, <1>3, <1>4, <1>5, <1>6, <1>7, <1>8, <1>9, <1>10
     DEF Next, Sweep, Request, Environment

(* The variables start with their types.                                   *)
LEMMA TypeInit == Init => TypeOK
<1> SUFFICES ASSUME Init PROVE TypeOK
  OBVIOUS
<1>1. def \in [Slot -> Definition]
  BY DefsAssumption DEF Init
<1>2. Millis \in Nat
  BY TimeAssumption DEF Init, Millis
<1>3. 0 \in Slot
  BY SlotAssumption DEF Slot
<1> QED
  BY <1>1, <1>2, <1>3 DEF Init, TypeOK, BlockReason, NoTick, NoCall

(* The variables of the actuator layer always have their types. *)
THEOREM TypeCorrect == Spec => []TypeOK
<1>1. Init => TypeOK
  BY TypeInit
<1>2. TypeOK /\ [Next]_vars => TypeOK'
  BY TypeStep
<1> QED
  BY <1>1, <1>2, PTL DEF Spec

-----------------------------------------------------------------------------
(* The inductive invariant: where the loop is in its pass, and what that   *)
(* says of the slots held in a breach since the pass began.                *)
Sweeping == pc[Loop] \in {"look", "act"}

HeldSlotsBreach ==
  \A r \in Breaches : \A i \in held[r] : Breach(r, i)

HeldSlotsAreReported ==
  \A r \in Breaches : \A i \in held[r] :
    (Sweeping => i >= tick[Loop].slot) \/ i \in failed

LockIsKnown ==
  Sweeping /\ held["recovery"] # {} => tick[Loop].locked

LookIsCurrent ==
  pc[Loop] = "act" =>
    \A r \in Breaches : tick[Loop].slot \in held[r] =>
      /\ tick[Loop].on
      /\ r = "interlock" => ~tick[Loop].deps

PassInv ==
  /\ pc[Loop] \in {"idle", "look", "act"}
  /\ HeldSlotsBreach
  /\ NoBreachOutlivesAPass
  /\ HeldSlotsAreReported
  /\ LockIsKnown
  /\ LookIsCurrent

(* A step that leaves the loop where it is can only end breaches. *)
LEMMA ElsewhereStep ==
  ASSUME TypeOK, PassInv, Observe, pc'[Loop] = pc[Loop],
         tick'[Loop] = tick[Loop], failed' = failed
  PROVE  PassInv'
<1>1. ~LoopPassBegins
  BY DEF LoopPassBegins
<1>2. \A r \in Breaches : held'[r] \subseteq held[r]
  BY <1>1 DEF Observe
<1>3. HeldSlotsBreach'
  BY DEF Observe, HeldSlotsBreach
<1>4. NoBreachOutlivesAPass'
  BY <1>2 DEF PassInv, NoBreachOutlivesAPass
<1>5. HeldSlotsAreReported'
  BY <1>2 DEF PassInv, HeldSlotsAreReported, Sweeping
<1>6. LockIsKnown'
  BY <1>2 DEF PassInv, LockIsKnown, Sweeping, Breaches
<1>7. LookIsCurrent'
  BY <1>2 DEF PassInv, LookIsCurrent
<1> QED
  BY <1>3, <1>4, <1>5, <1>6, <1>7 DEF PassInv

(* A new pass owes nothing yet.                                            *)
LEMMA BeginStep ==
  ASSUME TypeOK, PassInv, Observe, BeginSweep(Loop)
  PROVE  PassInv'
<1>1. /\ pc'[Loop] = "look"
      /\ tick'[Loop].slot = 0
      /\ tick'[Loop].locked = LockActiveAt(Millis)
  BY DEF BeginSweep, TypeOK, Procs, NoTick
<1>2. HeldSlotsBreach'
  BY DEF Observe, HeldSlotsBreach
<1>3. \A r \in Breaches : held'[r] \subseteq Slot
  BY DEF Observe
<1>4. HeldSlotsAreReported'
  BY <1>1, <1>3 DEF HeldSlotsAreReported, Sweeping, Slot
<1>5. LockIsKnown'
  <2>1. ASSUME NEW i \in held'["recovery"] PROVE LockActiveAt(Millis)
    <3>1. LockActiveAt(Millis)'
      BY <1>2 DEF HeldSlotsBreach, Breach, Breaches
    <3> QED
      BY <3>1 DEF BeginSweep, LockActiveAt, Millis
  <2> QED
    BY <1>1, <2>1 DEF LockIsKnown
<1> QED
  BY <1>1, <1>2, <1>4, <1>5 DEF PassInv, NoBreachOutlivesAPass, LookIsCurrent

(* What the pass sees of a slot is what the slot is.                       *)
LEMMA LookStep ==
  ASSUME TypeOK, PassInv, Observe, Look(Loop)
  PROVE  PassInv'
<1> DEFINE k == tick[Loop].slot
<1>0. Loop \in Procs
  BY DEF Procs
<1>1. /\ pc[Loop] = "look" /\ pc'[Loop] = "act"
      /\ tick'[Loop].slot = k
      /\ tick'[Loop].locked = tick[Loop].locked
      /\ tick'[Loop].on = slots[k].output
      /\ tick'[Loop].deps = DependenciesSatisfied(k)
      /\ slots' = slots /\ def' = def
      /\ failed' = failed
  BY <1>0 DEF Look, TypeOK
<1>2. \A r \in Breaches : held'[r] \subseteq held[r]
  BY <1>1 DEF Observe, LoopPassBegins
<1>3. HeldSlotsBreach'
  BY DEF Observe, HeldSlotsBreach
<1>4. HeldSlotsAreReported'
  BY <1>1, <1>2 DEF PassInv, HeldSlotsAreReported, Sweeping
<1>5. LockIsKnown'
  BY <1>1, <1>2 DEF PassInv, LockIsKnown, Sweeping, Breaches
<1>6. LookIsCurrent'
  <2> SUFFICES ASSUME NEW r \in Breaches, k \in held[r]
               PROVE  /\ slots[k].output
                      /\ r = "interlock" => ~DependenciesSatisfied(k)
    BY <1>1, <1>2 DEF LookIsCurrent
  <2> QED
    BY DEF PassInv, HeldSlotsBreach, Breach
<1> QED
  BY <1>1, <1>3, <1>4, <1>5, <1>6 DEF PassInv, NoBreachOutlivesAPass

(* The heart of the matter: the sweep of a slot held in a breach ends with *)
(* its relay off, or reports the I/O error.                                *)
LEMMA ActStep ==
  ASSUME TypeOK, PassInv, Observe, Act(Loop)
  PROVE  PassInv'
<1> DEFINE k == tick[Loop].slot
           seen == [slots[k] EXCEPT !.actualOn = tick[Loop].on]
           swept(fails) == SweptSlot(seen, def[k], tick[Loop].locked,
                                     MaxUptimeReached(k), tick[Loop].deps, fails)
<1>0. Loop \in Procs /\ k \in Slot /\ pc[Loop] = "act"
  BY DEF Procs, TypeOK, Act
<1>1. \A r \in Breaches : held'[r] \subseteq held[r]
  BY <1>0 DEF Observe, LoopPassBegins
<1>2. HeldSlotsBreach'
  BY DEF Observe, HeldSlotsBreach
<1>3. PICK fails \in SUBSET WritePoints :
        /\ slots' = [slots EXCEPT ![k] = swept(fails)]
        /\ failed' = IF swept(fails).blockReason = "io_error"
                     THEN failed \union {k} ELSE failed
  BY DEF Act
<1>4. ASSUME NEW r \in Breaches, k \in held'[r]
      PROVE  k \in failed'
  <2>1. k \in held[r] /\ Breach(r, k)
    BY <1>1, <1>4 DEF PassInv, HeldSlotsBreach
  <2>2. slots'[k].output
    BY <1>2, <1>4 DEF HeldSlotsBreach, Breach
  <2>3. swept(fails).output
    BY <1>0, <1>3, <2>2 DEF TypeOK
  <2>4. /\ seen \in SlotState
        /\ def[k] \in Definition
        /\ MaxUptimeReached(k) \in BOOLEAN
        /\ tick[Loop].locked \in BOOLEAN
        /\ tick[Loop].deps \in BOOLEAN
    BY <1>0 DEF TypeOK, SlotState, MaxUptimeReached
  <2>5. Known(seen)
    BY <1>0, <2>1 DEF PassInv, LookIsCurrent, Known, TypeOK
  <2>6. \/ tick[Loop].locked
        \/ ~def[k].enabled
        \/ def[k].enabled /\ MaxUptimeReached(k)
        \/ ~tick[Loop].deps
    <3>1. CASE r = "recovery"
      BY <1>0, <2>1, <3>1 DEF PassInv, LockIsKnown, Sweeping
    <3>2. CASE r = "interlock"
      BY <1>0, <2>1, <3>2 DEF PassInv, LookIsCurrent
    <3>3. CASE r \in {"disabled", "max_uptime"}
      BY <2>1, <3>3 DEF Breach
    <3> QED
      BY <3>1, <3>2, <3>3 DEF Breaches
  <2>7. swept(fails).blockReason = "io_error"
    BY <2>3, <2>4, <2>5, <2>6, SweptSlotLemma
  <2> QED
    BY <1>3, <2>7
<1>5. failed \subseteq failed'
  BY <1>3
<1>6. ASSUME NEW r \in Breaches, NEW i \in held'[r], i <= k
      PROVE  i \in failed'
  <2>1. CASE i = k
    BY <1>4, <1>6, <2>1
  <2>2. CASE i < k
    <3>1. i \in held[r] /\ i \in Slot
      BY <1>1, <1>6 DEF TypeOK
    <3>2. ~(i >= k)
      BY <1>0, <2>2, <3>1 DEF Slot
    <3>3. i \in failed
      BY <1>0, <3>1, <3>2 DEF PassInv, HeldSlotsAreReported, Sweeping
    <3> QED
      BY <1>5, <3>3
  <2>3. i \in Slot
    BY <1>1, <1>6 DEF TypeOK
  <2> QED
    BY <1>0, <1>6, <2>1, <2>2, <2>3 DEF Slot
<1>7. CASE NextSlot(k) = 0
  <2>1. pc'[Loop] = "idle"
    BY <1>0, <1>7 DEF Act, TypeOK
  <2>2. k = N - 1
    BY <1>0, <1>7, NextSlotLemma
  <2>3. ASSUME NEW r \in Breaches, NEW i \in held'[r] PROVE i \in failed'
    <3>1. i \in Slot
      BY <1>1, <2>3 DEF TypeOK
    <3>2. i <= k
      BY <2>2, <3>1, SlotAssumption DEF Slot
    <3> QED
      BY <1>6, <2>3, <3>2
  <2> QED
    BY <1>2, <2>1, <2>3 DEF PassInv, NoBreachOutlivesAPass, HeldSlotsAreReported,
                            LockIsKnown, LookIsCurrent, Sweeping
<1>8. CASE NextSlot(k) # 0
  <2>1. /\ pc'[Loop] = "look"
        /\ tick'[Loop].slot = k + 1
        /\ tick'[Loop].locked = tick[Loop].locked
    BY <1>0, <1>8, NextSlotLemma DEF Act, TypeOK, NoTick
  <2>2. HeldSlotsAreReported'
    <3> SUFFICES ASSUME NEW r \in Breaches, NEW i \in held'[r]
                 PROVE  i >= k + 1 \/ i \in failed'
      BY <2>1 DEF HeldSlotsAreReported
    <3>1. i \in Slot
      BY <1>1 DEF TypeOK
    <3> QED
      BY <1>0, <1>6, <3>1 DEF Slot
  <2>3. LockIsKnown'
    BY <1>0, <1>1, <2>1 DEF PassInv, LockIsKnown, Sweeping, Breaches
  <2> QED
    BY <1>2, <2>1, <2>2, <2>3 DEF PassInv, NoBreachOutlivesAPass, LookIsCurrent
<1> QED
  BY <1>7, <1>8

(* Every step keeps what the pass has established.                         *)
LEMMA PassStep == TypeOK /\ PassInv /\ [Next]_vars => PassInv'
<1> SUFFICES ASSUME TypeOK, PassInv, [Next]_vars PROVE PassInv'
  OBVIOUS
<1>0. Loop \in Procs /\ Loop \notin Clients
  BY TaskAssumption DEF Procs
<1>1. CASE UNCHANGED vars
  <2>1. HeldSlotsBreach'
    BY <1>1 DEF vars, PassInv, HeldSlotsBreach, Breach, LockActiveAt, Millis,
                DependenciesSatisfied, MaxUptimeReached
  <2> QED
    BY <1>1, <2>1 DEF vars, PassInv, NoBreachOutlivesAPass, HeldSlotsAreReported,
                      LockIsKnown, LookIsCurrent, Sweeping
<1>2. CASE Next
  <2>0. Observe
    BY <1>2 DEF Next
  <2>1. CASE Sweep(Loop) \/ CommitWrite(Loop)
    BY <2>0, <2>1, BeginStep, LookStep, ActStep DEF Sweep, CommitWrite, PassInv
  <2>2. ASSUME NEW p \in Clients, Sweep(p) \/ CommitWrite(p) PROVE PassInv'
    <3>1. p # Loop /\ p \in Procs
      BY <1>0 DEF Procs
    <3>2. pc'[Loop] = pc[Loop] /\ tick'[Loop] = tick[Loop] /\ failed' = failed
      BY <1>0, <2>2, <3>1 DEF TypeOK, Sweep, BeginSweep, Look, Act, CommitWrite
    <3> QED
      BY <2>0, <3>2, ElsewhereStep
  <2>3. ASSUME NEW p \in Clients, Request(p) PROVE PassInv'
    <3>1. p # Loop /\ p \in Procs
      BY <1>0 DEF Procs
    <3>2. pc'[Loop] = pc[Loop] /\ tick'[Loop] = tick[Loop] /\ failed' = failed
      BY <1>0, <2>3, <3>1 DEF TypeOK, Request, CheckWrite, Refuse, ResetUptime, RefillTank
    <3> QED
      BY <2>0, <3>2, ElsewhereStep
  <2>4. CASE Environment
    <3>1. pc'[Loop] = pc[Loop] /\ tick'[Loop] = tick[Loop] /\ failed' = failed
      BY <2>4 DEF Environment, DayStart, Clock, Configure
    <3> QED
      BY <2>0, <3>1, ElsewhereStep
  <2> QED
    BY <1>2, <2>1, <2>2, <2>3, <2>4 DEF Next, Procs
<1> QED
  BY <1>1, <1>2

(* No relay stays on through a whole pass of the pooldev task under the    *)
(* recovery lock, while disabled, without a dependency or past its daily   *)
(* limit, unless that pass reported an I/O error for it.                   *)
THEOREM NoBreachSurvives == Spec => []NoBreachOutlivesAPass
<1>1. Init => PassInv
  BY DEF Init, PassInv, HeldSlotsBreach, NoBreachOutlivesAPass, HeldSlotsAreReported,
         LockIsKnown, LookIsCurrent, Sweeping, Procs, Breaches
<1>2. TypeOK /\ PassInv /\ [Next]_vars => PassInv'
  BY PassStep
<1>3. PassInv => NoBreachOutlivesAPass
  BY DEF PassInv
<1> QED
  BY <1>1, <1>2, <1>3, TypeCorrect, PTL DEF Spec

-----------------------------------------------------------------------------
(* The recovery lock.  The invariant is that nothing is requested while it *)
(* holds; a relay that is off and not requested stays off.                 *)
LockInv ==
  LockActiveAt(Millis) =>
    /\ \A i \in Slot : ~slots[i].desiredOn /\ ~slots[i].output
    /\ \A p \in Procs : pc[p] = "commit" => ~call[p].on

(* For half a turn of millis() the lock only ever ends.                    *)
HalfATurn == 2 * MaxNow <= Wrap /\ 2 * RecoveryEnd < Wrap

(* The two cases of an unsigned difference.                                *)
LEMMA Wrapped ==
  ASSUME NEW W \in Nat \ {0}, NEW x \in Int
  PROVE  /\ 0 <= x /\ x < W => x % W = x
         /\ -W <= x /\ x < 0 => x % W = x + W
OBVIOUS

(* Until then the lock holds up to its deadline and not after.             *)
LEMMA LockUntilDeadline ==
  ASSUME HalfATurn, NEW t \in Nat, t <= MaxNow
  PROVE  LockActiveAt(t % Wrap) <=> t < RecoveryEnd
<1>1. /\ Wrap \in Nat \ {0} /\ RecoveryEnd \in Nat /\ MaxNow \in Nat
      /\ 2 * t <= Wrap /\ 2 * RecoveryEnd < Wrap
  BY TimeAssumption DEF HalfATurn
<1>2. t % Wrap = t
  BY <1>1, Wrapped
<1>3. RecoveryEnd % Wrap = RecoveryEnd
  BY <1>1, Wrapped
<1>4. LockActiveAt(t % Wrap) <=> RecoveryEnd # 0 /\ IsPositive((RecoveryEnd - t) % Wrap)
  BY <1>2, <1>3 DEF LockActiveAt, Elapsed
<1>5. CASE t < RecoveryEnd
  <2>1. (RecoveryEnd - t) % Wrap = RecoveryEnd - t
    <3>1. 0 <= RecoveryEnd - t /\ RecoveryEnd - t < Wrap /\ RecoveryEnd - t \in Int
      BY <1>1, <1>5
    <3> QED BY <1>1, <3>1, Wrapped
  <2> QED BY <1>1, <1>4, <1>5, <2>1 DEF IsPositive
<1>6. CASE t = RecoveryEnd
  <2>1. (RecoveryEnd - t) % Wrap = 0
    BY <1>1, <1>6, Wrapped
  <2> QED BY <1>4, <1>6, <2>1 DEF IsPositive
<1>7. CASE t > RecoveryEnd
  <2>1. (RecoveryEnd - t) % Wrap = RecoveryEnd - t + Wrap
    <3>1. -Wrap <= RecoveryEnd - t /\ RecoveryEnd - t < 0 /\ RecoveryEnd - t \in Int
      BY <1>1, <1>7
    <3> QED BY <1>1, <3>1, Wrapped
  <2>2. ~(2 * (RecoveryEnd - t + Wrap) < Wrap)
    BY <1>1, <1>7
  <2> QED BY <1>1, <1>4, <1>7, <2>1, <2>2 DEF IsPositive
<1> QED
  BY <1>1, <1>5, <1>6, <1>7

(* A slot that is off and not requested stays so through its sweep.        *)
LEMMA SweepStaysOff ==
  ASSUME NEW s \in SlotState, NEW d \in Definition, NEW locked \in BOOLEAN,
         NEW reached \in BOOLEAN, NEW deps \in BOOLEAN,
         NEW fails \in SUBSET WritePoints, ~s.desiredOn, ~s.output
  PROVE  LET u == SweptSlot(s, d, locked, reached, deps, fails) IN ~u.desiredOn /\ ~u.output
<1> DEFINE Off(x) == x \in SlotState /\ ~x.desiredOn /\ ~x.output
           s1 == RecoveryStage(s, locked, fails)
           s2 == EnabledStage(s1, d)
           s3 == UptimeStage(s2, d, reached, fails)
           s4 == InterlockStage(s3, deps, fails)
           s5 == DriveStage(s4, deps, reached, fails)
<1>1. ASSUME NEW x \in SlotState, Off(x), NEW reason \in BlockReason, NEW fail \in BOOLEAN
      PROVE  Off(HoldOff(x, reason, fail))
  BY <1>1 DEF HoldOff, SwitchOff, SlotState, BlockReason
<1>2. Off(s1)
  <2>1. ("recovery" \in fails) \in BOOLEAN /\ "disabled" \in BlockReason
    BY DEF BlockReason
  <2>2. Off(s)
    OBVIOUS
  <2> HIDE DEF Off
  <2> QED BY <1>1, <2>1, <2>2 DEF RecoveryStage
<1> HIDE DEF s1
<1>3. Off(s2)
  BY <1>2 DEF EnabledStage, SlotState, BlockReason
<1> HIDE DEF s2
<1>4. Off(s3)
  <2>1. CASE d.enabled /\ reached
    <3>1. s3 = HoldOff(s2, "max_uptime", "uptime" \in fails)
      BY <2>1 DEF UptimeStage
    <3>2. ("uptime" \in fails) \in BOOLEAN /\ "max_uptime" \in BlockReason
      BY DEF BlockReason
    <3> QED BY <1>1, <1>3, <3>1, <3>2
  <2>2. CASE ~(d.enabled /\ reached)
    BY <1>3, <2>2 DEF UptimeStage, SlotState, BlockReason
  <2> QED BY <2>1, <2>2
<1> HIDE DEF s3
<1>5. Off(s4)
  BY <1>4 DEF InterlockStage, SwitchOff, SlotState, BlockReason
<1> HIDE DEF s4
<1>6. Off(s5)
  BY <1>5 DEF DriveStage, SwitchOff, SlotState, BlockReason
<1> QED
  BY <1>6 DEF SweptSlot, s1, s2, s3, s4

(* A step that leaves time and the calls alone and keeps every slot off.   *)
LEMMA QuietStep ==
  ASSUME LockInv, now' = now,
         \A p \in Procs : pc'[p] = "commit" => pc[p] = "commit" /\ call'[p] = call[p],
         \A i \in Slot : ~slots[i].desiredOn /\ ~slots[i].output
                           => ~slots'[i].desiredOn /\ ~slots'[i].output
  PROVE  LockInv'
<1>1. LockActiveAt(Millis)' <=> LockActiveAt(Millis)
  BY DEF LockActiveAt, Millis
<1> QED
  BY <1>1 DEF LockInv

(* Every step keeps a locked controller without a request and off.         *)
LEMMA LockStep ==
  ASSUME HalfATurn, TypeOK, now <= MaxNow, LockInv, [Next]_vars
  PROVE  LockInv' /\ (now <= MaxNow)'
<1> USE DEF TypeOK
<1>0. slots \in [Slot -> SlotState]
  BY DEF SlotState
<1>1. ASSUME NEW p \in Procs, BeginSweep(p) PROVE LockInv' /\ now' = now
  <2>1. \A i \in Slot : slots'[i].desiredOn = slots[i].desiredOn /\ slots'[i].output = slots[i].output
    BY <1>1 DEF BeginSweep
  <2>2. \A q \in Procs : pc'[q] = "commit" => pc[q] = "commit" /\ call'[q] = call[q]
    BY <1>1 DEF BeginSweep
  <2>3. now' = now BY <1>1 DEF BeginSweep
  <2> QED BY <2>1, <2>2, <2>3, QuietStep
<1>2. ASSUME NEW p \in Procs, Look(p) PROVE LockInv' /\ now' = now
  BY <1>2, QuietStep DEF Look
<1>3. ASSUME NEW p \in Procs, Act(p) PROVE LockInv' /\ now' = now
  <2> DEFINE i == tick[p].slot
             seen == [slots[i] EXCEPT !.actualOn = tick[p].on]
             swept(fails) == SweptSlot(seen, def[i], tick[p].locked,
                                       MaxUptimeReached(i), tick[p].deps, fails)
  <2>1. PICK fails \in SUBSET WritePoints : slots' = [slots EXCEPT ![i] = swept(fails)]
    BY <1>3 DEF Act
  <2>2. /\ i \in Slot /\ seen \in SlotState /\ def[i] \in Definition
        /\ MaxUptimeReached(i) \in BOOLEAN
        /\ tick[p].locked \in BOOLEAN /\ tick[p].deps \in BOOLEAN
        /\ seen.desiredOn = slots[i].desiredOn /\ seen.output = slots[i].output
    BY <1>0 DEF SlotState, MaxUptimeReached
  <2>3. ~slots[i].desiredOn /\ ~slots[i].output
          => ~swept(fails).desiredOn /\ ~swept(fails).output
    BY <2>2, SweepStaysOff
  <2> HIDE DEF swept
  <2>4. \A j \in Slot : ~slots[j].desiredOn /\ ~slots[j].output
                          => ~slots'[j].desiredOn /\ ~slots'[j].output
    BY <2>1, <2>2, <2>3
  <2>5. \A q \in Procs : pc'[q] = "commit" => pc[q] = "commit" /\ call'[q] = call[q]
    BY <1>3 DEF Act
  <2>6. now' = now BY <1>3 DEF Act
  <2> QED BY <2>4, <2>5, <2>6, QuietStep
<1>4. ASSUME NEW p \in Procs, CommitWrite(p) PROVE LockInv' /\ now' = now
  <2> DEFINE i == call[p].slot
  <2>1. /\ now' = now /\ pc[p] = "commit"
        /\ \A q \in Procs : pc'[q] = "commit" => pc[q] = "commit" /\ call'[q] = call[q]
    BY <1>4 DEF CommitWrite
  <2>2. ASSUME LockActiveAt(Millis)
        PROVE  \A j \in Slot : ~slots'[j].desiredOn /\ ~slots'[j].output
    <3>1. call[p].on = FALSE BY <2>1, <2>2 DEF LockInv
    <3>2. ~slots[i].output BY <2>2 DEF LockInv
    <3>3. PICK reason \in BlockReason, fail \in BOOLEAN :
            LET asked == [slots[i] EXCEPT !.desiredOn = FALSE, !.blockReason = reason]
            IN  slots' = [slots EXCEPT ![i] = IF asked.actualOn = FALSE THEN asked
                                              ELSE SwitchOff(asked, "none", fail)]
      <4>1. PICK reason \in BlockReason :
              reason = IF ~call[p].on /\ ~call[p].reached THEN "none" ELSE slots[i].blockReason
        BY <1>0 DEF SlotState, BlockReason
      <4> QED BY <1>4, <3>1, <4>1 DEF CommitWrite
    <3>4. ~slots'[i].desiredOn /\ ~slots'[i].output
      BY <1>0, <3>2, <3>3 DEF SwitchOff, SlotState
    <3>5. \A j \in Slot \ {i} : slots'[j] = slots[j]
      BY <1>0, <3>3
    <3> QED BY <2>2, <3>4, <3>5 DEF LockInv
  <2>3. LockActiveAt(Millis)' <=> LockActiveAt(Millis)
    BY <2>1 DEF LockActiveAt, Millis
  <2> QED BY <2>1, <2>2, <2>3 DEF LockInv
<1>5. ASSUME NEW p \in Clients, NEW i \in Slot, NEW on \in BOOLEAN, CheckWrite(p, i, on)
      PROVE  LockInv' /\ now' = now
  <2>1. now' = now /\ p \in Procs BY <1>5 DEF CheckWrite, Procs
  <2>2. LockActiveAt(Millis)' <=> LockActiveAt(Millis)
    BY <2>1 DEF LockActiveAt, Millis
  <2>3. CASE on /\ LockActiveAt(Millis)
    <3>1. Refuse(p, i, "disabled") BY <1>5, <2>3 DEF CheckWrite
    <3>2. \A j \in Slot : ~slots[j].desiredOn /\ ~slots[j].output
                            => ~slots'[j].desiredOn /\ ~slots'[j].output
      BY <1>0, <3>1 DEF Refuse, SlotState
    <3> QED BY <2>1, <3>1, <3>2, QuietStep DEF Refuse
  <2>4. CASE ~on
    <3>1. /\ slots' = slots
          /\ \A q \in Procs : pc'[q] = "commit" => (pc[q] = "commit" /\ call'[q] = call[q]) \/ ~call'[q].on
      BY <1>5, <2>1, <2>4 DEF CheckWrite
    <3> QED BY <2>1, <2>2, <3>1 DEF LockInv
  <2>5. CASE ~LockActiveAt(Millis)
    BY <2>1, <2>2, <2>5 DEF LockInv
  <2> QED BY <2>3, <2>4, <2>5
<1>6. ASSUME NEW p \in Clients, NEW chosen, ResetUptime(p, chosen) PROVE LockInv' /\ now' = now
  <2>1. \A i \in Slot : slots'[i].desiredOn = slots[i].desiredOn /\ slots'[i].output = slots[i].output
    BY <1>6 DEF ResetUptime
  <2>2. \A q \in Procs : pc'[q] = "commit" => pc[q] = "commit" /\ call'[q] = call[q]
    BY <1>6 DEF ResetUptime
  <2>3. now' = now BY <1>6 DEF ResetUptime
  <2> QED BY <2>1, <2>2, <2>3, QuietStep
<1>7. ASSUME NEW p \in Clients, RefillTank(p) PROVE LockInv' /\ now' = now
  BY <1>7, QuietStep DEF RefillTank
<1>8. CASE DayStart \/ \E i \in Slot : Configure(i)
  BY <1>8, QuietStep DEF DayStart, Configure
<1>9. CASE Clock
  <2>1. /\ now < MaxNow /\ now' = now + 1 /\ slots' = slots /\ pc' = pc /\ call' = call
        /\ now \in Nat /\ MaxNow \in Nat /\ RecoveryEnd \in Nat
    BY <1>9, TimeAssumption DEF Clock
  <2>2. now' \in Nat /\ now' <= MaxNow BY <2>1
  <2>3. LockActiveAt(Millis) <=> now < RecoveryEnd
    BY LockUntilDeadline DEF Millis
  <2>4. LockActiveAt(Millis)' <=> now' < RecoveryEnd
    <3>1. LockActiveAt(now' % Wrap) <=> now' < RecoveryEnd
      BY <2>2, LockUntilDeadline
    <3> QED BY <3>1 DEF LockActiveAt, Millis
  <2>5. LockActiveAt(Millis)' => LockActiveAt(Millis)
    BY <2>1, <2>3, <2>4
  <2> QED BY <2>1, <2>2, <2>5 DEF LockInv
<1>10. CASE UNCHANGED vars
  BY <1>10, QuietStep DEF vars
<1> QED
  <2>1. \/ \E p \in Procs : BeginSweep(p) \/ Look(p) \/ Act(p) \/ CommitWrite(p)
        \/ \E p \in Clients : \/ \E i \in Slot, on \in BOOLEAN : CheckWrite(p, i, on)
                              \/ \E chosen : ResetUptime(p, chosen)
                              \/ RefillTank(p)
        \/ DayStart \/ \E i \in Slot : Configure(i)
        \/ Clock
        \/ UNCHANGED vars
    BY DEF Next, Sweep, Request, Environment
  <2>2. CASE Clock
    BY <1>9, <2>2, TimeAssumption DEF Clock
  <2>3. CASE DayStart \/ \E i \in Slot : Configure(i)
    BY <1>8, <2>3 DEF DayStart, Configure
  <2>4. CASE UNCHANGED vars
    BY <1>10, <2>4 DEF vars
  <2> QED
    BY <1>1, <1>2, <1>3, <1>4, <1>5, <1>6, <1>7, <2>1, <2>2, <2>3, <2>4

(* While the physical recovery window is open no relay is on, whatever is  *)
(* called, configured or swept; assumed is that the window and the time    *)
(* explored lie within half a turn of millis(), after which the signed     *)
(* comparison of the deadline turns round.                                 *)
THEOREM RecoveryKeepsOff ==
  ASSUME HalfATurn, MaxNow # 0
  PROVE  Spec => []LockKeepsOutputsOff
<1>1. Init => LockInv /\ now <= MaxNow
  BY TimeAssumption DEF Init, LockInv
<1>2. TypeOK /\ LockInv /\ now <= MaxNow /\ [Next]_vars => LockInv' /\ (now <= MaxNow)'
  BY LockStep
<1>3. LockInv => LockKeepsOutputsOff
  BY DEF LockInv, LockKeepsOutputsOff
<1> QED
  BY <1>1, <1>2, <1>3, TypeCorrect, PTL DEF Spec
=============================================================================
