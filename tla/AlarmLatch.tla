----------------------------- MODULE AlarmLatch -----------------------------
(***************************************************************************)
(* What the alarm engine promises its readers (PoolLogic, the panel, MQTT) *)
(* without its timers: an alarm may only become active on an evaluation    *)
(* that found its condition true, a latched alarm leaves the active state  *)
(* only by a reset, and only after its condition was last found false; an  *)
(* unknown condition moves nothing.                                        *)
(***************************************************************************)
CONSTANTS
  Alarms,   \* identifiers of the registered alarms
  Latched   \* the alarms registered with latched = true

CondState == {"unknown", "true", "false"}

VARIABLES
  active,   \* active[a]: AlarmSlot::active
  lastCond  \* lastCond[a]: the condition as the last evaluation found it

latchVars == <<active, lastCond>>

LatchInit == /\ active = [a \in Alarms |-> FALSE]
             /\ lastCond = [a \in Alarms |-> "unknown"]

(* isResettable_: the alarm may be acknowledged. *)
Resettable(a) == active[a] /\ a \in Latched /\ lastCond[a] = "false"

(* The values an evaluation that found condition c may leave active[a] at. *)
Outcomes(a, c) == {active[a]} \union (IF c = "true" THEN {TRUE} ELSE {})
                              \union (IF c = "false" /\ a \notin Latched THEN {FALSE} ELSE {})

(* evaluateOnce_: the condition found, and a change of state it permits. *)
Evaluate(a, c) ==
  /\ \E on \in Outcomes(a, c) : active' = [active EXCEPT ![a] = on]
  /\ lastCond' = [lastCond EXCEPT ![a] = c]

(* reset_: the operator acknowledges an alarm that is over. *)
Reset(a) ==
  /\ Resettable(a)
  /\ active' = [active EXCEPT ![a] = FALSE]
  /\ UNCHANGED lastCond

LatchNext == \E a \in Alarms : Reset(a) \/ \E c \in CondState : Evaluate(a, c)

LatchSpec == LatchInit /\ [][LatchNext]_latchVars
=============================================================================
