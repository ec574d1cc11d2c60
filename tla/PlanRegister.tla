---------------------------- MODULE PlanRegister ----------------------------
(***************************************************************************)
(* What the persisted filtration plan promises: flash holds one whole plan *)
(* or none, and the plan it holds is the one that was asked for last or    *)
(* was there before.                                                       *)
(***************************************************************************)
CONSTANTS Plans, None

VARIABLES
  stored,   \* the plan a restart would find
  asked     \* the last plan that was to be stored

Init == stored \in Plans \union {None} /\ asked = None

Ask(p) == asked' = p /\ UNCHANGED stored

(* A plan that is about to be replaced may be given up first. *)
Forget == stored' = None /\ UNCHANGED asked

Commit == asked # None /\ stored' = asked /\ UNCHANGED asked

Next == (\E p \in Plans : Ask(p)) \/ Forget \/ Commit

Spec == Init /\ [][Next]_<<stored, asked>>
=============================================================================
