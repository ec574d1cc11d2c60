---------------------------- MODULE MCPoolDevice ----------------------------
(* Small instances of the actuator layer for TLC. *)
EXTENDS PoolDevice, TLC

CONSTANT c1

Plain(deps) == [enabled |-> TRUE, dependsOn |-> deps, maxUptimeDay |-> 0]
Limited(deps, limit) == [enabled |-> TRUE, dependsOn |-> deps, maxUptimeDay |-> limit]
Disabled(deps) == [enabled |-> FALSE, dependsOn |-> deps, maxUptimeDay |-> 0]

(* A doser that depends on the pump, with a daily limit or disabled. *)
LimitedDoser == 0 :> {Plain({})} @@ 1 :> {Limited({0}, 1), Disabled({0})}

OneClient == {c1}
=============================================================================
