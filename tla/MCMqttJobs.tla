------------------------------ MODULE MCMqttJobs ----------------------------
(* Devices with one to three messages, for a table of two slots and rings of *)
(* one and two places, so that both run full.  What befalls the messages is  *)
(* split over the scenarios.                                                 *)
EXTENDS MqttJobs

CONSTANTS own, cfg, rt, alarm

AllMessages == {own, cfg, rt, alarm}
TheRoutes == {own, cfg}
TheOwn == {own}
TheRuntime == {rt}
TheAlarm == {alarm}
RingSizes == [p \in Prios |-> IF p = Normal THEN 2 ELSE 1]

Has(messages, changes, drops, failures) ==
  [messages |-> messages, changes |-> changes, drops |-> drops, failures |-> failures]
TheScenarios == {Has({cfg}, 1, 0, 0), Has({own, alarm}, 0, 0, 0), Has({rt}, 1, 1, 0),
                 Has({rt}, 0, 0, 1), Has({alarm}, 1, 1, 1), Has({rt, alarm}, 1, 0, 0),
                 Has({rt, alarm}, 0, 0, 1), Has({cfg, rt, alarm}, 0, 0, 0)}
=============================================================================
