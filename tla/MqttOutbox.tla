----------------------------- MODULE MqttOutbox -----------------------------
(***************************************************************************)
(* What the job queue of MQTTModule promises its producers: a request that *)
(* was accepted is owed a build of the message that begins later than the  *)
(* request.  It may only be forgotten by building the message: not because *)
(* the message was being published when the request came, not because a    *)
(* publication failed, and not because its slot was reused.                *)
(***************************************************************************)
CONSTANT Messages

VARIABLE mail   \* mail[m]: what the queue owes message m

(* "again": being published, and requested since it was built. *)
Mail == {"none", "owed", "sending", "again"}

OutboxInit == mail = [m \in Messages |-> "none"]

Becomes(m, from, to) == /\ mail[m] \in from
                        /\ \E x \in to : mail' = [mail EXCEPT ![m] = x]

(* An accepted request; a message that is owed already is owed once. *)
Accept(m) == \/ Becomes(m, {"none"}, {"owed"})
             \/ Becomes(m, {"sending"}, {"again"})

(* The producer builds the message; requests that came between the dequeue
   and the build may be served twice, never less than once. *)
Build(m) == Becomes(m, {"owed"}, {"sending", "again"})

(* The message left, or its producer no longer wants it. *)
Done(m) == \/ Becomes(m, {"sending"}, {"none"})
           \/ Becomes(m, {"again"}, {"owed"})

(* The publication failed. *)
Fail(m) == Becomes(m, {"sending", "again"}, {"owed"})

OutboxNext == \E m \in Messages : Accept(m) \/ Build(m) \/ Done(m) \/ Fail(m)

OutboxSpec == OutboxInit /\ [][OutboxNext]_mail
=============================================================================
