------------------------------- MODULE MqttJobs -----------------------------
(***************************************************************************)
(* From a change on the device to the broker: the event dispatcher, the    *)
(* mqtt task and the task of the MQTT client share the producers' flags    *)
(* and the job queue.                                                      *)
(*                                                                         *)
(*   dispatcher  ConfigChanged, DataChanged and alarm events enqueue their *)
(*               message; the rise of mqttReady enqueues every route       *)
(*   client      onConnect_ enqueues the runtime values, the alarms and    *)
(*               MQTTModule's own configuration                            *)
(*   mqtt task   retries refused routes, then takes jobs: the producer     *)
(*               builds the message, it is published, the job is finished  *)
(*               under the lock, and the producer is told afterwards       *)
(*                                                                         *)
(* A configuration producer has one route here, as MQTTModule's own and    *)
(* WifiModule's have; its flags live in bits of shared words.  A call      *)
(* marks the flags, enqueues under the lock, and concludes from the answer *)
(* in three steps, which those of the other tasks may come between.        *)
(***************************************************************************)
EXTENDS MqttQueue, SequencesExt

CONSTANTS
  ConfigRoutes,   \* messages of MqttConfigRouteProducer
  OwnRoutes,      \* those of MQTTModule's own configuration
  RuntimeRoutes,  \* messages of RuntimeProducer
  Alarms,         \* alarm states: a producer without memory
  Budget,         \* ProcessBudgetPerTick
  MaxTrouble,     \* bound of each count of a scenario
  Scenarios       \* the messages a device has, and bounds of what befalls them

ASSUME MessagesAssumption ==
  /\ IsFiniteSet(Messages)
  /\ Messages = ConfigRoutes \union RuntimeRoutes \union Alarms
  /\ OwnRoutes \subseteq ConfigRoutes
  /\ Budget \in Nat \ {0}
  /\ MaxTrouble \in Nat
  /\ Scenarios \subseteq [messages : SUBSET Messages, changes : 0 .. MaxTrouble,
                          drops : 0 .. MaxTrouble, failures : 0 .. MaxTrouble]

Actors == {"dispatcher", "client", "mqtt"}

VARIABLES
  version,   \* version[m]: what the device has
  broker,    \* broker[m]: the version published last, -1 before
  events,    \* events the dispatcher has not taken yet
  link,      \* state_ = Connected, and with it mqttReady
  latched,   \* mqttReadyLatched_
  queue,     \* the job queue
  config,    \* config[c]: the flags of the route's producer
  runtime,   \* runtime[r]: the fields of the RuntimeProducer route
  calls,     \* calls[a]: the enqueue calls task a has still to make
  task,      \* the mqtt task: where it is, its job and what it built
  upper,     \* millis() is in its upper half
  quiet,     \* history: quiet[m]: no change of m since the last connection
  refused,   \* history: the messages whose last request met a full queue
  scenario   \* the messages of the device; the changes, drops and failures left

vars == <<version, broker, events, link, latched, queue, config, runtime, calls, task,
          upper, quiet, refused, scenario>>
device == <<version, upper, quiet, refused>>
connection == <<link, latched>>
producers == <<config, runtime>>

Call == [message : Messages, prio : Prios, force : BOOLEAN]
ConfigFlags == [pending : BOOLEAN, needsEnqueue : BOOLEAN, building : BOOLEAN, republish : BOOLEAN,
                firstRefused : BOOLEAN]
RuntimeFlags == [pending : BOOLEAN, force : BOOLEAN, built : 0 .. MaxTrouble, sent : 0 .. MaxTrouble]
TaskStates == {"tick", "serve", "build", "settle", "callback", "clear"}
Outcomes == {"ready", "later", "unneeded"}
Results == {"published", "deferred", "dropped"}

TypeOK ==
  /\ version \in [Messages -> 0 .. MaxTrouble]
  /\ broker \in [Messages -> -1 .. MaxTrouble]
  /\ events \subseteq Messages \union {"mqttReady"}
  /\ <<link, latched>> \in BOOLEAN \X BOOLEAN
  /\ QueueType(queue)
  /\ config \in [ConfigRoutes -> ConfigFlags]
  /\ runtime \in [RuntimeRoutes -> RuntimeFlags]
  /\ \A a \in Actors : /\ calls[a].todo \in Seq(Call)
                       /\ calls[a].step \in {"mark", "enqueue", "concludeYes", "concludeNo"}
                       /\ calls[a].wasPending \in BOOLEAN
  /\ task \in [at : TaskStates, slot : 0 .. MaxJobs, message : Messages \union {NoMessage},
               built : 0 .. MaxTrouble, outcome : Outcomes \union Results, budget : 0 .. Budget]
  /\ upper \in BOOLEAN
  /\ quiet \in [Messages -> BOOLEAN]
  /\ refused \subseteq Messages
  /\ scenario \in [messages : SUBSET Messages, changes : 0 .. MaxTrouble,
                   drops : 0 .. MaxTrouble, failures : 0 .. MaxTrouble]

(* The mqtt task between two jobs. *)
Resting(at, budget) == [at |-> at, slot |-> 0, message |-> NoMessage, built |-> 0,
                        outcome |-> "ready", budget |-> budget]

Init ==
  /\ version = [m \in Messages |-> 0]
  /\ broker = [m \in Messages |-> -1]
  /\ events = {}
  /\ link = FALSE /\ latched = FALSE
  /\ queue = EmptyQueue
  /\ config = [c \in ConfigRoutes |-> [pending |-> FALSE, needsEnqueue |-> FALSE, building |-> FALSE,
                                       republish |-> FALSE, firstRefused |-> FALSE]]
  /\ runtime = [r \in RuntimeRoutes |-> [pending |-> TRUE, force |-> TRUE, built |-> 0, sent |-> 0]]
  /\ calls = [a \in Actors |-> [todo |-> <<>>, step |-> "mark", wasPending |-> FALSE]]
  /\ task = Resting("tick", 0)
  /\ upper = FALSE
  /\ quiet = [m \in Messages |-> TRUE]
  /\ refused = {}
  /\ scenario \in Scenarios
-----------------------------------------------------------------------------
(* Enqueue calls: calls[a].todo is served from its head. *)
Free(a) == calls[a].todo = <<>>
Ask(m, prio, force) == [message |-> m, prio |-> prio, force |-> force]
(* An alarm has no flags to mark. *)
Calling(todo) == [todo |-> todo, wasPending |-> FALSE,
                  step |-> IF todo # <<>> /\ Head(todo).message \in Alarms THEN "enqueue" ELSE "mark"]
Current(a) == Head(calls[a].todo)
NextCall(a) == calls' = [calls EXCEPT ![a] = Calling(Tail(@.todo))]

ChangePriority(m) == IF m \in ConfigRoutes THEN Normal ELSE High

(* The first half of enqueueByRoute_, and markRoutePending_: a route that is
   being built is published once more. *)
Mark(a) ==
  /\ ~Free(a) /\ calls[a].step = "mark"
  /\ LET m == Current(a).message IN
       /\ config' = IF m \in ConfigRoutes
                    THEN [config EXCEPT ![m].republish = @ \/ config[m].building,
                                        ![m].pending = TRUE, ![m].needsEnqueue = TRUE]
                    ELSE config
       /\ runtime' = IF m \in RuntimeRoutes
                     THEN [runtime EXCEPT ![m].pending = TRUE, ![m].force = @ \/ Current(a).force]
                     ELSE runtime
       /\ calls' = [calls EXCEPT ![a].step = "enqueue",
                                 ![a].wasPending = m \in ConfigRoutes /\ config[m].pending]
  /\ UNCHANGED <<device, broker, events, connection, queue, task, scenario>>

(* MQTTModule::enqueue: refused without a connection.  Only configuration
   producers look at the answer. *)
Enqueue(a) ==
  /\ ~Free(a) /\ calls[a].step = "enqueue"
  /\ LET m      == Current(a).message
         result == EnqueueJob(queue, m, Current(a).prio)
         ok     == link /\ result.ok
     IN  /\ queue' = IF link THEN result.queue ELSE queue
         /\ refused' = IF link /\ ~result.ok THEN refused \union {m} ELSE refused \ {m}
         /\ IF m \in ConfigRoutes
            THEN calls' = [calls EXCEPT ![a].step = IF ok THEN "concludeYes" ELSE "concludeNo"]
            ELSE NextCall(a)
  /\ UNCHANGED <<version, upper, quiet, broker, events, connection, producers, task, scenario>>

(* The second half of enqueueByRoute_. *)
Accepted(flags) == [flags EXCEPT !.needsEnqueue = FALSE, !.firstRefused = FALSE]
Refused(flags, wasPending) == [flags EXCEPT !.firstRefused = TRUE, !.republish = @ \/ wasPending]

Conclude(a) ==
  /\ ~Free(a)
  /\ LET m == Current(a).message IN
       \/ /\ calls[a].step = "concludeYes"
          /\ config' = [config EXCEPT ![m] = Accepted(@)]
       \/ /\ calls[a].step = "concludeNo"
          /\ config' = [config EXCEPT ![m] = Refused(@, calls[a].wasPending)]
  /\ NextCall(a)
  /\ UNCHANGED <<device, broker, events, connection, queue, runtime, task, scenario>>
-----------------------------------------------------------------------------
(* The device changes and posts the event. *)
Change(m) ==
  /\ m \in scenario.messages /\ scenario.changes > 0
  /\ scenario' = [scenario EXCEPT !.changes = @ - 1]
  /\ version' = [version EXCEPT ![m] = @ + 1]
  /\ quiet' = [quiet EXCEPT ![m] = FALSE]
  /\ events' = events \union {m}
  /\ UNCHANGED <<upper, refused, broker, connection, queue, producers, calls, task>>

(* The handlers of a change: MqttConfigRouteProducer::onEvent_, and
   MQTTModule::onEvent_ for runtime data and alarms. *)
DispatchChange(m) ==
  /\ Free("dispatcher") /\ m \in events
  /\ events' = events \ {m}
  /\ calls' = [calls EXCEPT !["dispatcher"] = Calling(<<Ask(m, ChangePriority(m), FALSE)>>)]
  /\ UNCHANGED <<device, broker, connection, queue, producers, task, scenario>>

(* The routes of a set that the device has, in the order of the table. *)
AskAll(S, prio, force) == LET order == SetToSeq(S \intersect scenario.messages)
                          IN  [i \in DOMAIN order |-> Ask(order[i], prio, force)]

(* refreshReadyGateAndMaybeSync_ *)
DispatchReady ==
  /\ Free("dispatcher") /\ "mqttReady" \in events
  /\ events' = events \ {"mqttReady"}
  /\ latched' = link
  /\ calls' = [calls EXCEPT !["dispatcher"] =
                 Calling(IF link /\ ~latched THEN AskAll(ConfigRoutes, Low, FALSE) ELSE <<>>)]
  /\ UNCHANGED <<device, broker, link, queue, producers, task, scenario>>

(* Mutant: onConnect_ does not ask for the runtime values. *)
ConnectForgetsRuntime ==
  /\ ~link /\ Free("client") /\ Free("mqtt") /\ task.at = "tick"
  /\ link' = TRUE
  /\ events' = events \union {"mqttReady"}
  /\ quiet' = [m \in Messages |-> TRUE]
  /\ calls' = [calls EXCEPT !["client"] = Calling(AskAll(OwnRoutes, Low, FALSE)
                                                  \o AskAll(Alarms, High, FALSE))]
  /\ UNCHANGED <<version, upper, refused, broker, latched, queue, producers, task, scenario>>

(* The connection is opened by the loop of the mqtt task, between two passes;
   onConnect_ then runs in the task of the client. *)
Connect ==
  /\ ~link /\ Free("client") /\ Free("mqtt") /\ task.at = "tick"
  /\ link' = TRUE
  /\ events' = events \union {"mqttReady"}
  /\ quiet' = [m \in Messages |-> TRUE]
  /\ calls' = [calls EXCEPT !["client"] = Calling(AskAll(OwnRoutes, Low, FALSE)
                                                  \o AskAll(RuntimeRoutes, High, TRUE)
                                                  \o AskAll(Alarms, High, FALSE))]
  /\ UNCHANGED <<version, upper, refused, broker, latched, queue, producers, task, scenario>>

(* The jobs stay in the queue. *)
Disconnect ==
  /\ link /\ scenario.drops > 0
  /\ link' = FALSE
  /\ scenario' = [scenario EXCEPT !.drops = @ - 1]
  /\ events' = events \union {"mqttReady"}
  /\ UNCHANGED <<device, broker, latched, queue, producers, calls, task>>
-----------------------------------------------------------------------------
(* Half a turn of the clock, between two readings.  A job that was left in the
   queue for as long without a connection has its instant ahead once more. *)
HalfTurn ==
  /\ task.at = "tick"
  /\ upper' = ~upper
  /\ \E late \in SUBSET Slots :
       /\ \A s \in late : ~link /\ queue.job[s].notBefore = "behind"
       /\ queue' = [queue EXCEPT !.job = [s \in Slots |->
                      IF s \in late THEN [@[s] EXCEPT !.notBefore = "ahead"] ELSE @[s]]]
  /\ UNCHANGED <<version, quiet, refused, broker, events, connection, producers, calls, task, scenario>>

(* The start of a pass, with one reading of the clock.  The jobs in due have
   seen their backoff end.  Of the routes that were refused (runRetryTick_),
   those in lost have been so for kRetryTimeoutMs and are given up; one of the
   others may be due for its retry. *)
Waiting(c) == config[c].needsEnqueue
LostRoute(flags) == [flags EXCEPT !.needsEnqueue = FALSE, !.pending = FALSE, !.firstRefused = FALSE]

Tick(due, lost, retried) ==
  /\ \A s \in due : queue.job[s].notBefore = "ahead"
  /\ \A c \in lost : Waiting(c) /\ config[c].firstRefused
  /\ \A c \in retried : Waiting(c) /\ c \notin lost
  /\ queue' = [queue EXCEPT !.job = [s \in Slots |->
                 IF s \in due THEN [@[s] EXCEPT !.notBefore = "behind"] ELSE @[s]]]
  /\ config' = [c \in ConfigRoutes |-> IF c \in lost THEN LostRoute(config[c]) ELSE config[c]]
  /\ calls' = [calls EXCEPT !["mqtt"] = Calling(AskAll(retried, Normal, FALSE))]
  /\ task' = Resting("serve", Budget)
  /\ UNCHANGED <<device, broker, events, connection, runtime, scenario>>

(* processJobs_: the next job, until none is due or the budget is spent. *)
Serve ==
  /\ task.at = "serve" /\ Free("mqtt")
  /\ IF task.budget = 0
     THEN /\ task' = Resting("tick", 0)
          /\ UNCHANGED queue
     ELSE \E next \in {DequeueNextJob(queue, upper)} :
          /\ queue' = next.queue
          /\ task' = IF next.slot = 0 THEN Resting("tick", 0)
                     ELSE [task EXCEPT !.at = "build", !.budget = @ - 1, !.slot = next.slot,
                                       !.message = next.queue.job[next.slot].message]
  /\ UNCHANGED <<device, broker, events, connection, producers, calls, scenario>>

MayFail == scenario.failures > 0
CountFailure == scenario' = [scenario EXCEPT !.failures = @ - 1]
Built(outcome) == task' = [task EXCEPT !.at = "settle", !.outcome = outcome,
                                       !.built = IF outcome = "ready" THEN version[task.message] ELSE 0]

(* buildMessage of the three producers.  RetryLater is a throttled numeric
   route or a snapshot that could not be taken. *)
BuildConfig ==
  /\ task.at = "build" /\ task.message \in ConfigRoutes
  /\ LET c == task.message IN
       \/ /\ ~config[c].pending
          /\ Built("unneeded")
          /\ UNCHANGED config
       \/ /\ config[c].pending
          /\ Built("ready")
          /\ config' = [config EXCEPT ![c].building = TRUE]
  /\ UNCHANGED <<device, broker, events, connection, queue, runtime, calls, scenario>>

BuildRuntime ==
  /\ task.at = "build" /\ task.message \in RuntimeRoutes
  /\ LET r == task.message
         known == ~runtime[r].force /\ version[r] <= runtime[r].sent
     IN  \/ /\ ~runtime[r].pending /\ ~runtime[r].force
            /\ Built("unneeded")
            /\ UNCHANGED <<runtime, scenario>>
         \/ /\ runtime[r].pending \/ runtime[r].force
            /\ MayFail /\ CountFailure
            /\ Built("later")
            /\ UNCHANGED runtime
         \/ /\ runtime[r].pending \/ runtime[r].force
            /\ runtime' = IF known THEN [runtime EXCEPT ![r].pending = FALSE]
                          ELSE [runtime EXCEPT ![r].built = version[r]]
            /\ Built(IF known THEN "unneeded" ELSE "ready")
            /\ UNCHANGED scenario
  /\ UNCHANGED <<device, broker, events, connection, queue, config, calls>>

BuildAlarm ==
  /\ task.at = "build" /\ task.message \in Alarms
  /\ Built("ready")
  /\ UNCHANGED <<device, broker, events, connection, queue, producers, calls, scenario>>

(* tryPublishNow_ and the end of the job under the lock. *)
Settled(result) == task' = [task EXCEPT !.at = "callback", !.outcome = result, !.built = 0]

Publish ==
  /\ task.at = "settle" /\ task.outcome = "ready" /\ link
  /\ broker' = [broker EXCEPT ![task.message] = task.built]
  /\ queue' = Finish(queue, task.slot)
  /\ Settled("published")
  /\ UNCHANGED <<device, events, connection, producers, calls, scenario>>

PublishFails ==
  /\ task.at = "settle"
  /\ \/ task.outcome = "later" /\ UNCHANGED scenario
     \/ task.outcome = "ready" /\ ~link /\ UNCHANGED scenario
     \/ task.outcome = "ready" /\ link /\ MayFail /\ CountFailure
  /\ queue' = RetryLater(queue, task.slot)
  /\ Settled("deferred")
  /\ UNCHANGED <<device, broker, events, connection, producers, calls>>

Drop ==
  /\ task.at = "settle" /\ task.outcome = "unneeded"
  /\ queue' = Finish(queue, task.slot)
  /\ Settled(IF queue.job[task.slot].requeue THEN "deferred" ELSE "dropped")
  /\ UNCHANGED <<device, broker, events, connection, producers, calls, scenario>>

(* The callbacks, after the lock was left. *)
ToServe == task' = Resting("serve", task.budget)

NoCallback ==
  /\ task.at = "callback" /\ (task.outcome = "deferred" \/ task.message \in Alarms)
  /\ ToServe
  /\ UNCHANGED <<device, broker, events, connection, queue, producers, calls, scenario>>

TellRuntime ==
  /\ task.at = "callback" /\ task.message \in RuntimeRoutes
  /\ LET r == task.message IN
       \/ /\ task.outcome = "published"
          /\ runtime' = [runtime EXCEPT ![r].sent = runtime[r].built, ![r].pending = FALSE,
                                        ![r].force = FALSE]
       \/ /\ task.outcome = "dropped"
          /\ runtime' = [runtime EXCEPT ![r].pending = FALSE]
  /\ ToServe
  /\ UNCHANGED <<device, broker, events, connection, queue, config, calls, scenario>>

(* onMessagePublished_: a change that came while the message was built is
   enqueued; otherwise the flags are cleared in a further step. *)
TellPublished ==
  /\ task.at = "callback" /\ task.message \in ConfigRoutes /\ task.outcome = "published"
  /\ LET c == task.message IN
       /\ config' = [config EXCEPT ![c].building = FALSE, ![c].republish = FALSE]
       /\ IF config[c].republish
          THEN /\ calls' = [calls EXCEPT !["mqtt"] = Calling(<<Ask(c, Normal, FALSE)>>)]
               /\ ToServe
          ELSE /\ task' = [task EXCEPT !.at = "clear"]
               /\ UNCHANGED calls
  /\ UNCHANGED <<device, broker, events, connection, queue, runtime, scenario>>

Cleared(flags) == [flags EXCEPT !.pending = FALSE, !.needsEnqueue = FALSE, !.firstRefused = FALSE]

ClearPublished ==
  /\ task.at = "clear"
  /\ config' = [config EXCEPT ![task.message] = Cleared(@)]
  /\ ToServe
  /\ UNCHANGED <<device, broker, events, connection, queue, runtime, calls, scenario>>

(* onMessageDropped_ *)
TellDropped ==
  /\ task.at = "callback" /\ task.message \in ConfigRoutes /\ task.outcome = "dropped"
  /\ config' = [config EXCEPT ![task.message] = [Cleared(@) EXCEPT !.building = FALSE,
                                                                   !.republish = FALSE]]
  /\ ToServe
  /\ UNCHANGED <<device, broker, events, connection, queue, runtime, calls, scenario>>
-----------------------------------------------------------------------------
Produce(a) == Mark(a) \/ Enqueue(a) \/ Conclude(a)

Dispatch == DispatchReady \/ \E m \in Messages : DispatchChange(m)

Process == \/ Serve
           \/ BuildConfig \/ BuildRuntime \/ BuildAlarm
           \/ Publish \/ PublishFails \/ Drop
           \/ NoCallback \/ TellRuntime \/ TellPublished \/ ClearPublished \/ TellDropped

StartPass(S) == /\ task.at = "tick" /\ link /\ Free("mqtt")
                   /\ \E due \in SUBSET Slots, lost, retried \in SUBSET ConfigRoutes :
                        /\ S \subseteq due /\ Cardinality(retried) <= 1
                        /\ Tick(due, lost, retried)

(* The three tasks. *)
DispatcherTask == Dispatch \/ Produce("dispatcher")
ClientTask == Produce("client")
MqttTask == StartPass({}) \/ Process \/ Produce("mqtt")

Next == \/ \E m \in Messages : Change(m)
        \/ Connect \/ Disconnect \/ HalfTurn
        \/ DispatcherTask \/ ClientTask \/ MqttTask

Spec == Init /\ [][Next]_vars

(* Every task goes on, every backoff ends, and the clock goes on: a connection
   that lasts sees passes in the lower half of the clock. *)
Fairness == /\ WF_vars(DispatcherTask) /\ WF_vars(ClientTask) /\ WF_vars(MqttTask)
            /\ \A s \in Slots : SF_vars(StartPass({s}))
            /\ SF_vars(HalfTurn) /\ SF_vars(~upper /\ StartPass({}))

FairSpec == Spec /\ Fairness
-----------------------------------------------------------------------------
(* A job that is marked as queued has its item in a ring: requests for it
   are taken as served (enqueueJob_ answers true and does nothing), so a job
   without its item would never be published again.  Tokens start anew when
   a slot is reused, so stale items may bear the token of a later job. *)
QueuedIsReachable ==
  \A s \in Slots : queue.job[s].queued =>
    \E i \in 1 .. Len(queue.ring[queue.job[s].queuedPrio]) :
      queue.ring[queue.job[s].queuedPrio][i] = [slot |-> s, token |-> queue.job[s].token]

(* What the queue owes a message. *)
MailOf(m) ==
  IF JobsOf(queue, m) = {} THEN "none"
  ELSE LET s == First(JobsOf(queue, m))
           beingSent == queue.job[s].processing /\ ~(task.at = "build" /\ task.slot = s)
       IN  CASE ~beingSent -> "owed"
             [] beingSent /\ queue.job[s].requeue -> "again"
             [] OTHER -> "sending"

Outbox == INSTANCE MqttOutbox WITH mail <- [m \in Messages |-> MailOf(m)]

(* The queue keeps the promise of MqttOutbox: an accepted request is only
   forgotten by a build that begins after it. *)
KeepsRequests == Outbox!OutboxSpec

(* A job that is in no ring and not in the hands of the mqtt task: only the
   next request for its message queues it again. *)
Stranded(s) == LET job == queue.job[s] IN job.used /\ ~job.queued /\ ~job.processing

(* Only a full ring strands a job. *)
OnlyFullRingsStrand ==
  [][\A s \in Slots : ~Stranded(s) /\ Stranded(s)' =>
       \E p \in Prios : queue'.job[s].priority = p /\ Len(queue.ring[p]) = Cap[p]]_vars

(* While the connection lasts, what is owed is built, unless a full ring has
   stranded its job: no backoff, no half turn of the clock and no traffic of a
   higher priority keeps a job of the rings from the mqtt task for ever. *)
OwedIsBuilt ==
  /\ OnlyFullRingsStrand
  /\ \A m \in Messages :
       <>[]link => [](MailOf(m) = "owed" =>
                        <>(MailOf(m) # "owed" \/ \E s \in JobsOf(queue, m) : Stranded(s)))

(* The queue took the last request for m, a message of this device, and has
   not stranded it since.  Nobody looks at the answer for an alarm or a runtime
   value: a request that meets a full table or ring waits for the next one. *)
Admitted(m) == /\ m \in scenario.messages \ refused
               /\ \A s \in JobsOf(queue, m) : ~Stranded(s)

(* An alarm event that meets a connection, at whatever moment of an earlier
   publication, reaches the broker with the last state of the alarm, within
   half a turn of the clock, if the queue took it. *)
AlarmsReachBroker ==
  \A a \in Alarms : <>[](link /\ Admitted(a)) => <>[](broker[a] = version[a])

(* A new connection repairs what was lost before: a value that has not moved
   since is published, within half a turn of the clock and if the queue took
   the request.  (Not so for a configuration: a route that was refused more
   than kRetryTimeoutMs ago is given up by the first pass, and with it the
   synchronisation that is under way.) *)
ConnectionRepairs ==
  \A r \in RuntimeRoutes :
    <>[](link /\ quiet[r] /\ Admitted(r)) => <>[](broker[r] = version[r])

(* A change of a configuration that comes while its message is on the way is
   not lost (the comment of enqueueByRoute_): with nothing left to do, the
   broker has what the device has. *)
AtRest(m) == /\ link /\ events = {} /\ task.at = "tick"
             /\ JobsOf(queue, m) = {}
             /\ \A a \in Actors : Free(a)
ChangesAreNotLost ==
  \A c \in ConfigRoutes :
    AtRest(c) /\ ~config[c].needsEnqueue /\ ~quiet[c] => broker[c] = version[c]
=============================================================================
