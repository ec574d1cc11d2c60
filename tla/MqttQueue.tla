------------------------------ MODULE MqttQueue -----------------------------
(***************************************************************************)
(* The publish jobs of MQTTModule (MQTTQueue.cpp): a table of slots, one   *)
(* per message that waits or is being published, and three rings of ticket *)
(* items, one per priority.  An item names a slot and the token the slot   *)
(* had when it was queued; an item whose token is no longer the slot's is  *)
(* stale and is thrown away when it is popped.                             *)
(*                                                                         *)
(* Every operator is one critical section of the code (jobsMux_) and takes *)
(* and returns the whole queue: [job |-> table, ring |-> rings].           *)
(***************************************************************************)
EXTENDS Integers, Sequences, FiniteSets

CONSTANTS
  Messages,   \* the (producerId, messageId) pairs
  MaxJobs,    \* slots of the table
  Cap,        \* Cap[prio]: places of the ring
  TokenSpan   \* modulus of a token

Low == 0
Normal == 1
High == 2
Prios == {Low, Normal, High}
Slots == 1 .. MaxJobs
NoMessage == "none"

ASSUME QueueAssumption == /\ MaxJobs \in Nat \ {0}
                          /\ Cap \in [Prios -> Nat \ {0}]
                          /\ TokenSpan \in Nat \ {0}

Tokens == 0 .. TokenSpan - 1
Item == [slot : Slots, token : Tokens]

(* notBeforeMs: 0 of a fresh job, and of a failed one the end of its backoff
   (retryCount), ahead of the clock or behind it. *)
NotBefore == {"zero", "ahead", "behind"}

Job == [used : BOOLEAN, message : Messages \union {NoMessage}, priority : Prios,
        queued : BOOLEAN, queuedPrio : Prios, token : Tokens, processing : BOOLEAN,
        requeue : BOOLEAN, notBefore : NotBefore]

EmptyJob == [used |-> FALSE, message |-> NoMessage, priority |-> Low,
             queued |-> FALSE, queuedPrio |-> Low, token |-> 0, processing |-> FALSE,
             requeue |-> FALSE, notBefore |-> "zero"]

EmptyQueue == [job |-> [s \in Slots |-> EmptyJob], ring |-> [p \in Prios |-> <<>>]]

QueueType(q) == /\ q.job \in [Slots -> Job]
                /\ \A p \in Prios : /\ q.ring[p] \in Seq(Item)
                                    /\ Len(q.ring[p]) <= Cap[p]
-----------------------------------------------------------------------------
NextToken(t) == (t + 1) % TokenSpan

(* Mutant: a full ring takes one more item. *)
QueueSlotOverfills(q, s, prio, invalidateOld) ==
  LET token == NextToken(q.job[s].token)
  IN  IF q.job[s].queued /\ ~invalidateOld
      THEN [queue |-> q, ok |-> TRUE]
      ELSE [queue |-> [job |-> [q.job EXCEPT ![s].queued = TRUE, ![s].token = token,
                                             ![s].queuedPrio = prio],
                       ring |-> [q.ring EXCEPT ![prio] = Append(@, [slot |-> s, token |-> token])]],
            ok |-> TRUE]

(* queueSlot_: queue a used slot; the item of an earlier priority is made
   stale first when the caller asks for it. *)
QueueSlot(q, s, prio, invalidateOld) ==
  LET old   == q.job[s].queued
      token == NextToken(IF old THEN NextToken(q.job[s].token) ELSE q.job[s].token)
      fits  == Len(q.ring[prio]) < Cap[prio]
      job   == [q.job EXCEPT ![s].queued = fits, ![s].token = token, ![s].queuedPrio = prio]
  IN  IF old /\ ~invalidateOld
      THEN [queue |-> q, ok |-> TRUE]
      ELSE [queue |-> [job |-> job,
                       ring |-> IF fits
                                THEN [q.ring EXCEPT ![prio] = Append(@, [slot |-> s, token |-> token])]
                                ELSE q.ring],
            ok |-> fits]

JobsOf(q, m) == {s \in Slots : q.job[s].used /\ q.job[s].message = m}
FreeSlots(q) == {s \in Slots : ~q.job[s].used}
First(S) == CHOOSE s \in S : \A t \in S : s <= t

(* The three cases of a message that has a job already. *)
Coalesce(q, s, prio) ==
  LET raised == [q EXCEPT !.job[s].priority = IF prio > @ THEN prio ELSE @]
      job    == raised.job[s]
  IN  CASE job.processing -> [queue |-> [raised EXCEPT !.job[s].requeue = TRUE], ok |-> TRUE]
        [] ~job.processing /\ job.queued ->
             IF job.priority > job.queuedPrio
             THEN QueueSlot(raised, s, job.priority, TRUE)
             ELSE [queue |-> raised, ok |-> TRUE]
        [] OTHER -> QueueSlot([raised EXCEPT !.job[s].notBefore = "zero"], s, job.priority, FALSE)

(* A message without a job takes the first free slot, and gives it back when
   the ring is full. *)
Admit(q, m, prio) ==
  IF FreeSlots(q) = {} THEN [queue |-> q, ok |-> FALSE]
  ELSE LET s      == First(FreeSlots(q))
           fresh  == [EmptyJob EXCEPT !.used = TRUE, !.message = m, !.priority = prio]
           result == QueueSlot([q EXCEPT !.job[s] = fresh], s, prio, FALSE)
       IN  IF result.ok THEN result
           ELSE [queue |-> q, ok |-> FALSE]

(* Mutant: a request for a message that is being published is taken as done. *)
EnqueueJobSwallows(q, m, prio) ==
  IF JobsOf(q, m) = {} THEN Admit(q, m, prio)
  ELSE IF q.job[First(JobsOf(q, m))].processing
       THEN [queue |-> q, ok |-> TRUE]
       ELSE Coalesce(q, First(JobsOf(q, m)), prio)

(* enqueueJob_ *)
EnqueueJob(q, m, prio) ==
  IF JobsOf(q, m) = {} THEN Admit(q, m, prio) ELSE Coalesce(q, First(JobsOf(q, m)), prio)
-----------------------------------------------------------------------------
(* A job is due when (int32_t)(nowMs - notBeforeMs) is not negative.  A fresh
   job's 0 lies ahead of a clock of 32 bits while the clock is in its upper
   half: from 24.9 to 49.7 days after the start, and so on. *)
Due(job, upper) == job.notBefore = "behind" \/ (job.notBefore = "zero" /\ ~upper)

(* dequeueNextJob_ pops one item of each ring in turn, at most as often as
   there are items (and four times more), until one stands for a job that is
   due.  A job that is not due goes back to its ring. *)
Live(q, prio, item) ==
  LET job == q.job[item.slot]
  IN  job.used /\ job.queued /\ job.token = item.token /\ job.queuedPrio = prio

Popped(q, prio) == [q EXCEPT !.ring[prio] = Tail(@)]

(* Mutant: a job whose backoff runs is popped and not put back. *)
TryRingForgets(acc, prio, upper) ==
  LET q == acc.queue
      item == Head(q.ring[prio])
      pop == Popped(q, prio)
      off == [pop EXCEPT !.job[item.slot].queued = FALSE]
  IN  CASE acc.slot # 0 \/ q.ring[prio] = <<>> -> acc
        [] ~Live(q, prio, item) -> [acc EXCEPT !.queue = pop]
        [] q.job[item.slot].processing \/ ~Due(q.job[item.slot], upper) -> [acc EXCEPT !.queue = off]
        [] OTHER -> [queue |-> [off EXCEPT !.job[item.slot].processing = TRUE], slot |-> item.slot]

(* Mutant: the job that is taken keeps its mark of being queued. *)
TryRingKeepsMark(acc, prio, upper) ==
  IF acc.slot # 0 \/ acc.queue.ring[prio] = <<>> THEN acc
  ELSE LET q    == acc.queue
           item == Head(q.ring[prio])
           pop  == Popped(q, prio)
       IN  IF ~Live(q, prio, item) \/ ~Due(q.job[item.slot], upper)
           THEN [acc EXCEPT !.queue = pop]
           ELSE [queue |-> [pop EXCEPT !.job[item.slot].processing = TRUE], slot |-> item.slot]

TryRing(acc, prio, upper) ==
  IF acc.slot # 0 \/ acc.queue.ring[prio] = <<>> THEN acc
  ELSE LET q    == acc.queue
           item == Head(q.ring[prio])
           pop  == Popped(q, prio)
           off  == [pop EXCEPT !.job[item.slot].queued = FALSE]
           job  == q.job[item.slot]
       IN  CASE ~Live(q, prio, item) -> [acc EXCEPT !.queue = pop]
             [] Live(q, prio, item) /\ job.processing -> [acc EXCEPT !.queue = off]
             [] Live(q, prio, item) /\ ~job.processing /\ ~Due(job, upper) ->
                  [acc EXCEPT !.queue = QueueSlot(off, item.slot, job.priority, FALSE).queue]
             [] OTHER -> [queue |-> [off EXCEPT !.job[item.slot].processing = TRUE],
                          slot |-> item.slot]

Scans(q) == Len(q.ring[Low]) + Len(q.ring[Normal]) + Len(q.ring[High]) + 4
RingAt(n) == <<High, Normal, Low>>[1 + ((n - 1) % 3)]

(* The queue after the scan and the slot to process, 0 when there is none;
   scan[n] is what the first n looks at a ring have left.  (Over a singleton,
   TLC computes each of them once.) *)
DequeueNextJob(q, upper) ==
  LET scan[n \in 0 .. 3 * Scans(q)] ==
        IF n = 0 THEN [queue |-> q, slot |-> 0]
        ELSE CHOOSE next \in {TryRing(acc, RingAt(n), upper) : acc \in {scan[n - 1]}} : TRUE
  IN  scan[3 * Scans(q)]
-----------------------------------------------------------------------------
(* The end of a job in processJobs_: published, to be retried, or refused for
   good.  A request that came while it was processed queues it again. *)
Again(q, s) == QueueSlot([q EXCEPT !.job[s].requeue = FALSE, !.job[s].notBefore = "zero"],
                         s, q.job[s].priority, FALSE).queue

Idle(q, s) == [q EXCEPT !.job[s].processing = FALSE]

(* Mutant: a request that came during the publication is forgotten. *)
FinishForgets(q, s) == [q EXCEPT !.job[s] = EmptyJob]

Finish(q, s) == IF q.job[s].requeue THEN Again(Idle(q, s), s)
                ELSE [q EXCEPT !.job[s] = EmptyJob]

RetryLater(q, s) == QueueSlot([Idle(q, s) EXCEPT !.job[s].requeue = FALSE, !.job[s].notBefore = "ahead"],
                              s, q.job[s].priority, FALSE).queue
=============================================================================
