--------------------------- MODULE MqttJobsProofs ---------------------------
(***************************************************************************)
(* Proofs about the publish jobs, for any messages, any table and any      *)
(* rings: the queue stays sound (JobsInv), and it keeps the promise of     *)
(* MqttOutbox, because a message has one job at most and the jobs that are *)
(* being published are the one the mqtt task works on (MailInv).           *)
(***************************************************************************)
EXTENDS MqttJobs, SequenceTheorems, FiniteSetTheorems, WellFoundedInduction, TLAPS

Queue == [job : [Slots -> Job], ring : [Prios -> Seq(Item)]]
Fits(q) == \A p \in Prios : Len(q.ring[p]) <= Cap[p]

(* The item of slot s is somewhere in the ring it was queued in.           *)
InRing(q, s) ==
  LET ring == q.ring[q.job[s].queuedPrio] IN
  \E i \in 1 .. Len(ring) : ring[i] = [slot |-> s, token |-> q.job[s].token]

(* A queued job is one that is used, and its item is in its ring.          *)
Kept(q) == \A s \in Slots : q.job[s].queued => q.job[s].used /\ InRing(q, s)

Sound(q) == q \in Queue /\ Fits(q) /\ Kept(q)

(* What an operation on the queue keeps: soundness, and the jobs in use.    *)
Grows(q, r) == Sound(r) /\ \A t \in Slots : q.job[t].used => r.job[t].used

(* The constants are as assumed, and an empty job is a job.                 *)
LEMMA Basics ==
  /\ Prios = {0, 1, 2} /\ Low \in Prios /\ Normal \in Prios /\ High \in Prios
  /\ EmptyJob \in Job /\ ~EmptyJob.queued /\ ~EmptyJob.used
  /\ \A t \in Tokens : NextToken(t) \in Tokens
  /\ Slots \subseteq Nat /\ \A p \in Prios : Cap[p] \in Nat \ {0}
<1>1. 0 \in Tokens BY QueueAssumption DEF Tokens
<1>2. EmptyJob \in Job /\ ~EmptyJob.queued /\ ~EmptyJob.used
  BY <1>1 DEF EmptyJob, Job, Prios, Low, NotBefore
<1>3. \A t \in Tokens : NextToken(t) \in Tokens
  BY QueueAssumption DEF Tokens, NextToken
<1> QED BY <1>2, <1>3, QueueAssumption DEF Prios, Low, Normal, High, Slots

WithJob(q, s, j) == [q EXCEPT !.job[s] = j]

(* A job is changed without being marked as queued, moved or renumbered.    *)
LEMMA JobChanges ==
  ASSUME NEW q, Sound(q), NEW s \in Slots, NEW j \in Job,
         j.queued => /\ q.job[s].queued /\ j.used
                     /\ j.token = q.job[s].token /\ j.queuedPrio = q.job[s].queuedPrio
  PROVE  /\ Sound(WithJob(q, s, j)) /\ WithJob(q, s, j).ring = q.ring
         /\ WithJob(q, s, j).job[s] = j
         /\ \A t \in Slots : t # s => WithJob(q, s, j).job[t] = q.job[t]
<1> DEFINE r == WithJob(q, s, j)
<1>1. r \in Queue /\ r.ring = q.ring /\ r.job = [q.job EXCEPT ![s] = j]
  BY DEF Sound, Queue, WithJob
<1>2. r.job[s] = j /\ \A t \in Slots : t # s => r.job[t] = q.job[t]
  BY <1>1 DEF Sound, Queue
<1>3. Fits(r) BY <1>1 DEF Fits, Sound
<1> HIDE DEF r
<1>4. Kept(r)
  <2> SUFFICES ASSUME NEW t \in Slots, r.job[t].queued
               PROVE  r.job[t].used /\ InRing(r, t)
    BY DEF Kept
  <2>1. q.job[t].queued /\ r.job[t].used /\ r.job[t].token = q.job[t].token
        /\ r.job[t].queuedPrio = q.job[t].queuedPrio
    BY <1>2 DEF Sound, Kept
  <2> QED BY <2>1, <1>1 DEF Sound, Kept, InRing
<1> QED BY <1>1, <1>2, <1>3, <1>4 DEF Sound, r

(* queueSlot_: the slot is queued or was, or its ring is full.              *)
LEMMA QueueSlotKeeps ==
  ASSUME NEW q, Sound(q), NEW s \in Slots, q.job[s].used, NEW prio \in Prios, NEW inv \in BOOLEAN
  PROVE  /\ Grows(q, QueueSlot(q, s, prio, inv).queue)
         /\ QueueSlot(q, s, prio, inv).ok \in BOOLEAN
<1> DEFINE old == q.job[s].queued
           token == NextToken(IF old THEN NextToken(q.job[s].token) ELSE q.job[s].token)
           fits == Len(q.ring[prio]) < Cap[prio]
           item == [slot |-> s, token |-> token]
           one == [[[q.job[s] EXCEPT !.queued = fits] EXCEPT !.token = token] EXCEPT !.queuedPrio = prio]
           job == [q.job EXCEPT ![s] = one]
           ring == IF fits THEN [q.ring EXCEPT ![prio] = Append(@, item)] ELSE q.ring
           next == [job |-> job, ring |-> ring]
<1>0. q \in Queue /\ q.job \in [Slots -> Job] /\ q.ring \in [Prios -> Seq(Item)] /\ q.job[s] \in Job
  BY DEF Sound, Queue
<1>1. CASE old /\ ~inv
  <2>1. QueueSlot(q, s, prio, inv) = [queue |-> q, ok |-> TRUE] BY <1>1 DEF QueueSlot
  <2> QED BY <2>1 DEF Grows
<1>2. CASE ~(old /\ ~inv)
  <2>1. QueueSlot(q, s, prio, inv) = [queue |-> next, ok |-> fits]
    BY <1>2, <1>0 DEF QueueSlot
  <2>2. token \in Tokens /\ item \in Item
    BY <1>0, Basics DEF Job, Item
  <2> HIDE DEF token
  <2>3. fits \in BOOLEAN /\ (fits => Len(q.ring[prio]) < Cap[prio])
    OBVIOUS
  <2> HIDE DEF fits
  <2>4. one \in Job /\ one.queued = fits /\ one.used = q.job[s].used /\ one.token = token
        /\ one.queuedPrio = prio
    BY <1>0, <2>2, <2>3 DEF Job
  <2> HIDE DEF one
  <2>5. job \in [Slots -> Job] /\ job[s] = one /\ \A t \in Slots : t # s => job[t] = q.job[t]
    BY <1>0, <2>4
  <2>6. /\ Append(q.ring[prio], item) \in Seq(Item)
        /\ Len(Append(q.ring[prio], item)) = Len(q.ring[prio]) + 1
        /\ Append(q.ring[prio], item)[Len(q.ring[prio]) + 1] = item
        /\ \A i \in 1 .. Len(q.ring[prio]) : Append(q.ring[prio], item)[i] = q.ring[prio][i]
    BY <1>0, <2>2, AppendProperties
  <2> HIDE DEF item, job
  <2>7. /\ ring \in [Prios -> Seq(Item)]
        /\ \A p \in Prios : p # prio => ring[p] = q.ring[p]
        /\ fits => ring[prio] = Append(q.ring[prio], item)
        /\ ~fits => ring = q.ring
    BY <1>0, <2>6
  <2> HIDE DEF ring
  <2>8. Fits(next)
    <3> SUFFICES ASSUME NEW p \in Prios PROVE Len(ring[p]) <= Cap[p]
      BY DEF Fits
    <3>1. Len(q.ring[p]) <= Cap[p] /\ Len(q.ring[p]) \in Nat /\ Cap[p] \in Nat
      BY <1>0, Basics, LenProperties DEF Sound, Fits
    <3>2. CASE p # prio BY <3>1, <3>2, <2>7
    <3>3. CASE p = prio /\ fits BY <3>1, <3>3, <2>7, <2>6, <2>3
    <3>4. CASE p = prio /\ ~fits BY <3>1, <3>4, <2>7
    <3> QED BY <3>2, <3>3, <3>4
  <2>9. Kept(next)
    <3> SUFFICES ASSUME NEW t \in Slots, job[t].queued
                 PROVE  job[t].used /\ InRing(next, t)
      BY DEF Kept
    <3>1. CASE t = s
      <4>1. fits BY <3>1, <2>4, <2>5
      <4>2. ring[prio][Len(q.ring[prio]) + 1] = item /\ Len(ring[prio]) = Len(q.ring[prio]) + 1
        BY <4>1, <2>6, <2>7
      <4>3. Len(q.ring[prio]) + 1 \in 1 .. Len(ring[prio])
        BY <4>2, <1>0, LenProperties
      <4>4. job[t] = one /\ item = [slot |-> s, token |-> token]
        BY <3>1, <2>5 DEF item
      <4> QED BY <4>2, <4>3, <4>4, <2>4, <3>1 DEF InRing
    <3>2. CASE t # s
      <4>1. job[t] = q.job[t] /\ q.job[t].queued /\ q.job[t].used /\ InRing(q, t)
        BY <3>2, <2>5 DEF Sound, Kept
      <4>2. q.job[t].queuedPrio \in Prios /\ q.job[t] \in Job
        BY <1>0 DEF Job
      <4> DEFINE p == q.job[t].queuedPrio
      <4>3. PICK i \in 1 .. Len(q.ring[p]) : q.ring[p][i] = [slot |-> t, token |-> q.job[t].token]
        BY <4>1 DEF InRing
      <4>4. Len(ring[p]) \in Nat /\ i \in 1 .. Len(ring[p]) /\ ring[p][i] = q.ring[p][i]
        <5>1. Len(q.ring[p]) \in Nat BY <1>0, <4>2, LenProperties
        <5>2. CASE p # prio \/ ~fits BY <5>1, <5>2, <4>2, <2>7
        <5>3. CASE p = prio /\ fits
          <6>1. ring[p] = Append(q.ring[p], item) BY <5>3, <2>7
          <6>2. Len(ring[p]) = Len(q.ring[p]) + 1 /\ ring[p][i] = q.ring[p][i]
            BY <5>1, <5>3, <6>1, <2>6
          <6> QED BY <5>1, <6>2
        <5> QED BY <5>2, <5>3
      <4> QED BY <4>1, <4>3, <4>4 DEF InRing
    <3> QED BY <3>1, <3>2
  <2>10. next \in Queue BY <2>5, <2>7 DEF Queue
  <2>11. \A t \in Slots : next.job[t].used = q.job[t].used
    BY <2>4, <2>5
  <2>12. Grows(q, next) BY <2>8, <2>9, <2>10, <2>11 DEF Sound, Grows
  <2> HIDE DEF next
  <2> QED BY <2>1, <2>3, <2>12
<1> QED BY <1>1, <1>2
-----------------------------------------------------------------------------
(* Sets of numbers have a least member.                                     *)
LEMMA Least ==
  ASSUME NEW T, T \subseteq Nat, T # {}
  PROVE  \E x \in T : \A y \in T : x <= y
<1>1. IsWellFoundedOn(OpToRel(<, Nat), Nat)
  BY NatLessThanWellFounded, Zenon
<1>2. PICK x \in T : \A y \in T : ~ (<<y, x>> \in OpToRel(<, Nat))
  BY <1>1, WFMin, Zenon
<1>3. \A y \in T : ~ (y < x)
  <2> SUFFICES ASSUME NEW y \in T, y < x PROVE FALSE OBVIOUS
  <2>1. <<y, x>> \in OpToRel(<, Nat)
    BY Zenon DEF OpToRel
  <2> QED BY <1>2, <2>1, Zenon
<1> QED BY <1>3

(* The first slot of a set is one of it.                                    *)
LEMMA FirstIsIn ==
  ASSUME NEW T, T \subseteq Slots, T # {}
  PROVE  First(T) \in T
<1>1. T \subseteq Nat BY Basics
<1> QED BY <1>1, Least DEF First

(* The three cases of a message that has a job.                             *)
LEMMA CoalesceKeeps ==
  ASSUME NEW q, Sound(q), NEW s \in Slots, q.job[s].used, NEW prio \in Prios
  PROVE  Grows(q, Coalesce(q, s, prio).queue) /\ Coalesce(q, s, prio).ok \in BOOLEAN
<1> DEFINE high == IF prio > q.job[s].priority THEN prio ELSE q.job[s].priority
           one == [q.job[s] EXCEPT !.priority = high]
           raised == WithJob(q, s, one)
<1>0. q.job[s] \in Job /\ q \in Queue /\ q.job \in [Slots -> Job] BY DEF Sound, Queue
<1>1. one \in Job /\ one.queued = q.job[s].queued /\ one.used = q.job[s].used
      /\ one.token = q.job[s].token /\ one.queuedPrio = q.job[s].queuedPrio
      /\ one.priority \in Prios
  BY <1>0 DEF Job
<1>2. [q EXCEPT !.job[s].priority = IF prio > @ THEN prio ELSE @] = raised
  BY <1>0 DEF Queue, WithJob
<1> HIDE DEF one
<1>3. /\ Sound(raised) /\ raised.job[s] = one
      /\ \A t \in Slots : t # s => raised.job[t] = q.job[t]
  <2>1. one.queued => q.job[s].queued /\ one.used /\ one.token = q.job[s].token
                      /\ one.queuedPrio = q.job[s].queuedPrio
    BY <1>1
  <2>2. one \in Job BY <1>1
  <2> QED BY <2>1, <2>2, JobChanges
<1> HIDE DEF raised
<1>4. raised \in Queue /\ raised.job \in [Slots -> Job] BY <1>3 DEF Sound, Queue
<1>5. CASE one.processing
  <2> DEFINE two == [one EXCEPT !.requeue = TRUE]
  <2>1. two \in Job /\ two.queued = one.queued /\ two.used = one.used
        /\ two.token = one.token /\ two.queuedPrio = one.queuedPrio
    BY <1>1 DEF Job
  <2>2. [raised EXCEPT !.job[s].requeue = TRUE] = WithJob(raised, s, two)
    BY <1>3, <1>4 DEF Queue, WithJob
  <2> HIDE DEF two
  <2>3. Grows(q, WithJob(raised, s, two))
    <3>1. two.queued => raised.job[s].queued /\ two.used /\ two.token = raised.job[s].token
                        /\ two.queuedPrio = raised.job[s].queuedPrio
      BY <1>1, <1>3, <2>1
    <3>2. /\ Sound(WithJob(raised, s, two)) /\ WithJob(raised, s, two).job[s] = two
          /\ \A t \in Slots : t # s => WithJob(raised, s, two).job[t] = raised.job[t]
      BY <1>3, <2>1, <3>1, JobChanges
    <3> QED BY <1>1, <1>3, <2>1, <3>2 DEF Grows
  <2>4. Coalesce(q, s, prio) = [queue |-> WithJob(raised, s, two), ok |-> TRUE]
    BY <1>2, <1>3, <1>5, <2>2 DEF Coalesce
  <2> QED BY <2>3, <2>4
<1>6. CASE ~one.processing /\ one.queued
  <2>1. Grows(q, raised) BY <1>1, <1>3 DEF Grows
  <2>2. CASE one.priority > one.queuedPrio
    <3>1. Coalesce(q, s, prio) = QueueSlot(raised, s, one.priority, TRUE)
      BY <1>2, <1>3, <1>6, <2>2 DEF Coalesce
    <3>2. raised.job[s].used /\ one.priority \in Prios BY <1>1, <1>3
    <3>3. /\ Grows(raised, QueueSlot(raised, s, one.priority, TRUE).queue)
          /\ QueueSlot(raised, s, one.priority, TRUE).ok \in BOOLEAN
      BY <1>3, <3>2, QueueSlotKeeps
    <3> QED BY <2>1, <3>1, <3>3 DEF Grows
  <2>3. CASE ~(one.priority > one.queuedPrio)
    <3>1. Coalesce(q, s, prio) = [queue |-> raised, ok |-> TRUE]
      BY <1>2, <1>3, <1>6, <2>3 DEF Coalesce
    <3> QED BY <2>1, <3>1
  <2> QED BY <2>2, <2>3
<1>7. CASE ~one.processing /\ ~one.queued
  <2> DEFINE two == [one EXCEPT !.notBefore = "zero"]
             due == WithJob(raised, s, two)
  <2>1. two \in Job /\ two.queued = one.queued /\ two.used = one.used
    BY <1>1 DEF Job, NotBefore
  <2>2. [raised EXCEPT !.job[s].notBefore = "zero"] = due
    BY <1>3, <1>4 DEF Queue, WithJob
  <2>3. Coalesce(q, s, prio) = QueueSlot(due, s, one.priority, FALSE)
    BY <1>2, <1>3, <1>7, <2>2 DEF Coalesce
  <2> HIDE DEF two
  <2>4. Grows(q, due) /\ due.job[s].used
    <3>1. two.queued => raised.job[s].queued /\ two.used /\ two.token = raised.job[s].token
                        /\ two.queuedPrio = raised.job[s].queuedPrio
      BY <1>7, <2>1
    <3>2. /\ Sound(due) /\ due.job[s] = two
          /\ \A t \in Slots : t # s => due.job[t] = raised.job[t]
      BY <1>3, <2>1, <3>1, JobChanges
    <3> QED BY <1>1, <1>3, <2>1, <3>2 DEF Grows
  <2> HIDE DEF due
  <2>5. Sound(due) /\ one.priority \in Prios BY <1>1, <2>4 DEF Grows
  <2>6. /\ Grows(due, QueueSlot(due, s, one.priority, FALSE).queue)
        /\ QueueSlot(due, s, one.priority, FALSE).ok \in BOOLEAN
    BY <2>4, <2>5, QueueSlotKeeps
  <2> QED BY <2>3, <2>4, <2>6 DEF Grows
<1> QED BY <1>5, <1>6, <1>7, <1>1 DEF Job

(* A message without a job.                                                 *)
LEMMA AdmitKeeps ==
  ASSUME NEW q, Sound(q), NEW m \in Messages, NEW prio \in Prios
  PROVE  Grows(q, Admit(q, m, prio).queue) /\ Admit(q, m, prio).ok \in BOOLEAN
<1>1. Grows(q, q) BY DEF Grows
<1>2. CASE FreeSlots(q) = {}
  BY <1>1, <1>2 DEF Admit
<1>3. CASE FreeSlots(q) # {}
  <2> DEFINE s == First(FreeSlots(q))
             fresh == [EmptyJob EXCEPT !.used = TRUE, !.message = m, !.priority = prio]
             new == WithJob(q, s, fresh)
             r == QueueSlot(new, s, prio, FALSE)
  <2>1. s \in Slots /\ ~q.job[s].used
    BY <1>3, FirstIsIn DEF FreeSlots
  <2>2. fresh \in Job /\ fresh.used /\ ~fresh.queued
    BY Basics DEF Job
  <2>3. Admit(q, m, prio) = IF r.ok THEN r ELSE [queue |-> q, ok |-> FALSE]
    BY <1>3 DEF Admit, WithJob
  <2> HIDE DEF s, fresh
  <2>4. Sound(new) /\ new.job[s] = fresh /\ \A t \in Slots : t # s => new.job[t] = q.job[t]
    BY <2>1, <2>2, JobChanges
  <2> HIDE DEF new
  <2>5. Grows(new, r.queue) /\ r.ok \in BOOLEAN
    BY <2>1, <2>2, <2>4, QueueSlotKeeps
  <2>6. Grows(q, r.queue) BY <2>1, <2>2, <2>4, <2>5 DEF Grows
  <2> HIDE DEF r
  <2>7. CASE r.ok
    <3>1. Admit(q, m, prio) = r BY <2>3, <2>7
    <3> QED BY <2>5, <2>6, <3>1
  <2>8. CASE ~r.ok
    <3>1. Admit(q, m, prio) = [queue |-> q, ok |-> FALSE] BY <2>3, <2>8
    <3> QED BY <1>1, <3>1
  <2> QED BY <2>7, <2>8
<1> QED BY <1>2, <1>3

(* enqueueJob_ keeps the queue sound and frees no job.                      *)
LEMMA EnqueueKeeps ==
  ASSUME NEW q, Sound(q), NEW m \in Messages, NEW prio \in Prios
  PROVE  Grows(q, EnqueueJob(q, m, prio).queue) /\ EnqueueJob(q, m, prio).ok \in BOOLEAN
<1>1. CASE JobsOf(q, m) = {} BY <1>1, AdmitKeeps DEF EnqueueJob
<1>2. CASE JobsOf(q, m) # {}
  <2>1. First(JobsOf(q, m)) \in Slots /\ q.job[First(JobsOf(q, m))].used
    BY <1>2, FirstIsIn DEF JobsOf
  <2> QED BY <1>2, <2>1, CoalesceKeeps DEF EnqueueJob
<1> QED BY <1>1, <1>2
-----------------------------------------------------------------------------
(* An item that is popped is missed by its own job only.                    *)
LEMMA PopKeeps ==
  ASSUME NEW q, Sound(q), NEW prio \in Prios, q.ring[prio] # <<>>
  PROVE  /\ Popped(q, prio) \in Queue /\ Fits(Popped(q, prio)) /\ Popped(q, prio).job = q.job
         /\ Head(q.ring[prio]) \in Item
         /\ \A t \in Slots :
              q.job[t].queued /\ ~(t = Head(q.ring[prio]).slot /\ Live(q, prio, Head(q.ring[prio])))
                => q.job[t].used /\ InRing(Popped(q, prio), t)
<1> DEFINE pop == Popped(q, prio)
           item == Head(q.ring[prio])
           ring == [q.ring EXCEPT ![prio] = Tail(@)]
<1>0. q \in Queue /\ q.job \in [Slots -> Job] /\ q.ring \in [Prios -> Seq(Item)]
  BY DEF Sound, Queue
<1>1. /\ item \in Item /\ Tail(q.ring[prio]) \in Seq(Item) /\ item = q.ring[prio][1]
      /\ Len(q.ring[prio]) \in Nat /\ Len(Tail(q.ring[prio])) = Len(q.ring[prio]) - 1
      /\ \A i \in 1 .. Len(q.ring[prio]) - 1 : Tail(q.ring[prio])[i] = q.ring[prio][i + 1]
  BY <1>0, HeadTailProperties, LenProperties
<1>2. /\ ring \in [Prios -> Seq(Item)] /\ ring[prio] = Tail(q.ring[prio])
      /\ \A p \in Prios : p # prio => ring[p] = q.ring[p]
  BY <1>0, <1>1
<1>3. pop.job = q.job /\ pop.ring = ring /\ pop \in Queue
  BY <1>0, <1>2 DEF Popped, Queue
<1> HIDE DEF ring, pop
<1>4. Fits(pop)
  <2> SUFFICES ASSUME NEW p \in Prios PROVE Len(ring[p]) <= Cap[p]
    BY <1>3 DEF Fits
  <2>1. Len(q.ring[p]) <= Cap[p] /\ Cap[p] \in Nat
    BY Basics DEF Sound, Fits
  <2>2. CASE p = prio BY <2>1, <2>2, <1>1, <1>2
  <2>3. CASE p # prio BY <2>1, <2>3, <1>2
  <2> QED BY <2>2, <2>3
<1> HIDE DEF item
<1>5. ASSUME NEW t \in Slots, q.job[t].queued, ~(t = item.slot /\ Live(q, prio, item))
      PROVE  q.job[t].used /\ InRing(pop, t)
  <2> DEFINE p == q.job[t].queuedPrio
             mine == [slot |-> t, token |-> q.job[t].token]
  <2>1. q.job[t].used /\ InRing(q, t) /\ p \in Prios
    BY <1>0, <1>5 DEF Sound, Kept, Job
  <2>2. PICK i \in 1 .. Len(q.ring[p]) : q.ring[p][i] = mine
    BY <2>1 DEF InRing
  <2>3. \E k \in 1 .. Len(ring[p]) : ring[p][k] = mine
    <3>1. CASE p # prio BY <3>1, <2>1, <2>2, <1>2
    <3>2. CASE p = prio
      <4>1. i # 1
        <5> SUFFICES ASSUME i = 1 PROVE FALSE OBVIOUS
        <5>1. item = mine BY <3>2, <2>2, <1>1
        <5>2. item.slot = t /\ item.token = q.job[t].token BY <5>1
        <5> QED BY <5>2, <3>2, <1>5, <2>1 DEF Live
      <4>2. i - 1 \in 1 .. Len(q.ring[prio]) - 1 /\ ring[prio][i - 1] = q.ring[prio][i]
        BY <4>1, <3>2, <1>1, <1>2
      <4>3. i - 1 \in 1 .. Len(ring[prio])
        BY <4>2, <1>1, <1>2
      <4> QED BY <4>2, <4>3, <3>2, <2>2
    <3> QED BY <3>1, <3>2
  <2> QED BY <2>1, <2>3, <1>3 DEF InRing
<1> QED BY <1>1, <1>3, <1>4, <1>5 DEF pop, item

(* What dequeueNextJob_ has so far: a sound queue, and no slot or a used one. *)
Looked(q, acc) == /\ acc \in [queue : Queue, slot : 0 .. MaxJobs]
                  /\ Grows(q, acc.queue)
                  /\ acc.slot # 0 => acc.slot \in Slots /\ acc.queue.job[acc.slot].used

(* One look at a ring.                                                      *)
LEMMA TryRingKeeps ==
  ASSUME NEW q, NEW acc, Looked(q, acc), NEW prio \in Prios, NEW half
  PROVE  Looked(q, TryRing(acc, prio, half))
<1> DEFINE now == acc.queue
           item == Head(now.ring[prio])
           pop == Popped(now, prio)
           one == [now.job[item.slot] EXCEPT !.queued = FALSE]
           off == WithJob(pop, item.slot, one)
<1>0. /\ Sound(now) /\ now \in Queue /\ acc.slot \in 0 .. MaxJobs
      /\ acc = [queue |-> now, slot |-> acc.slot] /\ acc.queue = now
      /\ Grows(q, now)
  BY DEF Looked, Grows
<1>1. CASE acc.slot # 0 \/ now.ring[prio] = <<>>
  BY <1>1, Zenon DEF TryRing
<1> HIDE DEF now
<1>2. CASE ~(acc.slot # 0 \/ now.ring[prio] = <<>>)
  <2>1. /\ pop \in Queue /\ Fits(pop) /\ pop.job = now.job
        /\ item \in Item
        /\ \A t \in Slots : now.job[t].queued /\ ~(t = item.slot /\ Live(now, prio, item))
                           => now.job[t].used /\ InRing(pop, t)
    BY <1>0, <1>2, PopKeeps
  <2>2. item.slot \in Slots /\ now.job[item.slot] \in Job
    BY <1>0, <2>1 DEF Item, Queue
  <2>3. [pop EXCEPT !.job[item.slot].queued = FALSE] = off
    <3> HIDE DEF pop, item
    <3>1. pop \in Queue /\ pop.job = now.job BY <2>1
    <3> QED BY <3>1, <2>2, SMTT(30) DEF WithJob, Queue
  <2>4. one \in Job /\ ~one.queued /\ one.used = now.job[item.slot].used
    BY <2>2 DEF Job
  <2>5. CASE ~Live(now, prio, item)
    <3>1. TryRing(acc, prio, half) = [queue |-> pop, slot |-> acc.slot]
      BY <1>0, <1>2, <2>5 DEF TryRing
    <3> HIDE DEF item, pop, one
    <3>2. Sound(pop) BY <2>1, <2>5 DEF Sound, Kept
    <3>3. Grows(q, pop) BY <1>0, <2>1, <3>2 DEF Grows
    <3> QED BY <3>1, <3>3, <2>1, <1>0, <1>2 DEF Looked
  <2> HIDE DEF item, pop, one
  <2>6. CASE Live(now, prio, item)
    <3>1. off \in Queue /\ off.ring = pop.ring /\ off.job = [now.job EXCEPT ![item.slot] = one]
      BY <2>1, <2>4, <2>2 DEF WithJob, Queue
    <3>2. off.job[item.slot] = one /\ \A t \in Slots : t # item.slot => off.job[t] = now.job[t]
      BY <3>1, <2>2, <1>0 DEF Queue
    <3> HIDE DEF off
    <3>3. Sound(off)
      <4>1. Fits(off) BY <2>1, <3>1 DEF Fits
      <4>2. Kept(off)
        <5> SUFFICES ASSUME NEW t \in Slots, off.job[t].queued
                     PROVE  off.job[t].used /\ InRing(off, t)
          BY DEF Kept
        <5>1. t # item.slot /\ off.job[t] = now.job[t] BY <2>4, <3>2
        <5>2. now.job[t].used /\ InRing(pop, t) BY <5>1, <2>1
        <5>3. off.job[t] = pop.job[t] /\ off.ring = pop.ring BY <5>1, <3>1, <2>1
        <5>4. InRing(off, t) BY <5>2, <5>3 DEF InRing
        <5> QED BY <5>1, <5>2, <5>4
      <4> QED BY <4>1, <4>2, <3>1 DEF Sound
    <3>4. Grows(q, off)
      BY <1>0, <3>2, <3>3, <2>4, <2>2 DEF Grows
    <3>5. now.job[item.slot].used BY <2>6 DEF Live
    <3>6. CASE now.job[item.slot].processing
      <4>1. TryRing(acc, prio, half) = [queue |-> off, slot |-> acc.slot]
        BY <1>0, <1>2, <2>3, <2>6, <3>6, Zenon DEF TryRing, item, pop
      <4> QED BY <4>1, <3>1, <3>4, <1>0, <1>2 DEF Looked
    <3>7. CASE ~now.job[item.slot].processing /\ ~Due(now.job[item.slot], half)
      <4> DEFINE high == now.job[item.slot].priority
                 r == QueueSlot(off, item.slot, high, FALSE)
      <4>1. TryRing(acc, prio, half) = [queue |-> r.queue, slot |-> acc.slot]
        BY <1>0, <1>2, <2>3, <2>6, <3>7, Zenon DEF TryRing, item, pop
      <4>2. high \in Prios /\ off.job[item.slot].used BY <2>2, <2>4, <3>2, <3>5 DEF Job
      <4> HIDE DEF high
      <4>3. Grows(off, r.queue)
        BY <2>2, <3>3, <4>2, QueueSlotKeeps
      <4> HIDE DEF r
      <4>4. Grows(q, r.queue) /\ r.queue \in Queue BY <3>4, <4>3 DEF Grows, Sound
      <4> QED BY <4>1, <4>4, <1>0, <1>2 DEF Looked
    <3>8. CASE ~now.job[item.slot].processing /\ Due(now.job[item.slot], half)
      <4> DEFINE two == [one EXCEPT !.processing = TRUE]
                 taken == WithJob(off, item.slot, two)
      <4>1. two \in Job /\ ~two.queued /\ two.used BY <2>4, <3>5 DEF Job
      <4>2. [off EXCEPT !.job[item.slot].processing = TRUE] = taken
        <5>1. /\ off = [job |-> off.job, ring |-> off.ring] /\ off.job \in [Slots -> Job]
              /\ off.job[item.slot] = one
          BY <3>1, <3>2 DEF Queue
        <5> QED BY <5>1, <2>2 DEF WithJob
      <4>3. TryRing(acc, prio, half) = [queue |-> taken, slot |-> item.slot]
        BY <1>0, <1>2, <2>3, <2>6, <3>8, <4>2, Zenon DEF TryRing, item, pop
      <4> HIDE DEF two
      <4>4. /\ Sound(taken) /\ taken.job[item.slot] = two
            /\ \A t \in Slots : t # item.slot => taken.job[t] = off.job[t]
        BY <2>2, <3>3, <4>1, JobChanges
      <4>5. Grows(q, taken) /\ taken \in Queue /\ taken.job[item.slot].used
        BY <3>4, <4>1, <4>4 DEF Grows, Sound
      <4>6. item.slot \in 0 .. MaxJobs BY <2>2, QueueAssumption DEF Slots
      <4> QED BY <4>3, <4>5, <4>6, <2>2 DEF Looked
    <3> QED BY <3>6, <3>7, <3>8, <2>2 DEF Job
  <2> QED BY <2>5, <2>6
<1> QED BY <1>1, <1>2

(* One look of dequeueNextJob_ after the look that left a.                  *)
LookNext(q, a, n, half) == IF n = 0 THEN [queue |-> q, slot |-> 0]
                  ELSE CHOOSE next \in {TryRing(acc, RingAt(n), half) : acc \in {a}} : TRUE

IsScan(q, f, N, half) == f = [n \in 0 .. N |-> LookNext(q, f[n - 1], n, half)]

(* TLC's singleton is the operator it stands for.                           *)
LEMMA NextIsTry ==
  ASSUME NEW q, NEW a, NEW n \in Nat \ {0}, NEW half
  PROVE  LookNext(q, a, n, half) = TryRing(a, RingAt(n), half)
<1>1. {TryRing(acc, RingAt(n), half) : acc \in {a}} = {TryRing(a, RingAt(n), half)}
  OBVIOUS
<1>2. LookNext(q, a, n, half) \in {TryRing(a, RingAt(n), half)}
  BY <1>1 DEF LookNext
<1> QED BY <1>2

(* The looks can be taken one after the other, as often as one likes.       *)
LEMMA ScanExists ==
  ASSUME NEW q, NEW N \in Nat, NEW half
  PROVE  \E f : IsScan(q, f, N, half)
<1> DEFINE T == {k \in Nat : ~ \E f : IsScan(q, f, k, half)}
<1> SUFFICES ASSUME T # {} PROVE FALSE
  OBVIOUS
<1>1. PICK k \in T : \A y \in T : k <= y
  BY Least
<1>2. CASE k = 0
  <2> DEFINE f == [n \in 0 .. 0 |-> LookNext(q, q, 0, half)]
  <2>1. \A n \in 0 .. 0 : n = 0 /\ LookNext(q, f[n - 1], n, half) = LookNext(q, q, 0, half)
    BY DEF LookNext
  <2>2. IsScan(q, f, 0, half)
    BY <2>1 DEF IsScan
  <2> QED BY <1>1, <1>2, <2>2
<1>3. CASE k # 0
  <2>1. k \in Nat /\ k - 1 \in Nat /\ k - 1 \notin T
    BY <1>1, <1>3
  <2>2. PICK g : IsScan(q, g, k - 1, half)
    BY <2>1
  <2> DEFINE f == [n \in 0 .. k |-> IF n = k THEN LookNext(q, g[k - 1], k, half) ELSE g[n]]
  <2>3. \A n \in 0 .. k - 1 : g[n] = LookNext(q, g[n - 1], n, half)
    BY <2>2 DEF IsScan
  <2>4. \A n \in 0 .. k : f[n] = LookNext(q, f[n - 1], n, half)
    <3> SUFFICES ASSUME NEW n \in 0 .. k PROVE f[n] = LookNext(q, f[n - 1], n, half)
      OBVIOUS
    <3>1. CASE n = k
      <4>1. f[k] = LookNext(q, g[k - 1], k, half) BY <2>1
      <4>2. f[k - 1] = g[k - 1] BY <2>1
      <4> QED BY <3>1, <4>1, <4>2
    <3>2. CASE n # k /\ n # 0
      <4>1. f[n] = g[n] /\ f[n - 1] = g[n - 1] BY <3>2, <2>1
      <4>2. g[n] = LookNext(q, g[n - 1], n, half) BY <3>2, <2>1, <2>3
      <4> QED BY <4>1, <4>2
    <3>3. CASE n # k /\ n = 0
      <4>1. f[n] = g[n] /\ g[n] = LookNext(q, g[n - 1], n, half) BY <3>3, <2>1, <2>3
      <4> QED BY <4>1, <3>3 DEF LookNext
    <3> QED BY <3>1, <3>2, <3>3
  <2>5. f = [n \in 0 .. k |-> LookNext(q, f[n - 1], n, half)]
    <3> DEFINE h == [n \in 0 .. k |-> LookNext(q, f[n - 1], n, half)]
    <3>1. \A n \in 0 .. k : f[n] = h[n] BY <2>4
    <3>2. DOMAIN f = 0 .. k /\ DOMAIN h = 0 .. k OBVIOUS
    <3>3. f = [n \in DOMAIN f |-> f[n]] /\ h = [n \in DOMAIN h |-> h[n]] OBVIOUS
    <3> HIDE DEF f, h
    <3>4. f = h BY <3>1, <3>2, <3>3
    <3> QED BY <3>4 DEF h
  <2> HIDE DEF f
  <2>6. IsScan(q, f, k, half) BY <2>5 DEF IsScan
  <2> QED BY <1>1, <2>6
<1> QED BY <1>2, <1>3

(* dequeueNextJob_ keeps the queue sound; the slot it returns is used.      *)
LEMMA DequeueKeeps ==
  ASSUME NEW q, Sound(q), NEW half
  PROVE  Looked(q, DequeueNextJob(q, half))
<1> DEFINE N == 3 * Scans(q)
           f == CHOOSE g : IsScan(q, g, N, half)
<1>1. N \in Nat
  <2>1. \A p \in Prios : Len(q.ring[p]) \in Nat BY LenProperties DEF Sound, Queue
  <2>2. Len(q.ring[Low]) \in Nat /\ Len(q.ring[Normal]) \in Nat /\ Len(q.ring[High]) \in Nat
    BY <2>1, Basics
  <2>3. \A a, b, c \in Nat : 3 * (a + b + c + 4) \in Nat OBVIOUS
  <2> QED BY <2>2, <2>3, Zenon DEF Scans
<1>2. DequeueNextJob(q, half) = f[N]
  BY Zenon DEF DequeueNextJob, IsScan, LookNext
<1> HIDE DEF N
<1>3. IsScan(q, f, N, half)
  BY <1>1, ScanExists
<1> HIDE DEF f
<1>4. \A n \in 0 .. N : f[n] = LookNext(q, f[n - 1], n, half)
  BY <1>1, <1>3 DEF IsScan
<1>5. \A n \in 0 .. N : Looked(q, f[n])
  <2> DEFINE T == {n \in 0 .. N : ~Looked(q, f[n])}
  <2> SUFFICES ASSUME T # {} PROVE FALSE
    OBVIOUS
  <2>0. T \subseteq Nat OBVIOUS
  <2>1. PICK k \in T : \A y \in T : k <= y
    BY <2>0, Least
  <2>2. k \in 0 .. N /\ f[k] = LookNext(q, f[k - 1], k, half) /\ ~Looked(q, f[k])
    BY <1>4, <2>1
  <2>3. CASE k = 0
    <3>1. f[0] = [queue |-> q, slot |-> 0] BY <2>2, <2>3 DEF LookNext
    <3>2. Looked(q, [queue |-> q, slot |-> 0])
      BY QueueAssumption DEF Looked, Grows, Sound
    <3> QED BY <2>2, <2>3, <3>1, <3>2
  <2>4. CASE k # 0
    <3>1. k - 1 \in 0 .. N /\ k - 1 \notin T BY <1>1, <2>1, <2>2, <2>4
    <3>2. Looked(q, f[k - 1]) BY <3>1
    <3>3. k \in Nat \ {0} BY <2>2, <2>4
    <3>4. f[k] = TryRing(f[k - 1], RingAt(k), half) BY <2>2, <3>3, NextIsTry
    <3>5. RingAt(k) \in Prios
      <4>1. (k - 1) % 3 \in 0 .. 2 BY <3>3
      <4> QED BY <4>1, Basics DEF RingAt
    <3> QED BY <2>2, <3>2, <3>4, <3>5, TryRingKeeps
  <2> QED BY <2>3, <2>4
<1> QED BY <1>1, <1>2, <1>5
-----------------------------------------------------------------------------
(* The end of a job: emptied, or queued again.                              *)
LEMMA EndKeeps ==
  ASSUME NEW q, Sound(q), NEW s \in Slots, q.job[s].used
  PROVE  Sound(Finish(q, s)) /\ Sound(RetryLater(q, s))
<1>0. q \in Queue /\ q.job[s] \in Job BY DEF Sound, Queue
<1> DEFINE high == q.job[s].priority
           again == [q.job[s] EXCEPT !.processing = FALSE, !.requeue = FALSE, !.notBefore = "zero"]
           later == [q.job[s] EXCEPT !.processing = FALSE, !.requeue = FALSE, !.notBefore = "ahead"]
<1>1. /\ again \in Job /\ again.used /\ later \in Job /\ later.used
      /\ again.queued = q.job[s].queued /\ later.queued = q.job[s].queued
      /\ again.token = q.job[s].token /\ later.token = q.job[s].token
      /\ again.queuedPrio = q.job[s].queuedPrio /\ later.queuedPrio = q.job[s].queuedPrio
      /\ high \in Prios
  BY <1>0 DEF Job, NotBefore
<1>2. Again(Idle(q, s), s) = QueueSlot(WithJob(q, s, again), s, high, FALSE).queue
  <2>1. [Idle(q, s) EXCEPT !.job[s].requeue = FALSE, !.job[s].notBefore = "zero"] = WithJob(q, s, again)
    BY <1>0 DEF Idle, WithJob, Queue, Job
  <2>2. Idle(q, s).job[s].priority = high
    BY <1>0 DEF Idle, Queue, Job
  <2> QED BY <2>1, <2>2 DEF Again
<1>3. RetryLater(q, s) = QueueSlot(WithJob(q, s, later), s, high, FALSE).queue
  <2>1. [Idle(q, s) EXCEPT !.job[s].requeue = FALSE, !.job[s].notBefore = "ahead"] = WithJob(q, s, later)
    BY <1>0 DEF Idle, WithJob, Queue, Job
  <2> QED BY <2>1 DEF RetryLater
<1> HIDE DEF again, later, high
<1>4. Sound(WithJob(q, s, again)) /\ WithJob(q, s, again).job[s] = again
  BY <1>1, JobChanges
<1>5. Sound(WithJob(q, s, later)) /\ WithJob(q, s, later).job[s] = later
  BY <1>1, JobChanges
<1>6. Sound(Again(Idle(q, s), s))
  <2>1. Grows(WithJob(q, s, again), QueueSlot(WithJob(q, s, again), s, high, FALSE).queue)
    BY <1>1, <1>4, QueueSlotKeeps
  <2> QED BY <1>2, <2>1 DEF Grows
<1>7. Sound(RetryLater(q, s))
  <2>1. Grows(WithJob(q, s, later), QueueSlot(WithJob(q, s, later), s, high, FALSE).queue)
    BY <1>1, <1>5, QueueSlotKeeps
  <2> QED BY <1>3, <2>1 DEF Grows
<1>8. Sound([q EXCEPT !.job[s] = EmptyJob])
  BY Basics, JobChanges DEF WithJob
<1> QED BY <1>6, <1>7, <1>8 DEF Finish
-----------------------------------------------------------------------------
Trouble == 0 .. MaxTrouble
CallState == [todo : Seq(Call), wasPending : BOOLEAN,
              step : {"mark", "enqueue", "concludeYes", "concludeNo"}]
Task == [at : TaskStates, slot : 0 .. MaxJobs, message : Messages \union {NoMessage},
         built : Trouble, outcome : Outcomes \union Results, budget : 0 .. Budget]
Scenario == [messages : SUBSET Messages, changes : Trouble, drops : Trouble, failures : Trouble]

(* What a change may touch. *)
DeviceOK == /\ version \in [Messages -> Trouble] /\ quiet \in [Messages -> BOOLEAN]
            /\ upper \in BOOLEAN /\ refused \subseteq Messages
            /\ scenario \in Scenario
            /\ \A m \in Messages : version[m] + scenario.changes <= MaxTrouble

LinkOK == /\ events \subseteq Messages \union {"mqttReady"}
          /\ link \in BOOLEAN /\ latched \in BOOLEAN

FlagsOK == config \in [ConfigRoutes -> ConfigFlags] /\ runtime \in [RuntimeRoutes -> RuntimeFlags]

CallsOK == calls \in [Actors -> CallState]

TaskOK == /\ task \in Task /\ broker \in [Messages -> -1 .. MaxTrouble]
          /\ task.at \in {"build", "settle"} => task.slot \in Slots /\ queue.job[task.slot].used

(* The slot the mqtt task works on stays in use until its job ends.         *)
JobsInv == DeviceOK /\ LinkOK /\ FlagsOK /\ CallsOK /\ Sound(queue) /\ TaskOK

(* Sets and values the types are made of.                                   *)
LEMMA BasicTypes ==
  /\ 0 \in Trouble /\ Trouble \subseteq Nat
  /\ \A at \in TaskStates, b \in 0 .. Budget : Resting(at, b) \in Task /\ Resting(at, b).at = at
  /\ 0 \in 0 .. Budget /\ Budget \in 0 .. Budget
  /\ <<>> \in Seq(Call)
  /\ ConfigRoutes \subseteq Messages /\ RuntimeRoutes \subseteq Messages /\ Alarms \subseteq Messages
<1>1. 0 \in Trouble /\ Trouble \subseteq Nat /\ 0 \in 0 .. Budget /\ Budget \in 0 .. Budget
  BY MessagesAssumption DEF Trouble
<1>2. \A at \in TaskStates, b \in 0 .. Budget : Resting(at, b) \in Task /\ Resting(at, b).at = at
  BY <1>1, QueueAssumption DEF Resting, Task, Outcomes
<1> QED BY <1>1, <1>2, MessagesAssumption

(* The routes asked for are a list of calls.                                *)
LEMMA AskAllType ==
  ASSUME NEW S, scenario.messages \subseteq Messages, NEW prio \in Prios, NEW force \in BOOLEAN
  PROVE  AskAll(S, prio, force) \in Seq(Call)
<1> DEFINE T == S \intersect scenario.messages
           n == Cardinality(T)
           order == SetToSeq(T)
           asked == [i \in DOMAIN order |-> Ask(order[i], prio, force)]
<1>1. IsFiniteSet(T) /\ T \subseteq Messages
  <2>1. T \in SUBSET Messages OBVIOUS
  <2>2. IsFiniteSet(T) BY <2>1, MessagesAssumption, FS_Subset
  <2> QED BY <2>1, <2>2
<1> HIDE DEF T
<1>2. n \in Nat /\ ExistsBijection(1 .. n, T)
  BY <1>1, FS_CardinalityType
<1>3. \E f \in [1 .. n -> T] : IsInjective(f)
  <2>1. PICK f \in Bijection(1 .. n, T) : TRUE BY <1>2 DEF ExistsBijection
  <2>2. f \in Injection(1 .. n, T) BY <2>1 DEF Bijection
  <2> QED BY <2>2 DEF Injection
<1>4. order \in [1 .. n -> T]
  BY <1>3 DEF SetToSeq
<1> HIDE DEF order, n
<1>5. asked \in [1 .. n -> Call]
  BY <1>1, <1>4 DEF Ask, Call
<1>6. asked \in Seq(Call)
  BY <1>2, <1>5, SeqDef
<1> QED BY <1>6 DEF AskAll, T, order

(* A task that turns to its calls.                                          *)
LEMMA CallingType ==
  ASSUME NEW todo \in Seq(Call)
  PROVE  Calling(todo) \in CallState
BY DEF Calling, CallState

(* A single call is a list of calls.                                        *)
LEMMA OneCall ==
  ASSUME NEW c \in Call
  PROVE  <<c>> \in Seq(Call)
OBVIOUS

(* The call a task is at, and its turn to the next one.                     *)
LEMMA CurrentType ==
  ASSUME CallsOK, NEW a \in Actors, ~Free(a)
  PROVE  /\ Current(a) \in Call /\ Current(a).message \in Messages /\ Current(a).prio \in Prios
         /\ Current(a).force \in BOOLEAN
         /\ NextCall(a) => CallsOK'
<1>1. calls[a] \in CallState /\ calls[a].todo \in Seq(Call) /\ calls[a].todo # <<>>
  BY DEF CallsOK, CallState, Free
<1>2. Head(calls[a].todo) \in Call /\ Tail(calls[a].todo) \in Seq(Call)
  BY <1>1, HeadTailProperties
<1>3. Calling(Tail(calls[a].todo)) \in CallState
  BY <1>2, CallingType
<1>4. NextCall(a) => CallsOK'
  BY <1>3 DEF NextCall, CallsOK
<1> QED BY <1>2, <1>4 DEF Current, Call
-----------------------------------------------------------------------------
(* What an action keeps when it leaves alone what it speaks of.             *)
LEMMA Unchanged ==
  /\ DeviceOK /\ UNCHANGED <<device, scenario>> => DeviceOK'
  /\ LinkOK /\ UNCHANGED <<events, connection>> => LinkOK'
  /\ FlagsOK /\ UNCHANGED producers => FlagsOK'
  /\ CallsOK /\ UNCHANGED calls => CallsOK'
  /\ Sound(queue) /\ UNCHANGED queue => Sound(queue')
  /\ TaskOK /\ UNCHANGED <<task, broker, queue>> => TaskOK'
BY DEF DeviceOK, LinkOK, FlagsOK, CallsOK, TaskOK, device, connection, producers

(* The jobs in use go on being used.                                        *)
LEMMA TaskGrows ==
  ASSUME TaskOK, UNCHANGED <<task, broker>>, Grows(queue, queue')
  PROVE  TaskOK'
BY DEF TaskOK, Grows

(* Marking a route.                                                         *)
LEMMA MarkStep ==
  ASSUME JobsInv, NEW a \in Actors, Mark(a)
  PROVE  JobsInv'
<1>1. calls' \in [Actors -> CallState]
  <2>1. calls[a] \in CallState /\ calls \in [Actors -> CallState] BY DEF JobsInv, CallsOK
  <2> DEFINE was == Current(a).message \in ConfigRoutes /\ config[Current(a).message].pending
             marked == [calls[a] EXCEPT !.step = "enqueue", !.wasPending = was]
  <2>2. was \in BOOLEAN BY DEF JobsInv, FlagsOK, ConfigFlags
  <2>3. calls' = [calls EXCEPT ![a] = marked] BY <2>1 DEF Mark
  <2> HIDE DEF was
  <2>4. marked \in CallState BY <2>1, <2>2 DEF CallState
  <2> HIDE DEF marked
  <2> QED BY <2>1, <2>3, <2>4
<1>2. FlagsOK'
  <2> DEFINE m == Current(a).message
  <2>1. Current(a).force \in BOOLEAN BY CurrentType DEF JobsInv, Mark
  <2>2. config \in [ConfigRoutes -> ConfigFlags] /\ runtime \in [RuntimeRoutes -> RuntimeFlags]
    BY DEF JobsInv, FlagsOK
  <2> HIDE DEF m
  <2>3. config' \in [ConfigRoutes -> ConfigFlags]
    <3>1. CASE m \in ConfigRoutes
      <4> DEFINE flags == [config[m] EXCEPT !.republish = @ \/ config[m].building,
                                            !.pending = TRUE, !.needsEnqueue = TRUE]
      <4>1. config[m] \in ConfigFlags BY <2>2, <3>1
      <4>2. flags \in ConfigFlags BY <4>1 DEF ConfigFlags
      <4>3. config' = [config EXCEPT ![m] = flags]
        BY <2>2, <3>1 DEF Mark, m
      <4> HIDE DEF flags
      <4> QED BY <2>2, <4>2, <4>3
    <3>2. CASE m \notin ConfigRoutes BY <2>2, <3>2 DEF Mark, m
    <3> QED BY <3>1, <3>2
  <2>4. runtime' \in [RuntimeRoutes -> RuntimeFlags]
    <3>1. CASE m \in RuntimeRoutes
      <4> DEFINE flags == [runtime[m] EXCEPT !.pending = TRUE, !.force = @ \/ Current(a).force]
      <4>1. runtime[m] \in RuntimeFlags BY <2>2, <3>1
      <4>2. flags \in RuntimeFlags BY <4>1, <2>1 DEF RuntimeFlags
      <4>3. runtime' = [runtime EXCEPT ![m] = flags]
        BY <2>2, <3>1 DEF Mark, m
      <4> HIDE DEF flags
      <4> QED BY <2>2, <4>2, <4>3
    <3>2. CASE m \notin RuntimeRoutes BY <2>2, <3>2 DEF Mark, m
    <3> QED BY <3>1, <3>2
  <2> QED BY <2>3, <2>4 DEF FlagsOK
<1> QED BY <1>1, <1>2, Unchanged DEF JobsInv, CallsOK, Mark

(* Asking the queue.                                                        *)
LEMMA EnqueueStep ==
  ASSUME JobsInv, NEW a \in Actors, Enqueue(a)
  PROVE  JobsInv'
<1> DEFINE m == Current(a).message
           result == EnqueueJob(queue, m, Current(a).prio)
           ok == link /\ result.ok
<1>1. m \in Messages /\ Current(a).prio \in Prios /\ (NextCall(a) => CallsOK')
  BY CurrentType DEF JobsInv, Enqueue
<1>2. Grows(queue, result.queue) /\ result.ok \in BOOLEAN
  BY <1>1, EnqueueKeeps DEF JobsInv
<1>3. Grows(queue, queue')
  <2>1. Grows(queue, queue) BY DEF JobsInv, Grows
  <2>2. queue' = IF link THEN result.queue ELSE queue BY DEF Enqueue
  <2> QED BY <1>2, <2>1, <2>2
<1>4. CallsOK'
  <2>1. CASE m \notin ConfigRoutes BY <1>1, <2>1 DEF Enqueue
  <2>2. CASE m \in ConfigRoutes
    <3> DEFINE asked == [calls[a] EXCEPT !.step = IF ok THEN "concludeYes" ELSE "concludeNo"]
    <3>1. calls' = [calls EXCEPT ![a] = asked] BY <2>2 DEF Enqueue, JobsInv, CallsOK
    <3> HIDE DEF ok
    <3>2. calls \in [Actors -> CallState] /\ calls[a] \in CallState BY DEF JobsInv, CallsOK
    <3>3. asked \in CallState BY <3>2 DEF CallState
    <3> HIDE DEF asked
    <3> QED BY <3>1, <3>2, <3>3 DEF CallsOK
  <2> QED BY <2>1, <2>2
<1>5. Sound(queue') BY <1>3 DEF Grows
<1>6. TaskOK' BY <1>3, TaskGrows DEF JobsInv, Enqueue
<1>7. DeviceOK'
  <2>1. refused' \subseteq Messages BY <1>1 DEF JobsInv, DeviceOK, Enqueue
  <2> QED BY <2>1 DEF JobsInv, DeviceOK, Enqueue
<1> QED BY <1>4, <1>5, <1>6, <1>7, Unchanged DEF JobsInv, Enqueue

(* Concluding from its answer.                                              *)
LEMMA ConcludeStep ==
  ASSUME JobsInv, NEW a \in Actors, Conclude(a)
  PROVE  JobsInv'
<1> DEFINE m == Current(a).message
<1>1. CallsOK' BY CurrentType DEF JobsInv, Conclude
<1>2. config \in [ConfigRoutes -> ConfigFlags] /\ calls[a].wasPending \in BOOLEAN
  BY DEF JobsInv, FlagsOK, CallsOK, CallState
<1>3. \A flags \in ConfigFlags : Accepted(flags) \in ConfigFlags
                              /\ Refused(flags, calls[a].wasPending) \in ConfigFlags
  BY <1>2 DEF Accepted, Refused, ConfigFlags
<1>4. config' \in [ConfigRoutes -> ConfigFlags]
  <2>1. CASE config' = [config EXCEPT ![m] = Accepted(@)] BY <1>2, <1>3, <2>1
  <2>2. CASE config' = [config EXCEPT ![m] = Refused(@, calls[a].wasPending)] BY <1>2, <1>3, <2>2
  <2> QED BY <2>1, <2>2 DEF Conclude
<1>5. FlagsOK' BY <1>4 DEF FlagsOK, JobsInv, Conclude
<1> QED BY <1>1, <1>5, Unchanged DEF JobsInv, Conclude

(* The three parts of a call.                                               *)
LEMMA ProduceStep ==
  ASSUME JobsInv, NEW a \in Actors, Produce(a)
  PROVE  JobsInv'
BY MarkStep, EnqueueStep, ConcludeStep DEF Produce
-----------------------------------------------------------------------------
(* The device, the link and the dispatcher.                                 *)
LEMMA ChangeStep ==
  ASSUME JobsInv, NEW m \in Messages, Change(m)
  PROVE  JobsInv'
<1>1. scenario \in Scenario /\ scenario.changes \in Trouble /\ scenario.changes > 0
  BY DEF JobsInv, DeviceOK, Scenario, Change
<1>2. scenario.changes - 1 \in Trouble BY <1>1, MessagesAssumption DEF Trouble
<1>3. scenario' \in Scenario /\ scenario'.changes = scenario.changes - 1
  BY <1>1, <1>2 DEF Scenario, Change
<1>4. version' \in [Messages -> Trouble]
      /\ \A n \in Messages : version'[n] + scenario'.changes <= MaxTrouble
  <2>1. /\ version \in [Messages -> Trouble] /\ version' = [version EXCEPT ![m] = version[m] + 1]
        /\ \A n \in Messages : version[n] + scenario.changes <= MaxTrouble
    BY DEF JobsInv, DeviceOK, Change
  <2>2. version[m] + 1 \in Trouble BY <1>1, <2>1, MessagesAssumption DEF Trouble
  <2>3. ASSUME NEW n \in Messages PROVE version'[n] + scenario'.changes <= MaxTrouble
    <3>1. version[n] \in Nat /\ scenario.changes \in Nat /\ version[n] + scenario.changes <= MaxTrouble
      BY <1>1, <2>1 DEF Trouble
    <3>2. version'[n] = version[n] \/ version'[n] = version[n] + 1 BY <2>1
    <3> QED BY <1>3, <3>1, <3>2, MessagesAssumption
  <2> QED BY <2>1, <2>2, <2>3
<1>5. DeviceOK' BY <1>3, <1>4 DEF JobsInv, DeviceOK, Change
<1>6. LinkOK' BY DEF JobsInv, LinkOK, Change, connection
<1> QED BY <1>5, <1>6, Unchanged DEF JobsInv, Change

(* The dispatcher takes an event.                                           *)
LEMMA DispatchStep ==
  ASSUME JobsInv, Dispatch
  PROVE  JobsInv'
<1>0. "dispatcher" \in Actors /\ calls \in [Actors -> CallState] BY DEF Actors, JobsInv, CallsOK
<1>1. CASE DispatchReady
  <2> DEFINE todo == IF link /\ ~latched THEN AskAll(ConfigRoutes, Low, FALSE) ELSE <<>>
  <2>1. todo \in Seq(Call)
    BY AskAllType, Basics, BasicTypes DEF JobsInv, DeviceOK, Scenario
  <2>2. calls' = [calls EXCEPT !["dispatcher"] = Calling(todo)] BY <1>1 DEF DispatchReady
  <2> HIDE DEF todo
  <2>3. CallsOK' BY <1>0, <2>1, <2>2, CallingType DEF CallsOK
  <2>4. LinkOK' BY <1>1 DEF JobsInv, LinkOK, DispatchReady
  <2> QED BY <1>1, <2>3, <2>4, Unchanged DEF JobsInv, DispatchReady
<1>2. ASSUME NEW m \in Messages, DispatchChange(m) PROVE JobsInv'
  <2>1. Ask(m, ChangePriority(m), FALSE) \in Call
    BY Basics DEF Ask, Call, ChangePriority
  <2>2. <<Ask(m, ChangePriority(m), FALSE)>> \in Seq(Call) BY <2>1, OneCall
  <2>3. CallsOK' BY <1>0, <1>2, <2>2, CallingType DEF CallsOK, DispatchChange
  <2>4. LinkOK' BY <1>2 DEF JobsInv, LinkOK, DispatchChange, connection
  <2> QED BY <1>2, <2>3, <2>4, Unchanged DEF JobsInv, DispatchChange
<1> QED BY <1>1, <1>2 DEF Dispatch

(* A connection comes or goes.                                              *)
LEMMA LinkStep ==
  ASSUME JobsInv, Connect \/ Disconnect
  PROVE  JobsInv'
<1>0. "client" \in Actors /\ calls \in [Actors -> CallState] BY DEF Actors, JobsInv, CallsOK
<1>1. CASE Connect
  <2> DEFINE routes == AskAll(OwnRoutes, Low, FALSE)
             values == AskAll(RuntimeRoutes, High, TRUE)
             states == AskAll(Alarms, High, FALSE)
  <2>1. routes \in Seq(Call) /\ values \in Seq(Call) /\ states \in Seq(Call)
    BY AskAllType, Basics DEF JobsInv, DeviceOK, Scenario
  <2>2. calls' = [calls EXCEPT !["client"] = Calling(routes \o values \o states)]
    BY <1>1 DEF Connect
  <2> HIDE DEF routes, values, states
  <2>3. routes \o values \in Seq(Call) BY <2>1, ConcatProperties
  <2>4. routes \o values \o states \in Seq(Call) BY <2>1, <2>3, ConcatProperties
  <2>5. CallsOK' BY <1>0, <2>2, <2>4, CallingType DEF CallsOK
  <2>6. DeviceOK' BY <1>1 DEF JobsInv, DeviceOK, Connect
  <2>7. LinkOK' BY <1>1 DEF JobsInv, LinkOK, Connect
  <2> QED BY <1>1, <2>5, <2>6, <2>7, Unchanged DEF JobsInv, Connect
<1>2. CASE Disconnect
  <2>1. scenario \in Scenario /\ scenario.drops \in Trouble /\ scenario.drops > 0
    BY <1>2 DEF JobsInv, DeviceOK, Scenario, Disconnect
  <2>2. scenario.drops - 1 \in Trouble BY <2>1, MessagesAssumption DEF Trouble
  <2>3. scenario' \in Scenario /\ scenario'.changes = scenario.changes
    BY <1>2, <2>1, <2>2 DEF Scenario, Disconnect
  <2>4. DeviceOK' BY <1>2, <2>3 DEF JobsInv, DeviceOK, Disconnect, device
  <2>5. LinkOK' BY <1>2 DEF JobsInv, LinkOK, Disconnect
  <2> QED BY <1>2, <2>4, <2>5, Unchanged DEF JobsInv, Disconnect
<1> QED BY <1>1, <1>2
-----------------------------------------------------------------------------
(* Jobs whose instant moves to the other side of the clock.                 *)
LEMMA RedatedIs ==
  ASSUME queue \in Queue, NEW moved \in SUBSET Slots, NEW n \in NotBefore,
         queue' = [queue EXCEPT !.job = [s \in Slots |->
                     IF s \in moved THEN [@[s] EXCEPT !.notBefore = n] ELSE @[s]]]
  PROVE  /\ queue' \in Queue /\ queue'.ring = queue.ring
         /\ \A s \in Slots : /\ queue'.job[s] \in Job
                             /\ \/ queue'.job[s] = queue.job[s]
                                \/ queue'.job[s] = [queue.job[s] EXCEPT !.notBefore = n]
<1>0. queue.job \in [Slots -> Job]
  BY DEF Queue
<1> DEFINE job == [s \in Slots |-> IF s \in moved THEN [queue.job[s] EXCEPT !.notBefore = n]
                                   ELSE queue.job[s]]
<1>1. queue' = [queue EXCEPT !.job = job]
  OBVIOUS
<1>2. \A s \in Slots : /\ job[s] \in Job
                       /\ job[s] = queue.job[s] \/ job[s] = [queue.job[s] EXCEPT !.notBefore = n]
  BY <1>0 DEF Job
<1>3. job \in [Slots -> Job]
  BY <1>2
<1> HIDE DEF job
<1>4. queue' \in Queue /\ queue'.job = job /\ queue'.ring = queue.ring
  BY <1>1, <1>3 DEF Queue
<1> QED BY <1>2, <1>4

(* They keep their tickets.                                                 *)
LEMMA RedatedIsSound ==
  ASSUME Sound(queue), NEW moved \in SUBSET Slots, NEW n \in NotBefore,
         queue' = [queue EXCEPT !.job = [s \in Slots |->
                     IF s \in moved THEN [@[s] EXCEPT !.notBefore = n] ELSE @[s]]]
  PROVE  Sound(queue')
<1>1. queue \in Queue BY DEF Sound
<1>2. /\ queue' \in Queue /\ queue'.ring = queue.ring
      /\ \A s \in Slots : \/ queue'.job[s] = queue.job[s]
                          \/ queue'.job[s] = [queue.job[s] EXCEPT !.notBefore = n]
  BY <1>1, RedatedIs, Zenon
<1>3. \A s \in Slots : /\ queue'.job[s].used = queue.job[s].used
                       /\ queue'.job[s].queued = queue.job[s].queued
                       /\ queue'.job[s].token = queue.job[s].token
                       /\ queue'.job[s].queuedPrio = queue.job[s].queuedPrio
  BY <1>1, <1>2 DEF Queue, Job
<1> QED BY <1>2, <1>3 DEF Sound, Fits, Kept, InRing

(* The clock goes on.                                                       *)
LEMMA HalfTurnStep ==
  ASSUME JobsInv, HalfTurn
  PROVE  JobsInv'
<1>1. PICK late \in SUBSET Slots :
        queue' = [queue EXCEPT !.job = [s \in Slots |->
                    IF s \in late THEN [@[s] EXCEPT !.notBefore = "ahead"] ELSE @[s]]]
  BY Zenon DEF HalfTurn
<1>2. Sound(queue') BY <1>1, RedatedIsSound DEF JobsInv, NotBefore
<1>3. DeviceOK' BY DEF JobsInv, DeviceOK, HalfTurn
<1>4. TaskOK' BY DEF JobsInv, TaskOK, HalfTurn
<1>5. UNCHANGED <<events, connection, producers, calls>> BY DEF HalfTurn
<1> QED BY <1>2, <1>3, <1>4, <1>5, Unchanged DEF JobsInv

(* The mqtt task begins a pass.                                             *)
LEMMA TickStep ==
  ASSUME JobsInv, NEW due \in SUBSET Slots, NEW lost \in SUBSET ConfigRoutes,
         NEW retried \in SUBSET ConfigRoutes, Tick(due, lost, retried)
  PROVE  JobsInv'
<1>0. /\ "mqtt" \in Actors
      /\ calls \in [Actors -> CallState] /\ config \in [ConfigRoutes -> ConfigFlags]
  BY DEF JobsInv, Sound, Queue, Actors, CallsOK, FlagsOK
<1>4. Sound(queue') BY RedatedIsSound DEF JobsInv, Tick, NotBefore
<1>5. FlagsOK'
  <2>1. \A flags \in ConfigFlags : LostRoute(flags) \in ConfigFlags BY DEF LostRoute, ConfigFlags
  <2> QED BY <1>0, <2>1 DEF JobsInv, FlagsOK, Tick
<1>6. CallsOK'
  <2>1. AskAll(retried, Normal, FALSE) \in Seq(Call)
    BY AskAllType, Basics DEF JobsInv, DeviceOK, Scenario
  <2> QED BY <1>0, <2>1, CallingType DEF CallsOK, Tick
<1>7. TaskOK'
  <2>1. task' \in Task /\ task'.at = "serve" BY BasicTypes DEF Tick, TaskStates
  <2> QED BY <2>1 DEF JobsInv, TaskOK, Tick
<1> QED BY <1>4, <1>5, <1>6, <1>7, Unchanged DEF JobsInv, Tick

(* The mqtt task takes a job, or ends its pass.                             *)
LEMMA ServeStep ==
  ASSUME JobsInv, Serve
  PROVE  JobsInv'
<1>1. CASE task.budget = 0
  <2>1. task' \in Task /\ task'.at = "tick" BY <1>1, BasicTypes DEF Serve, TaskStates
  <2>2. TaskOK' BY <1>1, <2>1 DEF JobsInv, TaskOK, Serve
  <2> QED BY <1>1, <2>2, Unchanged DEF JobsInv, Serve
<1>2. CASE task.budget # 0
  <2> DEFINE next == DequeueNextJob(queue, upper)
             rest == IF next.slot = 0 THEN Resting("tick", 0)
                     ELSE [task EXCEPT !.at = "build", !.budget = @ - 1, !.slot = next.slot,
                                       !.message = next.queue.job[next.slot].message]
  <2>1. Looked(queue, next) BY DequeueKeeps DEF JobsInv
  <2>2. queue' = next.queue /\ task' = rest BY <1>2 DEF Serve
  <2> HIDE DEF next
  <2>3. Sound(queue') BY <2>1, <2>2 DEF Looked, Grows
  <2>4. TaskOK'
    <3>1. task \in Task BY DEF JobsInv, TaskOK
    <3>2. CASE next.slot = 0
      <4>1. task' \in Task /\ task'.at = "tick" BY <2>2, <3>2, BasicTypes DEF TaskStates
      <4> QED BY <4>1 DEF JobsInv, TaskOK, Serve
    <3>3. CASE next.slot # 0
      <4>1. /\ next.slot \in Slots /\ next.slot \in 0 .. MaxJobs
            /\ next.queue.job[next.slot].used /\ next.queue.job[next.slot] \in Job
        BY <2>1, <3>3 DEF Looked, Queue
      <4>2. next.queue.job[next.slot].message \in Messages \union {NoMessage} BY <4>1 DEF Job
      <4>3. task.budget - 1 \in 0 .. Budget BY <1>2, <3>1, MessagesAssumption DEF Task
      <4>4. task' = [task EXCEPT !.at = "build", !.budget = task.budget - 1, !.slot = next.slot,
                                 !.message = next.queue.job[next.slot].message]
        BY <2>2, <3>3
      <4>5. task' \in Task /\ task'.slot = next.slot
        BY <3>1, <4>1, <4>2, <4>3, <4>4 DEF Task, TaskStates
      <4> QED BY <2>2, <4>1, <4>5 DEF JobsInv, TaskOK, Serve
    <3> QED BY <3>2, <3>3
  <2> QED BY <2>3, <2>4, Unchanged DEF JobsInv, Serve
<1> QED BY <1>1, <1>2

(* A message is built.                                                      *)
LEMMA BuiltType ==
  ASSUME JobsInv, task.at = "build", NEW outcome \in Outcomes, Built(outcome),
         task.message \in Messages, UNCHANGED <<queue, broker>>
  PROVE  TaskOK'
<1> DEFINE built == IF outcome = "ready" THEN version[task.message] ELSE 0
<1>1. built \in Trouble BY BasicTypes DEF JobsInv, DeviceOK
<1>2. task' = [task EXCEPT !.at = "settle", !.outcome = outcome, !.built = built] BY DEF Built
<1> HIDE DEF built
<1>3. task' \in Task /\ task'.slot = task.slot
  BY <1>1, <1>2 DEF JobsInv, TaskOK, Task, TaskStates
<1> QED BY <1>3 DEF JobsInv, TaskOK

(* A failure is counted.                                                    *)
LEMMA FailureCounted ==
  ASSUME JobsInv, MayFail, CountFailure, UNCHANGED device
  PROVE  DeviceOK'
<1>1. scenario \in Scenario /\ scenario.failures \in Trouble /\ scenario.failures > 0
  BY DEF JobsInv, DeviceOK, Scenario, MayFail
<1>2. scenario.failures - 1 \in Trouble BY <1>1, MessagesAssumption DEF Trouble
<1>3. scenario' \in Scenario /\ scenario'.changes = scenario.changes
  BY <1>1, <1>2 DEF Scenario, CountFailure
<1> QED BY <1>3 DEF JobsInv, DeviceOK, device

(* The three producers build.                                               *)
LEMMA BuildStep ==
  ASSUME JobsInv, BuildConfig \/ BuildRuntime \/ BuildAlarm
  PROVE  JobsInv'
<1>0. {"ready", "later", "unneeded"} \subseteq Outcomes BY DEF Outcomes
<1>1. CASE BuildConfig
  <2>1. TaskOK' BY <1>0, <1>1, BasicTypes, BuiltType DEF BuildConfig
  <2>2. FlagsOK'
    <3> DEFINE c == task.message
    <3>1. config \in [ConfigRoutes -> ConfigFlags] /\ c \in ConfigRoutes /\ config[c] \in ConfigFlags
      BY <1>1 DEF JobsInv, FlagsOK, BuildConfig
    <3>2. [config[c] EXCEPT !.building = TRUE] \in ConfigFlags BY <3>1 DEF ConfigFlags
    <3>3. config' = config \/ config' = [config EXCEPT ![c] = [config[c] EXCEPT !.building = TRUE]]
      BY <1>1, <3>1 DEF BuildConfig
    <3>4. config' \in [ConfigRoutes -> ConfigFlags] BY <3>1, <3>2, <3>3
    <3> QED BY <1>1, <3>4 DEF JobsInv, FlagsOK, BuildConfig
  <2> QED BY <1>1, <2>1, <2>2, Unchanged DEF JobsInv, BuildConfig
<1>2. CASE BuildRuntime
  <2> DEFINE r == task.message
  <2>1. TaskOK'
    <3>1. Built("unneeded") \/ Built("later") \/ Built("ready")
      BY <1>2 DEF BuildRuntime
    <3> QED BY <1>0, <1>2, <3>1, BasicTypes, BuiltType DEF BuildRuntime
  <2>2. FlagsOK'
    <3>1. runtime \in [RuntimeRoutes -> RuntimeFlags] /\ r \in RuntimeRoutes
          /\ runtime[r] \in RuntimeFlags /\ version[r] \in Trouble
      BY <1>2, BasicTypes DEF JobsInv, FlagsOK, DeviceOK, BuildRuntime
    <3>2. [runtime[r] EXCEPT !.pending = FALSE] \in RuntimeFlags
          /\ [runtime[r] EXCEPT !.built = version[r]] \in RuntimeFlags
      BY <3>1 DEF RuntimeFlags, Trouble
    <3>3. \/ runtime' = runtime
          \/ runtime' = [runtime EXCEPT ![r] = [runtime[r] EXCEPT !.pending = FALSE]]
          \/ runtime' = [runtime EXCEPT ![r] = [runtime[r] EXCEPT !.built = version[r]]]
      BY <1>2, <3>1 DEF BuildRuntime
    <3>4. runtime' \in [RuntimeRoutes -> RuntimeFlags] BY <3>1, <3>2, <3>3
    <3> QED BY <1>2, <3>4 DEF JobsInv, FlagsOK, BuildRuntime
  <2>3. DeviceOK'
    <3>1. UNCHANGED device /\ (UNCHANGED scenario \/ (MayFail /\ CountFailure))
      BY <1>2 DEF BuildRuntime
    <3> QED BY <3>1, FailureCounted, Unchanged DEF JobsInv
  <2> QED BY <1>2, <2>1, <2>2, <2>3, Unchanged DEF JobsInv, BuildRuntime
<1>3. CASE BuildAlarm
  <2>1. TaskOK' BY <1>0, <1>3, BasicTypes, BuiltType DEF BuildAlarm
  <2> QED BY <1>3, <2>1, Unchanged DEF JobsInv, BuildAlarm
<1> QED BY <1>1, <1>2, <1>3

(* A job ends.                                                              *)
LEMMA EndStep ==
  ASSUME JobsInv, Publish \/ PublishFails \/ Drop
  PROVE  JobsInv'
<1>0. task \in Task /\ task.slot \in Slots /\ queue.job[task.slot].used
  BY DEF JobsInv, TaskOK, Publish, PublishFails, Drop
<1>1. Sound(queue')
  BY <1>0, EndKeeps DEF JobsInv, Publish, PublishFails, Drop
<1>2. task' \in Task /\ task'.at = "callback"
  <2>1. PICK result \in Results : Settled(result)
    <3>1. Settled("published") \/ Settled("deferred") \/ Settled("dropped")
      BY DEF Publish, PublishFails, Drop
    <3> QED BY <3>1 DEF Results
  <2> QED BY <1>0, <2>1, BasicTypes DEF Settled, Task, TaskStates
<1>3. broker' \in [Messages -> -1 .. MaxTrouble]
  <2>1. broker \in [Messages -> -1 .. MaxTrouble] /\ task.built \in -1 .. MaxTrouble
    BY <1>0, MessagesAssumption DEF JobsInv, TaskOK, Task, Trouble
  <2> QED BY <2>1 DEF Publish, PublishFails, Drop
<1>4. TaskOK' BY <1>2, <1>3 DEF TaskOK
<1>5. DeviceOK'
  <2>1. UNCHANGED device /\ (UNCHANGED scenario \/ (MayFail /\ CountFailure))
    BY DEF Publish, PublishFails, Drop
  <2> QED BY <2>1, FailureCounted, Unchanged DEF JobsInv
<1>6. UNCHANGED <<events, connection, producers, calls>>
  BY DEF Publish, PublishFails, Drop
<1> QED BY <1>1, <1>4, <1>5, <1>6, Unchanged DEF JobsInv

(* The producer is told.                                                    *)
LEMMA TellStep ==
  ASSUME JobsInv, NoCallback \/ TellRuntime \/ TellPublished \/ ClearPublished \/ TellDropped
  PROVE  JobsInv'
<1> DEFINE c == task.message
<1>0. /\ task \in Task /\ task.budget \in 0 .. Budget
      /\ config \in [ConfigRoutes -> ConfigFlags] /\ runtime \in [RuntimeRoutes -> RuntimeFlags]
  BY DEF JobsInv, TaskOK, Task, FlagsOK
<1>1. TaskOK'
  <2>1. UNCHANGED <<broker, queue>>
    BY DEF NoCallback, TellRuntime, TellPublished, ClearPublished, TellDropped
  <2>2. ToServe \/ task' = [task EXCEPT !.at = "clear"]
    BY DEF NoCallback, TellRuntime, TellPublished, ClearPublished, TellDropped
  <2>3. task' \in Task /\ task'.at \notin {"build", "settle"}
    <3>1. CASE ToServe BY <1>0, <3>1, BasicTypes DEF ToServe, TaskStates
    <3>2. CASE task' = [task EXCEPT !.at = "clear"] BY <1>0, <3>2 DEF Task, TaskStates
    <3> QED BY <2>2, <3>1, <3>2
  <2> QED BY <2>1, <2>3 DEF JobsInv, TaskOK
<1>2. CallsOK'
  <2>1. CASE UNCHANGED calls BY <2>1, Unchanged DEF JobsInv
  <2>2. CASE TellPublished /\ ~UNCHANGED calls
    <3>1. calls' = [calls EXCEPT !["mqtt"] = Calling(<<Ask(c, Normal, FALSE)>>)] /\ c \in ConfigRoutes
      BY <2>2 DEF TellPublished
    <3>2. Ask(c, Normal, FALSE) \in Call BY <3>1, Basics, BasicTypes DEF Ask, Call
    <3>3. Calling(<<Ask(c, Normal, FALSE)>>) \in CallState BY <3>2, OneCall, CallingType
    <3>4. "mqtt" \in Actors BY DEF Actors
    <3> HIDE DEF c
    <3> QED BY <3>1, <3>3, <3>4 DEF JobsInv, CallsOK
  <2>3. UNCHANGED calls \/ TellPublished
    BY DEF NoCallback, TellRuntime, ClearPublished, TellDropped
  <2> QED BY <2>1, <2>2, <2>3
<1>3. runtime' \in [RuntimeRoutes -> RuntimeFlags]
  <2>1. CASE UNCHANGED runtime BY <1>0, <2>1
  <2>2. CASE TellRuntime
    <3>1. c \in RuntimeRoutes /\ runtime[c] \in RuntimeFlags /\ runtime[c].built \in Trouble
      BY <1>0, <2>2 DEF TellRuntime, RuntimeFlags, Trouble
    <3> DEFINE sent == [runtime[c] EXCEPT !.sent = runtime[c].built, !.pending = FALSE, !.force = FALSE]
               kept == [runtime[c] EXCEPT !.pending = FALSE]
    <3>2. sent \in RuntimeFlags /\ kept \in RuntimeFlags BY <3>1 DEF RuntimeFlags, Trouble
    <3>3. runtime' = [runtime EXCEPT ![c] = sent] \/ runtime' = [runtime EXCEPT ![c] = kept]
      BY <1>0, <2>2, <3>1 DEF TellRuntime
    <3> HIDE DEF sent, kept, c
    <3> QED BY <1>0, <3>1, <3>2, <3>3
  <2>3. UNCHANGED runtime \/ TellRuntime
    BY DEF NoCallback, TellPublished, ClearPublished, TellDropped, producers
  <2> QED BY <2>1, <2>2, <2>3
<1>4. config' \in [ConfigRoutes -> ConfigFlags]
  <2> DEFINE told == [config[c] EXCEPT !.building = FALSE, !.republish = FALSE]
             cleared == Cleared(config[c])
             dropped == [cleared EXCEPT !.building = FALSE, !.republish = FALSE]
  <2>1. CASE UNCHANGED config BY <1>0, <2>1
  <2>2. CASE ~UNCHANGED config
    <3>1. /\ config' = [config EXCEPT ![c] = told] \/ config' = [config EXCEPT ![c] = cleared]
             \/ config' = [config EXCEPT ![c] = dropped]
      <4>1. CASE TellPublished BY <1>0, <4>1 DEF TellPublished
      <4>2. CASE ClearPublished BY <1>0, <4>2 DEF ClearPublished
      <4>3. CASE TellDropped BY <1>0, <4>3 DEF TellDropped
      <4> QED BY <2>2, <4>1, <4>2, <4>3 DEF NoCallback, TellRuntime, producers
    <3>2. c \in ConfigRoutes => /\ told \in ConfigFlags /\ cleared \in ConfigFlags
                                /\ dropped \in ConfigFlags
      BY <1>0 DEF ConfigFlags, Cleared
    <3> HIDE DEF told, cleared, dropped, c
    <3>3. CASE c \in ConfigRoutes BY <1>0, <3>1, <3>2, <3>3
    <3>4. CASE c \notin ConfigRoutes BY <1>0, <3>1, <3>4
    <3> QED BY <3>3, <3>4
  <2> QED BY <2>1, <2>2
<1>5. UNCHANGED <<device, events, connection, queue, scenario>>
  BY DEF NoCallback, TellRuntime, TellPublished, ClearPublished, TellDropped
<1>6. FlagsOK' BY <1>3, <1>4 DEF FlagsOK
<1> QED BY <1>1, <1>2, <1>5, <1>6, Unchanged DEF JobsInv
-----------------------------------------------------------------------------
(* Every step keeps the queue sound and the types.                          *)
LEMMA JobsStep == JobsInv /\ [Next]_vars => JobsInv'
<1> SUFFICES ASSUME JobsInv, [Next]_vars PROVE JobsInv'
  OBVIOUS
<1>0. Actors = {"dispatcher", "client", "mqtt"} BY DEF Actors
<1>1. CASE UNCHANGED vars
  <2>1. /\ UNCHANGED <<device, scenario>> /\ UNCHANGED <<events, connection>> /\ UNCHANGED producers
        /\ UNCHANGED calls /\ UNCHANGED queue /\ UNCHANGED <<task, broker, queue>>
    BY <1>1 DEF vars, device, connection, producers
  <2> QED BY <2>1, Unchanged DEF JobsInv
<1>2. ASSUME NEW m \in Messages, Change(m) PROVE JobsInv' BY <1>2, ChangeStep
<1>3. CASE Connect \/ Disconnect BY <1>3, LinkStep
<1>9. CASE HalfTurn BY <1>9, HalfTurnStep
<1>4. CASE DispatcherTask BY <1>0, <1>4, DispatchStep, ProduceStep DEF DispatcherTask
<1>5. CASE ClientTask BY <1>0, <1>5, ProduceStep DEF ClientTask
<1>6. CASE StartPass({}) BY <1>6, TickStep DEF StartPass
<1>7. CASE Process BY <1>7, ServeStep, BuildStep, EndStep, TellStep DEF Process
<1>8. CASE Produce("mqtt") BY <1>0, <1>8, ProduceStep
<1> QED BY <1>1, <1>2, <1>3, <1>4, <1>5, <1>6, <1>7, <1>8, <1>9 DEF Next, MqttTask

(* Nothing is queued at first.                                              *)
LEMMA JobsInit == Init => JobsInv
<1> SUFFICES ASSUME Init PROVE JobsInv
  OBVIOUS
<1>1. Sound(EmptyQueue)
  <2>1. EmptyQueue \in Queue BY Basics DEF EmptyQueue, Queue
  <2>2. Kept(EmptyQueue) BY Basics DEF EmptyQueue, Kept
  <2>3. Fits(EmptyQueue) BY Basics DEF EmptyQueue, Fits
  <2> QED BY <2>1, <2>2, <2>3 DEF Sound
<1>2. DeviceOK
  <2>1. scenario \in Scenario BY MessagesAssumption DEF Init, Scenario, Trouble
  <2>2. scenario.changes <= MaxTrouble /\ scenario.changes \in Nat
    BY <2>1, MessagesAssumption DEF Scenario, Trouble
  <2>3. /\ version \in [Messages -> Trouble]
        /\ \A m \in Messages : version[m] + scenario.changes <= MaxTrouble
    BY <2>2, BasicTypes DEF Init
  <2>4. quiet \in [Messages -> BOOLEAN] /\ upper \in BOOLEAN /\ refused \subseteq Messages
    BY DEF Init
  <2> QED BY <2>1, <2>3, <2>4 DEF DeviceOK
<1>3. LinkOK /\ FlagsOK BY BasicTypes DEF Init, LinkOK, FlagsOK, ConfigFlags, RuntimeFlags, Trouble
<1>4. CallsOK BY BasicTypes DEF Init, CallsOK, CallState
<1>5. TaskOK
  <2>1. task \in Task /\ task.at = "tick" BY BasicTypes DEF Init, TaskStates
  <2>2. -1 \in -1 .. MaxTrouble BY MessagesAssumption
  <2> QED BY <2>1, <2>2 DEF Init, TaskOK
<1> QED BY <1>1, <1>2, <1>3, <1>4, <1>5 DEF JobsInv, Init

(* The invariant holds in every state.                                      *)
LEMMA JobsAlways == Spec => []JobsInv
BY JobsInit, JobsStep, PTL DEF Spec

(* The table, the rings, the flags and the tasks always have their types;   *)
(* no ring holds more items than it has places.                             *)
THEOREM TypeCorrect == Spec => []TypeOK
<1>1. JobsInv => TypeOK
  <2> SUFFICES ASSUME JobsInv PROVE TypeOK
    OBVIOUS
  <2>1. QueueType(queue) BY DEF JobsInv, Sound, Queue, Fits, QueueType
  <2>2. \A a \in Actors : /\ calls[a].todo \in Seq(Call)
                          /\ calls[a].step \in {"mark", "enqueue", "concludeYes", "concludeNo"}
                          /\ calls[a].wasPending \in BOOLEAN
    BY DEF JobsInv, CallsOK, CallState
  <2> QED BY <2>1, <2>2 DEF JobsInv, DeviceOK, LinkOK, FlagsOK, TaskOK, TypeOK, Trouble, Task, Scenario
<1> QED BY <1>1, JobsAlways, PTL

(* No job that is marked as queued is without its item, whatever is         *)
(* enqueued again, retried, raised in priority or served, in which order,   *)
(* and with rings of any size: enqueueJob_ may take a request for a queued  *)
(* job as served.                                                           *)
THEOREM QueuedStaysReachable == Spec => []QueuedIsReachable
<1>1. JobsInv => QueuedIsReachable
  BY DEF JobsInv, Sound, Kept, InRing, QueuedIsReachable
<1> QED BY <1>1, JobsAlways, PTL
-----------------------------------------------------------------------------
(* What a job tells of the request it stands for.                           *)
Mailed(j) == <<j.used, j.message, j.processing, j.requeue>>

(* The jobs of an operation that are not s stand for what they stood for.   *)
OthersKeep(q, r, s) == \A t \in Slots : t # s => Mailed(r.job[t]) = Mailed(q.job[t])
AllKeep(q, r) == \A t \in Slots : Mailed(r.job[t]) = Mailed(q.job[t])

(* A job in a slot, and what the other slots then hold.                     *)
LEMMA WithJobIs ==
  ASSUME NEW q, q \in Queue, NEW s \in Slots, NEW j \in Job
  PROVE  /\ WithJob(q, s, j) \in Queue /\ WithJob(q, s, j).job[s] = j
         /\ \A t \in Slots : t # s => WithJob(q, s, j).job[t] = q.job[t]
<1>1. WithJob(q, s, j) \in Queue /\ WithJob(q, s, j).job = [q.job EXCEPT ![s] = j]
  BY DEF Queue, WithJob
<1> QED BY <1>1 DEF Queue

(* Queueing a slot is no news of the message.                               *)
LEMMA QueueSlotMail ==
  ASSUME NEW q, q \in Queue, NEW s \in Slots, NEW prio \in Prios, NEW inv \in BOOLEAN
  PROVE  AllKeep(q, QueueSlot(q, s, prio, inv).queue)
<1> DEFINE old == q.job[s].queued
           token == NextToken(IF old THEN NextToken(q.job[s].token) ELSE q.job[s].token)
           fits == Len(q.ring[prio]) < Cap[prio]
           one == [[[q.job[s] EXCEPT !.queued = fits] EXCEPT !.token = token] EXCEPT !.queuedPrio = prio]
           job == [q.job EXCEPT ![s] = one]
           r == QueueSlot(q, s, prio, inv).queue
<1>0. q.job \in [Slots -> Job] /\ q.job[s] \in Job
  BY DEF Queue
<1>1. CASE old /\ ~inv
  <2>1. QueueSlot(q, s, prio, inv) = [queue |-> q, ok |-> TRUE] BY <1>1 DEF QueueSlot
  <2> QED BY <2>1 DEF AllKeep
<1>2. CASE ~(old /\ ~inv)
  <2>1. r.job = job
    BY <1>2, <1>0 DEF QueueSlot
  <2>2. Mailed(one) = Mailed(q.job[s])
    BY <1>0 DEF Job, Mailed
  <2> HIDE DEF one, r
  <2>3. job[s] = one /\ \A t \in Slots : t # s => job[t] = q.job[t]
    BY <1>0
  <2> HIDE DEF job
  <2>4. \A t \in Slots : Mailed(r.job[t]) = Mailed(q.job[t])
    BY <2>1, <2>2, <2>3
  <2> QED BY <2>4 DEF AllKeep, r
<1> QED BY <1>1, <1>2

(* A message that has a job: a job that is being published notes the        *)
(* request, another one owes the message already.                           *)
LEMMA CoalesceMail ==
  ASSUME NEW q, Sound(q), NEW s \in Slots, q.job[s].used, NEW prio \in Prios
  PROVE  LET r == Coalesce(q, s, prio).queue IN
         /\ OthersKeep(q, r, s)
         /\ Mailed(r.job[s]) = <<TRUE, q.job[s].message, q.job[s].processing,
                                 q.job[s].processing \/ q.job[s].requeue>>
<1> DEFINE high == IF prio > q.job[s].priority THEN prio ELSE q.job[s].priority
           one == [q.job[s] EXCEPT !.priority = high]
           raised == WithJob(q, s, one)
           result == Coalesce(q, s, prio)
<1>0. q.job[s] \in Job /\ q \in Queue /\ q.job \in [Slots -> Job] BY DEF Sound, Queue
<1>a. q.job[s].processing \in BOOLEAN /\ q.job[s].requeue \in BOOLEAN /\ q.job[s].used = TRUE
  BY <1>0 DEF Job
<1>1. one \in Job /\ Mailed(one) = Mailed(q.job[s]) /\ one.priority \in Prios
      /\ one.processing = q.job[s].processing /\ one.queued \in BOOLEAN
  BY <1>0 DEF Job, Mailed
<1>2. [q EXCEPT !.job[s].priority = IF prio > @ THEN prio ELSE @] = raised
  BY <1>0 DEF Queue, WithJob
<1> HIDE DEF one
<1>3. /\ raised \in Queue /\ raised.job[s] = one
      /\ \A t \in Slots : t # s => raised.job[t] = q.job[t]
  BY <1>0, <1>1, WithJobIs
<1> HIDE DEF raised
<1>4. AllKeep(q, raised) BY <1>1, <1>3 DEF AllKeep
<1>5. CASE one.processing
  <2> DEFINE two == [one EXCEPT !.requeue = TRUE]
  <2>1. two \in Job /\ Mailed(two) = <<one.used, one.message, one.processing, TRUE>>
    BY <1>1 DEF Job, Mailed
  <2>2. [raised EXCEPT !.job[s].requeue = TRUE] = WithJob(raised, s, two)
    BY <1>3 DEF Queue, WithJob
  <2> HIDE DEF two
  <2>3. /\ WithJob(raised, s, two).job[s] = two
        /\ \A t \in Slots : t # s => WithJob(raised, s, two).job[t] = raised.job[t]
    BY <1>3, <2>1, WithJobIs
  <2>4. result = [queue |-> WithJob(raised, s, two), ok |-> TRUE]
    BY <1>2, <1>3, <1>5, <2>2 DEF Coalesce
  <2>5. result.queue = WithJob(raised, s, two) BY <2>4
  <2> HIDE DEF result
  <2>6. OthersKeep(q, result.queue, s) BY <1>3, <2>3, <2>5 DEF OthersKeep
  <2>7. one.used = q.job[s].used /\ one.message = q.job[s].message BY <1>1 DEF Mailed
  <2>8. Mailed(result.queue.job[s]) = <<TRUE, q.job[s].message, TRUE, TRUE>>
    BY <2>1, <2>3, <2>5, <2>7, <1>5, <1>a, <1>1
  <2> QED BY <2>6, <2>8, <1>1, <1>5, <1>a DEF result
<1>6. CASE ~one.processing
  <2>1. AllKeep(q, result.queue)
    <3>1. CASE one.queued /\ one.priority > one.queuedPrio
      <4>1. result = QueueSlot(raised, s, one.priority, TRUE)
        BY <1>2, <1>3, <1>6, <3>1 DEF Coalesce
      <4>2. AllKeep(raised, QueueSlot(raised, s, one.priority, TRUE).queue)
        BY <1>1, <1>3, QueueSlotMail
      <4> QED BY <1>4, <4>1, <4>2 DEF AllKeep
    <3>2. CASE one.queued /\ ~(one.priority > one.queuedPrio)
      <4>1. result = [queue |-> raised, ok |-> TRUE]
        BY <1>2, <1>3, <1>6, <3>2 DEF Coalesce
      <4> QED BY <1>4, <4>1
    <3>3. CASE ~one.queued
      <4> DEFINE two == [one EXCEPT !.notBefore = "zero"]
                 due == WithJob(raised, s, two)
      <4>1. two \in Job /\ Mailed(two) = Mailed(one) BY <1>1 DEF Job, NotBefore, Mailed
      <4>2. [raised EXCEPT !.job[s].notBefore = "zero"] = due
        BY <1>3 DEF Queue, WithJob
      <4>3. result = QueueSlot(due, s, one.priority, FALSE)
        BY <1>2, <1>3, <1>6, <3>3, <4>2 DEF Coalesce
      <4> HIDE DEF two
      <4>4. /\ due \in Queue /\ due.job[s] = two
            /\ \A t \in Slots : t # s => due.job[t] = raised.job[t]
        BY <1>3, <4>1, WithJobIs
      <4> HIDE DEF due
      <4>5. AllKeep(raised, due) BY <1>3, <4>1, <4>4 DEF AllKeep
      <4>6. AllKeep(due, QueueSlot(due, s, one.priority, FALSE).queue)
        BY <1>1, <4>4, QueueSlotMail
      <4> QED BY <1>4, <4>3, <4>5, <4>6 DEF AllKeep
    <3> QED BY <3>1, <3>2, <3>3
  <2> HIDE DEF result
  <2>2. OthersKeep(q, result.queue, s) /\ Mailed(result.queue.job[s]) = Mailed(q.job[s])
    BY <2>1 DEF AllKeep, OthersKeep
  <2>3. Mailed(q.job[s]) = <<TRUE, q.job[s].message, q.job[s].processing,
                             q.job[s].processing \/ q.job[s].requeue>>
    BY <1>1, <1>6, <1>a DEF Mailed
  <2> QED BY <2>2, <2>3 DEF result
<1> QED BY <1>5, <1>6, <1>1, <1>a

(* A message without a job is refused, or has a job from now on.            *)
LEMMA AdmitMail ==
  ASSUME NEW q, Sound(q), NEW m \in Messages, NEW prio \in Prios
  PROVE  LET r == Admit(q, m, prio).queue IN
         \/ r = q
         \/ \E s \in Slots : /\ ~q.job[s].used /\ OthersKeep(q, r, s)
                             /\ Mailed(r.job[s]) = <<TRUE, m, FALSE, FALSE>>
<1>2. CASE FreeSlots(q) = {}
  BY <1>2 DEF Admit
<1>3. CASE FreeSlots(q) # {}
  <2> DEFINE s == First(FreeSlots(q))
             fresh == [EmptyJob EXCEPT !.used = TRUE, !.message = m, !.priority = prio]
             new == WithJob(q, s, fresh)
             r == QueueSlot(new, s, prio, FALSE)
  <2>1. s \in Slots /\ ~q.job[s].used
    BY <1>3, FirstIsIn DEF FreeSlots
  <2>2. fresh \in Job /\ Mailed(fresh) = <<TRUE, m, FALSE, FALSE>>
    BY Basics DEF Job, EmptyJob, Mailed
  <2>3. Admit(q, m, prio) = IF r.ok THEN r ELSE [queue |-> q, ok |-> FALSE]
    BY <1>3 DEF Admit, WithJob
  <2> HIDE DEF s, fresh
  <2>4. new \in Queue /\ new.job[s] = fresh /\ \A t \in Slots : t # s => new.job[t] = q.job[t]
    BY <2>1, <2>2, WithJobIs DEF Sound
  <2> HIDE DEF new
  <2>5. AllKeep(new, r.queue)
    BY <2>1, <2>4, QueueSlotMail
  <2>6. OthersKeep(q, r.queue, s) /\ Mailed(r.queue.job[s]) = <<TRUE, m, FALSE, FALSE>>
    BY <2>1, <2>2, <2>4, <2>5 DEF AllKeep, OthersKeep
  <2> HIDE DEF r
  <2>7. Admit(q, m, prio).queue = q \/ Admit(q, m, prio).queue = r.queue
    BY <2>3
  <2> QED BY <2>1, <2>6, <2>7
<1> QED BY <1>2, <1>3

(* What a look has done: it took no job, or one that is from now on being   *)
(* published.                                                               *)
Taken(q, r, s) == /\ q.job[s].used /\ OthersKeep(q, r, s)
                  /\ Mailed(r.job[s]) = <<TRUE, q.job[s].message, TRUE, q.job[s].requeue>>
Seen(q, acc) == /\ Looked(q, acc)
                /\ acc.slot = 0 => AllKeep(q, acc.queue)
                /\ acc.slot # 0 => Taken(q, acc.queue, acc.slot)

(* One look at a ring.                                                      *)
LEMMA TryRingMail ==
  ASSUME NEW q, NEW acc, Seen(q, acc), NEW prio \in Prios, NEW half
  PROVE  Seen(q, TryRing(acc, prio, half))
<1> DEFINE now == acc.queue
           item == Head(now.ring[prio])
           pop == Popped(now, prio)
           one == [now.job[item.slot] EXCEPT !.queued = FALSE]
           off == WithJob(pop, item.slot, one)
           next == TryRing(acc, prio, half)
<1>0. /\ Sound(now) /\ now \in Queue /\ acc.slot \in 0 .. MaxJobs
      /\ acc = [queue |-> now, slot |-> acc.slot] /\ acc.queue = now
  BY DEF Seen, Looked, Grows
<1>a. Looked(q, TryRing(acc, prio, half)) BY TryRingKeeps DEF Seen
<1>1. CASE acc.slot # 0 \/ now.ring[prio] = <<>>
  <2>1. next = acc BY <1>1, Zenon DEF TryRing
  <2> QED BY <2>1
<1>2. CASE ~(acc.slot # 0 \/ now.ring[prio] = <<>>)
  <2>a. AllKeep(q, now) BY <1>2 DEF Seen
  <2>0. acc.slot = 0 BY <1>2
  <2> HIDE DEF now
  <2>1. /\ pop \in Queue /\ pop.job = now.job /\ item \in Item
    BY <1>0, <1>2, PopKeeps
  <2>2. item.slot \in Slots /\ now.job[item.slot] \in Job
    BY <1>0, <2>1 DEF Item, Queue
  <2>3. [pop EXCEPT !.job[item.slot].queued = FALSE] = off
    <3> HIDE DEF pop, item
    <3>1. pop \in Queue /\ pop.job = now.job BY <2>1
    <3> QED BY <3>1, <2>2, SMTT(30) DEF WithJob, Queue
  <2>4. one \in Job /\ Mailed(one) = Mailed(now.job[item.slot])
    BY <2>2 DEF Job, Mailed
  <2> HIDE DEF one
  <2>5. CASE ~Live(now, prio, item)
    <3>1. next = [queue |-> pop, slot |-> acc.slot]
      BY <1>0, <1>2, <2>5 DEF TryRing
    <3>2. next.queue = pop /\ next.slot = 0 BY <2>0, <3>1
    <3> HIDE DEF next, pop
    <3>3. AllKeep(q, next.queue) BY <2>1, <2>a, <3>2 DEF AllKeep
    <3> QED BY <1>a, <3>2, <3>3 DEF Seen, next
  <2> HIDE DEF item, pop
  <2>6. CASE Live(now, prio, item)
    <3>1. /\ off \in Queue /\ off.job[item.slot] = one
          /\ \A t \in Slots : t # item.slot => off.job[t] = now.job[t]
      BY <2>1, <2>2, <2>4, WithJobIs
    <3> HIDE DEF off
    <3>2. AllKeep(q, off) BY <2>4, <2>a, <3>1 DEF AllKeep
    <3>5. now.job[item.slot].used BY <2>6 DEF Live
    <3>6. CASE now.job[item.slot].processing
      <4>1. next = [queue |-> off, slot |-> acc.slot]
        BY <1>0, <1>2, <2>3, <2>6, <3>6, Zenon DEF TryRing, item, pop
      <4>2. next.queue = off /\ next.slot = 0 BY <2>0, <4>1
      <4> HIDE DEF next
      <4> QED BY <1>a, <3>2, <4>2 DEF Seen, next
    <3>7. CASE ~now.job[item.slot].processing /\ ~Due(now.job[item.slot], half)
      <4> DEFINE high == now.job[item.slot].priority
                 r == QueueSlot(off, item.slot, high, FALSE)
      <4>1. next = [queue |-> r.queue, slot |-> acc.slot]
        BY <1>0, <1>2, <2>3, <2>6, <3>7, Zenon DEF TryRing, item, pop
      <4>2. high \in Prios BY <2>2 DEF Job
      <4> HIDE DEF high
      <4>3. AllKeep(off, r.queue)
        BY <2>2, <3>1, <4>2, QueueSlotMail
      <4> HIDE DEF r
      <4>4. AllKeep(q, r.queue) BY <3>2, <4>3 DEF AllKeep
      <4>5. next.queue = r.queue /\ next.slot = 0 BY <2>0, <4>1
      <4> HIDE DEF next
      <4> QED BY <1>a, <4>4, <4>5 DEF Seen, next
    <3>8. CASE ~now.job[item.slot].processing /\ Due(now.job[item.slot], half)
      <4> DEFINE s == item.slot
                 two == [one EXCEPT !.processing = TRUE]
                 taken == WithJob(off, item.slot, two)
      <4>1. two \in Job /\ Mailed(two) = <<one.used, one.message, TRUE, one.requeue>>
        BY <2>4 DEF Job, Mailed
      <4>2. [off EXCEPT !.job[item.slot].processing = TRUE] = taken
        BY <2>2, <3>1 DEF WithJob, Queue
      <4>3. next = [queue |-> taken, slot |-> item.slot]
        BY <1>0, <1>2, <2>3, <2>6, <3>8, <4>2, Zenon DEF TryRing, item, pop
      <4>10. next.queue = taken /\ next.slot = s BY <4>3
      <4> HIDE DEF two, next
      <4>4. /\ taken.job[s] = two
            /\ \A t \in Slots : t # s => taken.job[t] = off.job[t]
        BY <2>2, <3>1, <4>1, WithJobIs
      <4> HIDE DEF taken
      <4>5. OthersKeep(q, taken, s) BY <3>2, <4>4 DEF AllKeep, OthersKeep
      <4>6. Mailed(one) = Mailed(q.job[s]) /\ q.job[s].used
        <5>1. Mailed(now.job[s]) = Mailed(q.job[s]) BY <2>2, <2>a DEF AllKeep
        <5>2. now.job[s].used = TRUE BY <3>5, <2>2 DEF Job
        <5> QED BY <2>4, <5>1, <5>2 DEF Mailed
      <4>7. one.used = TRUE BY <2>4, <2>2, <3>5 DEF Mailed, Job
      <4>8. Mailed(taken.job[s]) = <<TRUE, q.job[s].message, TRUE, q.job[s].requeue>>
        BY <4>1, <4>4, <4>6, <4>7 DEF Mailed
      <4>9. s \in Slots /\ s # 0 BY <2>2 DEF Slots
      <4> QED BY <1>a, <4>10, <4>5, <4>6, <4>8, <4>9 DEF Seen, Taken, next
    <3> QED BY <3>6, <3>7, <3>8, <2>2 DEF Job
  <2> QED BY <2>5, <2>6
<1> QED BY <1>1, <1>2

(* dequeueNextJob_ marks the one job it returns as being published.         *)
LEMMA DequeueMail ==
  ASSUME NEW q, Sound(q), NEW half
  PROVE  Seen(q, DequeueNextJob(q, half))
<1> DEFINE N == 3 * Scans(q)
           f == CHOOSE g : IsScan(q, g, N, half)
<1>1. N \in Nat
  <2>1. \A p \in Prios : Len(q.ring[p]) \in Nat BY LenProperties DEF Sound, Queue
  <2>2. Len(q.ring[Low]) \in Nat /\ Len(q.ring[Normal]) \in Nat /\ Len(q.ring[High]) \in Nat
    BY <2>1, Basics
  <2>3. \A a, b, c \in Nat : 3 * (a + b + c + 4) \in Nat OBVIOUS
  <2> QED BY <2>2, <2>3, Zenon DEF Scans
<1>2. DequeueNextJob(q, half) = f[N]
  BY Zenon DEF DequeueNextJob, IsScan, LookNext
<1> HIDE DEF N
<1>3. IsScan(q, f, N, half)
  BY <1>1, ScanExists
<1> HIDE DEF f
<1>4. \A n \in 0 .. N : f[n] = LookNext(q, f[n - 1], n, half)
  BY <1>1, <1>3 DEF IsScan
<1>5. \A n \in 0 .. N : Seen(q, f[n])
  <2> DEFINE T == {n \in 0 .. N : ~Seen(q, f[n])}
  <2> SUFFICES ASSUME T # {} PROVE FALSE
    OBVIOUS
  <2>0. T \subseteq Nat OBVIOUS
  <2>1. PICK k \in T : \A y \in T : k <= y
    BY <2>0, Least
  <2>2. k \in 0 .. N /\ f[k] = LookNext(q, f[k - 1], k, half) /\ ~Seen(q, f[k])
    BY <1>4, <2>1
  <2>3. CASE k = 0
    <3>1. f[0] = [queue |-> q, slot |-> 0] BY <2>2, <2>3 DEF LookNext
    <3>2. Seen(q, [queue |-> q, slot |-> 0])
      BY QueueAssumption DEF Seen, Looked, Grows, Sound, AllKeep
    <3> QED BY <2>2, <2>3, <3>1, <3>2
  <2>4. CASE k # 0
    <3>1. k - 1 \in 0 .. N /\ k - 1 \notin T BY <1>1, <2>1, <2>2, <2>4
    <3>2. Seen(q, f[k - 1]) BY <3>1
    <3>3. k \in Nat \ {0} BY <2>2, <2>4
    <3>4. f[k] = TryRing(f[k - 1], RingAt(k), half) BY <2>2, <3>3, NextIsTry
    <3>5. RingAt(k) \in Prios
      <4>1. (k - 1) % 3 \in 0 .. 2 BY <3>3
      <4> QED BY <4>1, Basics DEF RingAt
    <3> QED BY <2>2, <3>2, <3>4, <3>5, TryRingMail
  <2> QED BY <2>3, <2>4
<1> QED BY <1>1, <1>2, <1>5

(* The end of a job: it is freed, or it owes the message again.             *)
LEMMA EndMail ==
  ASSUME NEW q, Sound(q), NEW s \in Slots, q.job[s].used
  PROVE  /\ OthersKeep(q, Finish(q, s), s) /\ OthersKeep(q, RetryLater(q, s), s)
         /\ ~q.job[s].requeue => ~Finish(q, s).job[s].used
         /\ q.job[s].requeue => Mailed(Finish(q, s).job[s]) = <<TRUE, q.job[s].message, FALSE, FALSE>>
         /\ Mailed(RetryLater(q, s).job[s]) = <<TRUE, q.job[s].message, FALSE, FALSE>>
<1>0. q \in Queue /\ q.job[s] \in Job /\ q.job[s].used = TRUE BY DEF Sound, Queue, Job
<1> DEFINE high == q.job[s].priority
           again == [q.job[s] EXCEPT !.processing = FALSE, !.requeue = FALSE, !.notBefore = "zero"]
           later == [q.job[s] EXCEPT !.processing = FALSE, !.requeue = FALSE, !.notBefore = "ahead"]
           retold == <<TRUE, q.job[s].message, FALSE, FALSE>>
<1>1. /\ again \in Job /\ later \in Job /\ high \in Prios
      /\ Mailed(again) = retold /\ Mailed(later) = retold
  BY <1>0 DEF Job, NotBefore, Mailed
<1>2. Again(Idle(q, s), s) = QueueSlot(WithJob(q, s, again), s, high, FALSE).queue
  <2>1. [Idle(q, s) EXCEPT !.job[s].requeue = FALSE, !.job[s].notBefore = "zero"] = WithJob(q, s, again)
    BY <1>0 DEF Idle, WithJob, Queue, Job
  <2>2. Idle(q, s).job[s].priority = high
    BY <1>0 DEF Idle, Queue, Job
  <2> QED BY <2>1, <2>2 DEF Again
<1>3. RetryLater(q, s) = QueueSlot(WithJob(q, s, later), s, high, FALSE).queue
  <2>1. [Idle(q, s) EXCEPT !.job[s].requeue = FALSE, !.job[s].notBefore = "ahead"] = WithJob(q, s, later)
    BY <1>0 DEF Idle, WithJob, Queue, Job
  <2> QED BY <2>1 DEF RetryLater
<1> HIDE DEF again, later, high
<1>4. ASSUME NEW j \in Job, Mailed(j) = retold
      PROVE  LET r == QueueSlot(WithJob(q, s, j), s, high, FALSE).queue
             IN  OthersKeep(q, r, s) /\ Mailed(r.job[s]) = retold
  <2> DEFINE new == WithJob(q, s, j)
             r == QueueSlot(new, s, high, FALSE).queue
  <2>1. new \in Queue /\ new.job[s] = j /\ \A t \in Slots : t # s => new.job[t] = q.job[t]
    BY <1>0, WithJobIs
  <2> HIDE DEF new
  <2>2. AllKeep(new, r) BY <1>1, <2>1, QueueSlotMail
  <2> HIDE DEF r
  <2>3. OthersKeep(q, r, s) /\ Mailed(r.job[s]) = retold
    BY <1>4, <2>1, <2>2 DEF AllKeep, OthersKeep
  <2> QED BY <2>3 DEF r, new
<1>5. OthersKeep(q, RetryLater(q, s), s) /\ Mailed(RetryLater(q, s).job[s]) = retold
  BY <1>1, <1>3, <1>4
<1>6. OthersKeep(q, Again(Idle(q, s), s), s) /\ Mailed(Again(Idle(q, s), s).job[s]) = retold
  BY <1>1, <1>2, <1>4
<1>7. LET r == WithJob(q, s, EmptyJob) IN OthersKeep(q, r, s) /\ ~r.job[s].used
  BY <1>0, Basics, WithJobIs DEF OthersKeep
<1>8. Finish(q, s) = IF q.job[s].requeue THEN Again(Idle(q, s), s) ELSE WithJob(q, s, EmptyJob)
  BY DEF Finish, WithJob
<1>9. CASE q.job[s].requeue BY <1>5, <1>6, <1>8, <1>9
<1>10. CASE ~q.job[s].requeue BY <1>5, <1>7, <1>8, <1>10
<1> QED BY <1>9, <1>10
-----------------------------------------------------------------------------
(* A message has one job at most.                                           *)
OneEach(q) ==
  \A s \in Slots : q.job[s].used =>
    /\ q.job[s].message \in Messages
    /\ \A t \in Slots : q.job[t].used /\ q.job[t].message = q.job[s].message => t = s

(* The jobs that are being published are the one the mqtt task w works on.  *)
Worked(q, w) ==
  /\ \A s \in Slots : q.job[s].used /\ q.job[s].processing => w.at \in {"build", "settle"} /\ w.slot = s
  /\ w.at \in {"build", "settle"} => /\ w.slot \in Slots /\ q.job[w.slot].used
                                     /\ q.job[w.slot].processing /\ q.job[w.slot].message = w.message

MailInv == OneEach(queue) /\ Worked(queue, task)

(* MailOf, for any queue and any state of the mqtt task.                    *)
Building(w, s) == w.at = "build" /\ w.slot = s
SlotMail(q, w, s) ==
  IF q.job[s].processing /\ ~Building(w, s)
  THEN IF q.job[s].requeue THEN "again" ELSE "sending"
  ELSE "owed"
MailIn(q, w, m) == IF JobsOf(q, m) = {} THEN "none" ELSE SlotMail(q, w, First(JobsOf(q, m)))
Mails(q, w) == [m \in Messages |-> MailIn(q, w, m)]

(* What may become of the mail of one message.                              *)
Legal == {<<"none", "owed">>, <<"sending", "again">>, <<"owed", "sending">>, <<"owed", "again">>,
          <<"sending", "none">>, <<"again", "owed">>, <<"sending", "owed">>}
Moves(q, w, r, v) ==
  \/ Mails(r, v) = Mails(q, w)
  \/ \E n \in Messages, x \in {"none", "owed", "sending", "again"} :
       /\ <<MailIn(q, w, n), x>> \in Legal
       /\ Mails(r, v) = [Mails(q, w) EXCEPT ![n] = x]

(* The job of a message tells its mail.                                     *)
LEMMA MailOfJob ==
  ASSUME NEW q, NEW w, OneEach(q), NEW s \in Slots, q.job[s].used
  PROVE  MailIn(q, w, q.job[s].message) = SlotMail(q, w, s) /\ q.job[s].message \in Messages
<1>1. JobsOf(q, q.job[s].message) = {s} BY DEF OneEach, JobsOf
<1>2. First({s}) = s BY FirstIsIn
<1> QED BY <1>1, <1>2 DEF MailIn, OneEach

(* Without a job there is no mail.                                          *)
LEMMA NoJobNoMail ==
  ASSUME NEW q, NEW w, NEW m, \A t \in Slots : q.job[t].used => q.job[t].message # m
  PROVE  MailIn(q, w, m) = "none"
<1>1. JobsOf(q, m) = {} BY DEF JobsOf
<1> QED BY <1>1 DEF MailIn

(* The other slots keep their mail.                                         *)
SlotsKeep(q, w, r, v, s) ==
  \A t \in Slots : t # s /\ q.job[t].used => SlotMail(r, v, t) = SlotMail(q, w, t)

(* A step that touches one slot touches the mail of its message only.       *)
LEMMA OneSlot ==
  ASSUME NEW q, NEW w, NEW r, NEW v, NEW s \in Slots, OneEach(q),
         OthersKeep(q, r, s), SlotsKeep(q, w, r, v, s),
         r.job[s].used => /\ r.job[s].message \in Messages
                          /\ \A t \in Slots : t # s /\ q.job[t].used
                                                => q.job[t].message # r.job[s].message
  PROVE  /\ OneEach(r)
         /\ \A m \in Messages : /\ ~(q.job[s].used /\ q.job[s].message = m)
                                /\ ~(r.job[s].used /\ r.job[s].message = m)
                                => MailIn(r, v, m) = MailIn(q, w, m)
<1>1. \A t \in Slots : t # s => r.job[t].used = q.job[t].used /\ r.job[t].message = q.job[t].message
  BY DEF OthersKeep, Mailed
<1>2. OneEach(r)
  <2> SUFFICES ASSUME NEW t \in Slots, r.job[t].used
               PROVE  /\ r.job[t].message \in Messages
                      /\ \A u \in Slots : r.job[u].used /\ r.job[u].message = r.job[t].message => u = t
    BY DEF OneEach
  <2>1. CASE t = s BY <1>1, <2>1
  <2>2. CASE t # s
    <3>1. q.job[t].used /\ r.job[t].message = q.job[t].message /\ q.job[t].message \in Messages
      BY <1>1, <2>2 DEF OneEach
    <3>2. ASSUME NEW u \in Slots, r.job[u].used, r.job[u].message = r.job[t].message PROVE u = t
      <4>1. CASE u = s BY <3>1, <3>2, <4>1, <2>2
      <4>2. CASE u # s BY <3>1, <3>2, <4>2, <1>1 DEF OneEach
      <4> QED BY <4>1, <4>2
    <3> QED BY <3>1, <3>2
  <2> QED BY <2>1, <2>2
<1>3. ASSUME NEW m \in Messages, ~(q.job[s].used /\ q.job[s].message = m),
             ~(r.job[s].used /\ r.job[s].message = m)
      PROVE  MailIn(r, v, m) = MailIn(q, w, m)
  <2>1. JobsOf(r, m) = JobsOf(q, m) BY <1>1, <1>3 DEF JobsOf
  <2>2. CASE JobsOf(q, m) = {} BY <2>1, <2>2 DEF MailIn
  <2>3. CASE JobsOf(q, m) # {}
    <3> DEFINE t == First(JobsOf(q, m))
    <3>1. t \in JobsOf(q, m) BY <2>3, FirstIsIn DEF JobsOf
    <3> HIDE DEF t
    <3>2. t \in Slots /\ t # s /\ q.job[t].used BY <3>1, <1>3 DEF JobsOf
    <3>3. SlotMail(r, v, t) = SlotMail(q, w, t) BY <3>2 DEF SlotsKeep
    <3> QED BY <2>1, <2>3, <3>3 DEF MailIn, t
  <2> QED BY <2>2, <2>3
<1> QED BY <1>2, <1>3

(* Nothing happens to any mail.                                             *)
LEMMA NoSlot ==
  ASSUME NEW q, NEW w, NEW r, NEW v, OneEach(q), AllKeep(q, r),
         \A t \in Slots : q.job[t].used => SlotMail(r, v, t) = SlotMail(q, w, t)
  PROVE  OneEach(r) /\ Moves(q, w, r, v)
<1>1. \A t \in Slots : r.job[t].used = q.job[t].used /\ r.job[t].message = q.job[t].message
  BY DEF AllKeep, Mailed
<1>2. OneEach(r) BY <1>1 DEF OneEach
<1>3. ASSUME NEW m \in Messages PROVE MailIn(r, v, m) = MailIn(q, w, m)
  <2>1. JobsOf(r, m) = JobsOf(q, m) BY <1>1 DEF JobsOf
  <2>2. CASE JobsOf(q, m) = {} BY <2>1, <2>2 DEF MailIn
  <2>3. CASE JobsOf(q, m) # {}
    <3> DEFINE t == First(JobsOf(q, m))
    <3>1. t \in JobsOf(q, m) BY <2>3, FirstIsIn DEF JobsOf
    <3> HIDE DEF t
    <3>2. t \in Slots /\ q.job[t].used BY <3>1 DEF JobsOf
    <3>3. SlotMail(r, v, t) = SlotMail(q, w, t) BY <3>2
    <3> QED BY <2>1, <2>3, <3>3 DEF MailIn, t
  <2> QED BY <2>2, <2>3
<1>4. Mails(r, v) = Mails(q, w) BY <1>3 DEF Mails
<1> QED BY <1>2, <1>4 DEF Moves

(* The mail of one message moves, or stays what it is.                      *)
LEMMA OneMoves ==
  ASSUME NEW q, NEW w, NEW r, NEW v, NEW n \in Messages,
         \A m \in Messages : m # n => MailIn(r, v, m) = MailIn(q, w, m),
         \/ MailIn(r, v, n) = MailIn(q, w, n)
         \/ <<MailIn(q, w, n), MailIn(r, v, n)>> \in Legal
  PROVE  Moves(q, w, r, v)
<1>1. CASE MailIn(r, v, n) = MailIn(q, w, n)
  <2>1. \A m \in Messages : MailIn(r, v, m) = MailIn(q, w, m) BY <1>1
  <2>2. Mails(r, v) = Mails(q, w) BY <2>1 DEF Mails
  <2> QED BY <2>2 DEF Moves
<1>2. CASE <<MailIn(q, w, n), MailIn(r, v, n)>> \in Legal
  <2> DEFINE x == MailIn(r, v, n)
  <2>1. x \in {"none", "owed", "sending", "again"} BY <1>2 DEF Legal
  <2>2. Mails(r, v) = [Mails(q, w) EXCEPT ![n] = x] BY DEF Mails
  <2> QED BY <1>2, <2>1, <2>2 DEF Moves
<1> QED BY <1>1, <1>2

(* A move of the mail is a step of the outbox.                              *)
LEMMA MoveIsStep ==
  ASSUME Moves(queue, task, queue', task')
  PROVE  [Outbox!OutboxNext]_([m \in Messages |-> MailOf(m)])
<1>1. [m \in Messages |-> MailOf(m)] = Mails(queue, task)
  <2>1. ASSUME NEW m \in Messages PROVE MailOf(m) = MailIn(queue, task, m)
    BY Zenon DEF MailOf, MailIn, SlotMail, Building
  <2> QED BY <2>1 DEF Mails
<1>2. [m \in Messages |-> MailOf(m)]' = Mails(queue', task')
  <2>1. ASSUME NEW m \in Messages PROVE MailOf(m)' = MailIn(queue', task', m)
    BY Zenon DEF MailOf, MailIn, SlotMail, Building
  <2> QED BY <2>1 DEF Mails
<1>3. CASE Mails(queue', task') = Mails(queue, task)
  BY <1>1, <1>2, <1>3
<1>4. ASSUME NEW n \in Messages, NEW x \in {"none", "owed", "sending", "again"},
             <<MailIn(queue, task, n), x>> \in Legal,
             Mails(queue', task') = [Mails(queue, task) EXCEPT ![n] = x]
      PROVE  Outbox!OutboxNext
  <2> DEFINE was == MailIn(queue, task, n)
  <2>1. Mails(queue, task)[n] = was BY DEF Mails
  <2>2. \/ was = "none" /\ x = "owed"
        \/ was = "sending" /\ x = "again"
        \/ was = "owed" /\ x \in {"sending", "again"}
        \/ was = "sending" /\ x = "none"
        \/ was = "again" /\ x = "owed"
        \/ was = "sending" /\ x = "owed"
    BY <1>4 DEF Legal
  <2> HIDE DEF was
  <2>3. \/ Outbox!Accept(n) \/ Outbox!Build(n) \/ Outbox!Done(n) \/ Outbox!Fail(n)
    BY <1>1, <1>2, <1>4, <2>1, <2>2
       DEF Outbox!Accept, Outbox!Build, Outbox!Done, Outbox!Fail, Outbox!Becomes
  <2> QED BY <2>3 DEF Outbox!OutboxNext
<1> QED BY <1>3, <1>4 DEF Moves
-----------------------------------------------------------------------------
(* A request: nothing owed becomes owed, a message that is being published  *)
(* is noted, and what is owed is owed once.                                 *)
LEMMA EnqueueMoves ==
  ASSUME NEW q, NEW w, Sound(q), OneEach(q), Worked(q, w), NEW m \in Messages, NEW prio \in Prios
  PROVE  LET r == EnqueueJob(q, m, prio).queue
         IN  OneEach(r) /\ Worked(r, w) /\ Moves(q, w, r, w)
<1> DEFINE r == EnqueueJob(q, m, prio).queue
<1>1. CASE JobsOf(q, m) = {}
  <2>0. r = Admit(q, m, prio).queue BY <1>1 DEF EnqueueJob
  <2>1. CASE r = q
    <3>1. OneEach(q) /\ Moves(q, w, q, w) BY NoSlot DEF AllKeep
    <3> QED BY <2>1, <3>1
  <2>2. CASE r # q
    <3>1. PICK s \in Slots : /\ ~q.job[s].used /\ OthersKeep(q, r, s)
                             /\ Mailed(r.job[s]) = <<TRUE, m, FALSE, FALSE>>
      BY <2>0, <2>2, AdmitMail
    <3> HIDE DEF r
    <3>2. r.job[s].used /\ r.job[s].message = m /\ ~r.job[s].processing
      BY <3>1 DEF Mailed
    <3>3. \A t \in Slots : q.job[t].used => q.job[t].message # m BY <1>1 DEF JobsOf
    <3>4. SlotsKeep(q, w, r, w, s)
      BY <3>1 DEF SlotsKeep, SlotMail, OthersKeep, Mailed
    <3>5. /\ OneEach(r)
          /\ \A n \in Messages : n # m => MailIn(r, w, n) = MailIn(q, w, n)
      BY <3>1, <3>2, <3>3, <3>4, OneSlot
    <3>6. MailIn(q, w, m) = "none" BY <3>3, NoJobNoMail
    <3>7. MailIn(r, w, m) = "owed"
      <4>1. MailIn(r, w, m) = SlotMail(r, w, s) BY <3>2, <3>5, MailOfJob
      <4> QED BY <4>1, <3>2 DEF SlotMail
    <3>8. Moves(q, w, r, w)
      <4>1. <<MailIn(q, w, m), MailIn(r, w, m)>> \in Legal BY <3>6, <3>7 DEF Legal
      <4> QED BY <3>5, <4>1, OneMoves
    <3>9. Worked(r, w)
      BY <3>1, <3>2 DEF Worked, OthersKeep, Mailed
    <3> QED BY <3>5, <3>8, <3>9 DEF r
  <2> QED BY <2>1, <2>2
<1>2. CASE JobsOf(q, m) # {}
  <2> DEFINE s == First(JobsOf(q, m))
  <2>1. s \in Slots /\ q.job[s].used /\ q.job[s].message = m
    BY <1>2, FirstIsIn DEF JobsOf
  <2>2. r = Coalesce(q, s, prio).queue BY <1>2 DEF EnqueueJob
  <2> HIDE DEF s
  <2>3. /\ OthersKeep(q, r, s)
        /\ Mailed(r.job[s]) = <<TRUE, q.job[s].message, q.job[s].processing,
                                q.job[s].processing \/ q.job[s].requeue>>
    BY <2>1, <2>2, CoalesceMail
  <2> HIDE DEF r
  <2>4. /\ r.job[s].used /\ r.job[s].message = m
        /\ r.job[s].processing = q.job[s].processing
        /\ q.job[s].processing => r.job[s].requeue
    BY <2>1, <2>3 DEF Mailed
  <2>5. SlotsKeep(q, w, r, w, s)
    BY <2>3 DEF SlotsKeep, SlotMail, OthersKeep, Mailed
  <2>6. \A t \in Slots : t # s /\ q.job[t].used => q.job[t].message # m
    BY <2>1 DEF OneEach
  <2>7. /\ OneEach(r)
        /\ \A n \in Messages : n # m => MailIn(r, w, n) = MailIn(q, w, n)
    BY <2>1, <2>3, <2>4, <2>5, <2>6, OneSlot
  <2>8. MailIn(q, w, m) = SlotMail(q, w, s) /\ MailIn(r, w, m) = SlotMail(r, w, s)
    BY <2>1, <2>4, <2>7, MailOfJob
  <2>9. \/ MailIn(r, w, m) = MailIn(q, w, m)
        \/ <<MailIn(q, w, m), MailIn(r, w, m)>> \in Legal
    BY <2>4, <2>8 DEF SlotMail, Legal
  <2>10. Moves(q, w, r, w) BY <2>7, <2>9, OneMoves
  <2>11. Worked(r, w)
    <3>1. \A t \in Slots : /\ (r.job[t].used /\ r.job[t].processing)
                              => (q.job[t].used /\ q.job[t].processing)
                           /\ (q.job[t].used /\ q.job[t].processing)
                              => (r.job[t].used /\ r.job[t].processing)
                           /\ r.job[t].message = q.job[t].message
      BY <2>1, <2>3, <2>4 DEF OthersKeep, Mailed
    <3> QED BY <3>1 DEF Worked
  <2> QED BY <2>7, <2>10, <2>11 DEF r
<1> QED BY <1>1, <1>2

(* A step of the mqtt task that ends no job and begins none.                *)
LEMMA StandsStill ==
  ASSUME NEW q, NEW w, NEW r, NEW v, OneEach(q), Worked(q, w), AllKeep(q, r),
         v = w \/ {v.at, w.at} \intersect {"build", "settle"} = {}
  PROVE  OneEach(r) /\ Worked(r, v) /\ Moves(q, w, r, v)
<1>1. \A t \in Slots : /\ r.job[t].used = q.job[t].used /\ r.job[t].message = q.job[t].message
                       /\ r.job[t].processing = q.job[t].processing
                       /\ r.job[t].requeue = q.job[t].requeue
  BY DEF AllKeep, Mailed
<1>2. \A t \in Slots : SlotMail(r, v, t) = SlotMail(q, w, t)
  BY <1>1 DEF SlotMail, Building
<1>3. Worked(r, v) BY <1>1 DEF Worked
<1> QED BY <1>2, <1>3, NoSlot

(* A job is taken: it is owed until it is built.                            *)
LEMMA ServeMoves ==
  ASSUME NEW q, NEW w, NEW r, NEW v, NEW s \in Slots, OneEach(q), Worked(q, w), w.at = "serve",
         Taken(q, r, s), v.at = "build", v.slot = s, v.message = r.job[s].message
  PROVE  OneEach(r) /\ Worked(r, v) /\ Moves(q, w, r, v)
<1> DEFINE n == q.job[s].message
<1>1. /\ q.job[s].used /\ OthersKeep(q, r, s) /\ n \in Messages
      /\ r.job[s].used /\ r.job[s].message = n /\ r.job[s].processing
  BY DEF Taken, Mailed, OneEach
<1>2. \A t \in Slots : q.job[t].used => ~q.job[t].processing BY DEF Worked
<1>3. SlotsKeep(q, w, r, v, s)
  BY <1>1, <1>2 DEF SlotsKeep, SlotMail, OthersKeep, Mailed
<1>4. /\ OneEach(r)
      /\ \A m \in Messages : m # n => MailIn(r, v, m) = MailIn(q, w, m)
  <2>1. \A t \in Slots : t # s /\ q.job[t].used => q.job[t].message # n BY <1>1 DEF OneEach
  <2> QED BY <1>1, <1>3, <2>1, OneSlot
<1>5. MailIn(q, w, n) = "owed" /\ MailIn(r, v, n) = "owed"
  <2>1. MailIn(q, w, n) = SlotMail(q, w, s) BY <1>1, MailOfJob
  <2>2. MailIn(r, v, n) = SlotMail(r, v, s) BY <1>1, <1>4, MailOfJob
  <2> QED BY <2>1, <2>2, <1>1, <1>2 DEF SlotMail, Building
<1>6. Worked(r, v) BY <1>1, <1>2 DEF Worked, OthersKeep, Mailed
<1>7. Moves(q, w, r, v) BY <1>1, <1>4, <1>5, OneMoves
<1> QED BY <1>4, <1>6, <1>7

(* A message is built: from now on requests for it are noted.               *)
LEMMA BuildMoves ==
  ASSUME NEW q, NEW w, NEW v, OneEach(q), Worked(q, w), w.at = "build",
         v.at = "settle", v.slot = w.slot, v.message = w.message
  PROVE  Worked(q, v) /\ Moves(q, w, q, v)
<1> DEFINE s == w.slot
           n == w.message
<1>1. /\ s \in Slots /\ q.job[s].used /\ q.job[s].processing /\ q.job[s].message = n
      /\ n \in Messages
      /\ \A t \in Slots : t # s /\ q.job[t].used => ~q.job[t].processing
  BY DEF Worked, OneEach
<1>2. SlotsKeep(q, w, q, v, s) BY <1>1 DEF SlotsKeep, SlotMail
<1>3. \A m \in Messages : m # n => MailIn(q, v, m) = MailIn(q, w, m)
  <2>1. \A t \in Slots : t # s /\ q.job[t].used => q.job[t].message # n BY <1>1 DEF OneEach
  <2>2. OthersKeep(q, q, s) BY DEF OthersKeep
  <2> QED BY <1>1, <1>2, <2>1, <2>2, OneSlot
<1>4. MailIn(q, w, n) = "owed" /\ MailIn(q, v, n) \in {"again", "sending"}
  <2>1. MailIn(q, w, n) = SlotMail(q, w, s) /\ MailIn(q, v, n) = SlotMail(q, v, s)
    BY <1>1, MailOfJob
  <2> QED BY <2>1, <1>1 DEF SlotMail, Building
<1>5. Moves(q, w, q, v)
  <2>1. <<MailIn(q, w, n), MailIn(q, v, n)>> \in Legal BY <1>4 DEF Legal
  <2> QED BY <1>1, <1>3, <2>1, OneMoves
<1> QED BY <1>5 DEF Worked

(* A job ends: what was asked for since it was built is owed, and so is     *)
(* what could not be published.                                             *)
LEMMA EndMoves ==
  ASSUME NEW q, NEW w, NEW r, NEW v, OneEach(q), Sound(q), Worked(q, w), w.at = "settle",
         v.at = "callback", r = Finish(q, w.slot) \/ r = RetryLater(q, w.slot)
  PROVE  OneEach(r) /\ Worked(r, v) /\ Moves(q, w, r, v)
<1> DEFINE s == w.slot
           n == w.message
<1>1. /\ s \in Slots /\ q.job[s].used /\ q.job[s].processing /\ q.job[s].message = n
      /\ n \in Messages
      /\ \A t \in Slots : t # s /\ q.job[t].used => ~q.job[t].processing
  BY DEF Worked, OneEach
<1>2. /\ OthersKeep(q, r, s)
      /\ \/ ~q.job[s].requeue /\ ~r.job[s].used
         \/ Mailed(r.job[s]) = <<TRUE, n, FALSE, FALSE>>
  BY <1>1, EndMail
<1>3. r.job[s].used => r.job[s].message = n /\ ~r.job[s].processing
  BY <1>2 DEF Mailed
<1>4. SlotsKeep(q, w, r, v, s) BY <1>1, <1>2 DEF SlotsKeep, SlotMail, OthersKeep, Mailed
<1>5. \A t \in Slots : t # s /\ q.job[t].used => q.job[t].message # n BY <1>1 DEF OneEach
<1>6. /\ OneEach(r)
      /\ \A m \in Messages : m # n => MailIn(r, v, m) = MailIn(q, w, m)
  BY <1>1, <1>2, <1>3, <1>4, <1>5, OneSlot
<1>7. MailIn(q, w, n) = IF q.job[s].requeue THEN "again" ELSE "sending"
  <2>1. MailIn(q, w, n) = SlotMail(q, w, s) BY <1>1, MailOfJob
  <2> QED BY <2>1, <1>1 DEF SlotMail, Building
<1>8. <<MailIn(q, w, n), MailIn(r, v, n)>> \in Legal
  <2>1. CASE r.job[s].used
    <3>1. MailIn(r, v, n) = SlotMail(r, v, s) BY <1>3, <1>6, <1>1, <2>1, MailOfJob
    <3>2. MailIn(r, v, n) = "owed" BY <3>1, <1>3, <2>1 DEF SlotMail
    <3> QED BY <1>7, <3>2 DEF Legal
  <2>2. CASE ~r.job[s].used
    <3>1. \A t \in Slots : r.job[t].used => r.job[t].message # n
      BY <1>2, <1>5, <2>2 DEF OthersKeep, Mailed
    <3>2. MailIn(r, v, n) = "none" BY <3>1, NoJobNoMail
    <3>3. ~q.job[s].requeue BY <1>2, <2>2 DEF Mailed
    <3> QED BY <1>7, <3>2, <3>3 DEF Legal
  <2> QED BY <2>1, <2>2
<1>9. Worked(r, v) BY <1>1, <1>2, <1>3 DEF Worked, OthersKeep, Mailed
<1>10. Moves(q, w, r, v) BY <1>1, <1>6, <1>8, OneMoves
<1> QED BY <1>6, <1>9, <1>10
-----------------------------------------------------------------------------
(* A job whose instant moves stands for the same request.                   *)
LEMMA RedatedMail ==
  ASSUME Sound(queue), NEW moved \in SUBSET Slots, NEW n \in NotBefore,
         queue' = [queue EXCEPT !.job = [s \in Slots |->
                     IF s \in moved THEN [@[s] EXCEPT !.notBefore = n] ELSE @[s]]]
  PROVE  AllKeep(queue, queue')
<1>1. queue \in Queue BY DEF Sound
<1>2. \A s \in Slots : \/ queue'.job[s] = queue.job[s]
                       \/ queue'.job[s] = [queue.job[s] EXCEPT !.notBefore = n]
  BY <1>1, RedatedIs, Zenon
<1> QED BY <1>1, <1>2 DEF Queue, Job, Mailed, AllKeep

(* Every step moves the mail of one message as MqttOutbox allows, or none.  *)
LEMMA MailStep ==
  ASSUME JobsInv, MailInv, [Next]_vars
  PROVE  MailInv' /\ Moves(queue, task, queue', task')
<1> DEFINE Goal == MailInv' /\ Moves(queue, task, queue', task')
<1>0. Sound(queue) /\ OneEach(queue) /\ Worked(queue, task) /\ task \in Task
  BY DEF JobsInv, MailInv, TaskOK
<1>a. AllKeep(queue, queue) BY DEF AllKeep
<1>b. ASSUME OneEach(queue'), Worked(queue', task'), Moves(queue, task, queue', task')
      PROVE  Goal
  BY <1>b DEF MailInv
<1>c. ASSUME UNCHANGED queue, \/ UNCHANGED task
                              \/ {task'.at, task.at} \intersect {"build", "settle"} = {}
      PROVE  Goal
  <2>1. AllKeep(queue, queue') BY <1>a, <1>c
  <2> QED BY <1>0, <1>b, <1>c, <2>1, StandsStill
<1> SUFFICES Goal
  OBVIOUS
<1> HIDE DEF Goal
<1>1. CASE UNCHANGED <<queue, task>> BY <1>1, <1>c
<1>2. ASSUME NEW a \in Actors, Enqueue(a) PROVE Goal
  <2> DEFINE m == Current(a).message
             r == EnqueueJob(queue, m, Current(a).prio).queue
  <2>1. m \in Messages /\ Current(a).prio \in Prios
    BY <1>2, CurrentType DEF JobsInv, Enqueue
  <2>2. OneEach(r) /\ Worked(r, task) /\ Moves(queue, task, r, task)
    BY <1>0, <2>1, EnqueueMoves
  <2>3. (queue' = r \/ queue' = queue) /\ task' = task BY <1>2 DEF Enqueue
  <2> HIDE DEF r
  <2>4. CASE queue' = r BY <1>b, <2>2, <2>3, <2>4
  <2>5. CASE queue' = queue BY <1>c, <2>3, <2>5
  <2> QED BY <2>3, <2>4, <2>5
<1>3. CASE StartPass({})
  <2>1. PICK due \in SUBSET Slots, lost \in SUBSET ConfigRoutes, retried \in SUBSET ConfigRoutes :
          Tick(due, lost, retried)
    BY <1>3, Zenon DEF StartPass
  <2>2. AllKeep(queue, queue') BY <1>0, <2>1, RedatedMail DEF Tick, NotBefore
  <2>3. task.at = "tick" /\ task'.at = "serve" BY <1>3, <2>1 DEF StartPass, Tick, Resting
  <2> QED BY <1>0, <1>b, <2>2, <2>3, StandsStill
<1>4. CASE Serve
  <2>1. CASE task.budget = 0
    <3>1. task.at = "serve" /\ task'.at = "tick" /\ UNCHANGED queue
      BY <1>4, <2>1 DEF Serve, Resting
    <3> QED BY <1>c, <3>1
  <2>2. CASE task.budget # 0
    <3> DEFINE next == DequeueNextJob(queue, upper)
    <3>1. Seen(queue, next) BY <1>0, DequeueMail
    <3>2. /\ task.at = "serve" /\ queue' = next.queue
          /\ task' = IF next.slot = 0 THEN Resting("tick", 0)
                     ELSE [task EXCEPT !.at = "build", !.budget = @ - 1, !.slot = next.slot,
                                       !.message = next.queue.job[next.slot].message]
      BY <1>4, <2>2 DEF Serve
    <3> HIDE DEF next
    <3>3. CASE next.slot = 0
      <4>1. AllKeep(queue, queue') BY <3>1, <3>2, <3>3 DEF Seen
      <4>2. task'.at = "tick" BY <3>2, <3>3 DEF Resting
      <4> QED BY <1>0, <1>b, <3>2, <4>1, <4>2, StandsStill
    <3>4. CASE next.slot # 0
      <4>1. next.slot \in Slots /\ Taken(queue, queue', next.slot)
        BY <3>1, <3>2, <3>4 DEF Seen, Looked
      <4>2. task'.at = "build" /\ task'.slot = next.slot
            /\ task'.message = queue'.job[next.slot].message
        BY <1>0, <3>2, <3>4 DEF Task
      <4>3. task.at = "serve" BY <3>2
      <4>4. OneEach(queue') /\ Worked(queue', task') /\ Moves(queue, task, queue', task')
        <5> DEFINE s == next.slot
        <5>1. s \in Slots BY <4>1
        <5>2. Taken(queue, queue', s) /\ task'.slot = s /\ task'.message = queue'.job[s].message
          BY <4>1, <4>2
        <5> HIDE DEF s
        <5> QED BY <1>0, <4>2, <4>3, <5>1, <5>2, ServeMoves
      <4> QED BY <1>b, <4>4
    <3> QED BY <3>3, <3>4
  <2> QED BY <2>1, <2>2
<1>5. CASE BuildConfig \/ BuildRuntime \/ BuildAlarm
  <2>1. task.at = "build" /\ UNCHANGED queue
    BY <1>5 DEF BuildConfig, BuildRuntime, BuildAlarm
  <2>2. PICK outcome : Built(outcome)
    BY <1>5 DEF BuildConfig, BuildRuntime, BuildAlarm
  <2>3. task'.at = "settle" /\ task'.slot = task.slot /\ task'.message = task.message
    BY <1>0, <2>2 DEF Built, Task
  <2>4. Worked(queue, task') /\ Moves(queue, task, queue, task')
    BY <1>0, <2>1, <2>3, BuildMoves
  <2> QED BY <1>0, <1>b, <2>1, <2>4
<1>6. CASE Publish \/ PublishFails \/ Drop
  <2>1. /\ task.at = "settle"
        /\ queue' = Finish(queue, task.slot) \/ queue' = RetryLater(queue, task.slot)
    BY <1>6 DEF Publish, PublishFails, Drop
  <2>2. PICK result : Settled(result)
    BY <1>6 DEF Publish, PublishFails, Drop
  <2>3. task'.at = "callback" BY <1>0, <2>2 DEF Settled, Task
  <2> QED BY <1>0, <1>b, <2>1, <2>3, EndMoves
<1>7. CASE NoCallback \/ TellRuntime \/ TellPublished \/ ClearPublished \/ TellDropped
  <2>1. UNCHANGED queue /\ task.at \in {"callback", "clear"}
    BY <1>7 DEF NoCallback, TellRuntime, TellPublished, ClearPublished, TellDropped
  <2>2. ToServe \/ task' = [task EXCEPT !.at = "clear"]
    BY <1>7 DEF NoCallback, TellRuntime, TellPublished, ClearPublished, TellDropped
  <2>3. task'.at \in {"serve", "clear"} BY <1>0, <2>2 DEF ToServe, Resting, Task
  <2> QED BY <1>c, <2>1, <2>3
<1>8. ASSUME NEW a \in Actors, Produce(a) PROVE Goal
  <2>1. CASE Mark(a) \/ Conclude(a) BY <1>1, <2>1 DEF Mark, Conclude
  <2> QED BY <1>2, <1>8, <2>1 DEF Produce
<1>9. CASE DispatcherTask
  <2>1. CASE Dispatch BY <1>1, <2>1 DEF Dispatch, DispatchReady, DispatchChange
  <2>2. "dispatcher" \in Actors BY DEF Actors
  <2> QED BY <1>8, <1>9, <2>1, <2>2 DEF DispatcherTask
<1>10. CASE ClientTask
  <2>1. "client" \in Actors BY DEF Actors
  <2> QED BY <1>8, <1>10, <2>1 DEF ClientTask
<1>11. CASE MqttTask
  <2>1. "mqtt" \in Actors BY DEF Actors
  <2> QED BY <1>3, <1>4, <1>5, <1>6, <1>7, <1>8, <1>11, <2>1 DEF MqttTask, Process
<1>12. CASE Connect \/ Disconnect \/ \E m \in Messages : Change(m)
  BY <1>1, <1>12 DEF Connect, Disconnect, Change
<1>14. CASE HalfTurn
  <2>1. PICK late \in SUBSET Slots :
          queue' = [queue EXCEPT !.job = [s \in Slots |->
                      IF s \in late THEN [@[s] EXCEPT !.notBefore = "ahead"] ELSE @[s]]]
    BY <1>14, Zenon DEF HalfTurn
  <2>2. AllKeep(queue, queue') BY <1>0, <2>1, RedatedMail DEF NotBefore
  <2>3. task.at = "tick" /\ UNCHANGED task BY <1>14 DEF HalfTurn
  <2> QED BY <1>0, <1>b, <2>2, <2>3, StandsStill
<1>13. CASE UNCHANGED vars BY <1>1, <1>13 DEF vars
<1> QED BY <1>9, <1>10, <1>11, <1>12, <1>13, <1>14 DEF Next

(* Nothing is owed at first.                                                *)
LEMMA MailInit == Init => MailInv /\ Outbox!OutboxInit
<1> SUFFICES ASSUME Init PROVE MailInv /\ Outbox!OutboxInit
  OBVIOUS
<1>1. /\ \A s \in Slots : ~queue.job[s].used
      /\ task.at = "tick"
  BY DEF Init, EmptyQueue, EmptyJob, Resting
<1>2. MailInv BY <1>1 DEF MailInv, OneEach, Worked
<1>3. ASSUME NEW m \in Messages PROVE MailOf(m) = "none"
  BY <1>1 DEF MailOf, JobsOf
<1>4. Outbox!OutboxInit BY <1>3 DEF Outbox!OutboxInit
<1> QED BY <1>2, <1>4

(* The queue keeps the promise of MqttOutbox: whatever comes between the    *)
(* requests, the builds and the publications, with any table, any rings and *)
(* any messages, an accepted request is forgotten only by a build of its    *)
(* message that begins after it.                                            *)
THEOREM QueueKeepsRequests == Spec => KeepsRequests
<1>1. Init => JobsInv /\ MailInv /\ Outbox!OutboxInit BY JobsInit, MailInit
<1>2. JobsInv /\ MailInv /\ [Next]_vars
        => /\ (JobsInv /\ MailInv)'
           /\ [Outbox!OutboxNext]_([m \in Messages |-> MailOf(m)])
  BY JobsStep, MailStep, MoveIsStep
<1> QED BY <1>1, <1>2, PTL DEF Spec, KeepsRequests, Outbox!OutboxSpec
=============================================================================
