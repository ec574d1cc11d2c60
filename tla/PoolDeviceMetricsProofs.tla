----------------------- MODULE PoolDeviceMetricsProofs -----------------------
(***************************************************************************)
(* Proofs about the running-time counters of a relay, for any intervals,   *)
(* any number of days and any running time.  Every sweep is the same       *)
(* operator over a counter that may just have been restarted, so the       *)
(* lemmas are about what the head of a sweep makes of the counter and what *)
(* the body then does; the actions only choose the counter to start from.  *)
(***************************************************************************)
EXTENDS PoolDeviceMetrics, TLAPS

Flags == [force : BOOLEAN, dirty : BOOLEAN, immediate : BOOLEAN]
Live == [count : Nat, key : Nat, flags : Flags, stale : Nat]

(* Accounted running time that a power cut would lose. *)
Unsaved == total - nvs.total

(* Why the loss is bounded: until the persistence interval is over there   *)
(* has not been more time to account.  A counter that is not marked for    *)
(* writing lost its marks at the end of a write, and what was accounted    *)
(* since that write began and no commit has marked is little.  What is     *)
(* accounted during a write is no more than the time it takes.             *)
AgesOrdered == age.sweep <= age.loop /\ age.loop <= MaxGap
UnsavedIsRecent == age.persist < PersistEvery => Unsaved + age.sweep <= age.persist
UnmarkedIsLittle ==
  ~flags.dirty => /\ Unsaved < MaxGap + CommitEvery
                  /\ age.commit < CommitEvery => Unsaved + age.sweep <= MaxGap + age.commit
LoopSaves ==
  ~failed => Unsaved + age.sweep < PersistEvery + age.loop + (IF writing.busy THEN MaxGap ELSE 0)
BlobIsRecent == writing.busy => total - writing.blob.total + age.sweep <= age.loop
MarkedWhileWriting == writing.busy => flags.dirty

LossInv == /\ AgesOrdered /\ UnsavedIsRecent /\ UnmarkedIsLittle
           /\ LoopSaves /\ BlobIsRecent /\ MarkedWhileWriting

(* A counter and its date, live or in flash or on its way there. *)
Dated(k, n, old) == k <= day /\ old <= n /\ (k = day => old = 0)

DatesInv == /\ Dated(key, count, stale)
            /\ Dated(nvs.key, nvs.count, nvs.stale)
            /\ writing.busy => Dated(writing.blob.key, writing.blob.count, writing.blob.stale)

(* A blob on its way to flash is of the live counter, unless a restart has *)
(* met the write; it need not be marked for that.                          *)
BlobIsOfCounter ==
  writing.busy /\ ~writing.crossed => writing.blob.key = key /\ writing.blob.count <= count

Inv == TypeOK /\ LossInv /\ DatesInv /\ BlobIsOfCounter /\ RestartIsDurable /\ DayIsCaughtUp
-----------------------------------------------------------------------------
(* The counter a sweep may start from: the live one, or one a command has  *)
(* marked or restarted.                                                    *)
Starts == {Counters, [Counters EXCEPT !.flags = Urgent], Restarted(key)}

(* What the head of a sweep knows of the counter it hands on. *)
Headed(m) ==
  /\ m \in Live
  /\ Dated(m.key, m.count, m.stale)
  /\ (m.flags = flags /\ m.key = key /\ m.count = count) \/ m.flags = Urgent
  /\ IF clockReady /\ (pending.reset \/ pending.reconcile) THEN m.key = day
     ELSE m.key \in {key, day}

(* The two settings of the write flags.                                    *)
LEMMA UrgentFacts ==
  /\ Urgent \in Flags /\ Urgent.force /\ Urgent.dirty /\ Urgent.immediate
  /\ Clean \in Flags /\ ~Clean.force /\ ~Clean.dirty /\ ~Clean.immediate
BY DEF Urgent, Clean, Flags

(* No write is under way. *)
LEMMA NotWritingFacts ==
  /\ NotWriting \in [busy : BOOLEAN, blob : Blob, crossed : BOOLEAN]
  /\ ~NotWriting.busy
BY DEF NotWriting, NoBlob, Blob

(* The counters of a slot, and those a restart makes of them.              *)
LEMMA CountersFacts ==
  ASSUME TypeOK
  PROVE  /\ Counters \in Live
         /\ [Counters EXCEPT !.flags = Urgent] \in Live
         /\ \A k \in Nat : Restarted(k) \in Live
BY UrgentFacts DEF Counters, Restarted, Live, Flags, TypeOK

(* The head of a sweep hands on a counter of today, or the one it was given.*)
LEMMA HeadLemma ==
  ASSUME Inv, NEW m0 \in Starts
  PROVE  Headed(AfterReconcile(AfterReset(m0)))
<1> DEFINE m1 == AfterReset(m0)
           m == AfterReconcile(m1)
<1> USE DEF Inv, DatesInv
<1>1. /\ m0 \in Live /\ Dated(m0.key, m0.count, m0.stale)
      /\ (m0.flags = flags /\ m0.key = key /\ m0.count = count) \/ m0.flags = Urgent
      /\ m0.key \in {key, day}
  <2>1. CASE m0 = Counters
    BY <2>1, CountersFacts DEF Counters
  <2>2. CASE m0 = [Counters EXCEPT !.flags = Urgent]
    BY <2>2, CountersFacts DEF Counters
  <2>3. CASE m0 = Restarted(key)
    BY <2>3, CountersFacts DEF Restarted, Dated, TypeOK
  <2> QED
    BY <2>1, <2>2, <2>3 DEF Starts
<1>2. /\ m1 \in Live /\ Dated(m1.key, m1.count, m1.stale)
      /\ (m1.flags = flags /\ m1.key = key /\ m1.count = count) \/ m1.flags = Urgent
      /\ m1.key \in {key, day}
      /\ clockReady /\ pending.reset => m1.key = day
  <2>1. CASE pending.reset
    <3>1. m1 = Restarted(m0.key)
      BY <2>1 DEF AfterReset
    <3>2. m0.key \in Nat
      BY <1>1 DEF Live
    <3> QED
      BY <1>1, <3>1, <3>2, CountersFacts DEF Restarted, Dated, TypeOK
  <2>2. CASE ~pending.reset
    BY <1>1, <2>2 DEF AfterReset
  <2> QED
    BY <2>1, <2>2
<1>3. CASE pending.reconcile /\ clockReady /\ m1.key # day
  <2>1. m = [count |-> IF m1.key = 0 THEN m1.count ELSE 0, key |-> day, flags |-> Urgent,
             stale |-> 0]
    BY <1>3 DEF AfterReconcile
  <2>2. m \in Live
    BY <1>2, <2>1, UrgentFacts DEF Live, TypeOK
  <2>3. Dated(m.key, m.count, m.stale)
    BY <1>2, <2>1 DEF Live, Dated, TypeOK
  <2> QED
    BY <2>1, <2>2, <2>3 DEF Headed
<1>4. CASE ~(pending.reconcile /\ clockReady /\ m1.key # day)
  <2>1. m = m1
    BY <1>4 DEF AfterReconcile
  <2> QED
    BY <1>2, <1>4, <2>1 DEF Headed
<1> QED
  BY <1>3, <1>4
-----------------------------------------------------------------------------
(* The body of a sweep, over the counter m of its head. *)
Delta(isOn) == IF isOn THEN age.sweep ELSE 0
Commits(m, isOn) ==
  pending.reset \/ m.flags.force \/ (Delta(isOn) > 0 /\ age.commit >= CommitEvery)
Marked(m, wasOn, isOn) ==
  [force |-> FALSE,
   dirty |-> m.flags.dirty \/ (wasOn /\ ~isOn) \/ Commits(m, isOn),
   immediate |-> m.flags.immediate \/ (wasOn /\ ~isOn)]

(* What is written of it, when it is. *)
BlobOf(m, isOn) ==
  [count |-> m.count + Delta(isOn), total |-> total + Delta(isOn), key |-> m.key,
   stale |-> m.stale]

Accounts(m, wasOn, isOn) ==
  /\ on' = isOn
  /\ count' = m.count + Delta(isOn) /\ total' = total + Delta(isOn) /\ key' = m.key
  /\ stale' = m.stale
  /\ pending' = [reset |-> FALSE, reconcile |-> pending.reconcile /\ ~clockReady]
  /\ flags' = Marked(m, wasOn, isOn)
  /\ overtaken' = (overtaken /\ ~Marked(m, wasOn, isOn).immediate)
  /\ UNCHANGED <<nvs, failed, clock>>

Ages(commits, allow) ==
  /\ age' \in [sweep : Nat, commit : Nat, persist : Nat, loop : Nat]
  /\ age'.sweep = 0
  /\ age'.commit = IF commits THEN 0 ELSE age.commit
  /\ age'.persist = age.persist
  /\ age'.loop = IF allow THEN 0 ELSE age.loop

(* The sweep begins a write, or leaves the one there is to go on.          *)
Writes(m, f, isOn, allow) ==
  \/ allow /\ ShouldPersist(f, isOn) /\ writing' = Encoded(BlobOf(m, isOn))
  \/ ~(allow /\ ShouldPersist(f, isOn)) /\ writing' = MetBy(m)

(* The rest of a sweep: time is booked on that date, and a write begun when due.*)
LEMMA BodyLemma ==
  ASSUME Inv, NEW m0 \in Starts, NEW wasOn \in BOOLEAN, NEW isOn \in BOOLEAN,
         NEW allow \in BOOLEAN, SweepFrom(m0, wasOn, isOn, allow),
         NEW m, m = AfterReconcile(AfterReset(m0))
  PROVE  /\ Accounts(m, wasOn, isOn)
         /\ Ages(Commits(m, isOn), allow)
         /\ Writes(m, Marked(m, wasOn, isOn), isOn, allow)
<1>1. /\ Accounts(m, wasOn, isOn)
      /\ Writes(m, Marked(m, wasOn, isOn), isOn, allow)
      /\ age' = [sweep |-> 0,
                 commit |-> IF Commits(m, isOn) THEN 0 ELSE age.commit,
                 persist |-> age.persist,
                 loop |-> IF allow THEN 0 ELSE age.loop]
  BY DEF SweepFrom, Accounts, Marked, Commits, Delta, Writes, BlobOf
<1>2. Ages(Commits(m, isOn), allow)
  BY <1>1 DEF Ages, TypeOK, Inv
<1> QED
  BY <1>1, <1>2
-----------------------------------------------------------------------------
(* Whatever it starts from, a sweep keeps the invariant; a sweep that may  *)
(* write begins with no write under way.                                   *)
LEMMA SweepLemma ==
  ASSUME Inv, NEW m0 \in Starts, NEW wasOn \in BOOLEAN, NEW isOn \in BOOLEAN,
         NEW allow \in BOOLEAN, allow => ~writing.busy, SweepFrom(m0, wasOn, isOn, allow)
  PROVE  Inv'
<1> DEFINE m == AfterReconcile(AfterReset(m0))
<1> HIDE DEF m
<1> DEFINE f == Marked(m, wasOn, isOn)
           d == Delta(isOn)
<1>1. Headed(m)
  BY HeadLemma DEF m
<1>2. /\ Accounts(m, wasOn, isOn)
      /\ Ages(Commits(m, isOn), allow)
      /\ Writes(m, f, isOn, allow)
  BY BodyLemma DEF m
<1>3. d \in Nat /\ d <= age.sweep /\ f \in Flags /\ age.sweep \in Nat
  BY <1>1 DEF Delta, Marked, Commits, Flags, Headed, Live, TypeOK, Inv
<1>4. (m.flags = flags /\ m.key = key /\ m.count = count) \/ (f.dirty /\ f.immediate)
  <2>1. CASE m.flags = Urgent
    <3>1. m.flags.dirty /\ m.flags.immediate
      BY <2>1, UrgentFacts
    <3>2. /\ f.dirty = (m.flags.dirty \/ (wasOn /\ ~isOn) \/ Commits(m, isOn))
          /\ f.immediate = (m.flags.immediate \/ (wasOn /\ ~isOn))
      BY DEF Marked
    <3> QED
      BY ONLY <3>1, <3>2, Zenon
  <2> QED
    BY <1>1, <2>1 DEF Headed
<1>5. m.count \in Nat /\ m.key \in Nat /\ m.stale \in Nat
  BY <1>1 DEF Headed, Live
<1>6. \/ /\ allow /\ f.dirty /\ ~writing.busy
         /\ writing'.busy /\ writing'.blob = BlobOf(m, isOn) /\ ~writing'.crossed
      \/ /\ allow => ~f.dirty \/ age.persist < PersistEvery
         /\ writing'.busy = writing.busy /\ writing'.blob = writing.blob
         /\ writing.busy /\ ~writing'.crossed =>
              ~writing.crossed /\ m.count >= count /\ m.key = key
  <2>1. CASE allow /\ ShouldPersist(f, isOn) /\ writing' = Encoded(BlobOf(m, isOn))
    BY <2>1 DEF ShouldPersist, Encoded
  <2>2. CASE ~(allow /\ ShouldPersist(f, isOn)) /\ writing' = MetBy(m)
    <3>1. allow => ~f.dirty \/ age.persist < PersistEvery
      BY <2>2, IntervalAssumption DEF ShouldPersist, TypeOK, Inv
    <3>2. writing \in [busy : BOOLEAN, blob : Blob, crossed : BOOLEAN]
      BY DEF TypeOK, Inv
    <3>3. /\ writing'.busy = writing.busy /\ writing'.blob = writing.blob
          /\ writing'.crossed =
               (writing.busy /\ (writing.crossed \/ m.count < count \/ m.key # key))
      BY <2>2, <3>2 DEF MetBy
    <3>4. writing.busy /\ ~writing'.crossed =>
            ~writing.crossed /\ ~(m.count < count) /\ m.key = key
      BY <3>3, Zenon
    <3> QED
      BY <1>5, <3>1, <3>3, <3>4 DEF TypeOK, Inv
  <2> QED
    BY <1>2, <2>1, <2>2 DEF Writes
<1>7. TypeOK'
  <2>1. /\ on' \in BOOLEAN /\ count' \in Nat /\ total' \in Nat /\ key' \in Nat
        /\ stale' \in Nat /\ flags' \in Flags
    BY <1>2, <1>3, <1>5 DEF TypeOK, Inv, Accounts
  <2>2. pending' \in [reset : BOOLEAN, reconcile : BOOLEAN]
    BY <1>2 DEF Accounts
  <2>3. age' \in [sweep : Nat, commit : Nat, persist : Nat, loop : Nat]
    BY <1>2 DEF Ages
  <2>4. writing' \in [busy : BOOLEAN, blob : Blob, crossed : BOOLEAN]
    <3>1. BlobOf(m, isOn) \in Blob
      BY <1>3, <1>5 DEF BlobOf, Blob, TypeOK, Inv
    <3>2. CASE writing' = Encoded(BlobOf(m, isOn))
      BY <3>1, <3>2 DEF Encoded
    <3>3. CASE writing' = MetBy(m)
      <4>1. writing \in [busy : BOOLEAN, blob : Blob, crossed : BOOLEAN]
        BY DEF TypeOK, Inv
      <4> QED
        BY <3>3, <4>1 DEF MetBy
    <3> QED
      BY <1>2, <3>2, <3>3 DEF Writes
  <2>5. UNCHANGED <<nvs, failed, clock>> /\ overtaken' \in BOOLEAN
    BY <1>2 DEF Accounts, TypeOK, Inv
  <2> QED
    BY <2>1, <2>2, <2>3, <2>4, <2>5 DEF TypeOK, Inv, Flags, clock
<1>8. LossInv'
  <2> USE IntervalAssumption DEF TypeOK, Inv, LossInv, AgesOrdered, UnsavedIsRecent,
          UnmarkedIsLittle, LoopSaves, BlobIsRecent, MarkedWhileWriting, Unsaved
  <2>1. /\ total' = total + d /\ nvs' = nvs /\ flags' = f /\ failed' = failed
        /\ age'.sweep = 0 /\ age'.persist = age.persist
        /\ age'.commit = (IF Commits(m, isOn) THEN 0 ELSE age.commit)
        /\ age'.loop = IF allow THEN 0 ELSE age.loop
    BY <1>2 DEF Accounts, Ages
  <2>2. ~f.dirty => ~flags.dirty /\ ~Commits(m, isOn)
    BY <1>4 DEF Marked
  <2>3. AgesOrdered' /\ UnsavedIsRecent'
    BY <1>3, <1>7, <2>1 DEF Blob
  <2>4. UnmarkedIsLittle'
    <3>1. ~f.dirty => d = 0 \/ age.commit < CommitEvery
      BY <1>3, <2>2 DEF Commits
    <3> QED
      BY <1>3, <1>7, <2>1, <2>2, <3>1 DEF Blob
  <2>5. MarkedWhileWriting'
    BY <1>4, <1>6, <2>1 DEF Marked
  <2>6. BlobIsRecent'
    <3>1. CASE writing'.blob = BlobOf(m, isOn) /\ allow
      BY <1>3, <1>7, <2>1, <3>1 DEF BlobOf, Blob
    <3>2. CASE writing'.busy = writing.busy /\ writing'.blob = writing.blob
      BY <1>3, <1>7, <2>1, <3>2 DEF Blob
    <3> QED
      BY <1>6, <3>1, <3>2
  <2>7. LoopSaves'
    <3>1. CASE allow /\ ~writing.busy /\ writing'.busy
      BY <1>3, <1>7, <2>1, <3>1 DEF Blob
    <3>2. CASE ~allow /\ writing'.busy = writing.busy
      BY <1>3, <1>7, <2>1, <3>2 DEF Blob
    <3>3. CASE allow /\ ~f.dirty
      BY <1>3, <1>7, <2>1, <2>4, <3>3 DEF Blob
    <3>4. CASE allow /\ age.persist < PersistEvery
      BY <1>3, <1>7, <2>1, <3>4 DEF Blob
    <3> QED
      BY <1>6, <3>1, <3>2, <3>3, <3>4
  <2> QED
    BY <2>3, <2>4, <2>5, <2>6, <2>7
<1>9. DatesInv'
  <2>1. Dated(key, count, stale)' /\ Dated(nvs.key, nvs.count, nvs.stale)' /\ day' = day
    BY <1>1, <1>2, <1>3, <1>5 DEF DatesInv, Dated, Inv, TypeOK, Accounts, Headed, clock
  <2>2. ASSUME writing'.busy
        PROVE  Dated(writing.blob.key, writing.blob.count, writing.blob.stale)'
    <3>1. CASE writing'.blob = BlobOf(m, isOn)
      <4>1. /\ writing'.blob.key = m.key /\ writing'.blob.count = m.count + d
            /\ writing'.blob.stale = m.stale
        BY <3>1 DEF BlobOf
      <4>2. Dated(m.key, m.count, m.stale)
        BY <1>1 DEF Headed
      <4> QED
        BY <1>3, <1>5, <2>1, <4>1, <4>2 DEF Dated
    <3>2. CASE writing'.busy = writing.busy /\ writing'.blob = writing.blob
      BY <2>1, <2>2, <3>2 DEF Dated, DatesInv, Inv
    <3> QED
      BY <1>6, <3>1, <3>2
  <2> QED
    BY <2>1, <2>2 DEF DatesInv
<1>10. BlobIsOfCounter'
  <2>1. key' = m.key /\ count' = m.count + d
    BY <1>2 DEF Accounts
  <2>2. CASE writing'.blob = BlobOf(m, isOn)
    BY <1>3, <1>5, <2>1, <2>2 DEF BlobIsOfCounter, BlobOf
  <2>3. CASE /\ writing'.busy = writing.busy /\ writing'.blob = writing.blob
             /\ writing.busy /\ ~writing'.crossed =>
                  ~writing.crossed /\ m.count >= count /\ m.key = key
    <3>1. writing.blob.count \in Nat /\ count \in Nat
      BY DEF Inv, TypeOK, Blob
    <3> QED
      BY <1>3, <1>5, <2>1, <2>3, <3>1 DEF BlobIsOfCounter, Inv
  <2> QED
    BY <1>6, <2>2, <2>3
<1>11. RestartIsDurable'
  BY <1>1, <1>2, <1>3, <1>4, <1>5 DEF RestartIsDurable, Inv, TypeOK, Accounts, Marked, Blob
<1>12. DayIsCaughtUp'
  BY <1>1, <1>2 DEF DayIsCaughtUp, Inv, TypeOK, Accounts, Headed, clock
<1> QED
  BY <1>7, <1>8, <1>9, <1>10, <1>11, <1>12 DEF Inv

(* The end of a write takes the marks down with what it wrote, or leaves   *)
(* everything as it was.                                                   *)
LEMMA PersistLemma == Inv /\ Persist => Inv'
<1> SUFFICES ASSUME Inv, Persist PROVE Inv'
  OBVIOUS
<1> USE IntervalAssumption
<1>1. /\ writing.busy /\ writing' = NotWriting
      /\ UNCHANGED <<on, count, total, key, stale, clock, pending>>
  BY DEF Persist
<1>2. ~writing'.busy /\ writing' \in [busy : BOOLEAN, blob : Blob, crossed : BOOLEAN]
  BY <1>1 DEF NotWriting, NoBlob, Blob
<1>3. writing.blob \in Blob
  BY DEF Inv, TypeOK
<1>4. CASE /\ nvs' = writing.blob /\ failed' = FALSE
           /\ flags' = [flags EXCEPT !.dirty = FALSE, !.immediate = FALSE]
           /\ age' = [age EXCEPT !.persist = AtMost(age.loop, PersistEvery)]
           /\ overtaken' = writing.crossed
  <2>1. /\ age'.sweep = age.sweep /\ age'.commit = age.commit /\ age'.loop = age.loop
        /\ age'.persist = AtMost(age.loop, PersistEvery)
        /\ age' \in [sweep : Nat, commit : Nat, persist : Nat, loop : Nat]
    BY <1>4 DEF Inv, TypeOK, AtMost
  <2>2. TypeOK'
    BY <1>1, <1>2, <1>3, <1>4, <2>1 DEF TypeOK, Inv, clock
  <2>3. LossInv'
    BY <1>1, <1>2, <1>3, <1>4, <2>1 DEF LossInv, AgesOrdered, UnsavedIsRecent, UnmarkedIsLittle,
       LoopSaves, BlobIsRecent, MarkedWhileWriting, Unsaved, AtMost, Blob, TypeOK, Inv
  <2>4. DatesInv' /\ BlobIsOfCounter'
    BY <1>1, <1>2, <1>4 DEF DatesInv, Dated, BlobIsOfCounter, Inv, clock
  <2>5. RestartIsDurable' /\ DayIsCaughtUp'
    BY <1>1, <1>4 DEF RestartIsDurable, BlobIsOfCounter, DayIsCaughtUp, Inv, clock
  <2> QED
    BY <2>2, <2>3, <2>4, <2>5 DEF Inv
<1>5. CASE nvs' = nvs /\ failed' = TRUE /\ UNCHANGED <<flags, age, overtaken>>
  <2>1. TypeOK'
    BY <1>1, <1>2, <1>5 DEF TypeOK, Inv, clock
  <2>2. LossInv'
    BY <1>1, <1>2, <1>5 DEF LossInv, AgesOrdered, UnsavedIsRecent, UnmarkedIsLittle,
       LoopSaves, BlobIsRecent, MarkedWhileWriting, Unsaved, Inv
  <2>3. DatesInv' /\ BlobIsOfCounter' /\ RestartIsDurable' /\ DayIsCaughtUp'
    BY <1>1, <1>2, <1>5 DEF DatesInv, Dated, BlobIsOfCounter, RestartIsDurable, DayIsCaughtUp,
       Inv, clock
  <2> QED
    BY <2>1, <2>2, <2>3 DEF Inv
<1> QED
  BY <1>4, <1>5 DEF Persist
-----------------------------------------------------------------------------
(* The invariant holds at first.                                           *)
LEMMA InitInv == Init => Inv
<1> SUFFICES ASSUME Init PROVE Inv
  OBVIOUS
<1> USE IntervalAssumption
<1>1. nvs \in Blob /\ nvs.count = 0 /\ nvs.total = 0 /\ nvs.key \in {0, 1} /\ nvs.stale = 0
  <2>1. nvs \in [count : {0}, total : {0}, key : {0, 1}, stale : {0}]
    BY DEF Init
  <2>2. nvs \in Blob
    <3>1. nvs = [count |-> 0, total |-> 0, key |-> nvs.key, stale |-> 0]
      BY ONLY <2>1
    <3>2. nvs.key \in Nat
      BY ONLY <2>1
    <3>3. [count |-> 0, total |-> 0, key |-> nvs.key, stale |-> 0] \in Blob
      BY ONLY <3>2 DEF Blob
    <3> QED
      BY ONLY <3>1, <3>3
  <2>3. nvs.count = 0 /\ nvs.total = 0 /\ nvs.key \in {0, 1} /\ nvs.stale = 0
    BY ONLY <2>1
  <2> QED
    BY <2>2, <2>3
<1>2. /\ on = FALSE /\ count = nvs.count /\ total = nvs.total /\ key = nvs.key
      /\ flags = Clean /\ stale = nvs.stale /\ failed = FALSE
      /\ writing = NotWriting /\ overtaken = FALSE
      /\ age = [sweep |-> 0, commit |-> 0, persist |-> 0, loop |-> 0]
      /\ pending = [reset |-> FALSE, reconcile |-> TRUE]
      /\ clockReady = FALSE /\ midnight = FALSE /\ fired = FALSE /\ bus = {} /\ day = 1
  BY DEF Init, Loaded
<1>3. TypeOK
  BY <1>1, <1>2, UrgentFacts, NotWritingFacts DEF TypeOK, Blob, Flags
<1>4. LossInv
  BY <1>1, <1>2, UrgentFacts, NotWritingFacts DEF LossInv, AgesOrdered, UnsavedIsRecent, UnmarkedIsLittle,
     LoopSaves, BlobIsRecent, MarkedWhileWriting, Unsaved, AtMost, Blob
<1>5. DatesInv /\ BlobIsOfCounter /\ RestartIsDurable /\ DayIsCaughtUp
  BY <1>1, <1>2, NotWritingFacts, UrgentFacts
     DEF DatesInv, Dated, BlobIsOfCounter, RestartIsDurable, DayIsCaughtUp, Blob
<1> QED
  BY <1>3, <1>4, <1>5 DEF Inv

(* A boot takes over what flash holds and has nothing to save. *)
LEMMA RestartLemma == Inv /\ Restart => Inv'
<1> SUFFICES ASSUME Inv, Restart PROVE Inv'
  OBVIOUS
<1> USE IntervalAssumption
<1>1. /\ on' = FALSE /\ count' = nvs.count /\ total' = nvs.total /\ key' = nvs.key
      /\ flags' = Clean /\ stale' = nvs.stale /\ failed' = FALSE
      /\ writing' = NotWriting /\ overtaken' = FALSE
      /\ age' = [sweep |-> 0, commit |-> 0, persist |-> 0, loop |-> 0]
      /\ pending' = [reset |-> FALSE, reconcile |-> TRUE]
      /\ clockReady' = FALSE /\ fired' = FALSE /\ bus' = {}
      /\ nvs' = nvs /\ midnight' = midnight /\ day' = day /\ nvs \in Blob
  BY DEF Restart, Loaded, Inv, TypeOK
<1>2. TypeOK'
  BY <1>1, UrgentFacts, NotWritingFacts DEF TypeOK, Inv, Blob, Flags
<1>3. LossInv'
  BY <1>1, UrgentFacts, NotWritingFacts DEF LossInv, AgesOrdered, UnsavedIsRecent, UnmarkedIsLittle,
     LoopSaves, BlobIsRecent, MarkedWhileWriting, Unsaved, AtMost, Blob
<1>4. DatesInv' /\ BlobIsOfCounter' /\ RestartIsDurable' /\ DayIsCaughtUp'
  BY <1>1, NotWritingFacts DEF DatesInv, Dated, BlobIsOfCounter, RestartIsDurable, DayIsCaughtUp, Blob, Inv
<1> QED
  BY <1>2, <1>3, <1>4 DEF Inv

(* Time that passes is neither accounted nor saved yet. *)
LEMMA TickLemma == Inv /\ Tick => Inv'
<1> SUFFICES ASSUME Inv, Tick PROVE Inv'
  OBVIOUS
<1> USE IntervalAssumption
<1>1. /\ age.loop < MaxGap
      /\ age' = [sweep |-> age.sweep + 1, commit |-> AtMost(age.commit + 1, CommitEvery),
                 persist |-> AtMost(age.persist + 1, PersistEvery), loop |-> age.loop + 1]
      /\ UNCHANGED <<on, count, total, key, flags, nvs, writing, history, clock, pending>>
  BY DEF Tick
<1>2. TypeOK'
  BY <1>1 DEF TypeOK, Inv, clock, history, AtMost
<1>3. LossInv'
  BY <1>1 DEF LossInv, AgesOrdered, UnsavedIsRecent, UnmarkedIsLittle,
     LoopSaves, BlobIsRecent, MarkedWhileWriting, Unsaved, AtMost, Blob, TypeOK, Inv, history
<1>4. DatesInv' /\ BlobIsOfCounter' /\ RestartIsDurable' /\ DayIsCaughtUp'
  BY <1>1 DEF DatesInv, Dated, BlobIsOfCounter, RestartIsDurable, DayIsCaughtUp, Inv, clock, history
<1> QED
  BY <1>2, <1>3, <1>4 DEF Inv

(* At midnight every counter becomes one of an earlier day. *)
LEMMA NewDayLemma == Inv /\ NewDay => Inv'
<1> SUFFICES ASSUME Inv, NewDay PROVE Inv'
  OBVIOUS
<1>1. /\ day' = day + 1 /\ midnight' = TRUE /\ fired' = FALSE /\ stale' = Outdated(key, count)
      /\ nvs' = [nvs EXCEPT !.stale = Outdated(nvs.key, nvs.count)]
      /\ writing' = [writing EXCEPT
                      !.blob.stale = Outdated(writing.blob.key, writing.blob.count)]
      /\ UNCHANGED <<on, count, total, key, flags, age, failed, overtaken, pending,
                     clockReady, bus>>
  BY DEF NewDay
<1>2. /\ nvs' \in Blob /\ nvs'.count = nvs.count /\ nvs'.total = nvs.total
      /\ nvs'.key = nvs.key /\ nvs'.stale = Outdated(nvs.key, nvs.count)
  BY <1>1 DEF Inv, TypeOK, Blob, Outdated
<1>3. /\ writing' \in [busy : BOOLEAN, blob : Blob, crossed : BOOLEAN]
      /\ writing'.busy = writing.busy /\ writing'.crossed = writing.crossed
      /\ writing'.blob.count = writing.blob.count /\ writing'.blob.total = writing.blob.total
      /\ writing'.blob.key = writing.blob.key
      /\ writing'.blob.stale = Outdated(writing.blob.key, writing.blob.count)
  <2>1. writing \in [busy : BOOLEAN, blob : Blob, crossed : BOOLEAN]
    BY DEF Inv, TypeOK
  <2>2. /\ writing.blob \in Blob
        /\ Outdated(writing.blob.key, writing.blob.count) \in Nat
    BY <2>1 DEF Blob, Outdated
  <2>3. [writing.blob EXCEPT !.stale = Outdated(writing.blob.key, writing.blob.count)] \in Blob
    BY <2>2 DEF Blob
  <2> QED
    BY <1>1, <2>1, <2>2, <2>3 DEF Blob
<1>10. TypeOK'
  <2>1. day' \in Nat /\ midnight' \in BOOLEAN /\ fired' \in BOOLEAN /\ stale' \in Nat
    <3>1. day \in Nat /\ count \in Nat
      BY DEF TypeOK, Inv
    <3>2. day' \in Nat
      BY <1>1, <3>1
    <3>3. stale' \in Nat
      BY <1>1, <3>1 DEF Outdated
    <3> QED
      BY <1>1, <3>2, <3>3
  <2>2. UNCHANGED <<on, count, total, key, flags, age, failed, overtaken, pending,
                    clockReady, bus>>
    BY <1>1
  <2>3. TypeOK
    BY DEF Inv
  <2> QED
    BY ONLY <1>2, <1>3, <2>1, <2>2, <2>3 DEF TypeOK
<1>4. LossInv'
  BY <1>1, <1>2, <1>3 DEF LossInv, AgesOrdered, UnsavedIsRecent, UnmarkedIsLittle,
     LoopSaves, BlobIsRecent, MarkedWhileWriting, Unsaved, Inv
<1>5. DatesInv'
  BY <1>1, <1>2, <1>3 DEF DatesInv, Dated, Outdated, Inv, TypeOK, Blob
<1>6. BlobIsOfCounter' /\ RestartIsDurable' /\ DayIsCaughtUp'
  BY <1>1, <1>2, <1>3 DEF BlobIsOfCounter, RestartIsDurable, DayIsCaughtUp, Inv
<1> QED
  BY <1>4, <1>5, <1>6, <1>10 DEF Inv

(* The clock, its scheduler and the dispatcher leave the counters alone. *)
LEMMA ClockLemma ==
  ASSUME Inv, DayStartTrigger \/ MinuteEnds \/ ClockSet \/ ClockLost \/ OnEvent
  PROVE  Inv'
<1>1. UNCHANGED relay /\ day' = day
  BY DEF DayStartTrigger, MinuteEnds, ClockSet, ClockLost, OnEvent, Post
<1>2. TypeOK'
  <2>1. /\ clockReady' \in BOOLEAN /\ midnight' \in BOOLEAN /\ fired' \in BOOLEAN
        /\ bus' \subseteq {"dayStart", "timeReady"}
    BY DEF DayStartTrigger, MinuteEnds, ClockSet, ClockLost, OnEvent, Post, TypeOK, Inv
  <2>2. pending' \in [reset : BOOLEAN, reconcile : BOOLEAN]
    BY DEF DayStartTrigger, MinuteEnds, ClockSet, ClockLost, OnEvent, TypeOK, Inv
  <2> QED
    BY <1>1, <2>1, <2>2 DEF TypeOK, Inv, relay, history
<1>3. LossInv' /\ DatesInv' /\ BlobIsOfCounter' /\ RestartIsDurable'
  BY <1>1 DEF LossInv, AgesOrdered, UnsavedIsRecent, UnmarkedIsLittle, LoopSaves, BlobIsRecent,
     MarkedWhileWriting, Unsaved, DatesInv, Dated, BlobIsOfCounter, RestartIsDurable, relay, history, Inv
<1>4. DayIsCaughtUp'
  <2>1. CASE DayStartTrigger \/ ClockSet
    BY <2>1 DEF DayStartTrigger, ClockSet, Post, DayIsCaughtUp
  <2>2. CASE MinuteEnds \/ ClockLost
    BY <1>1, <2>2 DEF MinuteEnds, ClockLost, DayIsCaughtUp, Inv, TypeOK, relay
  <2>3. CASE OnEvent
    <3>1. PICK e \in bus :
            /\ pending' = IF e = "dayStart" THEN [pending EXCEPT !.reset = TRUE]
                          ELSE [pending EXCEPT !.reconcile = @ \/ clockReady]
            /\ UNCHANGED <<relay, clockReady, midnight, fired, day>>
      BY <2>3 DEF OnEvent
    <3>2. pending \in [reset : BOOLEAN, reconcile : BOOLEAN]
      BY DEF Inv, TypeOK
    <3>3. CASE e = "dayStart"
      <4>1. pending'.reset
        BY <3>1, <3>2, <3>3
      <4> QED
        BY <4>1 DEF DayIsCaughtUp
    <3>4. CASE e # "dayStart" /\ clockReady
      <4>1. pending'.reconcile = (pending.reconcile \/ clockReady)
        BY <3>1, <3>2, <3>4
      <4>2. pending'.reconcile
        BY ONLY <3>4, <4>1, Zenon
      <4> QED
        BY <4>2 DEF DayIsCaughtUp
    <3>5. CASE ~clockReady
      BY <3>1, <3>5 DEF DayIsCaughtUp
    <3> QED
      BY <3>3, <3>4, <3>5
  <2> QED
    BY <2>1, <2>2, <2>3
<1> QED
  BY <1>2, <1>3, <1>4 DEF Inv

(* Every step keeps it.                                                    *)
LEMMA NextInv == Inv /\ [Next]_vars => Inv'
<1> SUFFICES ASSUME Inv, [Next]_vars PROVE Inv'
  OBVIOUS
<1>1. CASE LoopSweep
  <2>1. PICK isOn \in BOOLEAN : SweepFrom(Counters, on, isOn, TRUE)
    BY <1>1 DEF LoopSweep
  <2>2. ~writing.busy /\ on \in BOOLEAN /\ Counters \in Starts
    BY <1>1 DEF LoopSweep, Starts, Inv, TypeOK
  <2> QED
    BY <2>1, <2>2, SweepLemma
<1>2. CASE ServiceWrite
  <2>1. PICK written \in BOOLEAN, isOn \in BOOLEAN : SweepFrom(Counters, written, isOn, FALSE)
    BY <1>2 DEF ServiceWrite
  <2> QED
    BY <2>1, SweepLemma DEF Starts
<1>3. CASE RefillTank
  <2>1. PICK isOn \in BOOLEAN :
          SweepFrom([Counters EXCEPT !.flags = Urgent], on, isOn, FALSE)
    BY <1>3 DEF RefillTank
  <2>2. on \in BOOLEAN /\ [Counters EXCEPT !.flags = Urgent] \in Starts
    BY DEF Starts, Inv, TypeOK
  <2> QED
    BY <2>1, <2>2, SweepLemma
<1>4. CASE ResetUptimeSlot
  <2>1. PICK isOn \in BOOLEAN : SweepFrom(Restarted(key), on, isOn, FALSE)
    BY <1>4 DEF ResetUptimeSlot
  <2>2. on \in BOOLEAN /\ Restarted(key) \in Starts
    BY DEF Starts, Inv, TypeOK
  <2> QED
    BY <2>1, <2>2, SweepLemma
<1>5. CASE Restart
  BY <1>5, RestartLemma
<1>6. CASE Tick
  BY <1>6, TickLemma
<1>7. CASE NewDay
  BY <1>7, NewDayLemma
<1>8. CASE DayStartTrigger \/ MinuteEnds \/ ClockSet \/ ClockLost \/ OnEvent
  BY <1>8, ClockLemma
<1>9. CASE Persist
  BY <1>9, PersistLemma
<1>10. CASE UNCHANGED vars
  BY <1>10 DEF vars, relay, history, clock, Inv, TypeOK, LossInv, AgesOrdered, UnsavedIsRecent,
     UnmarkedIsLittle, LoopSaves, BlobIsRecent, MarkedWhileWriting, Unsaved, DatesInv, Dated, BlobIsOfCounter, RestartIsDurable,
     DayIsCaughtUp
<1> QED
  BY <1>1, <1>2, <1>3, <1>4, <1>5, <1>6, <1>7, <1>8, <1>9, <1>10 DEF Next

(* So it holds for ever.                                                   *)
LEMMA InvHolds == Spec => []Inv
<1> QED
  BY InitInv, NextInv, PTL DEF Spec

(* The counters, flags and dates keep their types (tickDevices_,           *)
(* persistMetrics_, loadPersistedMetrics_).                                *)
THEOREM TypeCorrect == Spec => []TypeOK
<1>1. Inv => TypeOK
  BY DEF Inv
<1> QED
  BY <1>1, InvHolds, PTL

(* However often others sweep, also within a write that takes their marks  *)
(* away, and wherever power fails, flash is behind by less than one        *)
(* persistence interval, one gap between two passes of the pooldev task,   *)
(* and the time a write under way has taken, unless the last write failed. *)
THEOREM LossBounded == Spec => []LossIsBounded
<1>1. Inv => LossIsBounded
  BY IntervalAssumption DEF Inv, TypeOK, Blob, LossInv, AgesOrdered, LoopSaves, Unsaved,
     LossIsBounded
<1> QED
  BY <1>1, InvHolds, PTL

(* A counter restarted by a day start, a reconcile or a command is not     *)
(* brought back by a power cut once no urgent mark is left, unless the     *)
(* restart fell within a write, whose end takes its mark away.             *)
THEOREM RestartsLast == Spec => []RestartIsDurable
<1>1. Inv => RestartIsDurable
  BY DEF Inv
<1> QED
  BY <1>1, InvHolds, PTL

(* reconcilePeriodCountersFromClock_, resetDailyCounters_: the counter     *)
(* that carries today's date holds no running time of an earlier day.      *)
THEOREM CountIsOfToday == Spec => []DayCountIsToday
<1>1. Inv => DayCountIsToday
  BY DEF Inv, DatesInv, Dated, DayCountIsToday
<1> QED
  BY <1>1, InvHolds, PTL

(* While the clock is set, an outdated counter is about to be restarted.   *)
THEOREM OutdatedIsCaughtUp == Spec => []DayIsCaughtUp
<1>1. Inv => DayIsCaughtUp
  BY DEF Inv
<1> QED
  BY <1>1, InvHolds, PTL
=============================================================================
