-------------------------- MODULE PoolDeviceMetrics --------------------------
(***************************************************************************)
(* The running-time counters of one relay (PoolDeviceModule): how sweeps   *)
(* accumulate them, how day starts and the clock reset them, and how they  *)
(* reach flash.  Which state the relay is in is the business of module     *)
(* PoolDevice; here it changes freely, either inside a sweep (an interlock)*)
(* or by a service call just before one.  The week and month counters run  *)
(* through the same code as the day counter and are not repeated.          *)
(*                                                                         *)
(* Only the sweep of the pooldev task may write flash; sweeps run by a     *)
(* caller account time but leave the writing to it.  The write itself is   *)
(* slow and holds no lock: everybody else goes on between the encoding of  *)
(* the blob and the end of the write, which clears the flags.  Power may   *)
(* fail between any two steps.                                             *)
(***************************************************************************)
EXTENDS Integers

CONSTANTS
  CommitEvery,   \* least time between two metric commits (1000 ms)
  PersistEvery,  \* least time between two writes while running (60 s)
  MaxGap,        \* longest time between two sweeps of the pooldev task (200 ms and a write)
  MaxDay,        \* bound on the calendar explored
  MaxTotal       \* bound on the accounted time explored

ASSUME IntervalAssumption == /\ CommitEvery \in Nat \ {0}
                             /\ MaxGap \in Nat \ {0}
                             /\ PersistEvery \in Nat /\ CommitEvery + MaxGap <= PersistEvery
                             /\ MaxDay \in Nat /\ MaxTotal \in Nat

VARIABLES
  on,             \* actualOn
  count,          \* runningMsDay
  total,          \* runningMsTotal
  key,            \* dayKey, 0 when no day is known yet
  flags,          \* forceMetricsCommit, persistDirty, persistImmediate
  age,            \* time since the last sweep, commit, write and pooldev sweep
  nvs,            \* metrics_blob as flash holds it
  writing,        \* persistMetrics_ of the pooldev task: whether it is under way, its blob
  pending,        \* resetPendingMask_ and periodReconcilePending_
  clockReady,     \* timeReady, so that currentPeriodKeys_ succeeds
  midnight,       \* the wall clock is in the minute 00:00
  fired,          \* the scheduler has triggered in this minute
  bus,            \* events posted and not yet dispatched: "dayStart", "timeReady"
  day,            \* today's date
  stale,          \* history: 1 if part of count was accounted on an earlier date, else 0
  failed,         \* history: the last write to flash failed
  overtaken       \* history: a write took away the mark of a restart, and none was set since

history == <<stale, failed, overtaken>>
relay == <<on, count, total, key, flags, age, nvs, writing, history>>
clock == <<clockReady, midnight, fired, bus, day>>
vars == <<relay, clock, pending>>
-----------------------------------------------------------------------------
Clean == [force |-> FALSE, dirty |-> FALSE, immediate |-> FALSE]
Urgent == [force |-> TRUE, dirty |-> TRUE, immediate |-> TRUE]

AtMost(x, bound) == IF x < bound THEN x ELSE bound

(* Mutant: the restarted counter is not written. *)
RestartedQuietly(k) == [count |-> 0, key |-> IF clockReady THEN day ELSE k,
                        flags |-> Clean, stale |-> 0]

(* Mutant: the running sweep is taken off the new day in advance. *)
RestartedEarly(k) == [count |-> 0 - age.sweep, key |-> IF clockReady THEN day ELSE k,
                      flags |-> Urgent, stale |-> 0]

(* What a counter becomes when it starts a new day by an event or a command. *)
Restarted(k) == [count |-> 0, key |-> IF clockReady THEN day ELSE k,
                 flags |-> Urgent, stale |-> 0]

(* The head of a sweep: a pending day start restarts the counter, and a    *)
(* pending reconcile compares its date with the clock's.                   *)
AfterReset(m) == IF pending.reset THEN Restarted(m.key) ELSE m

(* Mutant: the date is adopted but yesterday's time is kept. *)
AfterReconcileKeep(m) ==
  IF pending.reconcile /\ clockReady /\ m.key # day
  THEN [m EXCEPT !.key = day, !.flags = Urgent] ELSE m

AfterReconcile(m) ==
  IF pending.reconcile /\ clockReady /\ m.key # day
  THEN [count |-> IF m.key = 0 THEN m.count ELSE 0, key |-> day, flags |-> Urgent, stale |-> 0]
  ELSE m

(* Mutant: a running relay is never written. *)
ShouldPersistWhenOff(f, running) == f.dirty /\ (f.immediate \/ ~running)

ShouldPersist(f, running) ==
  f.dirty /\ (f.immediate \/ ~running \/ age.persist >= PersistEvery)

NoBlob == [count |-> 0, total |-> 0, key |-> 0, stale |-> 0]

NotWriting == [busy |-> FALSE, blob |-> NoBlob, crossed |-> FALSE]

(* persistMetrics_ begins with a copy of the counters. *)
Encoded(blob) == [busy |-> TRUE, blob |-> blob, crossed |-> FALSE]

(* History of a write that meets the sweep of another task: whether the    *)
(* counter m the sweep goes on with was set back or dated anew.            *)
MetBy(m) ==
  [writing EXCEPT !.crossed = writing.busy /\ (@ \/ m.count < count \/ m.key # key)]

(* A sweep: wasOn is the relay before it, isOn after it; delta is the time *)
(* since the last sweep of the slot.                                       *)
SweepFrom(m0, wasOn, isOn, allowPersist) ==
  LET m == AfterReconcile(AfterReset(m0))
      delta == IF isOn THEN age.sweep ELSE 0
      commit == \/ pending.reset
                \/ m.flags.force
                \/ delta > 0 /\ age.commit >= CommitEvery
      stopped == wasOn /\ ~isOn
      f == [force |-> FALSE,
            dirty |-> m.flags.dirty \/ stopped \/ commit,
            immediate |-> m.flags.immediate \/ stopped]
      blob == [count |-> m.count + delta, total |-> total + delta, key |-> m.key,
               stale |-> m.stale]
  IN  /\ on' = isOn
      /\ count' = blob.count /\ total' = blob.total /\ key' = m.key
      /\ stale' = m.stale
      /\ pending' = [reset |-> FALSE, reconcile |-> pending.reconcile /\ ~clockReady]
      /\ flags' = f
      /\ writing' = IF allowPersist /\ ShouldPersist(f, isOn) THEN Encoded(blob) ELSE MetBy(m)
      /\ age' = [sweep |-> 0,
                 commit |-> IF commit THEN 0 ELSE age.commit,
                 persist |-> age.persist,
                 loop |-> IF allowPersist THEN 0 ELSE age.loop]
      /\ overtaken' = (overtaken /\ ~f.immediate)
      /\ UNCHANGED <<nvs, failed, clock>>

Counters ==
  [count |-> count, key |-> key, flags |-> flags, stale |-> stale]
-----------------------------------------------------------------------------
(* loadPersistedMetrics_ and configureRuntime_: the blob is taken over, the *)
(* sweep, commit and write times start now, and a reconcile is asked for.   *)
Loaded(blob) ==
  [on |-> FALSE, count |-> blob.count, total |-> blob.total, key |-> blob.key,
   flags |-> Clean, stale |-> blob.stale,
   age |-> [sweep |-> 0, commit |-> 0, persist |-> 0, loop |-> 0],
   pending |-> [reset |-> FALSE, reconcile |-> TRUE]]

(* An installed controller: flash holds a date or none, the clock is unset. *)
Init ==
  /\ nvs \in [count : {0}, total : {0}, key : {0, 1}, stale : {0}]
  /\ LET boot == Loaded(nvs) IN
       /\ on = boot.on /\ count = boot.count /\ total = boot.total /\ key = boot.key
       /\ flags = boot.flags /\ stale = boot.stale
       /\ age = boot.age /\ pending = boot.pending
  /\ writing = NotWriting /\ failed = FALSE /\ overtaken = FALSE
  /\ clockReady = FALSE /\ midnight = FALSE /\ fired = FALSE /\ bus = {}
  /\ day = 1

(* A power cut: what was not in flash is gone. *)
Restart ==
  /\ LET boot == Loaded(nvs) IN
       /\ on' = boot.on /\ count' = boot.count /\ total' = boot.total /\ key' = boot.key
       /\ flags' = boot.flags /\ stale' = boot.stale
       /\ age' = boot.age /\ pending' = boot.pending
  /\ writing' = NotWriting /\ failed' = FALSE /\ overtaken' = FALSE
  /\ clockReady' = FALSE /\ fired' = FALSE /\ bus' = {}
  /\ UNCHANGED <<nvs, midnight, day>>

(* The sweep of the pooldev task, in which an interlock may switch the relay. *)
LoopSweep ==
  /\ ~writing.busy
  /\ \E isOn \in BOOLEAN : SweepFrom(Counters, on, isOn, TRUE)

(* The rest of persistMetrics_.  Either the blob is in flash, and the marks *)
(* are cleared, also those that were set since it was encoded; the next    *)
(* interval counts from the sweep's reading of the clock.  Or the write    *)
(* failed and the marks stay for the next sweep.                           *)
Persist ==
  /\ writing.busy
  /\ writing' = NotWriting
  /\ \/ /\ nvs' = writing.blob /\ failed' = FALSE
        /\ flags' = [flags EXCEPT !.dirty = FALSE, !.immediate = FALSE]
        /\ age' = [age EXCEPT !.persist = AtMost(age.loop, PersistEvery)]
        /\ overtaken' = writing.crossed
     \/ nvs' = nvs /\ failed' = TRUE /\ UNCHANGED <<flags, age, overtaken>>
  /\ UNCHANGED <<on, count, total, key, stale, clock, pending>>

(* svcWriteDesired on this slot or another: the relay may already have     *)
(* been switched when the caller's sweep reads it, so that this sweep sees *)
(* no edge, and an interlock may switch it in the sweep.  What it was is   *)
(* of consequence only to a sweep that leaves it off.                      *)
ServiceWrite ==
  \E isOn \in BOOLEAN : \E written \in {isOn, TRUE} : SweepFrom(Counters, written, isOn, FALSE)

(* svcRefillTank: the tank is not modelled, its urgent write is. *)
RefillTank ==
  \E isOn \in BOOLEAN : SweepFrom([Counters EXCEPT !.flags = Urgent], on, isOn, FALSE)

(* pool.uptime.reset, followed by the caller's sweep. *)
ResetUptimeSlot == \E isOn \in BOOLEAN : SweepFrom(Restarted(key), on, isOn, FALSE)

Tick ==
  /\ age.loop < MaxGap
  /\ total + age.sweep < MaxTotal
  /\ age' = [sweep |-> age.sweep + 1, commit |-> AtMost(age.commit + 1, CommitEvery),
             persist |-> AtMost(age.persist + 1, PersistEvery), loop |-> age.loop + 1]
  /\ UNCHANGED <<on, count, total, key, flags, nvs, writing, history, clock, pending>>
-----------------------------------------------------------------------------
(* At midnight all that a dated counter holds is of an earlier date.  Time *)
(* from before any date was known is booked on the first date, once known. *)
Outdated(k, n) == IF k = 0 \/ n = 0 THEN 0 ELSE 1

(* The clock and its scheduler.  DAY_START is triggered by the first       *)
(* evaluation in the minute 00:00, once per minute and synchronisation.    *)
NewDay ==
  /\ ~midnight /\ day < MaxDay
  /\ day' = day + 1 /\ midnight' = TRUE /\ fired' = FALSE
  /\ stale' = Outdated(key, count)
  /\ nvs' = [nvs EXCEPT !.stale = Outdated(nvs.key, nvs.count)]
  /\ writing' = [writing EXCEPT !.blob.stale = Outdated(writing.blob.key, writing.blob.count)]
  /\ UNCHANGED <<on, count, total, key, flags, age, failed, overtaken, pending, clockReady, bus>>

(* EventBus.post.  Two pending events of one kind are not told apart.  A   *)
(* queue that refuses an event is not modelled; for what must never happen *)
(* that is no loss of generality, an event may stay queued for ever.       *)
Post(e) == bus' = bus \union {e}

DayStartTrigger ==
  /\ clockReady /\ midnight /\ ~fired
  /\ fired' = TRUE
  /\ Post("dayStart")
  /\ UNCHANGED <<relay, pending, clockReady, midnight, day>>

(* The scheduler evaluates every second, so a set clock never passes the   *)
(* minute without an evaluation.                                           *)
MinuteEnds ==
  /\ midnight /\ (clockReady => fired)
  /\ midnight' = FALSE /\ fired' = FALSE
  /\ UNCHANGED <<relay, pending, clockReady, bus, day>>

(* Mutant: the date is not looked at again when the clock comes back. *)
ClockSetSilently ==
  /\ ~clockReady
  /\ clockReady' = TRUE
  /\ UNCHANGED <<relay, pending, midnight, fired, bus, day>>

(* setState: timeReady follows the synchronisation, which leaves Synced    *)
(* for every resynchronisation and forgets what was triggered.             *)
ClockSet ==
  /\ ~clockReady
  /\ clockReady' = TRUE
  /\ Post("timeReady")
  /\ UNCHANGED <<relay, pending, midnight, fired, day>>

ClockLost ==
  /\ clockReady
  /\ clockReady' = FALSE /\ fired' = FALSE
  /\ UNCHANGED <<relay, pending, midnight, bus, day>>

(* The dispatcher hands an event to onEvent_. *)
OnEvent ==
  \E e \in bus :
    /\ bus' = bus \ {e}
    /\ pending' = IF e = "dayStart" THEN [pending EXCEPT !.reset = TRUE]
                  ELSE [pending EXCEPT !.reconcile = @ \/ clockReady]
    /\ UNCHANGED <<relay, clockReady, midnight, fired, day>>

Next == \/ LoopSweep \/ Persist \/ ServiceWrite \/ RefillTank \/ ResetUptimeSlot
        \/ Restart \/ Tick \/ NewDay \/ DayStartTrigger \/ MinuteEnds \/ ClockSet \/ ClockLost \/ OnEvent

Spec == Init /\ [][Next]_vars
-----------------------------------------------------------------------------
Blob == [count : Nat, total : Nat, key : Nat, stale : Nat]

TypeOK ==
  /\ on \in BOOLEAN
  /\ count \in Nat /\ total \in Nat /\ key \in Nat
  /\ flags \in [force : BOOLEAN, dirty : BOOLEAN, immediate : BOOLEAN]
  /\ age \in [sweep : Nat, commit : Nat, persist : Nat, loop : Nat]
  /\ nvs \in Blob
  /\ writing \in [busy : BOOLEAN, blob : Blob, crossed : BOOLEAN]
  /\ pending \in [reset : BOOLEAN, reconcile : BOOLEAN]
  /\ clockReady \in BOOLEAN /\ midnight \in BOOLEAN /\ fired \in BOOLEAN
  /\ bus \subseteq {"dayStart", "timeReady"} /\ day \in Nat
  /\ stale \in Nat /\ failed \in BOOLEAN /\ overtaken \in BOOLEAN

(* While flash can be written, a power cut costs less than one persistence *)
(* interval of accounted running time, the time between two sweeps of the  *)
(* pooldev task, and what the write it falls into has taken so far, whoever*)
(* else sweeps and whatever marks a write takes away (tickDevices_,        *)
(* persistMetrics_).                                                       *)
LossIsBounded ==
  ~failed => total - nvs.total < PersistEvery + MaxGap
                                 + (IF writing.busy THEN age.loop ELSE 0)

(* A counter that was restarted does not come back: unless an urgent write *)
(* is outstanding, a power cut restores no larger count and no other date. *)
(* The one exception is a restart within a write, whose mark persistMetrics_*)
(* takes away with those of the blob it wrote.                             *)
RestartIsDurable ==
  ~flags.immediate /\ ~overtaken => nvs.key = key /\ nvs.count <= count

(* reconcilePeriodCountersFromClock_, resetDailyCounters_: time run on an   *)
(* earlier day is not held against today's limit.  A counter that carries  *)
(* today's date holds none.                                                *)
DayCountIsToday == key = day => stale = 0

(* PoolDeviceModule.md: the daily limit is lifted by the daily reset.      *)
(* While the clock is set, yesterday's date is on the counter only as long *)
(* as something that replaces it is under way.                             *)
DayIsCaughtUp ==
  clockReady /\ key # day =>
    pending.reset \/ pending.reconcile \/ bus # {} \/ (midnight /\ ~fired)
=============================================================================
