-------------------------- MODULE SchedulerProofs --------------------------
(***************************************************************************)
(* Proofs about the maintenance loops, for any number of loops, keys and   *)
(* expressions and any cap.                                                *)
(*                                                                         *)
(* A cursor, whether a loop holds it or the table, is only ever ahead of   *)
(* occurrences that have been inserted: Ahead says so, and a round of a    *)
(* loop moves its own cursor across one occurrence that it has inserted.   *)
(***************************************************************************)
EXTENDS Scheduler, StorageProofs

Lists == UNION {[K -> Listed] : K \in SUBSET Keys}
TickRecord == [step : {"idle", "promoted", "reclaimed", "listed"}, at : 0 .. MaxTime,
               list : Lists, produced : 0 .. MaxCatchUp]

LoopTypes ==
  /\ now <= MaxTime
  /\ DOMAIN repeatables \subseteq Keys
  /\ repeatables \in [DOMAIN repeatables -> Schedule]
  /\ since \in [Keys -> Nat \cup {Null}]
  /\ tick \in [Loops -> TickRecord]
  /\ ticks \in [Loops -> Nat]
  /\ \A m \in Loops : DOMAIN tick[m].list \subseteq DOMAIN repeatables

LoopInv == StorageInv /\ LoopTypes

(* All occurrences of a schedule, the date first it was registered with    *)
(* included, that lie before the time at are in the set of those inserted. *)
Ahead(key, cron, first, at, inserted) ==
  /\ at \in Nat /\ first <= at
  /\ \A x \in first .. at - 1 :
       (x = first \/ x % cron = 0) => Occurrence(key, x) \in inserted

(* What the loops have listed is the registered schedule, with a cursor    *)
(* that has skipped nothing.                                               *)
NothingSkipped ==
  /\ \A key \in DOMAIN repeatables :
       since[key] # Null =>
         Ahead(key, repeatables[key].cron, since[key], repeatables[key].nextRunAt, made)
  /\ \A m \in Loops : \A key \in DOMAIN tick[m].list :
       /\ tick[m].list[key].cron = repeatables[key].cron
       /\ since[key] # Null =>
            Ahead(key, repeatables[key].cron, since[key], tick[m].list[key].cursor, made)

-----------------------------------------------------------------------------
(* Occurrences and lists                                                   *)

LEMMA Quotient ==
  ASSUME NEW d \in Nat, d > 0, NEW n \in Nat
  PROVE  \E q \in Nat : n \div d = q /\ d * q <= n /\ n < d * q + d
BY SMTT(30)

LEMMA NextRunIsLater ==
  ASSUME NEW cron \in Nat \ {0}, NEW at \in Nat
  PROVE  /\ NextRun(cron, at) \in Nat /\ NextRun(cron, at) > at
         /\ \E q \in Nat : NextRun(cron, at) = (q + 1) * cron /\ cron * q <= at
<1>1. PICK q \in Nat : at \div cron = q /\ cron * q <= at /\ at < cron * q + cron
  BY Quotient
<1>2. NextRun(cron, at) = (q + 1) * cron
  BY <1>1 DEF NextRun
<1>3. (q + 1) * cron = cron * q + cron /\ (q + 1) * cron \in Nat
  OBVIOUS
<1> QED
  BY <1>1, <1>2, <1>3

(* Between a time and its NextRun there is no multiple of the period.      *)
LEMMA NothingBetween ==
  ASSUME NEW cron \in Nat \ {0}, NEW at \in Nat, NEW x \in Nat,
         at < x, x < NextRun(cron, at)
  PROVE  x % cron # 0
<1> SUFFICES ASSUME x % cron = 0 PROVE FALSE
  OBVIOUS
<1>1. PICK p \in 0 .. x : x = p * cron
  OBVIOUS
<1>2. PICK q \in Nat : NextRun(cron, at) = (q + 1) * cron /\ cron * q <= at
  BY NextRunIsLater
<1>3. cron * q < p * cron /\ p * cron < (q + 1) * cron
  BY <1>1, <1>2
<1>4. CASE p <= q
  <2>1. p * cron <= cron * q
    BY <1>4
  <2> QED
    BY <1>3, <2>1
<1>5. CASE p >= q + 1
  <2>1. p * cron >= (q + 1) * cron
    BY <1>5
  <2> QED
    BY <1>3, <2>1
<1> QED
  BY <1>4, <1>5

LEMMA ListsAre ==
  ASSUME NEW list
  PROVE  list \in Lists <=> /\ DOMAIN list \subseteq Keys
                            /\ list \in [DOMAIN list -> Listed]
BY DEF Lists

LEMMA TickOfLoop ==
  ASSUME LoopTypes, NEW m \in Loops
  PROVE  /\ tick[m] \in TickRecord
         /\ tick[m].list \in [DOMAIN tick[m].list -> Listed]
         /\ DOMAIN tick[m].list \subseteq Keys
         /\ DOMAIN tick[m].list \subseteq DOMAIN repeatables
<1>1. tick[m] \in TickRecord
  BY DEF LoopTypes
<1> QED
  BY <1>1, ListsAre DEF LoopTypes, TickRecord

LEMMA Tick0Typed == Tick0 \in TickRecord /\ DOMAIN Tick0.list = {}
<1>1. [k \in {} |-> Null] \in Lists
  BY ListsAre
<1> QED
  BY <1>1, ConstantsAssumption, SchedulerAssumption DEF Tick0, TickRecord

-----------------------------------------------------------------------------
(* Types and the table under the loops                                     *)

(* One loop moves; the definitions in the table stay.                      *)
LEMMA OneLoopMoves ==
  ASSUME LoopTypes, NEW m \in Loops, NEW record \in TickRecord,
         tick' = [tick EXCEPT ![m] = record], now' = now, since' = since,
         ticks' \in [Loops -> Nat],
         DOMAIN repeatables' = DOMAIN repeatables,
         repeatables' \in [DOMAIN repeatables -> Schedule],
         DOMAIN record.list \subseteq DOMAIN repeatables
  PROVE  LoopTypes'
BY DEF LoopTypes

LEMMA BeginOK ==
  ASSUME LoopInv, NEW m \in Loops, Begin(m) \/ Reclaim(m) \/ ListRepeatables(m)
  PROVE  LoopTypes'
<1>1. LoopTypes /\ now \in 0 .. MaxTime /\ tick[m] \in TickRecord
  BY TickOfLoop, ConstantsAssumption DEF LoopInv, StorageInv, TypeOK, LoopTypes
<1>2. CASE Begin(m)
  <2> DEFINE record == [Tick0 EXCEPT !.step = "promoted", !.at = now]
  <2>1. record \in TickRecord /\ DOMAIN record.list = {}
    BY <1>1, Tick0Typed DEF TickRecord
  <2>2. ticks' \in [Loops -> Nat]
    BY <1>1, <1>2, SchedulerAssumption DEF Begin, LoopTypes
  <2>3. tick' = [tick EXCEPT ![m] = record] /\ now' = now /\ UNCHANGED tableVars
    BY <1>2 DEF Begin, PromoteDelayed
  <2> HIDE DEF record
  <2> QED
    BY <1>1, <2>1, <2>2, <2>3, OneLoopMoves DEF LoopTypes, tableVars
<1>3. CASE Reclaim(m)
  <2> DEFINE record == [tick[m] EXCEPT !.step = "reclaimed"]
  <2>1. record \in TickRecord /\ record.list = tick[m].list
    BY <1>1 DEF TickRecord
  <2>2. tick' = [tick EXCEPT ![m] = record] /\ now' = now /\ UNCHANGED <<tableVars, ticks>>
    BY <1>3 DEF Reclaim, ReclaimStale
  <2> HIDE DEF record
  <2> QED
    BY <1>1, <2>1, <2>2, OneLoopMoves, TickOfLoop DEF LoopTypes, tableVars
<1>4. CASE ListRepeatables(m)
  <2> DEFINE list == [k \in DOMAIN repeatables |->
                        [cron      |-> repeatables[k].cron,
                         nextRunAt |-> repeatables[k].nextRunAt,
                         cursor    |-> repeatables[k].nextRunAt]]
             record == [tick[m] EXCEPT !.step = "listed", !.list = list]
  <2>1. list \in Lists /\ DOMAIN list = DOMAIN repeatables
    BY <1>1, ListsAre DEF LoopTypes, Schedule, Listed
  <2>2. tick' = [tick EXCEPT ![m] = record] /\ now' = now /\ UNCHANGED <<tableVars, ticks>>
    BY <1>4 DEF ListRepeatables, storageVars
  <2> HIDE DEF list
  <2>3. record \in TickRecord /\ record.list = list
    BY <1>1, <2>1 DEF TickRecord
  <2> HIDE DEF record
  <2> QED
    BY <1>1, <2>1, <2>2, <2>3, OneLoopMoves DEF LoopTypes, tableVars
<1> QED
  BY <1>2, <1>3, <1>4

LEMMA EndOK ==
  ASSUME LoopInv, NEW m \in Loops,
         Finish(m) \/ Interrupt(m) \/ \E key \in DOMAIN tick[m].list : RejectCron(m, key)
  PROVE  LoopTypes'
<1>1. LoopTypes
  BY DEF LoopInv
<1>2. tick' = [tick EXCEPT ![m] = Tick0] /\ now' = now /\ UNCHANGED tableVars
  BY DEF Finish, Interrupt, RejectCron, Cleanup, storageVars
<1>3. ticks' \in [Loops -> Nat]
  BY <1>1 DEF Finish, Interrupt, RejectCron, LoopTypes
<1> QED
  BY <1>1, <1>2, <1>3, Tick0Typed, OneLoopMoves DEF LoopTypes, tableVars

LEMMA PersistOK ==
  ASSUME LoopInv, NEW m \in Loops, NEW key \in DOMAIN tick[m].list, PersistNextRun(m, key)
  PROVE  LoopTypes'
<1> DEFINE row == tick[m].list[key]
           nextAt == IF row.cursor = Null THEN NextRun(row.cron, tick[m].at) ELSE row.cursor
           list == Dropped(tick[m].list, key)
           record == [tick[m] EXCEPT !.list = list, !.produced = 0]
<1>1. /\ LoopTypes /\ tick[m] \in TickRecord /\ tick[m].list \in [DOMAIN tick[m].list -> Listed]
      /\ DOMAIN tick[m].list \subseteq Keys /\ DOMAIN tick[m].list \subseteq DOMAIN repeatables
  BY TickOfLoop DEF LoopInv
<1>2. row \in Listed /\ row.cron # BadCron
  BY <1>1 DEF PersistNextRun
<1>3. row.cron \in Crons /\ row.cron \in Nat \ {0}
  BY <1>2, SchedulerAssumption DEF Listed, BadCron
<1>4. nextAt \in Nat
  <2>1. tick[m].at \in Nat
    BY <1>1, ConstantsAssumption DEF TickRecord
  <2>2. CASE row.cursor = Null
    <3> HIDE DEF row
    <3> QED
      BY <1>3, <2>1, <2>2, NextRunIsLater
  <2>3. CASE row.cursor # Null
    BY <1>2, <2>3 DEF Listed
  <2> QED
    BY <2>2, <2>3
<1>5. list \in Lists /\ DOMAIN list \subseteq DOMAIN tick[m].list
  <2>1. /\ DOMAIN list = DOMAIN tick[m].list \ {key}
        /\ list \in [DOMAIN tick[m].list \ {key} -> Listed]
    BY <1>1 DEF Dropped
  <2> HIDE DEF list
  <2> QED
    BY <1>1, <2>1, ListsAre
<1>6. record \in TickRecord /\ record.list = list
  <2> HIDE DEF list
  <2>1. tick[m] \in TickRecord /\ list \in Lists /\ 0 \in 0 .. MaxCatchUp
    BY <1>1, <1>5, SchedulerAssumption
  <2> QED
    BY <2>1 DEF TickRecord
<1>7. tick' = [tick EXCEPT ![m] = record] /\ now' = now /\ since' = since /\ ticks' = ticks
  <2>1. DoneWith(m, key)
    BY DEF PersistNextRun
  <2>2. now' = now /\ since' = since /\ ticks' = ticks
    BY DEF PersistNextRun, storageVars
  <2>3. tick' = [tick EXCEPT ![m].list = list, ![m].produced = 0]
    BY <2>1 DEF DoneWith
  <2> HIDE DEF list
  <2> QED
    BY <1>1, <2>2, <2>3 DEF LoopTypes
<1>8. DOMAIN repeatables' = DOMAIN repeatables /\ repeatables' \in [DOMAIN repeatables -> Schedule]
  <2>1. [cron |-> row.cron, nextRunAt |-> nextAt] \in Schedule
    BY <1>3, <1>4 DEF Schedule
  <2>2. UpsertRepeatable(key, row.cron, nextAt) \/ UNCHANGED repeatables
    BY DEF PersistNextRun
  <2> HIDE DEF nextAt, row
  <2> QED
    BY <1>1, <2>1, <2>2 DEF UpsertRepeatable, LoopTypes
<1> HIDE DEF record, list
<1> QED
  BY <1>1, <1>5, <1>6, <1>7, <1>8, OneLoopMoves DEF LoopTypes

LEMMA MaterializeOK ==
  ASSUME LoopInv, NEW m \in Loops, NEW key \in DOMAIN tick[m].list, NEW t \in Stamps,
         Materialize(m, key, t)
  PROVE  LoopInv'
<1> DEFINE row == tick[m].list[key]
           occ == Occurrence(key, row.cursor)
           moved == [row EXCEPT !.cursor = NextRun(row.cron, row.cursor)]
           list == [tick[m].list EXCEPT ![key] = moved]
           record == [tick[m] EXCEPT !.list = list, !.produced = tick[m].produced + 1]
<1>1. /\ LoopTypes /\ tick[m] \in TickRecord /\ tick[m].list \in [DOMAIN tick[m].list -> Listed]
      /\ DOMAIN tick[m].list \subseteq Keys /\ DOMAIN tick[m].list \subseteq DOMAIN repeatables
  BY TickOfLoop DEF LoopInv
<1>2. row \in Listed /\ row.cron # BadCron /\ IsDue(m, row)
  BY <1>1 DEF Materialize
<1>3. row.cron \in Nat \ {0} /\ row.cursor \in Nat
  BY <1>2, SchedulerAssumption DEF Listed, BadCron, IsDue
<1>4. NextRun(row.cron, row.cursor) \in Nat
  BY <1>3, NextRunIsLater
<1>5. moved \in Listed
  BY <1>2, <1>4 DEF Listed
<1>6. list \in Lists /\ DOMAIN list = DOMAIN tick[m].list
  <2> HIDE DEF moved
  <2> QED
    BY <1>1, <1>5, ListsAre
<1>7. tick[m].produced + 1 \in 0 .. MaxCatchUp
  BY <1>1, <1>2, SchedulerAssumption DEF IsDue, TickRecord
<1>8. record \in TickRecord /\ record.list = list
  <2> HIDE DEF list
  <2> QED
    BY <1>1, <1>6, <1>7 DEF TickRecord
<1>9. tick' = [tick EXCEPT ![m] = record] \/ tick' = [tick EXCEPT ![m] = Tick0]
  <2>1. CASE HasNextRun(row.cron, row.cursor)
    <3>1. tick' = [tick EXCEPT ![m].list[key].cursor = NextRun(row.cron, row.cursor),
                               ![m].produced = @ + 1]
      BY <2>1 DEF Materialize, Advance
    <3> QED
      BY <1>1, <3>1 DEF LoopTypes, TickRecord, Listed
  <2>2. CASE ~HasNextRun(row.cron, row.cursor)
    BY <2>2 DEF Materialize, Advance
  <2> QED
    BY <2>1, <2>2
<1>10. /\ UNCHANGED <<now, repeatables, since, ticks>>
       /\ \E queue \in Queues, priority \in Priorities, limit \in AttemptLimits,
             backoff \in Backoffs : Enqueue(t, queue, priority, occ, limit, backoff, row.cursor)
  BY DEF Materialize, Enqueue
<1>11. StorageInv'
  <2>1. row.cursor \in 0 .. MaxTime
    BY <1>1, <1>2, <1>3, ConstantsAssumption DEF IsDue, TickRecord
  <2>2. occ \in DedupKeys \cup {NoKey}
    BY <1>1, <2>1, OccurrenceAssumption
  <2>3. TableOK
    BY ByRows DEF LoopInv
  <2> HIDE DEF occ, row
  <2>4. TableOK'
    BY <1>3, <1>10, <2>2, <2>3, EnqueueOK
  <2>5. TableOK' => StorageInv'
    BY ByRows, PTL
  <2> QED
    BY <2>4, <2>5
<1> HIDE DEF record, list
<1>12. LoopTypes'
  BY <1>1, <1>6, <1>8, <1>9, <1>10, Tick0Typed, OneLoopMoves DEF LoopTypes
<1> QED
  BY <1>11, <1>12 DEF LoopInv

LEMMA RegisterOK ==
  ASSUME LoopInv, NEW key \in Keys, Register(key)
  PROVE  LoopTypes'
<1>1. LoopTypes /\ now \in Nat
  BY DEF LoopInv, StorageInv, TypeOK
<1>2. PICK cron \in Crons :
        \E at \in CallerTimes(now) \cup {Null} \cup
               (IF cron # BadCron /\ HasNextRun(cron, now) THEN {NextRun(cron, now)} ELSE {}) :
          UpsertRepeatable(key, cron, at) /\ since' = [since EXCEPT ![key] = at]
  BY DEF Register
<1>3. PICK at \in CallerTimes(now) \cup {Null} \cup
               (IF cron # BadCron /\ HasNextRun(cron, now) THEN {NextRun(cron, now)} ELSE {}) :
          UpsertRepeatable(key, cron, at) /\ since' = [since EXCEPT ![key] = at]
  BY <1>2
<1>4. at \in Nat \cup {Null}
  <2>1. CallerTimes(now) \subseteq Nat
    BY <1>1, ConstantsAssumption DEF CallerTimes
  <2>2. cron # BadCron => NextRun(cron, now) \in Nat
    BY <1>1, NextRunIsLater, SchedulerAssumption DEF BadCron
  <2> QED
    BY <1>3, <2>1, <2>2
<1>5. /\ DOMAIN repeatables' = DOMAIN repeatables \cup {key}
      /\ repeatables' \in [DOMAIN repeatables' -> Schedule]
  <2>1. [cron |-> cron, nextRunAt |-> at] \in Schedule
    BY <1>4 DEF Schedule
  <2> QED
    BY <1>1, <1>3, <2>1 DEF UpsertRepeatable, LoopTypes
<1>6. UNCHANGED <<now, tick, ticks>>
  BY DEF Register, storageVars
<1>7. since' \in [Keys -> Nat \cup {Null}]
  BY <1>1, <1>3, <1>4 DEF LoopTypes
<1> QED
  BY <1>1, <1>5, <1>6, <1>7 DEF LoopTypes

LEMMA ElsewhereOK ==
  ASSUME LoopInv, Elsewhere
  PROVE  LoopTypes' /\ [Next]_storageVars
<1>1. now \in Nat /\ LoopTypes /\ UNCHANGED <<tableVars, tick, ticks>>
  BY DEF LoopInv, StorageInv, TypeOK, Elsewhere
<1>2. CASE Tick
  <2>1. now' <= MaxTime
    BY <1>1, <1>2, ConstantsAssumption DEF Tick
  <2> QED
    BY <1>1, <1>2, <2>1 DEF LoopTypes, tableVars, Next
<1>3. ASSUME NEW t \in Stamps, NEW id \in DOMAIN jobs, ClaimNext(t, {}, id) \/ Complete(t, id)
      PROVE  LoopTypes' /\ [Next]_storageVars
  <2>1. now' = now
    BY <1>3 DEF ClaimNext, Complete, WriteActive
  <2>2. id \in 1 .. nextId - 1 /\ {} \in SUBSET Queues
    BY DEF LoopInv, StorageInv, TypeOK
  <2>3. WorkerCall(t)
    BY <1>3, <2>2 DEF WorkerCall
  <2> QED
    BY <1>1, <2>1, <2>3 DEF LoopTypes, tableVars, Next
<1> QED
  BY <1>2, <1>3 DEF Elsewhere

LEMMA TableKept == TableOK' => StorageInv'
BY ByRows, PTL

(* A tick reclaims and cleans up with the time it read when it began,      *)
(* which may be older than any timestamp of a caller.                      *)
LEMMA OldCallsOK ==
  ASSUME LoopInv, NEW m \in Loops, Reclaim(m) \/ Finish(m)
  PROVE  StorageInv'
<1>1. TableOK /\ tick[m].at \in Nat
  BY ByRows, TickOfLoop, ConstantsAssumption DEF LoopInv, TickRecord
<1>2. ReclaimStale(tick[m].at) \/ Cleanup(tick[m].at) \/ UNCHANGED storageVars
  BY DEF Reclaim, Finish
<1>3. CASE ReclaimStale(tick[m].at) \/ Cleanup(tick[m].at)
  BY <1>1, <1>3, ReclaimStaleOK, CleanupOK, TableKept
<1>4. CASE UNCHANGED storageVars
  BY <1>4, NextOK DEF LoopInv
<1> QED
  BY <1>2, <1>3, <1>4

LEMMA LoopInitOK == SchedulerInit => LoopInv /\ NothingSkipped
<1> SUFFICES ASSUME SchedulerInit PROVE LoopInv /\ NothingSkipped
  OBVIOUS
<1>1. StorageInv
  BY InitOK DEF SchedulerInit
<1>2. LoopTypes
  BY Tick0Typed, ConstantsAssumption DEF SchedulerInit, Init, LoopTypes
<1>3. NothingSkipped
  BY Tick0Typed DEF SchedulerInit, NothingSkipped
<1> QED
  BY <1>1, <1>2, <1>3 DEF LoopInv

LEMMA LoopNextOK ==
  ASSUME LoopInv, [SchedulerNext]_schedulerVars
  PROVE  LoopInv'
<1>1. ASSUME UNCHANGED schedulerVars PROVE LoopInv'
  <2>1. LoopTypes'
    BY <1>1 DEF LoopInv, LoopTypes, schedulerVars, storageVars, tableVars
  <2>2. StorageInv'
    BY <1>1, NextOK DEF LoopInv, schedulerVars
  <2> QED
    BY <2>1, <2>2 DEF LoopInv
<1>2. ASSUME Elsewhere PROVE LoopInv'
  BY <1>2, ElsewhereOK, NextOK DEF LoopInv
<1>3. ASSUME NEW key \in Keys, Register(key) PROVE LoopInv'
  <2>1. UNCHANGED storageVars
    BY <1>3 DEF Register
  <2> QED
    BY <1>3, <2>1, RegisterOK, NextOK DEF LoopInv
<1>4. ASSUME NEW m \in Loops, TickStep(m) \/ Interrupt(m) PROVE LoopInv'
  <2>1. now \in Stamps
    BY ConstantsAssumption DEF Stamps, LoopInv, StorageInv, TypeOK
  <2>2. CASE Begin(m)
    <3>1. Next
      BY <2>1, <2>2 DEF Begin, Next, MaintenanceCall
    <3> QED
      BY <2>2, <3>1, BeginOK, NextOK DEF LoopInv
  <2>3. CASE Reclaim(m) \/ Finish(m)
    BY <2>3, OldCallsOK, BeginOK, EndOK DEF LoopInv
  <2>4. CASE ListRepeatables(m)
    <3>1. UNCHANGED storageVars
      BY <2>4 DEF ListRepeatables
    <3> QED
      BY <2>4, <3>1, BeginOK, NextOK DEF LoopInv
  <2>5. CASE Interrupt(m) \/ \E key \in DOMAIN tick[m].list : RejectCron(m, key)
    <3>1. UNCHANGED storageVars
      BY <2>5 DEF Interrupt, RejectCron
    <3> QED
      BY <2>5, <3>1, EndOK, NextOK DEF LoopInv
  <2>6. ASSUME NEW key \in DOMAIN tick[m].list, PersistNextRun(m, key) PROVE LoopInv'
    <3>1. UNCHANGED storageVars
      BY <2>6 DEF PersistNextRun
    <3> QED
      BY <2>6, <3>1, PersistOK, NextOK DEF LoopInv
  <2>7. ASSUME NEW key \in DOMAIN tick[m].list, NEW t \in Stamps, Materialize(m, key, t)
        PROVE  LoopInv'
    BY <2>7, MaterializeOK
  <2> QED
    BY <1>4, <2>2, <2>3, <2>4, <2>5, <2>6, <2>7 DEF TickStep
<1> QED
  BY <1>1, <1>2, <1>3, <1>4 DEF SchedulerNext

LEMMA LoopInvariant == SchedulerSpec => []LoopInv
<1>1. SchedulerInit => LoopInv
  BY LoopInitOK
<1>2. LoopInv /\ [SchedulerNext]_schedulerVars => LoopInv'
  BY LoopNextOK
<1> QED
  BY <1>1, <1>2, PTL DEF SchedulerSpec

(* The loops and what they have listed are well typed; no tick goes past   *)
(* the cap on catching up.                                                 *)
THEOREM SchedulerTypeCorrect == SchedulerSpec => []SchedulerTypeOK
<1>1. LoopInv => SchedulerTypeOK
  <2> SUFFICES ASSUME LoopInv PROVE SchedulerTypeOK
    OBVIOUS
  <2>1. LoopTypes /\ TypeOK
    BY DEF LoopInv, StorageInv
  <2>2. ASSUME NEW m \in Loops
        PROVE  /\ tick[m].step \in {"idle", "promoted", "reclaimed", "listed"}
               /\ tick[m].at \in Nat /\ tick[m].produced \in 0 .. MaxCatchUp
               /\ DOMAIN tick[m].list \subseteq Keys
               /\ tick[m].list \in [DOMAIN tick[m].list -> Listed]
    <3>1. tick[m] \in TickRecord
      BY <2>1, TickOfLoop
    <3> QED
      BY <2>1, <3>1, TickOfLoop, ConstantsAssumption DEF TickRecord
  <2> QED
    BY <2>1, <2>2 DEF LoopTypes, SchedulerTypeOK
<1> QED
  BY <1>1, LoopInvariant, PTL

(* The invariants of the table hold under the loops too, which reclaim and *)
(* clean up with times older than a caller's and insert rows that are due. *)
THEOREM LoopsKeepTheTable == SchedulerSpec => []StorageInv
BY LoopInvariant, PTL DEF LoopInv

-----------------------------------------------------------------------------
(* No occurrence is skipped                                                *)

LEMMA AheadNow ==
  ASSUME NEW key, NEW cron, NEW first \in Nat, NEW inserted
  PROVE  Ahead(key, cron, first, first, inserted)
BY DEF Ahead

LEMMA AheadGrows ==
  ASSUME NEW key, NEW cron, NEW first, NEW at, NEW inserted, NEW more,
         Ahead(key, cron, first, at, inserted), inserted \subseteq more
  PROVE  Ahead(key, cron, first, at, more)
BY DEF Ahead

(* A round of materializeOne: from an inserted occurrence to the next.     *)
LEMMA AheadMoves ==
  ASSUME NEW key, NEW cron \in Nat \ {0}, NEW first \in Nat, NEW at, NEW inserted, NEW more,
         Ahead(key, cron, first, at, inserted), inserted \subseteq more,
         Occurrence(key, at) \in more
  PROVE  Ahead(key, cron, first, NextRun(cron, at), more)
<1>1. at \in Nat /\ first <= at /\ NextRun(cron, at) \in Nat /\ NextRun(cron, at) > at
  BY NextRunIsLater DEF Ahead
<1>2. ASSUME NEW x \in first .. NextRun(cron, at) - 1, x = first \/ x % cron = 0
      PROVE  Occurrence(key, x) \in more
  <2>1. CASE x < at
    <3>1. x \in first .. at - 1
      BY <1>1, <2>1
    <3> QED
      BY <1>2, <3>1 DEF Ahead
  <2>2. CASE x = at
    BY <2>2
  <2>3. CASE x > at
    <3>1. x \in Nat /\ x < NextRun(cron, at)
      BY <1>1, <2>3
    <3>2. x % cron # 0
      BY <1>1, <2>3, <3>1, NothingBetween
    <3> QED
      BY <1>1, <1>2, <2>3, <3>2
  <2> QED
    BY <1>1, <2>1, <2>2, <2>3
<1> QED
  BY <1>1, <1>2 DEF Ahead

(* No schedule changes, and the lists are those of before or emptier.      *)
LEMMA ListsShrink ==
  ASSUME NothingSkipped, UNCHANGED <<repeatables, since, made>>,
         \A m \in Loops : \A key \in DOMAIN tick'[m].list :
           key \in DOMAIN tick[m].list /\ tick'[m].list[key] = tick[m].list[key]
  PROVE  NothingSkipped'
BY DEF NothingSkipped

LEMMA SkipsNothingPersist ==
  ASSUME LoopInv, NothingSkipped, NEW m \in Loops, NEW key \in DOMAIN tick[m].list,
         PersistNextRun(m, key)
  PROVE  NothingSkipped'
<1> DEFINE row == tick[m].list[key]
           nextAt == IF row.cursor = Null THEN NextRun(row.cron, tick[m].at) ELSE row.cursor
<1>1. /\ LoopTypes /\ tick[m] \in TickRecord
      /\ row.cron = repeatables[key].cron /\ key \in DOMAIN repeatables
      /\ since[key] # Null => Ahead(key, repeatables[key].cron, since[key], row.cursor, made)
  BY TickOfLoop DEF LoopInv, NothingSkipped
<1>2. since[key] # Null => nextAt = row.cursor
  BY <1>1 DEF Ahead, Null
<1>3. /\ UNCHANGED <<since, made>>
      /\ UpsertRepeatable(key, row.cron, nextAt) \/ UNCHANGED repeatables
  BY DEF PersistNextRun
<1> HIDE DEF nextAt
<1>4. /\ DOMAIN repeatables' = DOMAIN repeatables
      /\ \A k \in DOMAIN repeatables :
           /\ repeatables'[k].cron = repeatables[k].cron
           /\ since[k] # Null =>
                \/ repeatables'[k].nextRunAt = repeatables[k].nextRunAt
                \/ k = key /\ repeatables'[k].nextRunAt = row.cursor
  BY <1>1, <1>2, <1>3 DEF UpsertRepeatable
<1>5. \A v \in Loops : \A k \in DOMAIN tick'[v].list :
        k \in DOMAIN tick[v].list /\ tick'[v].list[k] = tick[v].list[k]
  <2>1. DoneWith(m, key)
    BY DEF PersistNextRun
  <2> DEFINE list == Dropped(tick[m].list, key)
  <2>2. \A k \in DOMAIN list : k \in DOMAIN tick[m].list /\ list[k] = tick[m].list[k]
    BY DEF Dropped
  <2>3. tick' = [tick EXCEPT ![m].list = list, ![m].produced = 0]
    BY <2>1 DEF DoneWith
  <2> HIDE DEF list
  <2>4. tick'[m].list = list /\ \A v \in Loops : v # m => tick'[v] = tick[v]
    BY <1>1, <2>3 DEF LoopTypes, TickRecord
  <2> QED
    BY <2>2, <2>4
<1>6. \A v \in Loops : DOMAIN tick[v].list \subseteq DOMAIN repeatables
  BY <1>1 DEF LoopTypes
<1> HIDE DEF row
<1> QED
  BY <1>1, <1>3, <1>4, <1>5, <1>6 DEF NothingSkipped

LEMMA SkipsNothingMaterialize ==
  ASSUME LoopInv, NothingSkipped, NEW m \in Loops, NEW key \in DOMAIN tick[m].list,
         NEW t \in Stamps, Materialize(m, key, t)
  PROVE  NothingSkipped'
<1> DEFINE row == tick[m].list[key]
           occ == Occurrence(key, row.cursor)
<1>1. /\ LoopTypes /\ tick[m] \in TickRecord /\ tick[m].list \in [DOMAIN tick[m].list -> Listed]
      /\ row.cron = repeatables[key].cron /\ key \in Keys
      /\ since[key] # Null => Ahead(key, repeatables[key].cron, since[key], row.cursor, made)
  BY TickOfLoop DEF LoopInv, NothingSkipped
<1>2. row.cron \in Nat \ {0} /\ since[key] \in Nat \cup {Null} /\ row \in Listed
  BY <1>1, SchedulerAssumption DEF Materialize, Listed, BadCron, LoopTypes
<1>3. UNCHANGED <<repeatables, since>> /\ made' = made \cup {occ}
  BY DEF Materialize
<1>4. \/ tick' = [tick EXCEPT ![m] = Tick0]
      \/ tick' = [tick EXCEPT ![m].list[key].cursor = NextRun(row.cron, row.cursor),
                              ![m].produced = @ + 1]
  BY DEF Materialize, Advance
<1>5. /\ \A v \in Loops : v # m => tick'[v] = tick[v]
      /\ \A k \in DOMAIN tick'[m].list :
           /\ k \in DOMAIN tick[m].list
           /\ k # key => tick'[m].list[k] = tick[m].list[k]
           /\ k = key => /\ tick'[m].list[key].cron = row.cron
                         /\ tick'[m].list[key].cursor = NextRun(row.cron, row.cursor)
  <2>1. CASE tick' = [tick EXCEPT ![m] = Tick0]
    BY <1>1, <2>1, Tick0Typed DEF LoopTypes
  <2>2. CASE tick' = [tick EXCEPT ![m].list[key].cursor = NextRun(row.cron, row.cursor),
                                  ![m].produced = @ + 1]
    BY <1>1, <1>2, <2>2 DEF LoopTypes, TickRecord, Listed
  <2> QED
    BY <1>4, <2>1, <2>2
<1>6. since[key] # Null =>
        Ahead(key, repeatables[key].cron, since[key], NextRun(row.cron, row.cursor), made')
  BY <1>1, <1>2, <1>3, AheadMoves
<1> HIDE DEF row, occ
<1>7. \A k, cron, first, at : Ahead(k, cron, first, at, made) => Ahead(k, cron, first, at, made')
  BY <1>3, AheadGrows
<1>8. \A k \in DOMAIN repeatables' :
        since'[k] # Null =>
          Ahead(k, repeatables'[k].cron, since'[k], repeatables'[k].nextRunAt, made')
  BY <1>3, <1>7 DEF NothingSkipped
<1>9. ASSUME NEW v \in Loops, NEW k \in DOMAIN tick'[v].list
      PROVE  /\ tick'[v].list[k].cron = repeatables'[k].cron
             /\ since'[k] # Null =>
                  Ahead(k, repeatables'[k].cron, since'[k], tick'[v].list[k].cursor, made')
  <2>1. CASE v = m /\ k = key
    BY <1>1, <1>3, <1>5, <1>6, <2>1
  <2>2. CASE ~(v = m /\ k = key)
    <3>1. k \in DOMAIN tick[v].list /\ tick'[v].list[k] = tick[v].list[k]
      BY <1>5, <1>9, <2>2
    <3> QED
      BY <1>3, <1>7, <3>1 DEF NothingSkipped
  <2> QED
    BY <2>1, <2>2
<1> QED
  BY <1>8, <1>9 DEF NothingSkipped

(* A client may replace a definition, but not one that a tick has listed   *)
(* and not dealt with yet.                                                 *)
BetweenTicks ==
  \A key \in DOMAIN repeatables :
    Register(key) => \A m \in Loops : key \notin DOMAIN tick[m].list

LEMMA SkipsNothingRegister ==
  ASSUME LoopInv, NothingSkipped, BetweenTicks, NEW key \in Keys, Register(key)
  PROVE  NothingSkipped'
<1>1. LoopTypes /\ UNCHANGED <<tick, made>>
  BY DEF LoopInv, Register
<1>2. PICK cron, at : UpsertRepeatable(key, cron, at) /\ since' = [since EXCEPT ![key] = at]
  BY DEF Register
<1>3. LoopTypes'
  BY RegisterOK
<1>4. /\ DOMAIN repeatables' = DOMAIN repeatables \cup {key}
      /\ repeatables'[key].nextRunAt = at /\ since'[key] = at
      /\ \A k \in DOMAIN repeatables \ {key} :
           repeatables'[k] = repeatables[k] /\ since'[k] = since[k]
  BY <1>1, <1>2 DEF UpsertRepeatable, LoopTypes
<1>5. at # Null => Ahead(key, repeatables'[key].cron, at, at, made)
  <2>1. at \in Nat \cup {Null}
    BY <1>3, <1>4 DEF LoopTypes
  <2> QED
    BY <2>1, AheadNow
<1>6. \A m \in Loops : DOMAIN tick[m].list \subseteq DOMAIN repeatables \ {key}
  BY <1>1 DEF LoopTypes, BetweenTicks
<1> QED
  BY <1>1, <1>4, <1>5, <1>6 DEF NothingSkipped

LEMMA SkipsNothing ==
  ASSUME LoopInv, NothingSkipped, [SchedulerNext]_schedulerVars, [BetweenTicks]_schedulerVars
  PROVE  NothingSkipped'
<1>1. LoopTypes
  BY DEF LoopInv
<1>2. CASE Elsewhere \/ UNCHANGED schedulerVars
  BY <1>2, ListsShrink DEF Elsewhere, tableVars, schedulerVars
<1>3. ASSUME NEW key \in Keys, Register(key) PROVE NothingSkipped'
  <2>1. BetweenTicks \/ UNCHANGED schedulerVars
    OBVIOUS
  <2> QED
    BY <1>2, <1>3, <2>1, SkipsNothingRegister
<1>4. ASSUME NEW m \in Loops, NEW record, tick' = [tick EXCEPT ![m] = record],
             UNCHANGED tableVars, record.list = tick[m].list \/ DOMAIN record.list = {}
      PROVE  NothingSkipped'
  <2>1. \A v \in Loops : \A key \in DOMAIN tick'[v].list :
          key \in DOMAIN tick[v].list /\ tick'[v].list[key] = tick[v].list[key]
    BY <1>1, <1>4 DEF LoopTypes
  <2> QED
    BY <1>4, <2>1, ListsShrink DEF tableVars
<1>5. ASSUME NEW m \in Loops, Finish(m) \/ Interrupt(m) \/ \E key \in DOMAIN tick[m].list : RejectCron(m, key)
      PROVE  NothingSkipped'
  BY <1>4, <1>5, Tick0Typed DEF Finish, Interrupt, RejectCron
<1>6. ASSUME NEW m \in Loops, Begin(m) PROVE NothingSkipped'
  <2>1. [Tick0 EXCEPT !.step = "promoted", !.at = now].list = Tick0.list
    BY DEF Tick0
  <2> QED
    BY <1>4, <1>6, <2>1, Tick0Typed DEF Begin
<1>7. ASSUME NEW m \in Loops, Reclaim(m) PROVE NothingSkipped'
  <2>1. [tick[m] EXCEPT !.step = "reclaimed"].list = tick[m].list
    BY <1>1, TickOfLoop DEF TickRecord
  <2>2. tick' = [tick EXCEPT ![m] = [tick[m] EXCEPT !.step = "reclaimed"]] /\ UNCHANGED tableVars
    BY <1>7 DEF Reclaim
  <2> QED
    BY <1>4, <2>1, <2>2
<1>8. ASSUME NEW m \in Loops, ListRepeatables(m) PROVE NothingSkipped'
  <2> DEFINE list == [k \in DOMAIN repeatables |->
                        [cron      |-> repeatables[k].cron,
                         nextRunAt |-> repeatables[k].nextRunAt,
                         cursor    |-> repeatables[k].nextRunAt]]
  <2>1. tick' = [tick EXCEPT ![m].step = "listed", ![m].list = list] /\ UNCHANGED tableVars
    BY <1>8 DEF ListRepeatables
  <2>2. /\ DOMAIN list = DOMAIN repeatables
        /\ \A k \in DOMAIN list : /\ list[k].cron = repeatables[k].cron
                                  /\ list[k].cursor = repeatables[k].nextRunAt
    OBVIOUS
  <2> HIDE DEF list
  <2>3. tick'[m].list = list /\ \A v \in Loops : v # m => tick'[v] = tick[v]
    BY <1>1, <2>1, TickOfLoop DEF LoopTypes, TickRecord
  <2>4. UNCHANGED <<repeatables, since, made>>
    BY <2>1 DEF tableVars
  <2>5. ASSUME NEW v \in Loops, NEW k \in DOMAIN tick'[v].list
        PROVE  /\ tick'[v].list[k].cron = repeatables[k].cron
               /\ since[k] # Null =>
                    Ahead(k, repeatables[k].cron, since[k], tick'[v].list[k].cursor, made)
    <3>1. CASE v = m
      BY <2>2, <2>3, <2>5, <3>1 DEF NothingSkipped
    <3>2. CASE v # m
      BY <2>3, <2>5, <3>2 DEF NothingSkipped
    <3> QED
      BY <3>1, <3>2
  <2> QED
    BY <2>4, <2>5 DEF NothingSkipped
<1> QED
  BY <1>2, <1>3, <1>5, <1>6, <1>7, <1>8, SkipsNothingPersist, SkipsNothingMaterialize
  DEF SchedulerNext, TickStep

LEMMA NothingSkippedInvariant ==
  SchedulerSpec /\ [][BetweenTicks]_schedulerVars => []NothingSkipped
<1>1. SchedulerInit => NothingSkipped
  BY LoopInitOK
<1>2. LoopInv /\ NothingSkipped /\ [SchedulerNext]_schedulerVars /\ [BetweenTicks]_schedulerVars
        => NothingSkipped'
  BY SkipsNothing
<1> QED
  BY <1>1, <1>2, LoopInvariant, PTL DEF SchedulerSpec

(* materializeRepeatables: no occurrence of a dated schedule is skipped,   *)
(* however many loops tick, fail or overwrite each other's cursor and      *)
(* wherever a tick ends early, and however often clients replace           *)
(* definitions between the ticks.                                          *)
THEOREM NothingIsSkipped ==
  SchedulerSpec /\ [][BetweenTicks]_schedulerVars => []NoOccurrenceSkipped
<1>1. LoopInv /\ NothingSkipped => NoOccurrenceSkipped
  BY DEF NothingSkipped, NoOccurrenceSkipped, Ahead
<1> QED
  BY <1>1, LoopInvariant, NothingSkippedInvariant, PTL

(* The same where every key is registered once.                            *)
THEOREM NothingIsSkippedOfOne == ~Reregister => (SchedulerSpec => []NoOccurrenceSkipped)
<1> SUFFICES ASSUME ~Reregister PROVE SchedulerSpec => []NoOccurrenceSkipped
  OBVIOUS
<1>1. [SchedulerNext]_schedulerVars => [BetweenTicks]_schedulerVars
  BY DEF BetweenTicks, Register
<1> QED
  BY <1>1, NothingIsSkipped, PTL DEF SchedulerSpec

(* materializeRepeatables: a tick advances the schedules that are there    *)
(* and undoes no replacement that a client made before it listed the row   *)
(* or after it has dealt with it.  So it takes a replacement in between to *)
(* lose one, as in the run lost_upsert.                                    *)
THEOREM TicksKeepReplacements ==
  SchedulerSpec /\ [][BetweenTicks]_schedulerVars => TicksOnlyAdvance
<1> DEFINE Undoes == /\ \E m \in Loops : tick'[m] # tick[m]
                     /\ \E key \in DOMAIN repeatables : repeatables'[key].cron # repeatables[key].cron
<1>1. ASSUME LoopInv, NothingSkipped, [SchedulerNext]_schedulerVars PROVE [~Undoes]_schedulerVars
  <2>1. UNCHANGED tick \/ UNCHANGED repeatables => ~Undoes
    OBVIOUS
  <2>2. ASSUME NEW m \in Loops, NEW key \in DOMAIN tick[m].list, PersistNextRun(m, key)
        PROVE  ~Undoes
    <3>1. key \in DOMAIN repeatables
      BY <1>1, TickOfLoop DEF LoopInv
    <3>2. tick[m].list[key].cron = repeatables[key].cron
      BY <1>1 DEF NothingSkipped
    <3>3. PICK at : UpsertRepeatable(key, repeatables[key].cron, at) \/ UNCHANGED repeatables
      BY <2>2, <3>2 DEF PersistNextRun
    <3> QED
      BY <3>1, <3>3 DEF UpsertRepeatable
  <2>3. ASSUME NEW m \in Loops, TickStep(m) \/ Interrupt(m) PROVE ~Undoes
    <3>1. CASE \E key \in DOMAIN tick[m].list : PersistNextRun(m, key)
      BY <2>2, <3>1
    <3>2. CASE UNCHANGED repeatables
      BY <2>1, <3>2
    <3> HIDE DEF Undoes
    <3> QED
      BY <2>3, <3>1, <3>2 DEF TickStep, Begin, Reclaim, ListRepeatables, Finish, RejectCron,
         Materialize, Interrupt, tableVars
  <2>4. ASSUME NEW key \in Keys, Register(key) PROVE ~Undoes
    BY <2>1, <2>4 DEF Register
  <2> QED
    <3> HIDE DEF Undoes
    <3> QED
      BY <1>1, <2>1, <2>3, <2>4 DEF SchedulerNext, Elsewhere, schedulerVars, tableVars
<1>2. LoopInv /\ NothingSkipped /\ [SchedulerNext]_schedulerVars
        => [(\E m \in Loops : tick'[m] # tick[m]) =>
              \A key \in DOMAIN repeatables : repeatables'[key].cron = repeatables[key].cron]_schedulerVars
  BY <1>1
<1> QED
  BY <1>2, LoopInvariant, NothingSkippedInvariant, PTL DEF SchedulerSpec, TicksOnlyAdvance

-----------------------------------------------------------------------------
(* No occurrence is inserted twice                                         *)

MadeStays ==
  /\ madeAgain = {}
  /\ \A occ \in made : \E id \in DOMAIN jobs : jobs[id].dedupKey = occ

(* Rows keep their keys, whatever a loop or a worker does to them.         *)
LEMMA KeysStay ==
  ASSUME LoopInv, NEW t, NEW queues,
         \/ PromoteDelayed(t) \/ ReclaimStale(t) \/ Tick \/ UNCHANGED storageVars
         \/ \E id \in DOMAIN jobs : ClaimNext(t, queues, id) \/ Complete(t, id)
  PROVE  DOMAIN jobs' = DOMAIN jobs /\ \A id \in DOMAIN jobs : jobs'[id].dedupKey = jobs[id].dedupKey
<1>1. \A id \in DOMAIN jobs : jobs[id] \in Row
  BY DEF LoopInv, StorageInv, TypeOK
<1>2. CASE PromoteDelayed(t)
  BY <1>1, <1>2 DEF PromoteDelayed, Row
<1>3. CASE ReclaimStale(t)
  BY <1>1, <1>3 DEF ReclaimStale, Reclaimed, Row
<1>4. CASE Tick \/ UNCHANGED storageVars
  BY <1>4 DEF Tick, storageVars
<1>5. ASSUME NEW id \in DOMAIN jobs, ClaimNext(t, queues, id)
      PROVE  DOMAIN jobs' = DOMAIN jobs /\ \A i \in DOMAIN jobs : jobs'[i].dedupKey = jobs[i].dedupKey
  BY <1>1, <1>5 DEF ClaimNext, Row
<1>6. ASSUME NEW id \in DOMAIN jobs, Complete(t, id)
      PROVE  DOMAIN jobs' = DOMAIN jobs /\ \A i \in DOMAIN jobs : jobs'[i].dedupKey = jobs[i].dedupKey
  <2> DEFINE row == [jobs[id] EXCEPT !.status = "completed", !.updatedAt = t, !.heartbeatAt = Null]
  <2>1. row.dedupKey = jobs[id].dedupKey
    BY <1>1 DEF Row
  <2>2. WriteActive(id, row)
    BY <1>6 DEF Complete
  <2> HIDE DEF row
  <2> QED
    BY <2>1, <2>2 DEF WriteActive
<1> QED
  BY <1>2, <1>3, <1>4, <1>5, <1>6

LEMMA MadeOnce ==
  ASSUME LoopInv, MadeStays, NEW m \in Loops, NEW key \in DOMAIN tick[m].list, NEW t \in Stamps,
         Materialize(m, key, t)
  PROVE  MadeStays'
<1> DEFINE row == tick[m].list[key]
           occ == Occurrence(key, row.cursor)
           new == \A queue \in Queues : ~DedupTaken(queue, occ)
<1>1. PICK queue \in Queues, priority \in Priorities, limit \in AttemptLimits, backoff \in Backoffs :
        Enqueue(t, queue, priority, occ, limit, backoff, row.cursor)
  BY DEF Materialize
<1>2. /\ made' = made \cup {occ}
      /\ madeAgain' = IF new /\ occ \in made THEN madeAgain \cup {occ} ELSE madeAgain
  BY DEF Materialize
<1>3. occ # NoKey
  <2>1. key \in Keys /\ row.cursor \in 0 .. MaxTime
    BY TickOfLoop, ConstantsAssumption DEF LoopInv, Materialize, IsDue, TickRecord, Listed
  <2> QED
    BY <2>1, OccurrenceAssumption, ConstantsAssumption
<1> HIDE DEF occ, row
<1>4. \A id \in DOMAIN jobs : jobs[id] \in Row
  BY DEF LoopInv, StorageInv, TypeOK
<1>5. ASSUME occ \in made PROVE ~new
  <2>1. PICK id \in DOMAIN jobs : jobs[id].dedupKey = occ
    BY <1>5 DEF MadeStays
  <2> QED
    BY <1>3, <1>4, <2>1 DEF DedupTaken, Row
<1>6. madeAgain' = {}
  BY <1>2, <1>5 DEF MadeStays
<1>7. ASSUME DedupTaken(queue, occ) PROVE MadeStays'
  BY <1>1, <1>2, <1>6, <1>7 DEF Enqueue, DedupTaken, MadeStays
<1>8. ASSUME ~DedupTaken(queue, occ) PROVE MadeStays'
  <2>1. /\ DOMAIN jobs' = DOMAIN jobs \cup {nextId} /\ jobs'[nextId].dedupKey = occ
        /\ \A id \in DOMAIN jobs : jobs'[id] = jobs[id]
    BY <1>1, <1>8 DEF Enqueue, NewRow, LoopInv, StorageInv, TypeOK
  <2> QED
    BY <1>2, <1>6, <2>1 DEF MadeStays
<1> QED
  BY <1>7, <1>8

LEMMA MadeNext ==
  ASSUME CleanupEveryTicks = 0, LoopInv, MadeStays, [SchedulerNext]_schedulerVars
  PROVE  MadeStays'
<1>1. ASSUME UNCHANGED <<made, madeAgain>>, DOMAIN jobs' = DOMAIN jobs,
             \A id \in DOMAIN jobs : jobs'[id].dedupKey = jobs[id].dedupKey
      PROVE  MadeStays'
  BY <1>1 DEF MadeStays
<1>2. CASE Elsewhere \/ UNCHANGED schedulerVars
  <2>1. UNCHANGED <<made, madeAgain>>
    BY <1>2 DEF Elsewhere, tableVars, schedulerVars
  <2>2. \/ Tick \/ UNCHANGED storageVars
        \/ \E t \in Stamps, id \in DOMAIN jobs : ClaimNext(t, {}, id) \/ Complete(t, id)
    BY <1>2 DEF Elsewhere, schedulerVars
  <2> QED
    BY <1>1, <2>1, <2>2, KeysStay
<1>3. ASSUME NEW key \in Keys, Register(key) PROVE MadeStays'
  BY <1>1, <1>3, KeysStay DEF Register
<1>4. ASSUME NEW m \in Loops,
             Begin(m) \/ Reclaim(m) \/ ListRepeatables(m) \/ Finish(m) \/ Interrupt(m)
      PROVE  MadeStays'
  <2>1. UNCHANGED <<made, madeAgain>>
    BY <1>4 DEF Begin, Reclaim, ListRepeatables, Finish, Interrupt, tableVars
  <2>2. PromoteDelayed(now) \/ ReclaimStale(tick[m].at) \/ UNCHANGED storageVars
    BY <1>4 DEF Begin, Reclaim, ListRepeatables, Finish, Interrupt
  <2> QED
    BY <1>1, <2>1, <2>2, KeysStay
<1>5. ASSUME NEW m \in Loops, NEW key \in DOMAIN tick[m].list,
             RejectCron(m, key) \/ PersistNextRun(m, key)
      PROVE  MadeStays'
  BY <1>1, <1>5, KeysStay DEF RejectCron, PersistNextRun, tableVars
<1> QED
  BY <1>2, <1>3, <1>4, <1>5, MadeOnce DEF SchedulerNext, TickStep

(* As long as finished rows are not cleaned up, no two rows are ever       *)
(* inserted for one occurrence, whatever ticks overlap, fail or retry.     *)
THEOREM OccurrencesAreUnique == CleanupEveryTicks = 0 => (SchedulerSpec => []OccurrenceOnce)
<1> SUFFICES ASSUME CleanupEveryTicks = 0 PROVE SchedulerSpec => []OccurrenceOnce
  OBVIOUS
<1>1. SchedulerInit => MadeStays
  BY DEF SchedulerInit, MadeStays
<1>2. LoopInv /\ MadeStays /\ [SchedulerNext]_schedulerVars => MadeStays'
  BY MadeNext
<1>3. MadeStays => OccurrenceOnce
  BY DEF MadeStays, OccurrenceOnce
<1> QED
  BY <1>1, <1>2, <1>3, LoopInvariant, PTL DEF SchedulerSpec
=============================================================================
