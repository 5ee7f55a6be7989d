----------------------------- MODULE Scheduler -----------------------------
(***************************************************************************)
(* MaintenanceLoop: processes that tick over one database.  A tick reads   *)
(* the clock once, promotes delayed jobs, reclaims stale ones, lists the   *)
(* repeatables and turns the due ones into jobs, and may clean up.  Every  *)
(* await in between is a point where another process, or a client in the   *)
(* same one, gets its turn: the tick goes on with the rows it listed.      *)
(*                                                                         *)
(* One queue; times are whole minutes.  A cron expression is the number of *)
(* minutes between its occurrences; BadCron is one that parseCron rejects. *)
(* An expression that parses may still have no next run within reach of    *)
(* the search: 30 February never has, 29 February has none around 2100.    *)
(***************************************************************************)
EXTENDS Storage, FiniteSetsExt

CONSTANTS
  Loops,              \* the maintenance loops, one per process
  NumKeys,            \* repeatable keys, numbered in the order of their names
  Crons,              \* the cron expressions a client registers
  SearchMinutes,      \* how far nextRun looks, five years
  MaxCatchUp,         \* maxCatchUpPerRepeatable
  CleanupEveryTicks,  \* cleanupEveryTicks; 0: cleanupOlderThanMs is not set
  Reregister,         \* whether a key is upserted again after its first time
  MaxClaims,          \* bound: jobs in the table that workers have claimed
  MayFail             \* loops that may die, or whose storage calls may throw

VARIABLES
  repeatables,  \* the repeatables table: key -> schedule
  tick,         \* per loop, the tick in progress
  ticks,        \* per loop, #ticks modulo CleanupEveryTicks
  since,        \* history: key -> the nextRunAt it was last registered with
  made,         \* history: occurrences that were inserted into jobs
  madeAgain     \* history: occurrences that were inserted more than once

tableVars     == <<repeatables, since, made, madeAgain>>
schedulerVars == <<storageVars, tableVars, tick, ticks>>

BadCron == 0
Keys    == 1 .. NumKeys

ASSUME SchedulerAssumption ==
  /\ NumKeys \in Nat /\ Crons \subseteq Nat /\ SearchMinutes \in Nat /\ MaxClaims \in Nat
  /\ MaxCatchUp \in Nat \ {0} /\ CleanupEveryTicks \in Nat
  /\ Reregister \in BOOLEAN /\ MayFail \subseteq Loops

(* repeatOccurrenceJobId: the dedup key of one occurrence.                 *)
Occurrence(key, at) == <<key, at>>

ASSUME OccurrenceAssumption ==
  \A key \in Keys, at \in 0 .. MaxTime : Occurrence(key, at) \in DedupKeys

(* The first occurrence after a time; never the time itself.               *)
NextRun(cron, at) == (at \div cron + 1) * cron

(* Otherwise nextRun throws its RangeError.                                *)
HasNextRun(cron, at) == NextRun(cron, at) <= at + SearchMinutes

Schedule == [cron : Crons, nextRunAt : Nat \cup {Null}]
Listed   == [cron : Crons, nextRunAt : Nat \cup {Null}, cursor : Nat \cup {Null}]
Tick0    == [step |-> "idle", at |-> 0, list |-> [k \in {} |-> Null], produced |-> 0]

SchedulerTypeOK ==
  /\ TypeOK
  /\ DOMAIN repeatables \subseteq Keys
  /\ repeatables \in [DOMAIN repeatables -> Schedule]
  /\ DOMAIN tick = Loops
  /\ \A m \in Loops :
       /\ tick[m].step \in {"idle", "promoted", "reclaimed", "listed"}
       /\ tick[m].at \in Nat /\ tick[m].produced \in 0 .. MaxCatchUp
       /\ DOMAIN tick[m].list \subseteq Keys
       /\ tick[m].list \in [DOMAIN tick[m].list -> Listed]
  /\ ticks \in [Loops -> Nat]

SchedulerInit ==
  /\ Init
  /\ repeatables = [k \in {} |-> Null]
  /\ tick = [m \in Loops |-> Tick0]
  /\ ticks = [m \in Loops |-> 0]
  /\ since = [k \in Keys |-> Null]
  /\ made = {} /\ madeAgain = {}

-----------------------------------------------------------------------------
(* The repeatables table                                                   *)

(* INSERT ... ON CONFLICT(queue, key) DO UPDATE: every column is replaced. *)
UpsertRepeatable(key, cron, at) ==
  repeatables' = [k \in DOMAIN repeatables \cup {key} |->
                    IF k = key THEN [cron |-> cron, nextRunAt |-> at] ELSE repeatables[k]]

(* Vardiya.upsertRepeatable computes the first occurrence and so rejects   *)
(* an expression that has none; enqueue with options.repeat takes runAt as *)
(* the first one and does not parse; Storage.upsertRepeatable may leave it *)
(* open.                                                                   *)
Register(key) ==
  /\ key \in DOMAIN repeatables => Reregister
  /\ \E cron \in Crons :
       \E at \in CallerTimes(now) \cup {Null} \cup
              (IF cron # BadCron /\ HasNextRun(cron, now) THEN {NextRun(cron, now)} ELSE {}) :
         /\ UpsertRepeatable(key, cron, at)
         /\ since' = [since EXCEPT ![key] = at]
  /\ UNCHANGED <<storageVars, tick, ticks, made, madeAgain>>

-----------------------------------------------------------------------------
(* A tick                                                                  *)

Begin(m) ==
  /\ tick[m].step = "idle"
  /\ PromoteDelayed(now)
  /\ tick' = [tick EXCEPT ![m] = [Tick0 EXCEPT !.step = "promoted", !.at = now]]
  /\ ticks' = [ticks EXCEPT ![m] =
       IF CleanupEveryTicks = 0 THEN 0 ELSE (@ + 1) % CleanupEveryTicks]
  /\ UNCHANGED tableVars

Reclaim(m) ==
  /\ tick[m].step = "promoted"
  /\ ReclaimStale(tick[m].at)
  /\ tick' = [tick EXCEPT ![m].step = "reclaimed"]
  /\ UNCHANGED <<tableVars, ticks>>

ListRepeatables(m) ==
  /\ tick[m].step = "reclaimed"
  /\ tick' = [tick EXCEPT ![m].step = "listed",
                          ![m].list = [k \in DOMAIN repeatables |->
                             [cron      |-> repeatables[k].cron,
                              nextRunAt |-> repeatables[k].nextRunAt,
                              cursor    |-> repeatables[k].nextRunAt]]]
  /\ UNCHANGED <<storageVars, tableVars, ticks>>

(* The key whose turn it is, ORDER BY queue, key.                          *)
AtKey(m, key) ==
  /\ tick[m].step = "listed"
  /\ key \in DOMAIN tick[m].list
  /\ \A k \in DOMAIN tick[m].list : key <= k

(* Mutant: no cap on the catch-up.                                         *)
IsDueUncapped(m, row) == row.cursor # Null /\ row.cursor <= tick[m].at

IsDue(m, row) == row.cursor # Null /\ row.cursor <= tick[m].at /\ tick[m].produced < MaxCatchUp

Dropped(list, key) == [k \in DOMAIN list \ {key} |-> list[k]]
DoneWith(m, key) ==
  tick' = [tick EXCEPT ![m].list = Dropped(tick[m].list, key), ![m].produced = 0]

(* parseCron throws, or nextRun for a row without a date: the tick is over, *)
(* for the keys behind it as well.                                         *)
RejectCron(m, key) ==
  LET row == tick[m].list[key]
  IN  /\ AtKey(m, key)
      /\ row.cron # BadCron => row.cursor = Null /\ ~HasNextRun(row.cron, tick[m].at)
      /\ tick' = [tick EXCEPT ![m] = Tick0]
      /\ UNCHANGED <<storageVars, tableVars, ticks>>

(* cursor = nextRun(cursor).  If it throws, the tick is over, the row keeps *)
(* the date it had, and the next tick will come to the same point.         *)
Advance(m, key) ==
  LET row == tick[m].list[key]
  IN  tick' = IF HasNextRun(row.cron, row.cursor)
              THEN [tick EXCEPT ![m].list[key].cursor = NextRun(row.cron, row.cursor),
                                ![m].produced = @ + 1]
              ELSE [tick EXCEPT ![m] = Tick0]

(* Mutant: the occurrence is inserted without its dedup key.               *)
MaterializeUnkeyed(m, key, t) ==
  LET row == tick[m].list[key]
      occ == Occurrence(key, row.cursor)
  IN  /\ AtKey(m, key) /\ row.cron # BadCron
      /\ IsDue(m, row)
      /\ \E queue \in Queues, priority \in Priorities, limit \in AttemptLimits,
            backoff \in Backoffs :
           Enqueue(t, queue, priority, NoKey, limit, backoff, row.cursor)
      /\ made' = made \cup {occ}
      /\ madeAgain' = IF occ \in made THEN madeAgain \cup {occ} ELSE madeAgain
      /\ Advance(m, key)
      /\ UNCHANGED <<repeatables, since, ticks>>

(* One round of the while loop of materializeOne.                          *)
Materialize(m, key, t) ==
  LET row == tick[m].list[key]
      occ == Occurrence(key, row.cursor)
      new == \A queue \in Queues : ~DedupTaken(queue, occ)
  IN  /\ AtKey(m, key) /\ row.cron # BadCron
      /\ IsDue(m, row)
      /\ \E queue \in Queues, priority \in Priorities, limit \in AttemptLimits,
            backoff \in Backoffs :
           Enqueue(t, queue, priority, occ, limit, backoff, row.cursor)
      /\ made' = made \cup {occ}
      /\ madeAgain' = IF new /\ occ \in made THEN madeAgain \cup {occ} ELSE madeAgain
      /\ Advance(m, key)
      /\ UNCHANGED <<repeatables, since, ticks>>

(* Mutant: the cursor is set to the next occurrence after now, whether or  *)
(* not the catch-up got that far.                                          *)
PersistFromNow(m, key) ==
  LET row == tick[m].list[key]
  IN  /\ AtKey(m, key) /\ row.cron # BadCron
      /\ ~IsDue(m, row)
      /\ UpsertRepeatable(key, row.cron, NextRun(row.cron, tick[m].at))
      /\ DoneWith(m, key)
      /\ UNCHANGED <<storageVars, ticks, since, made, madeAgain>>

(* Mutant: a first occurrence in the past is not advanced.                 *)
PersistNothing(m, key) ==
  /\ AtKey(m, key) /\ tick[m].list[key].cron # BadCron
  /\ ~IsDue(m, tick[m].list[key])
  /\ DoneWith(m, key)
  /\ UNCHANGED <<storageVars, tableVars, ticks>>

(* The loop has caught up, or reached its cap: persistNextRun writes the   *)
(* listed definition back with the new nextRunAt, if it has moved.         *)
PersistNextRun(m, key) ==
  LET row    == tick[m].list[key]
      nextAt == IF row.cursor = Null THEN NextRun(row.cron, tick[m].at) ELSE row.cursor
  IN  /\ AtKey(m, key) /\ row.cron # BadCron
      /\ ~IsDue(m, row)
      /\ row.cursor = Null => HasNextRun(row.cron, tick[m].at)
      /\ IF nextAt # row.nextRunAt
         THEN UpsertRepeatable(key, row.cron, nextAt)
         ELSE UNCHANGED repeatables
      /\ DoneWith(m, key)
      /\ UNCHANGED <<storageVars, ticks, since, made, madeAgain>>

Finish(m) ==
  /\ tick[m].step = "listed" /\ tick[m].list = <<>>
  /\ IF CleanupEveryTicks # 0 /\ ticks[m] = 0
     THEN Cleanup(tick[m].at)
     ELSE UNCHANGED storageVars
  /\ tick' = [tick EXCEPT ![m] = Tick0]
  /\ UNCHANGED <<tableVars, ticks>>

(* A storage call throws and the tick ends, or the process dies with it    *)
(* and a new one takes its place.                                          *)
Interrupt(m) ==
  /\ m \in MayFail
  /\ tick[m].step # "idle"
  /\ tick' = [tick EXCEPT ![m] = Tick0]
  /\ ticks' \in {ticks, [ticks EXCEPT ![m] = 0]}
  /\ UNCHANGED <<storageVars, tableVars>>

-----------------------------------------------------------------------------
(* Workers that run the jobs, and the clock.                               *)
Elsewhere ==
  /\ \/ Tick
     \/ \E t \in Stamps, id \in DOMAIN jobs :
          \/ /\ Cardinality({i \in DOMAIN jobs : jobs[i].attempts > 0}) < MaxClaims
             /\ ClaimNext(t, {}, id)
          \/ Complete(t, id)
  /\ UNCHANGED <<tableVars, tick, ticks>>

TickStep(m) ==
  \/ Begin(m) \/ Reclaim(m) \/ ListRepeatables(m) \/ Finish(m)
  \/ \E key \in DOMAIN tick[m].list :
       \/ RejectCron(m, key) \/ PersistNextRun(m, key)
       \/ \E t \in Stamps : Materialize(m, key, t)

SchedulerNext ==
  \/ Elsewhere
  \/ \E key \in Keys : Register(key)
  \/ \E m \in Loops : TickStep(m) \/ Interrupt(m)

SchedulerSpec == SchedulerInit /\ [][SchedulerNext]_schedulerVars

(* setInterval goes on ticking in a process that is up, and a tick that    *)
(* has started goes on.  Loops in MayFail may fail at every tick.          *)
FairSchedulerSpec == SchedulerSpec /\ \A m \in Loops : WF_schedulerVars(TickStep(m))

-----------------------------------------------------------------------------
(* Properties                                                              *)

Due(key) == key \in DOMAIN repeatables /\ repeatables[key].nextRunAt \in 0 .. now

(* maxCatchUpPerRepeatable, and a crash between enqueue and persist: every *)
(* occurrence from the date that the client registered up to nextRunAt is  *)
(* in the jobs table or was, however many loops tick at the same time and  *)
(* overwrite each other's cursor.  (A key registered without nextRunAt has *)
(* no such promise: of two loops that date it, one before an occurrence    *)
(* and one after, the later may win.)                                      *)
NoOccurrenceSkipped ==
  \A key \in DOMAIN repeatables :
    since[key] # Null =>
      \A at \in since[key] .. repeatables[key].nextRunAt - 1 :
        (at = since[key] \/ at % repeatables[key].cron = 0) => Occurrence(key, at) \in made

(* materializeOne throws for the row: parseCron rejects the expression, or *)
(* the row has to be dated or moved on, and some occurrence of it has none *)
(* after it within reach.                                                  *)
EndsTicks(key) ==
  LET row == repeatables[key]
  IN  \/ row.cron = BadCron
      \/ row.cron > SearchMinutes /\ (row.nextRunAt = Null \/ Due(key))

(* A due repeatable is caught up with in the end, though loops overwrite   *)
(* each other's nextRunAt, unless it ends the ticks itself or a row that   *)
(* sorts before it does.                                                   *)
DueIsCaughtUp ==
  \A key \in Keys :
    Due(key) ~> ~Due(key) \/ \E k \in DOMAIN repeatables : k <= key /\ EndsTicks(k)

(* materializeRepeatables: "so a retried tick cannot create duplicates".   *)
OccurrenceOnce == madeAgain = {}

(* materializeRepeatables: "enqueue a job and advance nextRunAt".  A tick  *)
(* advances a schedule; it does not undo what a client has registered.     *)
TicksOnlyAdvance ==
  [][(\E m \in Loops : tick'[m] # tick[m]) =>
       \A key \in DOMAIN repeatables : repeatables'[key].cron = repeatables[key].cron]_schedulerVars
=============================================================================
