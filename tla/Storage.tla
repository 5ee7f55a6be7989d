------------------------------ MODULE Storage ------------------------------
(***************************************************************************)
(* The jobs table of SqliteStorage and every operation that writes it.     *)
(*                                                                         *)
(* SQLite serialises writers, so each operation of src/storage/sqlite.ts   *)
(* is one atomic step, whichever process calls it.  Next lets any caller   *)
(* make any call at any time with any id it has been given: what holds     *)
(* here holds for every worker, client and maintenance loop that shares    *)
(* the file.                                                               *)
(*                                                                         *)
(* A caller reads Date.now() before it gets the write lock, and a          *)
(* maintenance tick reads it once for all its writes.  An operation        *)
(* therefore takes the time t that its caller read, at most MaxLag old.    *)
(***************************************************************************)
EXTENDS Integers, FiniteSets

CONSTANTS
  Queues,         \* queue names
  Priorities,     \* integers; the higher is claimed first
  DedupKeys,      \* the keys a caller may pass as options.jobId
  NoKey,          \* dedup_key NULL
  AttemptLimits,  \* the values of options.maxAttempts
  Backoffs,       \* the retry strategies, see BackoffSet
  Delays,         \* options.runAt - now, negative for a time already past
  StaleAfterMs,   \* stalledTimeoutMs of the maintenance loops
  OlderThanMs,    \* cleanupOlderThanMs of the maintenance loops
  MaxJobs,        \* bound: jobs ever inserted
  MaxTime,        \* bound: the clock stops here
  MaxDelay,       \* bound: the longest retry delay
  MaxLag          \* bound: age of a timestamp when it is written

Null == -1   \* heartbeat_at NULL, or an absent FailInput.nextRunAt

BackoffSet == [type : {"fixed", "exponential"}, delayMs : Nat,
               maxDelayMs : Nat \cup {Null}, jitter : BOOLEAN]

(* computeBackoffMs before jitter; the code's Math.max(1, attempt) guards  *)
(* a caller that passes no attempt.                                        *)
FullDelay(backoff, attempt) ==
  LET n     == IF attempt < 1 THEN 1 ELSE attempt
      grown == backoff.delayMs * 2 ^ (n - 1)
  IN  IF backoff.type = "fixed" THEN backoff.delayMs
      ELSE IF backoff.maxDelayMs # Null /\ backoff.maxDelayMs < grown
           THEN backoff.maxDelayMs
           ELSE grown

(* computeBackoffMs: with full jitter any whole delay up to the full one.  *)
RetryDelays(backoff, attempt) ==
  LET full == FullDelay(backoff, attempt)
  IN  {d \in 0 .. MaxDelay : IF backoff.jitter THEN d <= full ELSE d = full}

(* The code does not check maxAttempts.  A limit below 1 acts as 1: both   *)
(* tests of it see an active row, which has been claimed at least once.    *)
ASSUME ConstantsAssumption ==
  /\ MaxJobs \in Nat /\ MaxTime \in Nat /\ MaxDelay \in Nat /\ MaxLag \in Nat
  /\ StaleAfterMs \in Nat /\ OlderThanMs \in Nat
  /\ AttemptLimits \subseteq Nat \ {0}
  /\ Priorities \subseteq Int /\ Delays \subseteq Int
  /\ Backoffs \subseteq BackoffSet
  /\ NoKey \notin DedupKeys

(* The bound on delays excludes no delay that the backoffs really produce. *)
ASSUME DelayBoundAssumption ==
  \A b \in Backoffs : \A m \in AttemptLimits : \A n \in 1 .. m :
    FullDelay(b, n) <= MaxDelay

VARIABLES
  jobs,    \* the table: row id -> row, for the rows that exist
  nextId,  \* the id the next inserted row gets; createId never repeats one
  now      \* Date.now() of the machine the processes share

storageVars == <<jobs, nextId, now>>

Waiting  == {"pending", "delayed"}
Terminal == {"completed", "dead"}
Statuses == Waiting \cup Terminal \cup {"active"}
Errors   == {"none", "failed", "cancelled", "stalled"}

Row == [queue : Queues, priority : Priorities, dedupKey : DedupKeys \cup {NoKey},
        maxAttempts : AttemptLimits, backoff : Backoffs,
        status : Statuses, attempts : Nat, runAt : Nat, updatedAt : Nat,
        lastError : Errors, heartbeatAt : Nat \cup {Null},
        cancelRequested : BOOLEAN]

Stamps == (IF now > MaxLag THEN now - MaxLag ELSE 0) .. now

TypeOK ==
  /\ now \in Nat
  /\ nextId \in 1 .. MaxJobs + 1
  /\ DOMAIN jobs \subseteq 1 .. nextId - 1
  /\ jobs \in [DOMAIN jobs -> Row]

Init ==
  /\ jobs = [id \in {} |-> Null]
  /\ nextId = 1
  /\ now = 0

-----------------------------------------------------------------------------
(* Enqueue                                                                 *)

Holds(id, status) == id \in DOMAIN jobs /\ jobs[id].status = status

(* The unique index (queue, dedup_key) WHERE dedup_key IS NOT NULL.        *)
DedupTaken(queue, key) ==
  key # NoKey /\ \E id \in DOMAIN jobs : jobs[id].queue = queue /\ jobs[id].dedupKey = key

NewRow(t, queue, priority, key, limit, backoff, runAt) ==
  [queue |-> queue, priority |-> priority, dedupKey |-> key,
   maxAttempts |-> limit, backoff |-> backoff,
   status |-> IF runAt > t THEN "delayed" ELSE "pending",
   attempts |-> 0, runAt |-> runAt, updatedAt |-> t, lastError |-> "none",
   heartbeatAt |-> Null, cancelRequested |-> FALSE]

(* Mutant: two rows may get one id.                                        *)
EnqueueReusesId(t, queue, priority, key, limit, backoff, runAt) ==
  /\ nextId <= MaxJobs
  /\ jobs' = [id \in DOMAIN jobs \cup {nextId} |->
                IF id = nextId THEN NewRow(t, queue, priority, key, limit, backoff, runAt)
                ELSE jobs[id]]
  /\ UNCHANGED <<nextId, now>>

(* A key that is taken inserts nothing: enqueue returns the row it found.  *)
Enqueue(t, queue, priority, key, limit, backoff, runAt) ==
  /\ IF DedupTaken(queue, key)
     THEN UNCHANGED <<jobs, nextId>>
     ELSE /\ nextId <= MaxJobs
          /\ jobs' = [id \in DOMAIN jobs \cup {nextId} |->
                        IF id = nextId
                        THEN NewRow(t, queue, priority, key, limit, backoff, runAt)
                        ELSE jobs[id]]
          /\ nextId' = nextId + 1
  /\ UNCHANGED now

-----------------------------------------------------------------------------
(* What a worker calls                                                     *)

(* Mutant: the claim also takes rows that another worker runs.             *)
RunnableOrActive(t, queues) ==
  {id \in DOMAIN jobs : /\ jobs[id].status \in {"pending", "active"}
                        /\ jobs[id].runAt <= t
                        /\ queues = {} \/ jobs[id].queue \in queues}

(* No queue names means every queue.                                       *)
Runnable(t, queues) ==
  {id \in DOMAIN jobs : /\ jobs[id].status = "pending"
                        /\ jobs[id].runAt <= t
                        /\ queues = {} \/ jobs[id].queue \in queues}

(* ORDER BY priority DESC, run_at ASC, id ASC                              *)
ClaimedBefore(a, b) ==
  \/ jobs[a].priority > jobs[b].priority
  \/ /\ jobs[a].priority = jobs[b].priority
     /\ \/ jobs[a].runAt < jobs[b].runAt
        \/ jobs[a].runAt = jobs[b].runAt /\ a <= b

ClaimNext(t, queues, id) ==
  /\ id \in Runnable(t, queues)
  /\ \A other \in Runnable(t, queues) : ClaimedBefore(id, other)
  /\ jobs' = [jobs EXCEPT ![id] = [jobs[id] EXCEPT !.status = "active",
                                                   !.attempts = jobs[id].attempts + 1,
                                                   !.updatedAt = t,
                                                   !.heartbeatAt = t,
                                                   !.cancelRequested = FALSE]]
  /\ UNCHANGED <<nextId, now>>

(* Mutant: the UPDATE without AND status = 'active'.                       *)
WriteAnyRow(id, row) ==
  /\ IF id \in DOMAIN jobs THEN jobs' = [jobs EXCEPT ![id] = row] ELSE UNCHANGED jobs
  /\ UNCHANGED <<nextId, now>>

(* UPDATE ... WHERE id = @id AND status = 'active': silent otherwise.      *)
WriteActive(id, row) ==
  /\ IF Holds(id, "active")
     THEN jobs' = [jobs EXCEPT ![id] = row]
     ELSE UNCHANGED jobs
  /\ UNCHANGED <<nextId, now>>

(* Mutant: heartbeat_at survives the run.                                  *)
CompleteLeavesBeat(t, id) ==
  WriteActive(id, [jobs[id] EXCEPT !.status = "completed", !.updatedAt = t])

Complete(t, id) ==
  WriteActive(id, [jobs[id] EXCEPT !.status = "completed",
                                   !.updatedAt = t,
                                   !.heartbeatAt = Null])

MoveToDead(t, id, error) ==
  WriteActive(id, [jobs[id] EXCEPT !.status = "dead",
                                   !.lastError = error,
                                   !.updatedAt = t,
                                   !.heartbeatAt = Null])

(* Mutant: a retry is pending whatever its run_at.                         *)
RescheduleAtOnce(t, id, error, runAt) ==
  WriteActive(id, [jobs[id] EXCEPT !.status = "pending", !.runAt = runAt,
                                   !.heartbeatAt = Null, !.cancelRequested = FALSE])

Reschedule(t, id, error, runAt) ==
  WriteActive(id, [jobs[id] EXCEPT !.status = IF runAt > t THEN "delayed" ELSE "pending",
                                   !.runAt = runAt,
                                   !.lastError = error,
                                   !.updatedAt = t,
                                   !.heartbeatAt = Null,
                                   !.cancelRequested = FALSE])

(* fail() throws on a row that is gone, which changes nothing either.      *)
Fail(t, id, error, retryable, nextRunAt) ==
  IF ~Holds(id, "active")
  THEN UNCHANGED storageVars
  ELSE IF ~retryable \/ jobs[id].attempts >= jobs[id].maxAttempts
  THEN MoveToDead(t, id, error)
  ELSE IF nextRunAt # Null
  THEN Reschedule(t, id, error, nextRunAt)
  ELSE \E delay \in RetryDelays(jobs[id].backoff, jobs[id].attempts) :
         Reschedule(t, id, error, t + delay)

(* Mutants: release() keeps the cancel request, or the start it took.      *)
ReleaseKeepsCancel(t, id) ==
  WriteActive(id, [jobs[id] EXCEPT !.status = "pending", !.attempts = jobs[id].attempts - 1,
                                   !.heartbeatAt = Null])

ReleaseBurnsAttempt(t, id) ==
  WriteActive(id, [jobs[id] EXCEPT !.status = "pending", !.heartbeatAt = Null,
                                   !.cancelRequested = FALSE])

(* Unlike the others release() throws when the row is not active.          *)
Release(t, id) ==
  WriteActive(id, [jobs[id] EXCEPT !.status = "pending",
                                   !.attempts = IF jobs[id].attempts > 0
                                                THEN jobs[id].attempts - 1 ELSE 0,
                                   !.updatedAt = t,
                                   !.heartbeatAt = Null,
                                   !.cancelRequested = FALSE])

(* Mutant: the heartbeat only touches updated_at.                          *)
HeartbeatNotWritten(t, id) == WriteActive(id, [jobs[id] EXCEPT !.updatedAt = t])

Heartbeat(t, id) ==
  WriteActive(id, [jobs[id] EXCEPT !.heartbeatAt = t, !.updatedAt = t])

(* What heartbeat() returns.                                               *)
CancelSeen(id) == Holds(id, "active") /\ jobs[id].cancelRequested

-----------------------------------------------------------------------------
(* What a client and a maintenance loop call                               *)

Cancel(t, id) ==
  /\ id \in DOMAIN jobs
  /\ jobs' = [jobs EXCEPT ![id] =
       CASE jobs[id].status \in Waiting ->
              [jobs[id] EXCEPT !.status = "dead", !.lastError = "cancelled",
                               !.updatedAt = t, !.heartbeatAt = Null]
         [] jobs[id].status = "active" ->
              [jobs[id] EXCEPT !.cancelRequested = TRUE, !.updatedAt = t]
         [] OTHER -> jobs[id]]
  /\ UNCHANGED <<nextId, now>>

PromoteDelayed(t) ==
  /\ jobs' = [id \in DOMAIN jobs |->
       IF jobs[id].status = "delayed" /\ jobs[id].runAt <= t
       THEN [jobs[id] EXCEPT !.status = "pending", !.updatedAt = t]
       ELSE jobs[id]]
  /\ UNCHANGED <<nextId, now>>

(* Mutant: a row with a cancel request is not reclaimed.                   *)
StaleUnlessCancelled(t, id) ==
  /\ Holds(id, "active")
  /\ ~jobs[id].cancelRequested
  /\ jobs[id].heartbeatAt < t - StaleAfterMs

Stale(t, id) ==
  /\ Holds(id, "active")
  /\ jobs[id].heartbeatAt # Null
  /\ jobs[id].heartbeatAt < t - StaleAfterMs

(* Mutant, the behaviour before 0.2.0: always back to pending.             *)
ReclaimedAlways(t, row) ==
  [row EXCEPT !.status = "pending", !.updatedAt = t, !.heartbeatAt = Null,
              !.cancelRequested = FALSE]

Reclaimed(t, row) ==
  LET exhausted == row.attempts >= row.maxAttempts
  IN  [row EXCEPT !.status = IF exhausted THEN "dead" ELSE "pending",
                  !.lastError = IF exhausted THEN "stalled" ELSE row.lastError,
                  !.updatedAt = t,
                  !.heartbeatAt = Null,
                  !.cancelRequested = FALSE]

ReclaimStale(t) ==
  /\ jobs' = [id \in DOMAIN jobs |->
       IF Stale(t, id) THEN Reclaimed(t, jobs[id]) ELSE jobs[id]]
  /\ UNCHANGED <<nextId, now>>

Expired(t, id) == jobs[id].status \in Terminal /\ jobs[id].updatedAt < t - OlderThanMs

Cleanup(t) ==
  /\ jobs' = [id \in {i \in DOMAIN jobs : ~Expired(t, i)} |-> jobs[id]]
  /\ UNCHANGED <<nextId, now>>

-----------------------------------------------------------------------------
Tick ==
  /\ now < MaxTime
  /\ now' = now + 1
  /\ UNCHANGED <<jobs, nextId>>

(* The times a caller passes: options.runAt, now + options.delayMs.        *)
CallerTimes(t) == {at \in {t + delay : delay \in Delays} : at >= 0}

WorkerCall(t) ==
  \/ \E queues \in SUBSET Queues, id \in DOMAIN jobs : ClaimNext(t, queues, id)
  \/ \E id \in 1 .. nextId - 1 :
       \/ Complete(t, id)
       \/ \E error \in Errors \ {"none"} : MoveToDead(t, id, error)
       \/ \E retryable \in BOOLEAN, at \in CallerTimes(t) \cup {Null} :
            Fail(t, id, "failed", retryable, at)
       \/ Release(t, id)
       \/ Heartbeat(t, id)

ClientCall(t) ==
  \/ \E queue \in Queues, priority \in Priorities, key \in DedupKeys \cup {NoKey},
        limit \in AttemptLimits, backoff \in Backoffs, runAt \in CallerTimes(t) :
       Enqueue(t, queue, priority, key, limit, backoff, runAt)
  \/ \E id \in 1 .. nextId - 1 : Cancel(t, id)

MaintenanceCall(t) == PromoteDelayed(t) \/ ReclaimStale(t) \/ Cleanup(t)

Next == Tick \/ \E t \in Stamps : WorkerCall(t) \/ ClientCall(t) \/ MaintenanceCall(t)

Spec == Init /\ [][Next]_storageVars

-----------------------------------------------------------------------------
(* Properties                                                              *)

(* claimNext does not compare attempts with max_attempts.  Every path that *)
(* puts a row back in the queue (fail, release, reclaimStale) must         *)
(* therefore leave it at least one start, or a job would be started more   *)
(* often than maxAttempts allows.                                          *)
WithinBudget ==
  \A id \in DOMAIN jobs :
    /\ jobs[id].status \in Waiting => jobs[id].attempts < jobs[id].maxAttempts
    /\ jobs[id].status = "active" => /\ jobs[id].attempts >= 1
                                     /\ jobs[id].attempts <= jobs[id].maxAttempts

(* reclaimStale skips rows with heartbeat_at NULL: an active row without a *)
(* heartbeat would be stuck for good.  A row that is not active has none,  *)
(* so no old heartbeat survives into its next run.                         *)
ActiveIsReclaimable ==
  \A id \in DOMAIN jobs : jobs[id].status = "active" <=> jobs[id].heartbeatAt # Null

(* A cancel request is addressed to the run in progress: no row waits in   *)
(* the queue with cancel_requested still set.                              *)
NoCancelInQueue ==
  \A id \in DOMAIN jobs : jobs[id].status \in Waiting => ~jobs[id].cancelRequested

(* types.ts, Job.runAt: for pending jobs run_at is <= now.  A row that     *)
(* becomes pending early would run before its time.                        *)
PendingIsDue ==
  \A id \in DOMAIN jobs : jobs[id].status \in {"pending", "active"} => jobs[id].runAt <= now

(* The conjunction that every operation preserves.                         *)
StorageInv ==
  TypeOK /\ WithinBudget /\ ActiveIsReclaimable /\ NoCancelInQueue /\ PendingIsDue

(* "dead: will not run again", and nor does a completed job: whatever late *)
(* or duplicated call arrives, a terminal row never changes again; it can  *)
(* only be deleted.                                                        *)
TerminalIsFinal ==
  [][\A id \in DOMAIN jobs \cap DOMAIN jobs' :
       jobs[id].status \in Terminal => jobs'[id] = jobs[id]]_storageVars
=============================================================================
