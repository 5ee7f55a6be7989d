---------------------------- MODULE StorageProofs ----------------------------
(***************************************************************************)
(* Proofs about the jobs table, for every value of the constants.          *)
(*                                                                         *)
(* StorageInv is inductive.  Apart from the clock, every operation         *)
(* replaces rows by rows, adds a row or deletes rows, so the proof is      *)
(* about single rows: RowOK is what the invariant says of one row, and     *)
(* each operation is shown to write rows that are RowOK.                   *)
(***************************************************************************)
EXTENDS Storage, TLAPS

RowOK(row, time) ==
  /\ row \in Row
  /\ row.status \in Waiting => row.attempts < row.maxAttempts /\ ~row.cancelRequested
  /\ row.status = "active" => row.attempts >= 1 /\ row.attempts <= row.maxAttempts
  /\ row.status = "active" <=> row.heartbeatAt # Null
  /\ row.status \in {"pending", "active"} => row.runAt <= time

TableOK ==
  /\ now \in Nat
  /\ nextId \in 1 .. MaxJobs + 1
  /\ DOMAIN jobs \subseteq 1 .. nextId - 1
  /\ jobs = [id \in DOMAIN jobs |-> jobs[id]]
  /\ \A id \in DOMAIN jobs : RowOK(jobs[id], now)

(* The invariant, row by row. *)
LEMMA ByRows == StorageInv <=> TableOK
<1>1. ASSUME StorageInv PROVE TableOK
  <2>1. TypeOK
    BY <1>1 DEF StorageInv
  <2>2. \A id \in DOMAIN jobs : jobs[id] \in Row
    BY <2>1 DEF TypeOK
  <2>3. \A id \in DOMAIN jobs : RowOK(jobs[id], now)
    BY <1>1, <2>2 DEF StorageInv, WithinBudget, ActiveIsReclaimable, NoCancelInQueue,
                      PendingIsDue, RowOK
  <2> QED
    BY <2>1, <2>3 DEF TypeOK, TableOK
<1>2. ASSUME TableOK PROVE StorageInv
  <2>1. TypeOK
    BY <1>2 DEF TableOK, TypeOK, RowOK
  <2>2. WithinBudget /\ ActiveIsReclaimable /\ NoCancelInQueue /\ PendingIsDue
    BY <1>2 DEF TableOK, RowOK, WithinBudget, ActiveIsReclaimable, NoCancelInQueue,
                PendingIsDue
  <2> QED
    BY <2>1, <2>2 DEF StorageInv
<1> QED
  BY <1>1, <1>2

(* Rows that change one by one into rows that are RowOK keep the table OK. *)
LEMMA RowsChange ==
  ASSUME TableOK, nextId' = nextId, now' = now,
         DOMAIN jobs' \subseteq DOMAIN jobs,
         jobs' = [id \in DOMAIN jobs' |-> jobs'[id]],
         \A id \in DOMAIN jobs' : RowOK(jobs'[id], now)
  PROVE  TableOK'
BY DEF TableOK

LEMMA OneRowChanges ==
  ASSUME TableOK, nextId' = nextId, now' = now,
         NEW id \in DOMAIN jobs, NEW row, RowOK(row, now),
         jobs' = [jobs EXCEPT ![id] = row]
  PROVE  TableOK'
<1>1. DOMAIN jobs' = DOMAIN jobs
  OBVIOUS
<1>2. \A i \in DOMAIN jobs' : RowOK(jobs'[i], now)
  BY <1>1 DEF TableOK
<1> QED
  BY <1>1, <1>2, RowsChange

LEMMA WriteActiveOK ==
  ASSUME TableOK, NEW id, NEW row, WriteActive(id, row),
         Holds(id, "active") => RowOK(row, now)
  PROVE  TableOK'
<1>1. CASE Holds(id, "active")
  BY <1>1, OneRowChanges DEF WriteActive, Holds
<1>2. CASE ~Holds(id, "active")
  BY <1>2 DEF WriteActive, TableOK
<1> QED
  BY <1>1, <1>2

-----------------------------------------------------------------------------
(* Each operation keeps the table OK, with any timestamp t the caller read *)
(* at or before the current time (reclaimStale and cleanup with any time). *)

LEMMA StampsAreNat ==
  ASSUME TableOK, NEW t \in Stamps
  PROVE  t \in Nat /\ t <= now
BY ConstantsAssumption DEF TableOK, Stamps

LEMMA EnqueueOK ==
  ASSUME TableOK, NEW t \in Stamps,
         NEW queue \in Queues, NEW priority \in Priorities, NEW key \in DedupKeys \cup {NoKey},
         NEW limit \in AttemptLimits, NEW backoff \in Backoffs, NEW runAt \in Nat,
         Enqueue(t, queue, priority, key, limit, backoff, runAt)
  PROVE  TableOK'
<1>1. CASE DedupTaken(queue, key)
  BY <1>1 DEF Enqueue, TableOK
<1>2. CASE ~DedupTaken(queue, key)
  <2> DEFINE row == NewRow(t, queue, priority, key, limit, backoff, runAt)
  <2>1. t \in Nat /\ t <= now
    BY StampsAreNat
  <2>2. limit \in Nat /\ limit > 0
    BY ConstantsAssumption
  <2>3. row \in Row
    BY <2>1 DEF NewRow, Row, Statuses, Waiting, Terminal, Errors, Null
  <2>4. RowOK(row, now)
    BY <2>1, <2>2, <2>3 DEF RowOK, NewRow, Waiting, Null, TableOK
  <2>5. /\ nextId' = nextId + 1 /\ now' = now /\ nextId <= MaxJobs
        /\ jobs' = [id \in DOMAIN jobs \cup {nextId} |-> IF id = nextId THEN row ELSE jobs[id]]
    BY <1>2 DEF Enqueue
  <2>6. \A id \in DOMAIN jobs' : RowOK(jobs'[id], now)
    BY <2>4, <2>5 DEF TableOK
  <2>7. nextId' \in 1 .. MaxJobs + 1 /\ DOMAIN jobs' \subseteq 1 .. nextId' - 1
    BY <2>5, ConstantsAssumption DEF TableOK
  <2> HIDE DEF row
  <2> QED
    BY <2>5, <2>6, <2>7 DEF TableOK
<1> QED
  BY <1>1, <1>2

LEMMA ClaimNextOK ==
  ASSUME TableOK, NEW t \in Stamps, NEW queues, NEW id \in DOMAIN jobs,
         ClaimNext(t, queues, id)
  PROVE  TableOK'
<1> DEFINE row == [jobs[id] EXCEPT !.status = "active", !.attempts = jobs[id].attempts + 1,
                                   !.updatedAt = t, !.heartbeatAt = t,
                                   !.cancelRequested = FALSE]
<1>1. t \in Nat /\ t <= now
  BY StampsAreNat
<1>2. jobs[id] \in Row /\ jobs[id].status = "pending" /\ RowOK(jobs[id], now)
  BY DEF ClaimNext, Runnable, TableOK, RowOK
<1>3. jobs[id].maxAttempts \in Nat
  BY <1>2, ConstantsAssumption DEF Row
<1>4. row \in Row
  <2>1. jobs[id].attempts + 1 \in Nat
    BY <1>2 DEF Row
  <2> QED
    BY <1>1, <1>2, <2>1 DEF Row, Statuses
<1>5. RowOK(row, now)
  BY <1>1, <1>2, <1>3, <1>4 DEF RowOK, Row, Null, Waiting
<1>6. jobs' = [jobs EXCEPT ![id] = row] /\ nextId' = nextId /\ now' = now
  BY DEF ClaimNext
<1> HIDE DEF row
<1> QED
  BY <1>5, <1>6, OneRowChanges

LEMMA CompleteOK ==
  ASSUME TableOK, NEW t \in Stamps, NEW id, Complete(t, id)
  PROVE  TableOK'
<1> DEFINE row == [jobs[id] EXCEPT !.status = "completed", !.updatedAt = t, !.heartbeatAt = Null]
<1>1. ASSUME Holds(id, "active") PROVE RowOK(row, now)
  <2>1. jobs[id] \in Row
    BY <1>1 DEF Holds, TableOK, RowOK
  <2>2. row \in Row
    BY <2>1, StampsAreNat DEF Row, Statuses, Terminal
  <2> QED
    BY <2>1, <2>2 DEF RowOK, Row, Waiting
<1>2. WriteActive(id, row)
  BY DEF Complete
<1> HIDE DEF row
<1> QED
  BY <1>1, <1>2, WriteActiveOK

LEMMA MoveToDeadOK ==
  ASSUME TableOK, NEW t \in Stamps, NEW id, NEW error \in Errors, MoveToDead(t, id, error)
  PROVE  TableOK'
<1> DEFINE row == [jobs[id] EXCEPT !.status = "dead", !.lastError = error,
                                   !.updatedAt = t, !.heartbeatAt = Null]
<1>1. ASSUME Holds(id, "active") PROVE RowOK(row, now)
  <2>1. jobs[id] \in Row
    BY <1>1 DEF Holds, TableOK, RowOK
  <2>2. row \in Row
    BY <2>1, StampsAreNat DEF Row, Statuses, Terminal
  <2> QED
    BY <2>1, <2>2 DEF RowOK, Row, Waiting
<1>2. WriteActive(id, row)
  BY DEF MoveToDead
<1> HIDE DEF row
<1> QED
  BY <1>1, <1>2, WriteActiveOK

(* The row goes back to the queue only while starts are left.              *)
LEMMA RescheduleOK ==
  ASSUME TableOK, NEW t \in Stamps, NEW id, NEW error \in Errors, NEW runAt \in Nat,
         Holds(id, "active") => jobs[id].attempts < jobs[id].maxAttempts,
         Reschedule(t, id, error, runAt)
  PROVE  TableOK'
<1> DEFINE row == [jobs[id] EXCEPT !.status = IF runAt > t THEN "delayed" ELSE "pending",
                                   !.runAt = runAt, !.lastError = error, !.updatedAt = t,
                                   !.heartbeatAt = Null, !.cancelRequested = FALSE]
<1>1. ASSUME Holds(id, "active") PROVE RowOK(row, now)
  <2>1. jobs[id] \in Row
    BY <1>1 DEF Holds, TableOK, RowOK
  <2>2. t \in Nat /\ t <= now /\ now \in Nat
    BY StampsAreNat DEF TableOK
  <2>3. row \in Row
    BY <2>1, <2>2 DEF Row, Statuses, Waiting, Null
  <2> QED
    BY <1>1, <2>1, <2>2, <2>3 DEF RowOK, Row, Waiting, Null
<1>2. WriteActive(id, row)
  BY DEF Reschedule
<1> HIDE DEF row
<1> QED
  BY <1>1, <1>2, WriteActiveOK

LEMMA FailOK ==
  ASSUME TableOK, NEW t \in Stamps, NEW id, NEW error \in Errors, NEW retryable \in BOOLEAN,
         NEW nextRunAt \in Nat \cup {Null}, Fail(t, id, error, retryable, nextRunAt)
  PROVE  TableOK'
<1>1. CASE ~Holds(id, "active")
  BY <1>1 DEF Fail, TableOK, storageVars
<1>2. CASE Holds(id, "active") /\ (~retryable \/ jobs[id].attempts >= jobs[id].maxAttempts)
  <2>1. MoveToDead(t, id, error)
    BY <1>2 DEF Fail
  <2> QED
    BY <2>1, MoveToDeadOK
<1>3. CASE Holds(id, "active") /\ ~(~retryable \/ jobs[id].attempts >= jobs[id].maxAttempts)
  <2>1. jobs[id].attempts < jobs[id].maxAttempts
    <3>1. jobs[id].attempts \in Nat /\ jobs[id].maxAttempts \in Nat
      BY <1>3, ConstantsAssumption DEF Holds, TableOK, RowOK, Row
    <3> QED
      BY <1>3, <3>1
  <2>2. CASE nextRunAt # Null
    <3>1. Reschedule(t, id, error, nextRunAt) /\ nextRunAt \in Nat
      BY <1>3, <2>2 DEF Fail
    <3> QED
      BY <2>1, <3>1, RescheduleOK
  <2>3. CASE nextRunAt = Null
    <3>1. PICK delay \in RetryDelays(jobs[id].backoff, jobs[id].attempts) :
            Reschedule(t, id, error, t + delay)
      BY <1>3, <2>3 DEF Fail
    <3>2. t + delay \in Nat
      BY StampsAreNat, ConstantsAssumption DEF RetryDelays
    <3> QED
      BY <2>1, <3>1, <3>2, RescheduleOK
  <2> QED
    BY <2>2, <2>3
<1> QED
  BY <1>1, <1>2, <1>3

LEMMA ReleaseOK ==
  ASSUME TableOK, NEW t \in Stamps, NEW id, Release(t, id)
  PROVE  TableOK'
<1> DEFINE row == [jobs[id] EXCEPT !.status = "pending",
                                   !.attempts = IF jobs[id].attempts > 0
                                                THEN jobs[id].attempts - 1 ELSE 0,
                                   !.updatedAt = t, !.heartbeatAt = Null,
                                   !.cancelRequested = FALSE]
<1>1. ASSUME Holds(id, "active") PROVE RowOK(row, now)
  <2>1. jobs[id] \in Row /\ RowOK(jobs[id], now)
    BY <1>1 DEF Holds, TableOK, RowOK
  <2>2. t \in Nat /\ jobs[id].attempts \in Nat /\ jobs[id].maxAttempts \in Nat
    BY <2>1, StampsAreNat, ConstantsAssumption DEF Row
  <2>3. jobs[id].attempts >= 1 /\ jobs[id].attempts <= jobs[id].maxAttempts /\ jobs[id].runAt <= now
    BY <1>1, <2>1 DEF Holds, RowOK
  <2>4. row \in Row
    <3>1. jobs[id].attempts - 1 \in Nat
      BY <2>2, <2>3
    <3> QED
      BY <2>1, <2>2, <2>3, <3>1 DEF Row, Statuses, Waiting, Null
  <2>5. /\ row.status = "pending" /\ row.attempts = jobs[id].attempts - 1
        /\ row.maxAttempts = jobs[id].maxAttempts /\ row.runAt = jobs[id].runAt
        /\ row.heartbeatAt = Null /\ row.cancelRequested = FALSE
    BY <2>1, <2>2, <2>3 DEF Row
  <2> HIDE DEF row
  <2> QED
    BY <2>2, <2>3, <2>4, <2>5 DEF RowOK, Waiting
<1>2. WriteActive(id, row)
  BY DEF Release
<1> HIDE DEF row
<1> QED
  BY <1>1, <1>2, WriteActiveOK

LEMMA HeartbeatOK ==
  ASSUME TableOK, NEW t \in Stamps, NEW id, Heartbeat(t, id)
  PROVE  TableOK'
<1> DEFINE row == [jobs[id] EXCEPT !.heartbeatAt = t, !.updatedAt = t]
<1>1. ASSUME Holds(id, "active") PROVE RowOK(row, now)
  <2>1. jobs[id] \in Row /\ RowOK(jobs[id], now) /\ jobs[id].status = "active"
    BY <1>1 DEF Holds, TableOK, RowOK
  <2>2. t \in Nat
    BY StampsAreNat
  <2>3. row \in Row
    BY <2>1, <2>2 DEF Row
  <2> QED
    BY <2>1, <2>2, <2>3 DEF RowOK, Row, Waiting, Null
<1>2. WriteActive(id, row)
  BY DEF Heartbeat
<1> HIDE DEF row
<1> QED
  BY <1>1, <1>2, WriteActiveOK

LEMMA CancelOK ==
  ASSUME TableOK, NEW t \in Stamps, NEW id, Cancel(t, id)
  PROVE  TableOK'
<1>1. /\ id \in DOMAIN jobs /\ nextId' = nextId /\ now' = now
      /\ jobs[id] \in Row /\ RowOK(jobs[id], now) /\ t \in Nat
  BY StampsAreNat DEF Cancel, TableOK, RowOK
<1>2. CASE jobs[id].status \in Waiting
  <2> DEFINE row == [jobs[id] EXCEPT !.status = "dead", !.lastError = "cancelled",
                                     !.updatedAt = t, !.heartbeatAt = Null]
  <2>1. row \in Row
    BY <1>1 DEF Row, Statuses, Terminal, Errors
  <2>2. RowOK(row, now)
    BY <1>1, <2>1 DEF RowOK, Row, Waiting
  <2>3. jobs' = [jobs EXCEPT ![id] = row]
    BY <1>2 DEF Cancel, Waiting
  <2> HIDE DEF row
  <2> QED
    BY <1>1, <2>2, <2>3, OneRowChanges
<1>3. CASE jobs[id].status = "active"
  <2> DEFINE row == [jobs[id] EXCEPT !.cancelRequested = TRUE, !.updatedAt = t]
  <2>1. row \in Row
    BY <1>1 DEF Row
  <2>2. RowOK(row, now)
    BY <1>1, <1>3, <2>1 DEF RowOK, Row, Waiting
  <2>3. jobs' = [jobs EXCEPT ![id] = row]
    BY <1>3 DEF Cancel, Waiting
  <2> HIDE DEF row
  <2> QED
    BY <1>1, <2>2, <2>3, OneRowChanges
<1>4. CASE jobs[id].status \notin Waiting /\ jobs[id].status # "active"
  <2>1. jobs' = [jobs EXCEPT ![id] = jobs[id]]
    BY <1>4 DEF Cancel
  <2> QED
    BY <1>1, <2>1, OneRowChanges
<1> QED
  BY <1>2, <1>3, <1>4

LEMMA PromoteDelayedOK ==
  ASSUME TableOK, NEW t \in Stamps, PromoteDelayed(t)
  PROVE  TableOK'
<1>1. t \in Nat /\ t <= now /\ now \in Nat
  BY StampsAreNat DEF TableOK
<1>2. DOMAIN jobs' = DOMAIN jobs /\ nextId' = nextId /\ now' = now
  BY DEF PromoteDelayed
<1>3. ASSUME NEW id \in DOMAIN jobs PROVE RowOK(jobs'[id], now)
  <2> DEFINE row == [jobs[id] EXCEPT !.status = "pending", !.updatedAt = t]
  <2>1. jobs[id] \in Row /\ RowOK(jobs[id], now)
    BY <1>3 DEF TableOK, RowOK
  <2>2. CASE jobs[id].status = "delayed" /\ jobs[id].runAt <= t
    <3>1. row \in Row
      BY <1>1, <2>1 DEF Row, Statuses, Waiting
    <3>2. jobs[id].runAt <= now
      BY <1>1, <2>1, <2>2 DEF Row
    <3>3. RowOK(row, now)
      BY <2>1, <2>2, <3>1, <3>2 DEF RowOK, Row, Waiting
    <3>4. jobs'[id] = row
      BY <1>3, <2>2 DEF PromoteDelayed
    <3> QED
      BY <3>3, <3>4
  <2>3. CASE ~(jobs[id].status = "delayed" /\ jobs[id].runAt <= t)
    BY <1>3, <2>1, <2>3 DEF PromoteDelayed
  <2> QED
    BY <2>2, <2>3
<1>4. jobs' = [id \in DOMAIN jobs' |-> jobs'[id]]
  BY DEF PromoteDelayed
<1> QED
  BY <1>2, <1>3, <1>4, RowsChange

(* An exhausted row dies, so the rows that go back have starts left.       *)
LEMMA ReclaimedOK ==
  ASSUME NEW t \in Nat, NEW row, RowOK(row, now), row.status = "active"
  PROVE  RowOK(Reclaimed(t, row), now)
<1> DEFINE new == Reclaimed(t, row)
<1>1. /\ row \in Row /\ row.attempts \in Nat /\ row.maxAttempts \in Nat
      /\ row.runAt <= now /\ row.lastError \in Errors
  BY ConstantsAssumption DEF RowOK, Row
<1>2. new \in Row
  BY <1>1 DEF Reclaimed, Row, Statuses, Waiting, Terminal, Errors
<1>3. /\ new.status = IF row.attempts >= row.maxAttempts THEN "dead" ELSE "pending"
      /\ new.attempts = row.attempts /\ new.maxAttempts = row.maxAttempts
      /\ new.runAt = row.runAt /\ new.heartbeatAt = Null /\ new.cancelRequested = FALSE
  BY <1>1 DEF Reclaimed, Row
<1> HIDE DEF new
<1>4. RowOK(new, now)
  BY <1>1, <1>2, <1>3 DEF RowOK, Waiting
<1> QED
  BY <1>4 DEF new

LEMMA ReclaimStaleOK ==
  ASSUME TableOK, NEW t \in Nat, ReclaimStale(t)
  PROVE  TableOK'
<1>1. DOMAIN jobs' = DOMAIN jobs /\ nextId' = nextId /\ now' = now
  BY DEF ReclaimStale
<1>2. ASSUME NEW id \in DOMAIN jobs PROVE RowOK(jobs'[id], now)
  <2>1. RowOK(jobs[id], now)
    BY <1>2 DEF TableOK
  <2>2. CASE Stale(t, id)
    <3>1. RowOK(Reclaimed(t, jobs[id]), now)
      BY <2>1, <2>2, ReclaimedOK DEF Stale, Holds
    <3> QED
      BY <1>2, <2>2, <3>1 DEF ReclaimStale
  <2>3. CASE ~Stale(t, id)
    BY <1>2, <2>1, <2>3 DEF ReclaimStale
  <2> QED
    BY <2>2, <2>3
<1>3. jobs' = [id \in DOMAIN jobs' |-> jobs'[id]]
  BY DEF ReclaimStale
<1> QED
  BY <1>1, <1>2, <1>3, RowsChange

LEMMA CleanupOK ==
  ASSUME TableOK, NEW t, Cleanup(t)
  PROVE  TableOK'
<1>1. DOMAIN jobs' \subseteq DOMAIN jobs /\ nextId' = nextId /\ now' = now
  BY DEF Cleanup
<1>2. \A id \in DOMAIN jobs' : RowOK(jobs'[id], now)
  BY DEF Cleanup, TableOK
<1>3. jobs' = [id \in DOMAIN jobs' |-> jobs'[id]]
  BY DEF Cleanup
<1> QED
  BY <1>1, <1>2, <1>3, RowsChange

LEMMA TickOK ==
  ASSUME TableOK, Tick
  PROVE  TableOK'
<1>1. now' = now + 1 /\ now' \in Nat /\ jobs' = jobs /\ nextId' = nextId
  BY DEF Tick, TableOK
<1>2. ASSUME NEW id \in DOMAIN jobs PROVE RowOK(jobs[id], now')
  <2>1. RowOK(jobs[id], now) /\ jobs[id].runAt \in Nat /\ now \in Nat
    BY <1>2 DEF TableOK, RowOK, Row
  <2>2. jobs[id].runAt <= now => jobs[id].runAt <= now'
    BY <1>1, <2>1
  <2> QED
    BY <2>1, <2>2 DEF RowOK
<1> QED
  BY <1>1, <1>2 DEF TableOK

-----------------------------------------------------------------------------
(* The invariant                                                           *)

LEMMA InitOK == Init => StorageInv
<1>1. Init => TableOK
  BY ConstantsAssumption DEF Init, TableOK
<1> QED
  BY <1>1, ByRows

(* Also for the modules that compose the table with its callers.           *)
LEMMA NextOK ==
  ASSUME StorageInv, [Next]_storageVars
  PROVE  StorageInv'
<1>1. TableOK
  BY ByRows
<1>2. ASSUME Tick PROVE TableOK'
  BY <1>1, <1>2, TickOK
<1>3. ASSUME NEW t \in Stamps, WorkerCall(t) PROVE TableOK'
  <2>1. ASSUME NEW queues \in SUBSET Queues, NEW id \in DOMAIN jobs, ClaimNext(t, queues, id)
        PROVE  TableOK'
    BY <1>1, <2>1, ClaimNextOK
  <2>2. ASSUME NEW id, Complete(t, id) PROVE TableOK'
    BY <1>1, <2>2, CompleteOK
  <2>3. ASSUME NEW id, NEW error \in Errors \ {"none"}, MoveToDead(t, id, error)
        PROVE  TableOK'
    BY <1>1, <2>3, MoveToDeadOK
  <2>4. ASSUME NEW id, NEW retryable \in BOOLEAN, NEW at \in CallerTimes(t) \cup {Null},
               Fail(t, id, "failed", retryable, at)
        PROVE  TableOK'
    <3>1. t \in Nat
      BY <1>1, StampsAreNat
    <3>2. at \in Nat \cup {Null}
      BY <2>4, <3>1, ConstantsAssumption DEF CallerTimes
    <3>3. "failed" \in Errors
      BY DEF Errors
    <3> QED
      BY <1>1, <2>4, <3>2, <3>3, FailOK
  <2>5. ASSUME NEW id, Release(t, id) PROVE TableOK'
    BY <1>1, <2>5, ReleaseOK
  <2>6. ASSUME NEW id, Heartbeat(t, id) PROVE TableOK'
    BY <1>1, <2>6, HeartbeatOK
  <2> QED
    BY <1>3, <2>1, <2>2, <2>3, <2>4, <2>5, <2>6 DEF WorkerCall
<1>4. ASSUME NEW t \in Stamps, ClientCall(t) PROVE TableOK'
  <2>1. \A runAt \in CallerTimes(t) : runAt \in Nat
    BY <1>1, StampsAreNat, ConstantsAssumption DEF CallerTimes
  <2> QED
    BY <1>1, <1>4, <2>1, EnqueueOK, CancelOK DEF ClientCall
<1>5. ASSUME NEW t \in Stamps, MaintenanceCall(t) PROVE TableOK'
  <2>1. t \in Nat
    BY <1>1, StampsAreNat
  <2> QED
    BY <1>1, <1>5, <2>1, PromoteDelayedOK, ReclaimStaleOK, CleanupOK DEF MaintenanceCall
<1>6. ASSUME UNCHANGED storageVars PROVE TableOK'
  BY <1>1, <1>6 DEF TableOK, storageVars
<1>7. TableOK'
  BY <1>1, <1>2, <1>3, <1>4, <1>5, <1>6 DEF Next
<1>8. TableOK' => StorageInv'
  BY ByRows, PTL
<1> QED
  BY <1>7, <1>8

(* The table and every row stay well typed, and what the state machine     *)
(* relies on holds: see the four invariants in Storage.                    *)
THEOREM StorageInvariant == Spec => []StorageInv
<1>1. Init => StorageInv
  BY InitOK
<1>2. StorageInv /\ [Next]_storageVars => StorageInv'
  BY NextOK
<1> QED
  BY <1>1, <1>2, PTL DEF Spec

THEOREM TypeCorrect == Spec => []TypeOK
BY StorageInvariant, PTL DEF StorageInv

(* No sequence of calls leaves a job in the queue, or lets one run, beyond *)
(* its maxAttempts, although claimNext never looks at them.                *)
THEOREM StartsStayWithinBudget == Spec => []WithinBudget
BY StorageInvariant, PTL DEF StorageInv

(* Every active row has a heartbeat, so a maintenance loop can reclaim it. *)
THEOREM NoStuckRow == Spec => []ActiveIsReclaimable
BY StorageInvariant, PTL DEF StorageInv

(* No job is pending, or runs, before its run_at.                          *)
THEOREM NothingRunsEarly == Spec => []PendingIsDue
BY StorageInvariant, PTL DEF StorageInv

(* A cancel request belongs to the run in progress: whatever calls cross,  *)
(* no row carries one back into the queue and into its next run.           *)
THEOREM NoCancelWaits == Spec => []NoCancelInQueue
BY StorageInvariant, PTL DEF StorageInv
=============================================================================
