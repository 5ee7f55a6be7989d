--------------------------- MODULE LifecycleProofs ---------------------------
(***************************************************************************)
(* The jobs table implements JobLifecycle, for every value of the          *)
(* constants.  JobMoves says of one job what a step does to it in terms of *)
(* its row; every operation makes such moves only, and every such move is  *)
(* a step of the lifecycle.                                                *)
(***************************************************************************)
EXTENDS StorageLifecycle, StorageProofs

(* How an operation may change a row that exists before and after.         *)
RowMove(old, new) ==
  /\ new.maxAttempts = old.maxAttempts
  /\ \/ new.attempts = old.attempts /\ new.status = old.status
     \/ new.attempts = old.attempts /\ new.status \in Waiting /\ old.status \in Waiting
     \/ /\ old.status \in Waiting /\ new.status = "active"
        /\ new.attempts = old.attempts + 1
     \/ /\ old.status = "active" /\ new.status \in Waiting
        /\ \/ new.attempts = old.attempts \/ new.attempts = old.attempts - 1
     \/ /\ old.status \in Waiting \cup {"active"} /\ new.status \in Terminal
        /\ new.attempts = old.attempts

JobMoves ==
  /\ \/ nextId' = nextId
     \/ nextId' = nextId + 1 /\ nextId \in DOMAIN jobs'
  /\ \A id \in DOMAIN jobs \cap DOMAIN jobs' : RowMove(jobs[id], jobs'[id])
  /\ \A id \in DOMAIN jobs \ DOMAIN jobs' : jobs[id].status \in Terminal
  /\ \A id \in DOMAIN jobs' \ DOMAIN jobs :
       id = nextId /\ jobs'[id].status \in Waiting /\ jobs'[id].attempts = 0

LEMMA OneRowMoves ==
  ASSUME NEW id \in DOMAIN jobs, NEW row, RowMove(jobs[id], row),
         jobs' = [jobs EXCEPT ![id] = row], nextId' = nextId
  PROVE  JobMoves
<1>1. DOMAIN jobs' = DOMAIN jobs
  OBVIOUS
<1>2. ASSUME NEW i \in DOMAIN jobs PROVE RowMove(jobs[i], jobs'[i])
  <2>1. CASE i = id
    BY <2>1
  <2>2. CASE i # id
    BY <2>2 DEF RowMove
  <2> QED
    BY <2>1, <2>2
<1> QED
  BY <1>1, <1>2 DEF JobMoves

LEMMA NothingMoves ==
  ASSUME UNCHANGED <<jobs, nextId>>
  PROVE  JobMoves
BY DEF JobMoves, RowMove

LEMMA WriteActiveMoves ==
  ASSUME NEW id, NEW row, WriteActive(id, row),
         Holds(id, "active") => RowMove(jobs[id], row)
  PROVE  JobMoves
<1>1. CASE Holds(id, "active")
  BY <1>1, OneRowMoves DEF WriteActive, Holds
<1>2. CASE ~Holds(id, "active")
  BY <1>2, NothingMoves DEF WriteActive
<1> QED
  BY <1>1, <1>2

LEMMA ActiveRow ==
  ASSUME TableOK, NEW id, Holds(id, "active")
  PROVE  /\ jobs[id] \in Row /\ jobs[id].status = "active"
         /\ jobs[id].attempts \in Nat /\ jobs[id].attempts >= 1
BY DEF TableOK, RowOK, Row, Holds

LEMMA WorkerCallMoves ==
  ASSUME TableOK, NEW t \in Stamps, WorkerCall(t)
  PROVE  JobMoves
<1>1. ASSUME NEW queues, NEW id \in DOMAIN jobs, ClaimNext(t, queues, id) PROVE JobMoves
  <2> DEFINE row == [jobs[id] EXCEPT !.status = "active",
                                     !.attempts = jobs[id].attempts + 1,
                                     !.updatedAt = t, !.heartbeatAt = t,
                                     !.cancelRequested = FALSE]
  <2>1. jobs[id] \in Row /\ jobs[id].status = "pending"
    BY <1>1 DEF ClaimNext, Runnable, TableOK, RowOK
  <2>2. RowMove(jobs[id], row)
    BY <2>1 DEF RowMove, Row, Waiting
  <2>3. jobs' = [jobs EXCEPT ![id] = row] /\ nextId' = nextId
    BY <1>1 DEF ClaimNext
  <2> HIDE DEF row
  <2> QED
    BY <2>2, <2>3, OneRowMoves
<1>2. ASSUME NEW id, Complete(t, id) PROVE JobMoves
  <2> DEFINE row == [jobs[id] EXCEPT !.status = "completed", !.updatedAt = t,
                                     !.heartbeatAt = Null]
  <2>1. Holds(id, "active") => RowMove(jobs[id], row)
    BY ActiveRow DEF RowMove, Row, Waiting, Terminal
  <2> HIDE DEF row
  <2>2. WriteActive(id, row)
    BY <1>2 DEF Complete, row
  <2> QED
    BY <2>1, <2>2, WriteActiveMoves
<1>3. ASSUME NEW id, NEW error, MoveToDead(t, id, error) PROVE JobMoves
  <2> DEFINE row == [jobs[id] EXCEPT !.status = "dead", !.lastError = error,
                                     !.updatedAt = t, !.heartbeatAt = Null]
  <2>1. Holds(id, "active") => RowMove(jobs[id], row)
    BY ActiveRow DEF RowMove, Row, Waiting, Terminal
  <2> HIDE DEF row
  <2>2. WriteActive(id, row)
    BY <1>3 DEF MoveToDead, row
  <2> QED
    BY <2>1, <2>2, WriteActiveMoves
<1>4. ASSUME NEW id, NEW error, NEW runAt, Reschedule(t, id, error, runAt) PROVE JobMoves
  <2> DEFINE row == [jobs[id] EXCEPT !.status = IF runAt > t THEN "delayed" ELSE "pending",
                                     !.runAt = runAt, !.lastError = error, !.updatedAt = t,
                                     !.heartbeatAt = Null, !.cancelRequested = FALSE]
  <2>1. Holds(id, "active") => RowMove(jobs[id], row)
    BY ActiveRow DEF RowMove, Row, Waiting
  <2> HIDE DEF row
  <2>2. WriteActive(id, row)
    BY <1>4 DEF Reschedule, row
  <2> QED
    BY <2>1, <2>2, WriteActiveMoves
<1>5. ASSUME NEW id, NEW error, NEW retryable, NEW at, Fail(t, id, error, retryable, at)
      PROVE  JobMoves
  <2>1. CASE UNCHANGED storageVars
    BY <2>1, NothingMoves DEF storageVars
  <2>2. CASE MoveToDead(t, id, error)
    BY <2>2, <1>3
  <2>3. ASSUME NEW runAt, Reschedule(t, id, error, runAt) PROVE JobMoves
    BY <2>3, <1>4
  <2> QED
    BY <1>5, <2>1, <2>2, <2>3 DEF Fail
<1>6. ASSUME NEW id, Release(t, id) PROVE JobMoves
  <2> DEFINE row == [jobs[id] EXCEPT !.status = "pending",
                                     !.attempts = IF jobs[id].attempts > 0
                                                  THEN jobs[id].attempts - 1 ELSE 0,
                                     !.updatedAt = t, !.heartbeatAt = Null,
                                     !.cancelRequested = FALSE]
  <2>1. ASSUME Holds(id, "active") PROVE RowMove(jobs[id], row)
    <3>1. /\ jobs[id] \in Row /\ jobs[id].status = "active"
          /\ jobs[id].attempts \in Nat /\ jobs[id].attempts >= 1
      BY <2>1, ActiveRow
    <3>2. /\ row.status = "pending" /\ row.maxAttempts = jobs[id].maxAttempts
          /\ row.attempts = jobs[id].attempts - 1
      BY <3>1 DEF Row
    <3> HIDE DEF row
    <3> QED
      BY <3>1, <3>2 DEF RowMove, Waiting
  <2> HIDE DEF row
  <2>2. WriteActive(id, row)
    BY <1>6 DEF Release, row
  <2> QED
    BY <2>1, <2>2, WriteActiveMoves
<1>7. ASSUME NEW id, Heartbeat(t, id) PROVE JobMoves
  <2> DEFINE row == [jobs[id] EXCEPT !.heartbeatAt = t, !.updatedAt = t]
  <2>1. Holds(id, "active") => RowMove(jobs[id], row)
    BY ActiveRow DEF RowMove, Row
  <2> HIDE DEF row
  <2>2. WriteActive(id, row)
    BY <1>7 DEF Heartbeat, row
  <2> QED
    BY <2>1, <2>2, WriteActiveMoves
<1> QED
  BY <1>1, <1>2, <1>3, <1>5, <1>6, <1>7 DEF WorkerCall

LEMMA ClientCallMoves ==
  ASSUME TableOK, NEW t \in Stamps, ClientCall(t)
  PROVE  JobMoves
<1>1. ASSUME NEW queue, NEW priority, NEW key, NEW limit, NEW backoff, NEW runAt,
             Enqueue(t, queue, priority, key, limit, backoff, runAt)
      PROVE  JobMoves
  <2>1. CASE DedupTaken(queue, key)
    BY <1>1, <2>1, NothingMoves DEF Enqueue
  <2>2. CASE ~DedupTaken(queue, key)
    <3> DEFINE row == NewRow(t, queue, priority, key, limit, backoff, runAt)
    <3>1. row.status \in Waiting /\ row.attempts = 0
      BY DEF NewRow, Waiting
    <3> HIDE DEF row
    <3>2. /\ nextId' = nextId + 1
          /\ jobs' = [id \in DOMAIN jobs \cup {nextId} |-> IF id = nextId THEN row ELSE jobs[id]]
      BY <1>1, <2>2 DEF Enqueue, row
    <3>3. nextId \notin DOMAIN jobs
      BY DEF TableOK
    <3> QED
      BY <3>1, <3>2, <3>3 DEF JobMoves, RowMove
  <2> QED
    BY <2>1, <2>2
<1>2. ASSUME NEW id, Cancel(t, id) PROVE JobMoves
  <2>1. id \in DOMAIN jobs /\ jobs[id] \in Row /\ nextId' = nextId
    BY <1>2 DEF Cancel, TableOK, RowOK
  <2>2. CASE jobs[id].status \in Waiting
    <3> DEFINE row == [jobs[id] EXCEPT !.status = "dead", !.lastError = "cancelled",
                                       !.updatedAt = t, !.heartbeatAt = Null]
    <3>1. RowMove(jobs[id], row)
      BY <2>1, <2>2 DEF RowMove, Row, Terminal
    <3>2. jobs' = [jobs EXCEPT ![id] = row]
      BY <1>2, <2>2 DEF Cancel, Waiting
    <3> HIDE DEF row
    <3> QED
      BY <2>1, <3>1, <3>2, OneRowMoves
  <2>3. CASE jobs[id].status = "active"
    <3> DEFINE row == [jobs[id] EXCEPT !.cancelRequested = TRUE, !.updatedAt = t]
    <3>1. RowMove(jobs[id], row)
      BY <2>1 DEF RowMove, Row
    <3>2. jobs' = [jobs EXCEPT ![id] = row]
      BY <1>2, <2>3 DEF Cancel, Waiting
    <3> HIDE DEF row
    <3> QED
      BY <2>1, <3>1, <3>2, OneRowMoves
  <2>4. CASE jobs[id].status \notin Waiting /\ jobs[id].status # "active"
    <3>1. jobs' = [jobs EXCEPT ![id] = jobs[id]]
      BY <1>2, <2>4 DEF Cancel
    <3> QED
      BY <2>1, <3>1, OneRowMoves DEF RowMove
  <2> QED
    BY <2>2, <2>3, <2>4
<1> QED
  BY <1>1, <1>2 DEF ClientCall

LEMMA MaintenanceCallMoves ==
  ASSUME TableOK, NEW t \in Stamps, MaintenanceCall(t)
  PROVE  JobMoves
<1>1. CASE PromoteDelayed(t)
  <2>1. DOMAIN jobs' = DOMAIN jobs /\ nextId' = nextId
    BY <1>1 DEF PromoteDelayed
  <2>2. ASSUME NEW id \in DOMAIN jobs PROVE RowMove(jobs[id], jobs'[id])
    <3>1. jobs[id] \in Row
      BY <2>2 DEF TableOK, RowOK
    <3> QED
      BY <1>1, <2>2, <3>1 DEF PromoteDelayed, RowMove, Row, Waiting
  <2> QED
    BY <2>1, <2>2 DEF JobMoves
<1>2. CASE ReclaimStale(t)
  <2>1. DOMAIN jobs' = DOMAIN jobs /\ nextId' = nextId
    BY <1>2 DEF ReclaimStale
  <2>2. ASSUME NEW id \in DOMAIN jobs PROVE RowMove(jobs[id], jobs'[id])
    <3>1. jobs[id] \in Row
      BY <2>2 DEF TableOK, RowOK
    <3>2. CASE Stale(t, id)
      <4>1. jobs'[id] = Reclaimed(t, jobs[id]) /\ jobs[id].status = "active"
        BY <1>2, <2>2, <3>2 DEF ReclaimStale, Stale, Holds
      <4> QED
        BY <3>1, <4>1 DEF Reclaimed, RowMove, Row, Waiting, Terminal
    <3>3. CASE ~Stale(t, id)
      BY <1>2, <2>2, <3>3 DEF ReclaimStale, RowMove
    <3> QED
      BY <3>2, <3>3
  <2> QED
    BY <2>1, <2>2 DEF JobMoves
<1>3. CASE Cleanup(t)
  BY <1>3 DEF Cleanup, Expired, JobMoves, RowMove
<1> QED
  BY <1>1, <1>2, <1>3 DEF MaintenanceCall

LEMMA EveryStepMoves ==
  ASSUME StorageInv, [Next]_storageVars
  PROVE  JobMoves
<1>1. TableOK
  BY ByRows
<1>2. CASE Tick \/ UNCHANGED storageVars
  BY <1>2, NothingMoves DEF Tick, storageVars
<1> QED
  BY <1>1, <1>2, WorkerCallMoves, ClientCallMoves, MaintenanceCallMoves DEF Next

-----------------------------------------------------------------------------
(* A move is a step of the lifecycle.                                      *)

LEMMA MoveIsLifecycleStep ==
  ASSUME StorageInv, StorageInv', JobMoves, NEW j \in JobIds
  PROVE  \/ Lifecycle!Submit(j) \/ Lifecycle!Start(j) \/ Lifecycle!Retry(j)
         \/ Lifecycle!HandBack(j) \/ Lifecycle!Finish(j) \/ Lifecycle!Purge(j)
         \/ Lifecycle!Rest(j)
<1> USE DEF Lifecycle!Submit, Lifecycle!Start, Lifecycle!Retry, Lifecycle!HandBack,
            Lifecycle!Finish, Lifecycle!Purge, Lifecycle!Rest
<1>1. TableOK /\ TableOK'
  <2>1. TableOK
    BY ByRows
  <2>2. StorageInv' => TableOK'
    BY ByRows, PTL
  <2> QED
    BY <2>1, <2>2
<1>2. j \in Nat /\ j <= MaxJobs /\ nextId \in Nat /\ DOMAIN jobs \subseteq 1 .. nextId - 1
  BY <1>1, ConstantsAssumption DEF JobIds, TableOK
<1>3. CASE j \in DOMAIN jobs /\ j \in DOMAIN jobs'
  <2> DEFINE old == jobs[j]
             new == jobs'[j]
  <2>1. RowMove(old, new)
    BY <1>3 DEF JobMoves
  <2>2. RowOK(old, now) /\ RowOK(new, now')
    BY <1>1, <1>3 DEF TableOK
  <2>3. /\ old.attempts \in Nat /\ old.maxAttempts \in Nat /\ old.status \in Statuses
        /\ new.attempts \in Nat /\ new.maxAttempts \in Nat /\ new.status \in Statuses
    BY <2>2, ConstantsAssumption DEF RowOK, Row
  <2>4. /\ StartsLeft(j) = old.maxAttempts - old.attempts
        /\ StartsLeft(j)' = new.maxAttempts - new.attempts
    BY <1>3 DEF StartsLeft
  <2>5. /\ old.status \in Waiting => PhaseOf(j) = "waiting"
        /\ old.status = "active" => PhaseOf(j) = "running"
        /\ old.status \in Terminal => PhaseOf(j) = "finished"
        /\ new.status \in Waiting => PhaseOf(j)' = "waiting"
        /\ new.status = "active" => PhaseOf(j)' = "running"
        /\ new.status \in Terminal => PhaseOf(j)' = "finished"
    BY <1>3 DEF PhaseOf, Waiting, Terminal
  <2>6. /\ old.status \in Waiting => old.attempts < old.maxAttempts
        /\ new.status \in Waiting => new.attempts < new.maxAttempts
    BY <2>2 DEF RowOK
  <2>7. old.status \in Waiting \cup {"active"} \cup Terminal
    BY <2>3 DEF Statuses
  <2> HIDE DEF old, new
  <2> QED
    BY <2>1, <2>3, <2>4, <2>5, <2>6, <2>7 DEF RowMove
<1>4. CASE j \in DOMAIN jobs /\ j \notin DOMAIN jobs'
  <2>1. jobs[j].status \in Terminal /\ j < nextId /\ j < nextId'
    BY <1>2, <1>4 DEF JobMoves
  <2>2. PhaseOf(j) = "finished" /\ PhaseOf(j)' = "purged" /\ StartsLeft(j)' = 0
    BY <1>4, <2>1 DEF PhaseOf, StartsLeft, Waiting, Terminal
  <2> QED
    BY <2>2
<1>5. CASE j \notin DOMAIN jobs /\ j \in DOMAIN jobs'
  <2>1. j = nextId /\ jobs'[j].status \in Waiting /\ jobs'[j].attempts = 0
    BY <1>5 DEF JobMoves
  <2>2. jobs'[j].maxAttempts \in AttemptLimits /\ jobs'[j].maxAttempts \in Nat
    BY <1>1, <1>5, ConstantsAssumption DEF TableOK, RowOK, Row
  <2>3. PhaseOf(j) = "unsubmitted" /\ PhaseOf(j)' = "waiting"
    BY <1>2, <1>5, <2>1 DEF PhaseOf, Waiting, Terminal
  <2>4. StartsLeft(j)' \in AttemptLimits
    BY <1>5, <2>1, <2>2 DEF StartsLeft
  <2> QED
    BY <2>3, <2>4
<1>6. CASE j \notin DOMAIN jobs /\ j \notin DOMAIN jobs'
  <2>1. j < nextId <=> j < nextId'
    BY <1>2, <1>6 DEF JobMoves
  <2>2. PhaseOf(j)' = PhaseOf(j) /\ StartsLeft(j)' = StartsLeft(j)
    BY <1>6, <2>1 DEF PhaseOf, StartsLeft
  <2> QED
    BY <2>2
<1> QED
  BY <1>3, <1>4, <1>5, <1>6

MappedTypesOK ==
  /\ [id \in JobIds |-> PhaseOf(id)]
       \in [JobIds -> {"unsubmitted", "waiting", "running", "finished", "purged"}]
  /\ [id \in JobIds |-> StartsLeft(id)] \in [JobIds -> Int]

LEMMA MappedTypes == StorageInv => MappedTypesOK
<1> SUFFICES ASSUME StorageInv PROVE MappedTypesOK
  OBVIOUS
<1>1. TableOK
  BY ByRows
<1>2. ASSUME NEW id \in JobIds
      PROVE  /\ PhaseOf(id) \in {"unsubmitted", "waiting", "running", "finished", "purged"}
             /\ StartsLeft(id) \in Int
  <2>1. CASE id \in DOMAIN jobs
    <3>1. jobs[id] \in Row /\ jobs[id].status \in Statuses
      BY <1>1, <2>1 DEF TableOK, RowOK, Row
    <3>2. jobs[id].attempts \in Nat /\ jobs[id].maxAttempts \in Nat
      BY <3>1, ConstantsAssumption DEF Row
    <3>3. PhaseOf(id) \in {"waiting", "running", "finished"}
      BY <2>1, <3>1 DEF PhaseOf, Statuses, Waiting, Terminal
    <3> QED
      BY <2>1, <3>2, <3>3 DEF StartsLeft
  <2>2. CASE id \notin DOMAIN jobs
    BY <2>2 DEF PhaseOf, StartsLeft
  <2> QED
    BY <2>1, <2>2
<1> QED
  BY <1>2 DEF MappedTypesOK

-----------------------------------------------------------------------------
(* The jobs table implements the lifecycle of a job: starts never exceed   *)
(* maxAttempts plus the starts handed back, nothing terminal is revived,   *)
(* and a deleted id never comes back.                                      *)
THEOREM StorageImplementsLifecycle == Spec => ImplementsLifecycle
<1>1. Init => Lifecycle!Init
  BY DEF Init, Lifecycle!Init, JobIds, PhaseOf, StartsLeft
<1>2. StorageInv /\ StorageInv' /\ [Next]_storageVars => [Lifecycle!Next]_(Lifecycle!lifecycleVars)
  <2> SUFFICES ASSUME StorageInv, StorageInv', [Next]_storageVars
               PROVE  Lifecycle!Next
    OBVIOUS
  <2>1. JobMoves
    BY EveryStepMoves
  <2>2. \A j \in JobIds : \/ Lifecycle!Submit(j) \/ Lifecycle!Start(j) \/ Lifecycle!Retry(j)
                          \/ Lifecycle!HandBack(j) \/ Lifecycle!Finish(j) \/ Lifecycle!Purge(j)
                          \/ Lifecycle!Rest(j)
    BY <2>1, MoveIsLifecycleStep
  <2>3. /\ [id \in JobIds |-> PhaseOf(id)]'
             \in [JobIds -> {"unsubmitted", "waiting", "running", "finished", "purged"}]
        /\ [id \in JobIds |-> StartsLeft(id)]' \in [JobIds -> Int]
    <3>1. StorageInv' => MappedTypesOK'
      BY MappedTypes, PTL
    <3> QED
      BY <3>1 DEF MappedTypesOK
  <2> QED
    BY <2>2, <2>3 DEF Lifecycle!Next
<1> QED
  BY <1>1, <1>2, StorageInvariant, PTL DEF Spec, ImplementsLifecycle, Lifecycle!Spec

(* A completed or dead row never changes again, whatever call arrives.     *)
THEOREM TerminalRowsNeverChange == Spec => TerminalIsFinal
<1> DEFINE Final == \A id \in DOMAIN jobs \cap DOMAIN jobs' :
                      jobs[id].status \in Terminal => jobs'[id] = jobs[id]
<1>1. StorageInv /\ [Next]_storageVars => [Final]_storageVars
  <2> SUFFICES ASSUME StorageInv, Next PROVE Final
    OBVIOUS
  <2>1. TableOK
    BY ByRows
  <2>2. ASSUME NEW id, NEW row, WriteActive(id, row) PROVE Final
    BY <2>2 DEF WriteActive, Holds, Terminal
  <2>3. ASSUME NEW t \in Stamps, WorkerCall(t) PROVE Final
    <3>1. ASSUME NEW queues, NEW id \in DOMAIN jobs, ClaimNext(t, queues, id) PROVE Final
      BY <3>1 DEF ClaimNext, Runnable, Terminal
    <3>2. ASSUME NEW id, NEW error, NEW retryable, NEW at, Fail(t, id, error, retryable, at)
          PROVE  Final
      BY <3>2, <2>2 DEF Fail, MoveToDead, Reschedule, storageVars
    <3> QED
      BY <2>2, <2>3, <3>1, <3>2 DEF WorkerCall, Complete, MoveToDead, Release, Heartbeat
  <2>4. ASSUME NEW t \in Stamps, ClientCall(t) PROVE Final
    <3>1. ASSUME NEW queue, NEW priority, NEW key, NEW limit, NEW backoff, NEW runAt,
                 Enqueue(t, queue, priority, key, limit, backoff, runAt)
          PROVE  Final
      <4>1. nextId \notin DOMAIN jobs
        BY <2>1 DEF TableOK
      <4> QED
        BY <3>1, <4>1 DEF Enqueue
    <3>2. ASSUME NEW id, Cancel(t, id) PROVE Final
      BY <3>2 DEF Cancel, Waiting, Terminal
    <3> QED
      BY <2>4, <3>1, <3>2 DEF ClientCall
  <2>5. ASSUME NEW t \in Stamps, MaintenanceCall(t) PROVE Final
    BY <2>5 DEF MaintenanceCall, PromoteDelayed, ReclaimStale, Stale, Holds, Cleanup, Terminal
  <2>6. ASSUME Tick PROVE Final
    BY <2>6 DEF Tick
  <2> QED
    BY <2>3, <2>4, <2>5, <2>6 DEF Next
<1> QED
  BY <1>1, StorageInvariant, PTL DEF Spec, TerminalIsFinal
=============================================================================
