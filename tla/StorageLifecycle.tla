-------------------------- MODULE StorageLifecycle --------------------------
(***************************************************************************)
(* The jobs table implements the lifecycle that the queue promises: the    *)
(* refinement mapping from Storage to JobLifecycle.                        *)
(***************************************************************************)
EXTENDS Storage

JobIds == 1 .. MaxJobs

PhaseOf(id) ==
  IF id \notin DOMAIN jobs
  THEN IF id < nextId THEN "purged" ELSE "unsubmitted"
  ELSE CASE jobs[id].status \in Waiting  -> "waiting"
         [] jobs[id].status = "active"   -> "running"
         [] jobs[id].status \in Terminal -> "finished"

StartsLeft(id) ==
  IF id \in DOMAIN jobs THEN jobs[id].maxAttempts - jobs[id].attempts ELSE 0

Lifecycle == INSTANCE JobLifecycle WITH
  Jobs        <- JobIds,
  StartLimits <- AttemptLimits,
  phase       <- [id \in JobIds |-> PhaseOf(id)],
  startsLeft  <- [id \in JobIds |-> StartsLeft(id)]

(* No interleaving of calls, late, repeated or out of order, takes a job   *)
(* outside the lifecycle: it is never started more often than maxAttempts  *)
(* plus the starts handed back, never revived once completed or dead, and  *)
(* its id never comes back after cleanup.                                  *)
ImplementsLifecycle == Lifecycle!Spec
=============================================================================
