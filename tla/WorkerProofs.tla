---------------------------- MODULE WorkerProofs ----------------------------
(***************************************************************************)
(* Proofs about the workers, for any number of them, any concurrency and   *)
(* any bounds.                                                             *)
(*                                                                         *)
(* A worker only names rows that it has claimed, so each of its steps is a *)
(* step of Storage or leaves the table alone, and what is proved of the    *)
(* table holds under the workers.  The permits are counted by one equation *)
(* for each worker, and an action moves a permit from one of its terms to  *)
(* another.                                                                *)
(***************************************************************************)
EXTENDS Worker, StorageProofs, FiniteSetTheorems

Types ==
  /\ state \in [Workers -> {"idle", "running", "stopping", "stopped", "crashed"}]
  /\ stopStep \in [Workers -> {"none", "draining", "settling", "joining"}]
  /\ loop \in [Workers -> {"off", "top", "queued", "holding", "claimed", "resting"}]
  /\ claimed \in [Workers -> [job : JobIds \cup {0}, start : Nat]]
  /\ permits \in [Workers -> Nat]
  /\ runs \in [Workers -> [Slots -> Run]]
  /\ controllers \in [Workers -> [JobIds -> Slots \cup {0}]]

Used(w) == Cardinality(InFlight(w))
Held(w) == IF loop[w] \in {"holding", "claimed"} THEN 1 ELSE 0

Counted(w) ==
  /\ permits[w] + Used(w) + Held(w) = Concurrency
  /\ loop[w] = "queued" => permits[w] = 0

(* The rows a worker names have been inserted.                             *)
Known(w) ==
  /\ loop[w] = "claimed" => claimed[w].job \in 1 .. nextId - 1
  /\ \A s \in Slots : runs[w][s].phase # "free" => runs[w][s].job \in 1 .. nextId - 1

(* Only a process that is stopping is in a step of stop(), and only one    *)
(* that runs or is stopping has a claim loop.                              *)
Orderly(w) ==
  /\ stopStep[w] # "none" => state[w] = "stopping"
  /\ state[w] \in {"idle", "stopped", "crashed"} => loop[w] = "off"

Local == Types /\ \A w \in Workers : Counted(w) /\ Known(w) /\ Orderly(w)

WorkerInv == StorageInv /\ Local

-----------------------------------------------------------------------------
(* Facts about one run and one worker                                      *)

LEMMA UsedIsNat ==
  ASSUME Types, NEW w \in Workers
  PROVE  IsFiniteSet(InFlight(w)) /\ Used(w) \in Nat
<1>1. Concurrency \in Nat
  BY WorkerAssumption
<1>2. IsFiniteSet(Slots)
  BY <1>1, FS_Interval DEF Slots
<1>3. InFlight(w) \subseteq Slots
  BY DEF InFlight
<1>4. IsFiniteSet(InFlight(w))
  BY <1>2, <1>3, FS_Subset
<1> QED
  BY <1>4, FS_CardinalityType DEF Used

(* A run is replaced by another one that is well typed.                    *)
LEMMA RunChanges ==
  ASSUME Types, NEW w \in Workers, NEW s \in Slots, NEW run \in Run,
         runs' = [runs EXCEPT ![w][s] = run]
  PROVE  /\ runs' \in [Workers -> [Slots -> Run]]
         /\ runs'[w][s] = run
         /\ \A v \in Workers : \A r \in Slots :
              (v # w \/ r # s) => runs'[v][r] = runs[v][r]
BY DEF Types

(* No permit changes hands while the same slots stay in use.               *)
LEMMA SameSlots ==
  ASSUME NEW w, \A s \in Slots : runs'[w][s].phase = "free" <=> runs[w][s].phase = "free"
  PROVE  Used(w)' = Used(w)
<1>1. InFlight(w)' = InFlight(w)
  BY DEF InFlight
<1> QED
  BY <1>1 DEF Used

LEMMA SlotTaken ==
  ASSUME Types, NEW w \in Workers, NEW s \in Slots,
         runs[w][s].phase = "free", runs'[w][s].phase # "free",
         \A r \in Slots : r # s => runs'[w][r] = runs[w][r]
  PROVE  Used(w)' = Used(w) + 1
<1>1. InFlight(w)' = InFlight(w) \cup {s} /\ s \notin InFlight(w)
  BY DEF InFlight
<1>2. Cardinality(InFlight(w) \cup {s}) = Cardinality(InFlight(w)) + 1
  BY <1>1, UsedIsNat, FS_AddElement
<1> QED
  BY <1>1, <1>2 DEF Used

LEMMA SlotFreed ==
  ASSUME Types, NEW w \in Workers, NEW s \in Slots,
         runs[w][s].phase # "free", runs'[w][s].phase = "free",
         \A r \in Slots : r # s => runs'[w][r] = runs[w][r]
  PROVE  Used(w)' = Used(w) - 1
<1>1. InFlight(w)' = InFlight(w) \ {s} /\ s \in InFlight(w)
  BY DEF InFlight
<1>2. Cardinality(InFlight(w) \ {s}) = Cardinality(InFlight(w)) - 1
  BY <1>1, UsedIsNat, FS_RemoveElement
<1> QED
  BY <1>1, <1>2 DEF Used

(* Another worker's part of the state is not touched.                      *)
LEMMA OthersKeep ==
  ASSUME Types, NEW v \in Workers, Counted(v), Known(v), Orderly(v),
         nextId' >= nextId, nextId \in Nat, nextId' \in Nat,
         loop'[v] = loop[v], claimed'[v] = claimed[v], permits'[v] = permits[v],
         runs'[v] = runs[v], state'[v] = state[v], stopStep'[v] = stopStep[v]
  PROVE  Counted(v)' /\ Known(v)' /\ Orderly(v)'
<1>1. Used(v)' = Used(v)
  BY SameSlots
<1>2. Counted(v)'
  BY <1>1 DEF Counted, Held
<1>3. Known(v)'
  BY DEF Known
<1> QED
  BY <1>2, <1>3 DEF Orderly

-----------------------------------------------------------------------------
(* The table under the workers                                             *)

LEMMA IdsGrow ==
  ASSUME StorageInv, [Next]_storageVars
  PROVE  nextId \in Nat /\ nextId' \in Nat /\ nextId' >= nextId
<1>1. nextId \in 1 .. MaxJobs + 1 /\ nextId' \in 1 .. MaxJobs + 1
  BY NextOK DEF StorageInv, TypeOK
<1>2. ASSUME NEW id, NEW row, WriteActive(id, row) PROVE nextId' = nextId
  BY <1>2 DEF WriteActive
<1>3. ASSUME NEW t, WorkerCall(t) PROVE nextId' = nextId
  <2>1. ASSUME NEW id, NEW error, NEW retryable, NEW at, Fail(t, id, error, retryable, at)
        PROVE  nextId' = nextId
    BY <1>2, <2>1 DEF Fail, MoveToDead, Reschedule, storageVars
  <2> QED
    BY <1>2, <1>3, <2>1 DEF WorkerCall, ClaimNext, Complete, MoveToDead, Release, Heartbeat
<1>4. ASSUME NEW t, ClientCall(t) PROVE nextId' = nextId \/ nextId' = nextId + 1
  BY <1>4 DEF ClientCall, Enqueue, Cancel
<1>5. ASSUME NEW t, MaintenanceCall(t) PROVE nextId' = nextId
  BY <1>5 DEF MaintenanceCall, PromoteDelayed, ReclaimStale, Cleanup
<1>6. nextId' = nextId \/ nextId' = nextId + 1
  BY <1>3, <1>4, <1>5 DEF Next, Tick, storageVars
<1> QED
  BY <1>1, <1>6, ConstantsAssumption

(* Every storage call of a run is one that Storage allows.                 *)
LEMMA CallIsNext ==
  ASSUME NEW t \in Stamps, NEW id \in 1 .. nextId - 1,
         \/ Complete(t, id) \/ Release(t, id) \/ Heartbeat(t, id)
         \/ Fail(t, id, "failed", TRUE, Null)
         \/ MoveToDead(t, id, "failed") \/ MoveToDead(t, id, "cancelled")
  PROVE  Next
<1>1. "failed" \in Errors \ {"none"} /\ "cancelled" \in Errors \ {"none"}
  BY DEF Errors
<1>2. TRUE \in BOOLEAN /\ Null \in CallerTimes(t) \cup {Null}
  OBVIOUS
<1>3. WorkerCall(t)
  BY <1>1, <1>2 DEF WorkerCall
<1> QED
  BY <1>3 DEF Next

LEMMA StorageStep ==
  ASSUME WorkerInv, [WorkerNext]_vars
  PROVE  [Next]_storageVars
<1>1. ASSUME NEW w \in Workers, NEW s \in Slots, runs[w][s].phase # "free"
      PROVE  runs[w][s].job \in 1 .. nextId - 1
  BY <1>1 DEF WorkerInv, Local, Known
<1>2. ASSUME NEW t \in Stamps, NEW w \in Workers, LoopStep(w, t) PROVE [Next]_storageVars
  <2>1. CASE ClaimHit(w, t)
    <3>1. PICK id \in DOMAIN jobs : ClaimNext(t, {}, id)
      BY <2>1 DEF ClaimHit
    <3>2. {} \in SUBSET Queues
      OBVIOUS
    <3>3. WorkerCall(t)
      BY <3>1, <3>2 DEF WorkerCall
    <3> QED
      BY <3>3 DEF Next
  <2>2. CASE ~ClaimHit(w, t)
    <3>1. UNCHANGED storageVars
      BY <1>2, <2>2 DEF LoopStep, AcquirePermit, LeaveLoop, ClaimMiss, Wake, Dispatch
    <3> QED
      BY <3>1
  <2> QED
    BY <2>1, <2>2
<1>3. ASSUME NEW t \in Stamps, NEW w \in Workers, NEW s \in Slots,
             RunEnds(w, s, t) \/ AbortSettles(w, s, t) \/ Beat(w, s, t)
      PROVE  [Next]_storageVars
  <2> DEFINE id == runs[w][s].job
  <2>1. Live(w, s)
    BY <1>3 DEF RunEnds, HandlerReturns, HandlerThrows, AbortSettles, Beat
  <2>2. id \in 1 .. nextId - 1
    BY <1>1, <2>1 DEF Live
  <2>3. \/ UNCHANGED storageVars
        \/ Complete(t, id) \/ Release(t, id) \/ Heartbeat(t, id)
        \/ Fail(t, id, "failed", TRUE, Null)
        \/ MoveToDead(t, id, "failed") \/ MoveToDead(t, id, "cancelled")
    BY <1>3, Zenon DEF RunEnds, HandlerReturns, HandlerThrows, AbortSettles, Beat, Beaten, BeatThrows,
                CallThrows, FailRun, KillRun, ReleaseRun
  <2> HIDE DEF id
  <2> QED
    BY <2>2, <2>3, CallIsNext
<1>4. ASSUME NEW t \in Stamps, Others(t) PROVE [Next]_storageVars
  BY <1>4 DEF Others, Next
<1>5. ASSUME Clock PROVE [Next]_storageVars
  BY <1>5 DEF Clock, Next
<1>6. ASSUME NEW w \in Workers, Start(w) \/ Stop(w) \/ StopStep(w) \/ Crash(w)
      PROVE  UNCHANGED storageVars
  BY <1>6 DEF Start, Stop, StopStep, AbortLeftovers, WaitedForAborted, StopFinishes, Crash
<1>7. ASSUME NEW w \in Workers, NEW s \in Slots, Finally(w, s) \/ TimeoutFires(w, s)
      PROVE  UNCHANGED storageVars
  BY <1>7 DEF Finally, TimeoutFires
<1>8. ASSUME UNCHANGED vars PROVE UNCHANGED storageVars
  BY <1>8 DEF vars
<1> QED
  BY <1>2, <1>3, <1>4, <1>5, <1>6, <1>7, <1>8 DEF WorkerNext
-----------------------------------------------------------------------------
(* Each action keeps Local                                                 *)

(* What every step may use of the state before it and of the table.        *)
Before ==
  /\ Local
  /\ nextId \in 1 .. MaxJobs + 1 /\ nextId' \in 1 .. MaxJobs + 1
  /\ nextId' >= nextId

Rest(v) == <<loop[v], claimed[v], permits[v], runs[v], state[v], stopStep[v]>>

LEMMA OneWorkerMoves ==
  ASSUME Before, NEW w \in Workers, Types',
         Counted(w)', Known(w)', Orderly(w)',
         \A v \in Workers : v # w => UNCHANGED Rest(v)
  PROVE  Local'
<1>1. nextId \in Nat /\ nextId' \in Nat
  BY ConstantsAssumption DEF Before
<1>2. ASSUME NEW v \in Workers, v # w
      PROVE  Counted(v)' /\ Known(v)' /\ Orderly(v)'
  <2>1. /\ loop'[v] = loop[v] /\ claimed'[v] = claimed[v] /\ permits'[v] = permits[v]
        /\ runs'[v] = runs[v] /\ state'[v] = state[v] /\ stopStep'[v] = stopStep[v]
    BY <1>2 DEF Rest
  <2> QED
    BY <1>1, <2>1, OthersKeep DEF Before, Local
<1> QED
  BY <1>2 DEF Local

LEMMA NothingMoves ==
  ASSUME Before, UNCHANGED workerVars
  PROVE  Local'
<1>1. Types'
  BY DEF Before, Local, Types, workerVars, lifeVars, loopVars, runVars
<1>2. ASSUME NEW v \in Workers PROVE Counted(v)' /\ Known(v)' /\ Orderly(v)'
  <2>1. nextId \in Nat /\ nextId' \in Nat
    BY ConstantsAssumption DEF Before
  <2> QED
    BY <2>1, OthersKeep DEF Before, Local, workerVars, lifeVars, loopVars, runVars
<1> QED
  BY <1>1, <1>2 DEF Local

(* Only the state, stopStep, loop and permits of one worker move, and what *)
(* the loop holds goes to or comes from the permits.                       *)
LEMMA LoopMoves ==
  ASSUME Before, NEW w \in Workers, UNCHANGED <<claimed, runVars>>,
         NEW st \in {"idle", "running", "stopping", "stopped", "crashed"},
         NEW step \in {"none", "draining", "settling", "joining"},
         NEW at \in {"off", "top", "queued", "holding", "resting"},
         NEW free \in Nat,
         state' = [state EXCEPT ![w] = st], stopStep' = [stopStep EXCEPT ![w] = step],
         loop' = [loop EXCEPT ![w] = at], permits' = [permits EXCEPT ![w] = free],
         step # "none" => st = "stopping",
         st \in {"idle", "stopped", "crashed"} => at = "off",
         free + (IF at = "holding" THEN 1 ELSE 0) = permits[w] + Held(w),
         at = "queued" => free = 0
  PROVE  Local'
<1>1. Types'
  BY DEF Before, Local, Types, runVars
<1>2. /\ loop'[w] = at /\ permits'[w] = free /\ state'[w] = st /\ stopStep'[w] = step
      /\ runs' = runs
  BY DEF Before, Local, Types, runVars
<1>3. Counted(w)'
  <2>1. Used(w)' = Used(w) /\ Used(w) \in Nat
    BY <1>2, SameSlots, UsedIsNat DEF Before, Local
  <2>2. Held(w)' = IF at = "holding" THEN 1 ELSE 0
    BY <1>2 DEF Held
  <2>3. permits[w] + Used(w) + Held(w) = Concurrency
    BY DEF Before, Local, Counted
  <2>4. permits[w] \in Nat /\ Held(w) \in Nat
    BY DEF Before, Local, Types, Held
  <2>5. free + Used(w) + Held(w)' = Concurrency
    BY <2>1, <2>2, <2>3, <2>4
  <2> QED
    BY <1>2, <2>1, <2>5 DEF Counted
<1>4. Known(w)'
  BY <1>2, ConstantsAssumption DEF Known, Before, Local
<1>5. Orderly(w)'
  BY <1>2 DEF Orderly
<1>6. \A v \in Workers : v # w => UNCHANGED Rest(v)
  BY DEF Rest, Before, Local, Types, runVars
<1> QED
  BY <1>1, <1>3, <1>4, <1>5, <1>6, OneWorkerMoves

(* A run in progress becomes another one of the same job in the same slot. *)
LEMMA RunMoves ==
  ASSUME Before, NEW w \in Workers, NEW s \in Slots, NEW run \in Run,
         UNCHANGED <<lifeVars, loopVars, controllers>>,
         runs' = [runs EXCEPT ![w][s] = run],
         runs[w][s].phase # "free", run.phase # "free", run.job = runs[w][s].job
  PROVE  Local'
<1>1. /\ runs' \in [Workers -> [Slots -> Run]] /\ runs'[w][s] = run
      /\ \A v \in Workers : \A r \in Slots : (v # w \/ r # s) => runs'[v][r] = runs[v][r]
  <2>1. Types
    BY DEF Before, Local
  <2> QED
    BY <2>1, RunChanges
<1>2. Types'
  BY <1>1 DEF Before, Local, Types, lifeVars, loopVars
<1>3. Used(w)' = Used(w)
  BY <1>1, SameSlots
<1>4. Counted(w)' /\ Orderly(w)'
  BY <1>3 DEF Before, Local, Counted, Held, Orderly, lifeVars, loopVars
<1>5. Known(w)'
  <2>1. \A r \in Slots : runs'[w][r].phase # "free" => runs'[w][r].job \in 1 .. nextId - 1
    BY <1>1 DEF Before, Local, Known
  <2> QED
    BY <2>1, ConstantsAssumption DEF Before, Local, Known, loopVars
<1>6. \A v \in Workers : v # w => UNCHANGED Rest(v)
  BY DEF Rest, Before, Local, Types, lifeVars, loopVars
<1> QED
  BY <1>2, <1>4, <1>5, <1>6, OneWorkerMoves

LEMMA SettleOK ==
  ASSUME Before, NEW w \in Workers, NEW s \in Slots, NEW phase \in Settled,
         Live(w, s), Settle(w, s, phase)
  PROVE  Local'
<1> DEFINE run == [runs[w][s] EXCEPT !.phase = phase]
<1>1. runs[w][s] \in Run
  BY DEF Before, Local, Types
<1>2. run \in Run /\ run.phase = phase /\ run.job = runs[w][s].job
  BY <1>1 DEF Run
<1>3. runs' = [runs EXCEPT ![w][s] = run]
  BY DEF Settle
<1>4. phase # "free" /\ runs[w][s].phase # "free"
  BY DEF Settled, Reported, Live
<1>5. UNCHANGED <<lifeVars, loopVars, controllers>>
  BY DEF Settle
<1> HIDE DEF run
<1> QED
  BY <1>2, <1>3, <1>4, <1>5, RunMoves

LEMMA RunEndsOK ==
  ASSUME Before, NEW w \in Workers, NEW s \in Slots, NEW t,
         RunEnds(w, s, t) \/ AbortSettles(w, s, t)
  PROVE  Local'
<1>1. Live(w, s)
  BY DEF RunEnds, HandlerReturns, HandlerThrows, AbortSettles
<1>2. \E phase \in Settled : Settle(w, s, phase)
  BY Zenon DEF RunEnds, HandlerReturns, HandlerThrows, AbortSettles, CallThrows, FailRun, KillRun,
         ReleaseRun, Settled, Reported
<1> QED
  BY <1>1, <1>2, SettleOK

LEMMA TimeoutOK ==
  ASSUME Before, NEW w \in Workers, NEW s \in Slots, TimeoutFires(w, s)
  PROVE  Local'
<1> DEFINE run == [runs[w][s] EXCEPT !.timedOut = TRUE, !.aborted = TRUE]
<1>1. runs[w][s] \in Run
  BY DEF Before, Local, Types
<1>2. run \in Run /\ run.phase = runs[w][s].phase /\ run.job = runs[w][s].job
  BY <1>1 DEF Run
<1>3. runs' = [runs EXCEPT ![w][s] = run]
  BY DEF TimeoutFires, Before, Local, Types
<1>4. runs[w][s].phase # "free"
  BY DEF TimeoutFires, Live
<1>5. UNCHANGED <<lifeVars, loopVars, controllers>>
  BY DEF TimeoutFires
<1> HIDE DEF run
<1> QED
  BY <1>2, <1>3, <1>4, <1>5, RunMoves

LEMMA BeatOK ==
  ASSUME Before, now \in Nat, NEW w \in Workers, NEW s \in Slots, NEW t, Beat(w, s, t)
  PROVE  Local'
<1> DEFINE beatAt == IF now >= runs[w][s].beatAt THEN now + HeartbeatMs ELSE runs[w][s].beatAt
           seen   == runs[w][s].cancelSeen \/ CancelSeen(runs[w][s].job)
           gone   == runs[w][s].aborted \/ CancelSeen(runs[w][s].job)
<1>1. runs[w][s] \in Run /\ runs[w][s].phase # "free"
  BY DEF Before, Local, Types, Beat, Live
<1>2. beatAt \in Nat
  BY <1>1, WorkerAssumption DEF Run
<1>3. seen \in BOOLEAN /\ gone \in BOOLEAN
  OBVIOUS
<1>4. UNCHANGED <<lifeVars, loopVars, controllers>>
  BY DEF Beat
<1>5. CASE Beaten(w, s, t)
  <2> DEFINE run == [runs[w][s] EXCEPT !.cancelSeen = seen, !.aborted = gone, !.beatAt = beatAt]
  <2>1. runs' = [runs EXCEPT ![w][s] = run]
    BY <1>5, Zenon DEF Beaten
  <2>2. run \in Run /\ run.phase = runs[w][s].phase /\ run.job = runs[w][s].job
    <3> HIDE DEF seen, gone, beatAt
    <3> QED
      BY <1>1, <1>2, <1>3 DEF Run
  <2> HIDE DEF run
  <2> QED
    BY <1>1, <1>4, <2>1, <2>2, RunMoves
<1>6. CASE BeatThrows(w, s)
  <2> DEFINE run == [runs[w][s] EXCEPT !.beatAt = beatAt]
  <2>1. runs' = [runs EXCEPT ![w][s] = run]
    BY <1>6 DEF BeatThrows
  <2>2. run \in Run /\ run.phase = runs[w][s].phase /\ run.job = runs[w][s].job
    <3> HIDE DEF beatAt
    <3> QED
      BY <1>1, <1>2 DEF Run
  <2> HIDE DEF run
  <2> QED
    BY <1>1, <1>4, <2>1, <2>2, RunMoves
<1> QED
  BY <1>5, <1>6 DEF Beat

LEMMA LoopStepOK ==
  ASSUME Before, NEW w \in Workers,
         \/ Start(w) \/ AcquirePermit(w) \/ LeaveLoop(w) \/ Wake(w)
         \/ \E t \in Stamps : ClaimMiss(w, t)
  PROVE  Local'
<1>1. Types /\ Counted(w) /\ Orderly(w) /\ permits[w] \in Nat
  BY DEF Before, Local, Types
<1>2. ASSUME NEW at \in {"off", "top", "queued", "holding", "resting"}, NEW free \in Nat,
             loop' = [loop EXCEPT ![w] = at], permits' = [permits EXCEPT ![w] = free],
             UNCHANGED <<claimed, runVars, lifeVars>>,
             loop[w] # "off",
             free + (IF at = "holding" THEN 1 ELSE 0) = permits[w] + Held(w),
             at = "queued" => free = 0
      PROVE  Local'
  <2>1. /\ state' = [state EXCEPT ![w] = state[w]]
        /\ stopStep' = [stopStep EXCEPT ![w] = stopStep[w]]
        /\ state[w] \in {"running", "stopping"}
        /\ stopStep[w] \in {"none", "draining", "settling", "joining"}
    BY <1>1, <1>2 DEF Types, lifeVars, Orderly
  <2>2. /\ UNCHANGED <<claimed, runVars>>
        /\ stopStep[w] # "none" => state[w] = "stopping"
    BY <1>1, <1>2 DEF Orderly
  <2> QED
    BY <1>2, <2>1, <2>2, LoopMoves
<1>3. CASE Start(w)
  <2>1. /\ state' = [state EXCEPT ![w] = "running"] /\ loop' = [loop EXCEPT ![w] = "top"]
        /\ stopStep' = [stopStep EXCEPT ![w] = "none"]
        /\ permits' = [permits EXCEPT ![w] = permits[w]]
        /\ UNCHANGED <<claimed, runVars>>
    BY <1>1, <1>3 DEF Start, Types, Orderly
  <2>2. Held(w) = 0
    BY <1>1, <1>3 DEF Start, Held, Orderly
  <2> QED
    BY <1>1, <2>1, <2>2, LoopMoves
<1>4. CASE AcquirePermit(w)
  <2>1. loop[w] = "top" /\ Held(w) = 0 /\ UNCHANGED <<claimed, runVars, lifeVars>>
    BY <1>4 DEF AcquirePermit, Held
  <2>2. CASE permits[w] > 0 /\ permits' = [permits EXCEPT ![w] = @ - 1]
               /\ loop' = [loop EXCEPT ![w] = "holding"]
    <3>1. permits[w] - 1 \in Nat /\ (permits[w] - 1) + 1 = permits[w] + Held(w)
      BY <1>1, <2>1, <2>2
    <3>2. permits' = [permits EXCEPT ![w] = permits[w] - 1]
      BY <2>2
    <3> QED
      BY <1>2, <2>1, <2>2, <3>1, <3>2
  <2>3. CASE UNCHANGED permits /\ loop' = [loop EXCEPT ![w] = "off"]
    <3>1. permits' = [permits EXCEPT ![w] = permits[w]]
      BY <1>1, <2>3 DEF Types
    <3> QED
      BY <1>1, <1>2, <2>1, <2>3, <3>1
  <2>4. CASE permits[w] = 0 /\ UNCHANGED permits /\ loop' = [loop EXCEPT ![w] = "queued"]
    <3>1. permits' = [permits EXCEPT ![w] = permits[w]]
      BY <1>1, <2>4 DEF Types
    <3> QED
      BY <1>1, <1>2, <2>1, <2>4, <3>1
  <2> QED
    BY <1>4, <2>2, <2>3, <2>4 DEF AcquirePermit
<1>5. CASE LeaveLoop(w) \/ \E t \in Stamps : ClaimMiss(w, t)
  <2>1. PICK at \in {"off", "resting"} : loop' = [loop EXCEPT ![w] = at]
    BY <1>5 DEF LeaveLoop, ClaimMiss
  <2>2. /\ loop[w] = "holding" /\ Held(w) = 1
        /\ permits' = [permits EXCEPT ![w] = permits[w] + 1]
        /\ UNCHANGED <<claimed, runVars, lifeVars>>
    BY <1>5 DEF LeaveLoop, ClaimMiss, Held
  <2>3. permits[w] + 1 \in Nat /\ permits[w] + 1 + 0 = permits[w] + Held(w)
    BY <1>1, <2>2
  <2>4. at \in {"off", "top", "queued", "holding", "resting"} /\ at \notin {"holding", "queued"}
    BY <2>1
  <2> QED
    BY <1>2, <2>1, <2>2, <2>3, <2>4
<1>6. CASE Wake(w)
  <2>1. /\ loop[w] = "resting" /\ Held(w) = 0 /\ loop' = [loop EXCEPT ![w] = "top"]
        /\ permits' = [permits EXCEPT ![w] = permits[w]]
        /\ UNCHANGED <<claimed, runVars, lifeVars>>
    BY <1>1, <1>6 DEF Wake, Held, Types
  <2> QED
    BY <1>1, <1>2, <2>1
<1> QED
  BY <1>3, <1>4, <1>5, <1>6

LEMMA StopOK ==
  ASSUME Before, NEW w \in Workers, Stop(w) \/ WaitedForAborted(w) \/ StopFinishes(w)
  PROVE  Local'
<1>1. Types /\ Counted(w) /\ Orderly(w) /\ permits[w] \in Nat
  BY DEF Before, Local, Types
<1>2. /\ permits' = [permits EXCEPT ![w] = permits[w]]
      /\ loop' = [loop EXCEPT ![w] = loop[w]]
      /\ UNCHANGED <<loop, claimed, permits, runs, controllers, nextId>>
  BY <1>1 DEF Stop, WaitedForAborted, StopFinishes, Types, loopVars, runVars, storageVars
<1>3. /\ state' \in [Workers -> {"idle", "running", "stopping", "stopped", "crashed"}]
      /\ stopStep' \in [Workers -> {"none", "draining", "settling", "joining"}]
      /\ \A v \in Workers : v # w => state'[v] = state[v] /\ stopStep'[v] = stopStep[v]
  BY <1>1 DEF Stop, WaitedForAborted, StopFinishes, Types
<1>4. Types'
  BY <1>1, <1>2, <1>3 DEF Types
<1>5. Counted(w)' /\ Known(w)'
  <2>1. Used(w)' = Used(w)
    BY <1>2, SameSlots
  <2> QED
    BY <1>2, <2>1 DEF Before, Local, Counted, Held, Known
<1>6. Orderly(w)'
  BY <1>1, <1>2 DEF Orderly, Types, Stop, WaitedForAborted, StopFinishes
<1>7. \A v \in Workers : v # w => UNCHANGED Rest(v)
  BY <1>2, <1>3 DEF Rest
<1> QED
  BY <1>4, <1>5, <1>6, <1>7, OneWorkerMoves

LEMMA ClaimHitOK ==
  ASSUME Before, StorageInv, NEW w \in Workers, NEW t \in Stamps, ClaimHit(w, t)
  PROVE  Local'
<1>1. Types /\ Counted(w) /\ Orderly(w) /\ loop[w] = "holding" /\ state[w] = "running"
  BY DEF Before, Local, ClaimHit
<1>2. PICK id \in DOMAIN jobs :
        /\ ClaimNext(t, {}, id)
        /\ claimed' = [claimed EXCEPT ![w] = [job |-> id, start |-> jobs[id].attempts + 1]]
  BY DEF ClaimHit
<1>3. id \in 1 .. nextId - 1 /\ nextId \in 1 .. MaxJobs + 1 /\ jobs[id].attempts \in Nat
  BY DEF StorageInv, TypeOK, Row
<1>4. id \in JobIds /\ id \in 1 .. nextId' - 1 /\ jobs[id].attempts + 1 \in Nat
  BY <1>3, ConstantsAssumption DEF Before, JobIds
<1>5. /\ loop' = [loop EXCEPT ![w] = "claimed"]
      /\ UNCHANGED <<state, stopStep, permits, runs, controllers>>
  BY DEF ClaimHit, lifeVars, runVars
<1>6. Types'
  BY <1>1, <1>2, <1>4, <1>5 DEF Types
<1>7. Counted(w)'
  <2>1. Used(w)' = Used(w)
    BY <1>5, SameSlots
  <2> QED
    BY <1>1, <1>5, <2>1 DEF Counted, Held, Types
<1>8. Known(w)'
  BY <1>1, <1>2, <1>3, <1>4, <1>5, ConstantsAssumption DEF Before, Local, Known, Types
<1>9. Orderly(w)'
  BY <1>1, <1>5 DEF Orderly, Types
<1>10. \A v \in Workers : v # w => UNCHANGED Rest(v)
  BY <1>1, <1>2, <1>5 DEF Rest, Types
<1> QED
  BY <1>6, <1>7, <1>8, <1>9, <1>10, OneWorkerMoves

LEMMA DispatchOK ==
  ASSUME Before, now \in Nat, NEW w \in Workers, NEW s \in Slots, Dispatch(w, s)
  PROVE  Local'
<1> DEFINE run == [NoRun EXCEPT !.phase = "handler", !.job = claimed[w].job,
                                !.start = claimed[w].start, !.aborted = Stopping(w),
                                !.beatAt = now + HeartbeatMs]
<1>1. /\ Types /\ Counted(w) /\ Orderly(w) /\ Known(w)
      /\ loop[w] = "claimed" /\ runs[w][s].phase = "free"
  BY DEF Before, Local, Dispatch
<1>2. claimed[w] \in [job : JobIds \cup {0}, start : Nat] /\ claimed[w].job \in 1 .. nextId - 1
  BY <1>1 DEF Types, Known
<1>3. claimed[w].job \in JobIds /\ claimed[w].job \in 1 .. nextId' - 1
  BY <1>2, ConstantsAssumption DEF Before, JobIds
<1>4. now + HeartbeatMs \in Nat /\ Stopping(w) \in BOOLEAN
  BY WorkerAssumption DEF Stopping
<1>5. run \in Run /\ run.phase = "handler" /\ run.job = claimed[w].job
  <2> HIDE DEF Stopping
  <2> QED
    BY <1>2, <1>4 DEF Run, NoRun
<1>6. /\ runs' = [runs EXCEPT ![w][s] = run]
      /\ controllers' = [controllers EXCEPT ![w][claimed[w].job] = s]
      /\ claimed' = [claimed EXCEPT ![w] = NoClaim]
      /\ loop' = [loop EXCEPT ![w] = "top"]
      /\ UNCHANGED <<state, stopStep, permits>>
  BY DEF Dispatch, lifeVars
<1> HIDE DEF run
<1>7. /\ runs' \in [Workers -> [Slots -> Run]] /\ runs'[w][s] = run
      /\ \A v \in Workers : \A r \in Slots : (v # w \/ r # s) => runs'[v][r] = runs[v][r]
  BY <1>1, <1>5, <1>6, RunChanges
<1>8. Types'
  <2>1. controllers' \in [Workers -> [JobIds -> Slots \cup {0}]]
    BY <1>1, <1>3, <1>6 DEF Types
  <2>2. claimed' \in [Workers -> [job : JobIds \cup {0}, start : Nat]]
    BY <1>1, <1>6 DEF Types, NoClaim
  <2> QED
    BY <1>1, <1>6, <1>7, <2>1, <2>2 DEF Types
<1>9. Counted(w)'
  <2>1. Used(w)' = Used(w) + 1 /\ Used(w) \in Nat
    BY <1>1, <1>5, <1>7, SlotTaken, UsedIsNat
  <2>2. /\ Held(w) = 1 /\ Held(w)' = 0 /\ permits'[w] = permits[w] /\ permits[w] \in Nat
        /\ loop'[w] = "top"
    BY <1>1, <1>6 DEF Held, Types
  <2>3. permits[w] + (Used(w) + 1) + 0 = permits[w] + Used(w) + 1
    BY <2>1, <2>2
  <2> QED
    BY <1>1, <2>1, <2>2, <2>3 DEF Counted
<1>10. Known(w)'
  <2>1. \A r \in Slots : runs'[w][r].phase # "free" => runs'[w][r].job \in 1 .. nextId' - 1
    BY <1>1, <1>3, <1>5, <1>7, ConstantsAssumption DEF Known, Before
  <2>2. loop'[w] = "top"
    BY <1>1, <1>6 DEF Types
  <2> QED
    BY <2>1, <2>2 DEF Known
<1>11. Orderly(w)'
  BY <1>1, <1>6 DEF Orderly, Types
<1>12. \A v \in Workers : v # w => UNCHANGED Rest(v)
  BY <1>1, <1>6 DEF Rest, Types
<1> QED
  BY <1>8, <1>9, <1>10, <1>11, <1>12, OneWorkerMoves

LEMMA FinallyOK ==
  ASSUME Before, NEW w \in Workers, NEW s \in Slots, Finally(w, s)
  PROVE  Local'
<1>1. /\ Types /\ Counted(w) /\ Orderly(w) /\ Known(w)
      /\ runs[w][s].phase # "free" /\ permits[w] \in Nat
  BY DEF Before, Local, Finally, Settled, Reported, Types
<1>2. NoRun \in Run /\ NoRun.phase = "free"
  BY DEF NoRun, Run
<1>3. /\ runs' = [runs EXCEPT ![w][s] = NoRun]
      /\ controllers' = [controllers EXCEPT ![w][runs[w][s].job] = 0]
      /\ UNCHANGED <<state, stopStep, claimed>>
  BY DEF Finally, lifeVars
<1>4. /\ runs' \in [Workers -> [Slots -> Run]] /\ runs'[w][s] = NoRun
      /\ \A v \in Workers : \A r \in Slots : (v # w \/ r # s) => runs'[v][r] = runs[v][r]
  <2>1. Types /\ runs' = [runs EXCEPT ![w][s] = NoRun] /\ NoRun \in Run
    BY <1>1, <1>2, <1>3
  <2> HIDE DEF Types
  <2> QED
    BY <2>1, RunChanges
<1>5. Used(w)' = Used(w) - 1 /\ Used(w) \in Nat
  BY <1>1, <1>2, <1>4, SlotFreed, UsedIsNat
<1>6. /\ loop' \in [Workers -> {"off", "top", "queued", "holding", "claimed", "resting"}]
      /\ permits' \in [Workers -> Nat]
      /\ Counted(w)'
      /\ loop'[w] = "claimed" => loop[w] = "claimed"
      /\ loop[w] = "off" => loop'[w] = "off"
      /\ \A v \in Workers : v # w => loop'[v] = loop[v] /\ permits'[v] = permits[v]
  <2>1. CASE loop[w] = "queued"
    <3>1. loop' = [loop EXCEPT ![w] = "holding"] /\ permits' = permits
      BY <2>1 DEF Finally
    <3>2. Held(w) = 0 /\ Held(w)' = 1 /\ loop'[w] = "holding"
      BY <1>1, <2>1, <3>1 DEF Held, Types
    <3>3. permits[w] + (Used(w) - 1) + 1 = permits[w] + Used(w) + 0
      BY <1>1, <1>5
    <3>4. Counted(w)'
      BY <1>1, <1>5, <3>1, <3>2, <3>3 DEF Counted
    <3> QED
      BY <1>1, <2>1, <3>1, <3>4 DEF Types
  <2>2. CASE loop[w] # "queued"
    <3>1. permits' = [permits EXCEPT ![w] = permits[w] + 1] /\ loop' = loop
      BY <2>2 DEF Finally
    <3>2. Held(w)' = Held(w) /\ Held(w) \in Nat /\ permits'[w] = permits[w] + 1
      BY <1>1, <3>1 DEF Held, Types
    <3>3. (permits[w] + 1) + (Used(w) - 1) + Held(w) = permits[w] + Used(w) + Held(w)
      BY <1>1, <1>5, <3>2
    <3>4. Counted(w)'
      BY <1>1, <1>5, <2>2, <3>1, <3>2, <3>3 DEF Counted
    <3> QED
      BY <1>1, <3>1, <3>4 DEF Types
  <2> QED
    BY <2>1, <2>2
<1>7. controllers' \in [Workers -> [JobIds -> Slots \cup {0}]]
  <2>1. [controllers[w] EXCEPT ![runs[w][s].job] = 0] \in [JobIds -> Slots \cup {0}]
    BY <1>1 DEF Types
  <2> QED
    BY <1>1, <1>3, <2>1 DEF Types
<1>8. Types'
  BY <1>1, <1>3, <1>4, <1>6, <1>7 DEF Types
<1>9. Known(w)'
  BY <1>1, <1>2, <1>3, <1>4, <1>6, ConstantsAssumption DEF Known, Before
<1>10. Orderly(w)'
  BY <1>1, <1>3, <1>6 DEF Orderly
<1>11. \A v \in Workers : v # w => UNCHANGED Rest(v)
  BY <1>1, <1>3, <1>6 DEF Rest, Types
<1> QED
  BY <1>6, <1>8, <1>9, <1>10, <1>11, OneWorkerMoves

LEMMA AbortLeftoversOK ==
  ASSUME Before, NEW w \in Workers, AbortLeftovers(w)
  PROVE  Local'
<1>1. /\ Types /\ Counted(w) /\ Orderly(w) /\ Known(w) /\ stopStep[w] = "draining"
  BY DEF Before, Local, AbortLeftovers
<1> DEFINE known(s) == \E id \in JobIds : controllers[w][id] = s
           left == [s \in Slots |-> IF known(s) THEN [runs[w][s] EXCEPT !.aborted = TRUE]
                                    ELSE runs[w][s]]
<1>2. /\ runs' = [runs EXCEPT ![w] = left]
      /\ stopStep' = [stopStep EXCEPT ![w] = "settling"]
      /\ UNCHANGED <<state, loop, claimed, permits, controllers>>
  BY DEF AbortLeftovers, loopVars
<1>3. ASSUME NEW s \in Slots
      PROVE  left[s] \in Run /\ left[s].phase = runs[w][s].phase /\ left[s].job = runs[w][s].job
  <2>1. runs[w][s] \in Run
    BY <1>1 DEF Types
  <2> HIDE DEF known
  <2> QED
    BY <2>1 DEF Run
<1>4. left \in [Slots -> Run]
  BY <1>3
<1> HIDE DEF left
<1>5. /\ runs' \in [Workers -> [Slots -> Run]] /\ runs'[w] = left
      /\ \A v \in Workers : v # w => runs'[v] = runs[v]
  BY <1>1, <1>2, <1>4 DEF Types
<1>6. Types'
  BY <1>1, <1>2, <1>5 DEF Types
<1>7. Counted(w)'
  <2>1. Used(w)' = Used(w)
    BY <1>3, <1>5, SameSlots
  <2> QED
    BY <1>1, <1>2, <2>1 DEF Counted, Held
<1>8. Known(w)'
  BY <1>1, <1>2, <1>3, <1>5, ConstantsAssumption DEF Known, Before
<1>9. Orderly(w)'
  BY <1>1, <1>2 DEF Orderly
<1>10. \A v \in Workers : v # w => UNCHANGED Rest(v)
  BY <1>1, <1>2, <1>5 DEF Rest, Types
<1> QED
  BY <1>6, <1>7, <1>8, <1>9, <1>10, OneWorkerMoves

LEMMA CrashOK ==
  ASSUME Before, NEW w \in Workers, Crash(w)
  PROVE  Local'
<1>1. Types
  BY DEF Before, Local
<1>2. /\ state' = [state EXCEPT ![w] = "crashed"]
      /\ stopStep' = [stopStep EXCEPT ![w] = "none"]
      /\ loop' = [loop EXCEPT ![w] = "off"]
      /\ claimed' = [claimed EXCEPT ![w] = NoClaim]
      /\ permits' = [permits EXCEPT ![w] = Concurrency]
      /\ runs' = [runs EXCEPT ![w] = [s \in Slots |-> NoRun]]
      /\ controllers' = [controllers EXCEPT ![w] = [id \in JobIds |-> 0]]
  BY DEF Crash
<1>3. NoRun \in Run /\ NoRun.phase = "free"
  BY DEF NoRun, Run
<1>4. Types'
  BY <1>1, <1>2, <1>3, WorkerAssumption DEF Types, NoClaim
<1>5. InFlight(w)' = {}
  BY <1>1, <1>2, <1>3 DEF InFlight, Types
<1>6. Counted(w)'
  <2>1. Used(w)' = 0
    BY <1>5, FS_EmptySet DEF Used
  <2>2. permits'[w] = Concurrency /\ Held(w)' = 0 /\ loop'[w] = "off"
    BY <1>1, <1>2 DEF Held, Types
  <2> QED
    BY <2>1, <2>2, WorkerAssumption DEF Counted
<1>7. Known(w)' /\ Orderly(w)'
  BY <1>1, <1>2, <1>3 DEF Known, Orderly, Types
<1>8. \A v \in Workers : v # w => UNCHANGED Rest(v)
  BY <1>1, <1>2 DEF Rest, Types
<1> QED
  BY <1>4, <1>6, <1>7, <1>8, OneWorkerMoves

-----------------------------------------------------------------------------
(* The invariant                                                           *)

LEMMA WorkerInitOK == WorkerInit => WorkerInv
<1> SUFFICES ASSUME WorkerInit PROVE WorkerInv
  OBVIOUS
<1>1. StorageInv
  BY InitOK DEF WorkerInit
<1>2. NoRun \in Run /\ NoRun.phase = "free"
  BY DEF NoRun, Run
<1>3. Types
  BY <1>2, WorkerAssumption DEF WorkerInit, Types, NoClaim
<1>4. ASSUME NEW w \in Workers PROVE Counted(w) /\ Known(w) /\ Orderly(w)
  <2>1. InFlight(w) = {}
    BY <1>2, <1>4 DEF InFlight, WorkerInit
  <2>2. Used(w) = 0
    BY <2>1, FS_EmptySet DEF Used
  <2> QED
    BY <1>2, <1>4, <2>2, WorkerAssumption DEF Counted, Held, Known, Orderly, WorkerInit
<1> QED
  BY <1>1, <1>3, <1>4 DEF WorkerInv, Local

LEMMA WorkerNextOK ==
  ASSUME WorkerInv, [WorkerNext]_vars
  PROVE  WorkerInv'
<1>1. [Next]_storageVars
  BY StorageStep
<1>2. StorageInv'
  BY <1>1, NextOK DEF WorkerInv
<1>3. Before /\ StorageInv /\ now \in Nat
  <2>1. nextId' >= nextId
    BY <1>1, IdsGrow DEF WorkerInv
  <2> QED
    BY <1>2, <2>1 DEF WorkerInv, Before, StorageInv, TypeOK
<1>4. ASSUME Clock \/ (\E t \in Stamps : Others(t)) \/ UNCHANGED vars PROVE Local'
  BY <1>3, <1>4, NothingMoves DEF Clock, Others, vars
<1>5. ASSUME NEW t \in Stamps, NEW w \in Workers, LoopStep(w, t) PROVE Local'
  BY <1>3, <1>5, LoopStepOK, ClaimHitOK, DispatchOK DEF LoopStep
<1>6. ASSUME NEW t \in Stamps, NEW w \in Workers, NEW s \in Slots,
             RunEnds(w, s, t) \/ AbortSettles(w, s, t) \/ Beat(w, s, t)
      PROVE  Local'
  BY <1>3, <1>6, RunEndsOK, BeatOK
<1>7. ASSUME NEW w \in Workers, Start(w) \/ Stop(w) \/ StopStep(w) \/ Crash(w) PROVE Local'
  BY <1>3, <1>7, LoopStepOK, StopOK, AbortLeftoversOK, CrashOK DEF StopStep
<1>8. ASSUME NEW w \in Workers, NEW s \in Slots, Finally(w, s) \/ TimeoutFires(w, s)
      PROVE  Local'
  BY <1>3, <1>8, FinallyOK, TimeoutOK
<1>9. Local'
  BY <1>4, <1>5, <1>6, <1>7, <1>8 DEF WorkerNext
<1> QED
  BY <1>2, <1>9 DEF WorkerInv

LEMMA WorkerInvariant == WorkerSpec => []WorkerInv
<1>1. WorkerInit => WorkerInv
  BY WorkerInitOK
<1>2. WorkerInv /\ [WorkerNext]_vars => WorkerInv'
  BY WorkerNextOK
<1> QED
  BY <1>1, <1>2, PTL DEF WorkerSpec

(* The worker is well typed, in particular there are never more permits    *)
(* than the concurrency.                                                   *)
THEOREM WorkerTypeCorrect == WorkerSpec => []WorkerTypeOK
<1>1. WorkerInv => WorkerTypeOK
  <2> SUFFICES ASSUME WorkerInv PROVE WorkerTypeOK
    OBVIOUS
  <2>1. Types /\ TypeOK
    BY DEF WorkerInv, Local, StorageInv
  <2>2. ASSUME NEW w \in Workers PROVE permits[w] \in 0 .. Concurrency
    <3>1. permits[w] \in Nat /\ Used(w) \in Nat /\ Held(w) \in Nat
      BY <2>1, UsedIsNat DEF Types, Held
    <3>2. permits[w] + Used(w) + Held(w) = Concurrency
      BY DEF WorkerInv, Local, Counted
    <3> QED
      BY <3>1, <3>2, WorkerAssumption
  <2> QED
    BY <2>1, <2>2 DEF Types, WorkerTypeOK
<1> QED
  BY <1>1, WorkerInvariant, PTL

(* No path of the loop or of a run loses a permit or gives one back twice, *)
(* whatever fails and whenever stop() comes.                               *)
THEOREM PermitsAreConserved == WorkerSpec => []PermitsConserved
<1>1. WorkerInv => PermitsConserved
  BY DEF WorkerInv, Local, Counted, Used, Held, PermitsConserved
<1> QED
  BY <1>1, WorkerInvariant, PTL

(* The table under the workers is the table of Storage: whatever workers   *)
(* do, they make calls that Storage allows, so its invariants hold.        *)
THEOREM WorkersImplementStorage == WorkerSpec => Spec
<1>1. WorkerInit => Init
  BY DEF WorkerInit
<1>2. WorkerInv /\ [WorkerNext]_vars => [Next]_storageVars
  BY StorageStep
<1> QED
  BY <1>1, <1>2, WorkerInvariant, PTL DEF WorkerSpec, Spec

-----------------------------------------------------------------------------
(* No row is orphaned                                                      *)

Owned(id) ==
  \/ WritesFail
  \/ \E w \in Workers : HoldsJob(w, id) \/ state[w] = "crashed"

(* Only a claim makes a row active.                                        *)
LEMMA OnlyClaimActivates ==
  ASSUME StorageInv, NEW id,
         \/ \E t \in Stamps : ClientCall(t) \/ MaintenanceCall(t)
         \/ Tick
         \/ UNCHANGED storageVars,
         Holds(id, "active")'
  PROVE  Holds(id, "active")
<1>1. ASSUME NEW t, ClientCall(t) PROVE Holds(id, "active")
  <2>1. CASE \E i \in 1 .. nextId - 1 : Cancel(t, i)
    BY <2>1 DEF Cancel, Holds, Waiting, StorageInv, TypeOK, Row
  <2>2. CASE \E queue \in Queues, priority \in Priorities, key \in DedupKeys \cup {NoKey},
                limit \in AttemptLimits, backoff \in Backoffs, runAt \in CallerTimes(t) :
               Enqueue(t, queue, priority, key, limit, backoff, runAt)
    BY <2>2 DEF Enqueue, Holds, NewRow
  <2> QED
    BY <1>1, <2>1, <2>2 DEF ClientCall
<1>2. ASSUME NEW t, MaintenanceCall(t) PROVE Holds(id, "active")
  <2>1. CASE PromoteDelayed(t)
    BY <2>1 DEF PromoteDelayed, Holds, StorageInv, TypeOK, Row
  <2>2. CASE ReclaimStale(t)
    BY <2>2 DEF ReclaimStale, Reclaimed, Stale, Holds, StorageInv, TypeOK, Row
  <2>3. CASE Cleanup(t)
    BY <2>3 DEF Cleanup, Holds
  <2> QED
    BY <1>2, <2>1, <2>2, <2>3 DEF MaintenanceCall
<1>3. CASE Tick \/ UNCHANGED storageVars
  BY <1>3 DEF Tick, storageVars, Holds
<1> QED
  BY <1>1, <1>2, <1>3

(* The end of a run takes its row out of "active" and touches no other.    *)
LEMMA EndDeactivates ==
  ASSUME StorageInv, NEW t, NEW job, NEW id, Holds(id, "active")',
         \/ Complete(t, job) \/ Release(t, job)
         \/ \E error : MoveToDead(t, job, error)
         \/ \E error : Fail(t, job, error, TRUE, Null)
  PROVE  id # job /\ Holds(id, "active")
<1>1. ASSUME NEW row, WriteActive(job, row), row.status # "active"
      PROVE  id # job /\ Holds(id, "active")
  BY <1>1 DEF WriteActive, Holds
<1>2. ASSUME Holds(job, "active") PROVE jobs[job] \in Row
  BY <1>2 DEF Holds, StorageInv, TypeOK
<1>3. CASE ~Holds(job, "active")
  <2>1. jobs' = jobs
    BY <1>3 DEF Complete, Release, MoveToDead, Fail, WriteActive, storageVars
  <2> QED
    BY <1>3, <2>1 DEF Holds
<1>4. CASE Holds(job, "active")
  <2>1. ASSUME NEW error, MoveToDead(t, job, error) PROVE id # job /\ Holds(id, "active")
    BY <1>1, <1>2, <1>4, <2>1 DEF MoveToDead, Row
  <2>2. ASSUME NEW error, NEW runAt, Reschedule(t, job, error, runAt)
        PROVE  id # job /\ Holds(id, "active")
    BY <1>1, <1>2, <1>4, <2>2 DEF Reschedule, Row
  <2>3. ASSUME NEW error, Fail(t, job, error, TRUE, Null) PROVE id # job /\ Holds(id, "active")
    BY <1>4, <2>1, <2>2, <2>3 DEF Fail
  <2>4. CASE Complete(t, job)
    BY <1>1, <1>2, <1>4, <2>4 DEF Complete, Row
  <2>5. CASE Release(t, job)
    BY <1>1, <1>2, <1>4, <2>5 DEF Release, Row
  <2> QED
    BY <2>1, <2>3, <2>4, <2>5
<1> QED
  BY <1>3, <1>4

(* A row that was active and is let go by nobody stays owned.              *)
LEMMA StaysOwned ==
  ASSUME NEW id, Owned(id),
         \A v \in Workers : /\ HoldsJob(v, id) => HoldsJob(v, id)'
                            /\ state[v] = "crashed" => state'[v] = "crashed"
  PROVE  Owned(id)'
BY DEF Owned

LEMMA OrphansAreNotMade ==
  ASSUME WorkerInv, NoOrphanRow, [WorkerNext]_vars
  PROVE  NoOrphanRow'
<1> SUFFICES ASSUME NEW id \in DOMAIN jobs', jobs'[id].status = "active", ~WritesFail
             PROVE  Owned(id)'
  BY DEF NoOrphanRow, Owned
<1>1. Types /\ StorageInv /\ Holds(id, "active")'
  BY DEF WorkerInv, Local, Holds
<1>2. Holds(id, "active") => Owned(id)
  BY DEF NoOrphanRow, Owned, Holds
<1>3. CASE UNCHANGED vars \/ Clock \/ \E t \in Stamps : Others(t)
  <2>1. Owned(id)
    BY <1>1, <1>2, <1>3, OnlyClaimActivates DEF vars, Clock, Others
  <2>2. UNCHANGED workerVars
    BY <1>3 DEF vars, Clock, Others
  <2> QED
    BY <2>1, <2>2, StaysOwned DEF HoldsJob, Live, workerVars, lifeVars, loopVars, runVars
<1>4. ASSUME NEW w \in Workers, NEW t \in Stamps,
             \/ AcquirePermit(w) \/ LeaveLoop(w) \/ ClaimMiss(w, t) \/ Wake(w)
             \/ Start(w) \/ Stop(w) \/ WaitedForAborted(w) \/ StopFinishes(w)
      PROVE  Owned(id)'
  <2>1. UNCHANGED storageVars /\ UNCHANGED <<claimed, runs>>
    BY <1>4 DEF AcquirePermit, LeaveLoop, ClaimMiss, Wake, Start, Stop, WaitedForAborted,
                StopFinishes, runVars, loopVars
  <2>2. Owned(id)
    BY <1>1, <1>2, <2>1, OnlyClaimActivates
  <2>3. \A v \in Workers : loop[v] = "claimed" => loop'[v] = "claimed"
    <3>1. Orderly(w)
      BY DEF WorkerInv, Local
    <3> QED
      BY <1>1, <1>4, <3>1 DEF AcquirePermit, LeaveLoop, ClaimMiss, Wake, Start, Stop,
                WaitedForAborted, StopFinishes, Types, loopVars, Orderly
  <2>4. \A v \in Workers : state[v] = "crashed" => state'[v] = "crashed"
    <3>1. Orderly(w)
      BY DEF WorkerInv, Local
    <3> QED
      BY <1>1, <1>4, <3>1 DEF AcquirePermit, LeaveLoop, ClaimMiss, Wake, Start, Stop,
                WaitedForAborted, StopFinishes, Types, lifeVars, Orderly
  <2> QED
    BY <2>1, <2>2, <2>3, <2>4, StaysOwned DEF HoldsJob, Live
<1>5. ASSUME NEW w \in Workers, NEW s \in Slots, Finally(w, s) \/ TimeoutFires(w, s)
      PROVE  Owned(id)'
  <2>1. /\ UNCHANGED storageVars /\ UNCHANGED <<state, claimed>>
        /\ \A v \in Workers : loop[v] = "claimed" => loop'[v] = "claimed"
    BY <1>1, <1>5 DEF Finally, TimeoutFires, loopVars, lifeVars, Types
  <2>2. \A v \in Workers : \A r \in Slots :
          Live(v, r) => Live(v, r)' /\ runs'[v][r].job = runs[v][r].job
    <3>1. CASE Finally(w, s)
      <4>1. runs' = [runs EXCEPT ![w][s] = NoRun] /\ ~Live(w, s)
        BY <3>1 DEF Finally, Live, Settled, Reported
      <4> QED
        BY <1>1, <4>1 DEF Live, Types
    <3>2. CASE TimeoutFires(w, s)
      <4> DEFINE run == [runs[w][s] EXCEPT !.timedOut = TRUE, !.aborted = TRUE]
      <4>1. runs' = [runs EXCEPT ![w][s] = run]
        BY <1>1, <3>2 DEF TimeoutFires, Types
      <4>2. runs[w][s] \in Run
        BY <1>1 DEF Types
      <4>3. run \in Run /\ run.phase = runs[w][s].phase /\ run.job = runs[w][s].job
        BY <4>2 DEF Run
      <4> HIDE DEF run
      <4> QED
        BY <1>1, <4>1, <4>3 DEF Live, Types
    <3> QED
      BY <1>5, <3>1, <3>2
  <2>3. Owned(id)
    BY <1>1, <1>2, <2>1, OnlyClaimActivates
  <2> QED
    BY <2>1, <2>2, <2>3, StaysOwned DEF HoldsJob
<1>6. ASSUME NEW w \in Workers, AbortLeftovers(w) PROVE Owned(id)'
  <2>1. UNCHANGED storageVars /\ UNCHANGED <<state, loop, claimed>>
    BY <1>6 DEF AbortLeftovers, loopVars
  <2>2. \A v \in Workers : \A r \in Slots :
          Live(v, r) => Live(v, r)' /\ runs'[v][r].job = runs[v][r].job
    BY <1>1, <1>6 DEF AbortLeftovers, Types, Live, Run
  <2>3. Owned(id)
    BY <1>1, <1>2, <2>1, OnlyClaimActivates
  <2> QED
    BY <2>1, <2>2, <2>3, StaysOwned DEF HoldsJob
<1>7. ASSUME NEW w \in Workers, Crash(w) PROVE Owned(id)'
  <2>1. state'[w] = "crashed"
    BY <1>1, <1>7 DEF Crash, Types
  <2> QED
    BY <2>1 DEF Owned
<1>8. ASSUME NEW w \in Workers, NEW t \in Stamps, ClaimHit(w, t) PROVE Owned(id)'
  <2>1. PICK j \in DOMAIN jobs :
          /\ ClaimNext(t, {}, j)
          /\ claimed' = [claimed EXCEPT ![w] = [job |-> j, start |-> jobs[j].attempts + 1]]
    BY <1>8 DEF ClaimHit
  <2>2. /\ loop' = [loop EXCEPT ![w] = "claimed"] /\ loop[w] = "holding"
        /\ UNCHANGED <<state, runs>>
    BY <1>8 DEF ClaimHit, lifeVars, runVars
  <2>3. CASE id = j
    <3>1. loop'[w] = "claimed" /\ claimed'[w].job = id
      BY <1>1, <2>1, <2>2, <2>3 DEF Types
    <3> QED
      BY <3>1 DEF Owned, HoldsJob
  <2>4. CASE id # j
    <3>1. Holds(id, "active")
      BY <1>1, <2>1, <2>4 DEF ClaimNext, Holds
    <3>2. \A v \in Workers : HoldsJob(v, id) => HoldsJob(v, id)'
      BY <1>1, <2>1, <2>2 DEF HoldsJob, Live, Types
    <3> QED
      BY <1>2, <2>2, <3>1, <3>2, StaysOwned
  <2> QED
    BY <2>3, <2>4
<1>9. ASSUME NEW w \in Workers, NEW s \in Slots, Dispatch(w, s) PROVE Owned(id)'
  <2>1. UNCHANGED storageVars /\ UNCHANGED state /\ runs[w][s].phase = "free"
    BY <1>9 DEF Dispatch, lifeVars
  <2>2. Owned(id)
    BY <1>1, <1>2, <2>1, OnlyClaimActivates
  <2> DEFINE run == [NoRun EXCEPT !.phase = "handler", !.job = claimed[w].job,
                                  !.start = claimed[w].start, !.aborted = Stopping(w),
                                  !.beatAt = now + HeartbeatMs]
  <2>3. /\ runs' = [runs EXCEPT ![w][s] = run]
        /\ claimed' = [claimed EXCEPT ![w] = NoClaim]
        /\ loop' = [loop EXCEPT ![w] = "top"]
    BY <1>9 DEF Dispatch
  <2>4. run.phase = "handler" /\ run.job = claimed[w].job
    BY DEF NoRun
  <2> HIDE DEF run
  <2>5. /\ Live(w, s)' /\ runs'[w][s].job = claimed[w].job
        /\ \A v \in Workers : \A r \in Slots :
             Live(v, r) => Live(v, r)' /\ runs'[v][r].job = runs[v][r].job
        /\ \A v \in Workers : v # w => loop'[v] = loop[v] /\ claimed'[v] = claimed[v]
    BY <1>1, <2>1, <2>3, <2>4 DEF Live, Types
  <2>6. \A v \in Workers : HoldsJob(v, id) => HoldsJob(v, id)'
    BY <2>5 DEF HoldsJob
  <2> QED
    BY <2>1, <2>2, <2>6, StaysOwned
<1>10. ASSUME NEW w \in Workers, NEW s \in Slots, NEW t \in Stamps,
              RunEnds(w, s, t) \/ AbortSettles(w, s, t)
       PROVE  Owned(id)'
  <2> DEFINE job == runs[w][s].job
  <2>1. PICK phase \in Settled : Settle(w, s, phase)
    BY <1>10, Zenon DEF RunEnds, HandlerReturns, HandlerThrows, AbortSettles, CallThrows, FailRun,
                        KillRun, ReleaseRun, Settled, Reported
  <2>2. \/ Complete(t, job) \/ Release(t, job)
        \/ \E error : MoveToDead(t, job, error)
        \/ \E error : Fail(t, job, error, TRUE, Null)
    BY <1>10, Zenon DEF RunEnds, HandlerReturns, HandlerThrows, AbortSettles, CallThrows, FailRun,
                        KillRun, ReleaseRun
  <2> HIDE DEF job
  <2>3. id # job /\ Holds(id, "active")
    BY <1>1, <2>2, EndDeactivates
  <2> USE DEF job
  <2>4. UNCHANGED <<state, loop, claimed>>
    BY <2>1 DEF Settle, lifeVars, loopVars
  <2>5. \A v \in Workers : \A r \in Slots : (v # w \/ r # s) => runs'[v][r] = runs[v][r]
    BY <1>1, <2>1 DEF Settle, Types
  <2>6. \A v \in Workers : HoldsJob(v, id) => HoldsJob(v, id)'
    BY <2>3, <2>4, <2>5 DEF HoldsJob, Live
  <2> QED
    BY <1>2, <2>3, <2>4, <2>6, StaysOwned
<1>11. ASSUME NEW w \in Workers, NEW s \in Slots, NEW t \in Stamps, Beat(w, s, t)
       PROVE  Owned(id)'
  <2>1. Holds(id, "active")
    <3>1. Heartbeat(t, runs[w][s].job)
      BY <1>11 DEF Beat, Beaten, BeatThrows
    <3> QED
      BY <1>1, <3>1 DEF Heartbeat, WriteActive, Holds, StorageInv, TypeOK, Row
  <2>2. UNCHANGED <<state, loop, claimed>>
    BY <1>11 DEF Beat, lifeVars, loopVars
  <2>3. \A v \in Workers : \A r \in Slots :
          Live(v, r) => Live(v, r)' /\ runs'[v][r].job = runs[v][r].job
    <3>1. runs' = [runs EXCEPT ![w][s].cancelSeen = @ \/ CancelSeen(runs[w][s].job),
                               ![w][s].aborted = @ \/ CancelSeen(runs[w][s].job),
                               ![w][s].beatAt = IF now >= @ THEN now + HeartbeatMs ELSE @]
      BY <1>11, Zenon DEF Beat, Beaten, BeatThrows
    <3> QED
      BY <1>1, <3>1 DEF Live, Types, Run
  <2> QED
    BY <1>2, <2>1, <2>2, <2>3, StaysOwned DEF HoldsJob
<1>12. Stamps # {}
  BY <1>1, ConstantsAssumption DEF Stamps, StorageInv, TypeOK
<1> QED
  BY <1>3, <1>4, <1>5, <1>6, <1>7, <1>8, <1>9, <1>10, <1>11, <1>12
  DEF WorkerNext, LoopStep, StopStep

(* As long as storage calls do not throw and no process dies, whatever     *)
(* order stop(), timeouts, cancels and the loops take: every active row is *)
(* in the hands of a worker.                                               *)
THEOREM NoRowIsOrphaned == WorkerSpec => []NoOrphanRow
<1>1. WorkerInit => NoOrphanRow
  BY DEF WorkerInit, Init, NoOrphanRow
<1>2. WorkerInv /\ NoOrphanRow /\ [WorkerNext]_vars => NoOrphanRow'
  BY OrphansAreNotMade
<1> QED
  BY <1>1, <1>2, WorkerInvariant, PTL DEF WorkerSpec
=============================================================================
