------------------------------- MODULE Worker -------------------------------
(***************************************************************************)
(* WorkerRuntime: processes that share one jobs table.  Each has a claim   *)
(* loop, a semaphore of Concurrency permits, its runs in progress, the     *)
(* #jobControllers map and the steps of stop().                            *)
(*                                                                         *)
(* The storage is synchronous, so a storage call happens inside the step   *)
(* that makes it; the code after each await is a step of its own.  A       *)
(* process runs the continuations it has queued (Microtasks) before it     *)
(* looks at timers; among themselves they are taken in any order.          *)
(***************************************************************************)
EXTENDS Storage

CONSTANTS
  Workers,       \* the worker processes
  Concurrency,   \* options.concurrency
  HeartbeatMs,   \* options.heartbeatIntervalMs
  JobTimeouts,   \* whether a job timeout is configured
  WritesFail,    \* whether a storage call may throw (SQLITE_BUSY, disk full)
  MayStall,      \* processes whose event loop may block past its timers
  MayCrash,      \* processes that may die
  MaxCrashTime   \* bound: no process dies later than this

ASSUME WorkerAssumption ==
  /\ Concurrency \in Nat \ {0}
  /\ HeartbeatMs \in Nat /\ MaxCrashTime \in Nat
  /\ JobTimeouts \in BOOLEAN /\ WritesFail \in BOOLEAN
  /\ MayStall \subseteq Workers /\ MayCrash \subseteq Workers

VARIABLES
  state,        \* #state; "crashed" for a process that died
  stopStep,     \* how far stop() has come
  loop,         \* where #runLoop stands
  claimed,      \* the job that claimNext returned, until it is dispatched
  permits,      \* Semaphore.#available
  runs,         \* the calls of #runJob in progress, one per permit
  controllers   \* #jobControllers: job id -> the run it aborts, 0 for none

lifeVars   == <<state, stopStep>>
loopVars   == <<loop, claimed, permits>>
runVars    == <<runs, controllers>>
workerVars == <<lifeVars, loopVars, runVars>>
vars       == <<storageVars, workerVars>>

JobIds == 1 .. MaxJobs
Slots  == 1 .. Concurrency

(* phase: free, the handler runs, or what #runJob made of its end.  start  *)
(* is Job.attempts in the snapshot that the handler was given.             *)
Reported == {"completed", "failed", "dead"}
Settled  == Reported \cup {"released", "error"}
Run == [phase : {"free", "handler"} \cup Settled, job : JobIds \cup {0}, start : Nat,
        aborted : BOOLEAN, timedOut : BOOLEAN, cancelSeen : BOOLEAN, beatAt : Nat]

NoRun   == [phase |-> "free", job |-> 0, start |-> 0, aborted |-> FALSE,
            timedOut |-> FALSE, cancelSeen |-> FALSE, beatAt |-> 0]
NoClaim == [job |-> 0, start |-> 0]

Live(w, s)     == runs[w][s].phase = "handler"
Stopping(w)    == state[w] \in {"stopping", "stopped"}
Microtasks(w)  ==
  \/ loop[w] \in {"top", "holding", "claimed"}
  \/ \E s \in Slots : runs[w][s].phase \in Settled \/ (Live(w, s) /\ runs[w][s].aborted)

WorkerTypeOK ==
  /\ TypeOK
  /\ state \in [Workers -> {"idle", "running", "stopping", "stopped", "crashed"}]
  /\ stopStep \in [Workers -> {"none", "draining", "settling", "joining"}]
  /\ loop \in [Workers -> {"off", "top", "queued", "holding", "claimed", "resting"}]
  /\ claimed \in [Workers -> [job : JobIds \cup {0}, start : Nat]]
  /\ permits \in [Workers -> 0 .. Concurrency]
  /\ runs \in [Workers -> [Slots -> Run]]
  /\ controllers \in [Workers -> [JobIds -> Slots \cup {0}]]

WorkerInit ==
  /\ Init
  /\ state = [w \in Workers |-> "idle"]
  /\ stopStep = [w \in Workers |-> "none"]
  /\ loop = [w \in Workers |-> "off"]
  /\ claimed = [w \in Workers |-> NoClaim]
  /\ permits = [w \in Workers |-> Concurrency]
  /\ runs = [w \in Workers |-> [s \in Slots |-> NoRun]]
  /\ controllers = [w \in Workers |-> [id \in JobIds |-> 0]]

-----------------------------------------------------------------------------
(* The claim loop                                                          *)

Start(w) ==
  /\ state[w] \in {"idle", "stopped"}
  /\ state' = [state EXCEPT ![w] = "running"]
  /\ loop' = [loop EXCEPT ![w] = "top"]
  /\ UNCHANGED <<storageVars, stopStep, claimed, permits, runVars>>

AcquirePermit(w) ==
  /\ loop[w] = "top"
  /\ \/ /\ state[w] # "running"
        /\ loop' = [loop EXCEPT ![w] = "off"]
        /\ UNCHANGED permits
     \/ /\ state[w] = "running"
        /\ permits[w] > 0
        /\ permits' = [permits EXCEPT ![w] = @ - 1]
        /\ loop' = [loop EXCEPT ![w] = "holding"]
     \/ /\ state[w] = "running"
        /\ permits[w] = 0
        /\ loop' = [loop EXCEPT ![w] = "queued"]
        /\ UNCHANGED permits
  /\ UNCHANGED <<storageVars, lifeVars, claimed, runVars>>

(* acquire() has resolved: leave if stop() was called meanwhile.           *)
LeaveLoop(w) ==
  /\ loop[w] = "holding"
  /\ state[w] # "running"
  /\ loop' = [loop EXCEPT ![w] = "off"]
  /\ permits' = [permits EXCEPT ![w] = @ + 1]
  /\ UNCHANGED <<storageVars, lifeVars, claimed, runVars>>

ClaimHit(w, t) ==
  /\ loop[w] = "holding"
  /\ state[w] = "running"
  /\ \E id \in DOMAIN jobs :
       /\ ClaimNext(t, {}, id)
       /\ claimed' = [claimed EXCEPT ![w] = [job |-> id, start |-> jobs[id].attempts + 1]]
  /\ loop' = [loop EXCEPT ![w] = "claimed"]
  /\ UNCHANGED <<lifeVars, permits, runVars>>

(* Mutant: the permit is not given back.                                   *)
ClaimMissKeepsPermit(w, t) ==
  /\ loop[w] = "holding" /\ state[w] = "running"
  /\ Runnable(t, {}) = {} \/ WritesFail
  /\ loop' = [loop EXCEPT ![w] = "resting"]
  /\ UNCHANGED <<storageVars, lifeVars, claimed, permits, runVars>>

(* Nothing to claim, or claimNext throws: give the permit back and sleep.  *)
ClaimMiss(w, t) ==
  /\ loop[w] = "holding"
  /\ state[w] = "running"
  /\ Runnable(t, {}) = {} \/ WritesFail
  /\ loop' = [loop EXCEPT ![w] = "resting"]
  /\ permits' = [permits EXCEPT ![w] = @ + 1]
  /\ UNCHANGED <<storageVars, lifeVars, claimed, runVars>>

(* The poll delay is over, or stop() aborts the sleep.                     *)
Wake(w) ==
  /\ loop[w] = "resting"
  /\ loop' = [loop EXCEPT ![w] = "top"]
  /\ UNCHANGED <<storageVars, lifeVars, claimed, permits, runVars>>

(* #runJob up to its first await.  A run that starts while stop() is under *)
(* way is aborted at once.                                                 *)
Dispatch(w, s) ==
  /\ loop[w] = "claimed"
  /\ runs[w][s].phase = "free"
  /\ \A other \in 1 .. s - 1 : runs[w][other].phase # "free"
  /\ runs' = [runs EXCEPT ![w][s] =
       [NoRun EXCEPT !.phase = "handler", !.job = claimed[w].job,
                     !.start = claimed[w].start, !.aborted = Stopping(w),
                     !.beatAt = now + HeartbeatMs]]
  /\ controllers' = [controllers EXCEPT ![w][claimed[w].job] = s]
  /\ claimed' = [claimed EXCEPT ![w] = NoClaim]
  /\ loop' = [loop EXCEPT ![w] = "top"]
  /\ UNCHANGED <<storageVars, lifeVars, permits>>

-----------------------------------------------------------------------------
(* The runs                                                                *)

Settle(w, s, phase) ==
  /\ runs' = [runs EXCEPT ![w][s].phase = phase]
  /\ UNCHANGED <<lifeVars, loopVars, controllers>>

(* The storage call throws; #runJob only emits "error".                    *)
CallThrows(w, s) == WritesFail /\ UNCHANGED storageVars /\ Settle(w, s, "error")

HandlerReturns(w, s, t) ==
  /\ Live(w, s) /\ ~runs[w][s].aborted
  /\ \/ Complete(t, runs[w][s].job) /\ Settle(w, s, "completed")
     \/ CallThrows(w, s)

(* Mutant: job:failed although fail() returned a dead job.                 *)
FailRunUnread(w, s, t) == Fail(t, runs[w][s].job, "failed", TRUE, Null) /\ Settle(w, s, "failed")

(* #handleJobFailure reports what fail() returned, whichever run the row   *)
(* belongs to by then; fail() throws when the row is gone.                 *)
FailRun(w, s, t) ==
  LET id == runs[w][s].job
  IN  /\ Fail(t, id, "failed", TRUE, Null)
      /\ Settle(w, s, IF id \notin DOMAIN jobs THEN "error"
                      ELSE IF jobs'[id].status = "dead" THEN "dead" ELSE "failed")

KillRun(w, s, t, error) == MoveToDead(t, runs[w][s].job, error) /\ Settle(w, s, "dead")

(* Mutant: an aborted run is dropped without release().                    *)
DropRun(w, s, t) == UNCHANGED storageVars /\ Settle(w, s, "released")

(* release() throws when the row is not active.                            *)
ReleaseRun(w, s, t) ==
  LET id == runs[w][s].job
  IN  /\ Release(t, id)
      /\ Settle(w, s, IF Holds(id, "active") THEN "released" ELSE "error")

(* A handler that throws by itself; UnrecoverableError skips the retries.  *)
HandlerThrows(w, s, t) ==
  /\ Live(w, s) /\ ~runs[w][s].aborted
  /\ \/ FailRun(w, s, t)
     \/ KillRun(w, s, t, "failed")
     \/ CallThrows(w, s)

(* #raceHandler rejects on abort, whatever the handler does.  The order of *)
(* the tests is that of #handleJobFailure.                                 *)
AbortSettles(w, s, t) ==
  /\ Live(w, s) /\ runs[w][s].aborted
  /\ \/ IF Stopping(w) /\ ~runs[w][s].timedOut
        THEN ReleaseRun(w, s, t)
        ELSE IF runs[w][s].cancelSeen /\ ~runs[w][s].timedOut
        THEN KillRun(w, s, t, "cancelled")
        ELSE FailRun(w, s, t)
     \/ CallThrows(w, s)

(* Mutants: the permit is handed to the waiting loop and counted as well,  *)
(* or counted although the loop waits for it.                              *)
FinallyGivesTwice(w, s) ==
  /\ runs[w][s].phase \in Settled
  /\ runs' = [runs EXCEPT ![w][s] = NoRun]
  /\ controllers' = [controllers EXCEPT ![w][runs[w][s].job] = 0]
  /\ loop' = [loop EXCEPT ![w] = IF @ = "queued" THEN "holding" ELSE @]
  /\ permits' = [permits EXCEPT ![w] = @ + 1]
  /\ UNCHANGED <<storageVars, lifeVars, claimed>>

FinallyWakesNobody(w, s) ==
  /\ runs[w][s].phase \in Settled
  /\ runs' = [runs EXCEPT ![w][s] = NoRun]
  /\ controllers' = [controllers EXCEPT ![w][runs[w][s].job] = 0]
  /\ permits' = [permits EXCEPT ![w] = @ + 1]
  /\ UNCHANGED <<storageVars, lifeVars, loop, claimed>>

(* The finally block, and the permit goes back: to the loop if it waits.   *)
Finally(w, s) ==
  /\ runs[w][s].phase \in Settled
  /\ runs' = [runs EXCEPT ![w][s] = NoRun]
  /\ controllers' = [controllers EXCEPT ![w][runs[w][s].job] = 0]
  /\ IF loop[w] = "queued"
     THEN loop' = [loop EXCEPT ![w] = "holding"] /\ UNCHANGED permits
     ELSE permits' = [permits EXCEPT ![w] = @ + 1] /\ UNCHANGED loop
  /\ UNCHANGED <<storageVars, lifeVars, claimed>>

TimeoutFires(w, s) ==
  /\ JobTimeouts
  /\ Live(w, s) /\ ~Microtasks(w)
  /\ runs' = [runs EXCEPT ![w][s].timedOut = TRUE, ![w][s].aborted = TRUE]
  /\ UNCHANGED <<storageVars, lifeVars, loopVars, controllers>>

(* #safeHeartbeat when the storage call returns, and when it throws.       *)
Beaten(w, s, t) ==
  LET id == runs[w][s].job
  IN  /\ Heartbeat(t, id)
      /\ runs' = [runs EXCEPT ![w][s].cancelSeen = @ \/ CancelSeen(id),
                              ![w][s].aborted = @ \/ CancelSeen(id),
                              ![w][s].beatAt = IF now >= @ THEN now + HeartbeatMs ELSE @]

BeatThrows(w, s) ==
  /\ WritesFail
  /\ runs' = [runs EXCEPT ![w][s].beatAt = IF now >= @ THEN now + HeartbeatMs ELSE @]
  /\ UNCHANGED storageVars

(* Mutant: what heartbeat() returns is not read.                           *)
BeatUnread(w, s, t) ==
  /\ Live(w, s) /\ ~Microtasks(w)
  /\ Heartbeat(t, runs[w][s].job)
  /\ runs' = [runs EXCEPT ![w][s].beatAt = IF now >= @ THEN now + HeartbeatMs ELSE @]
  /\ UNCHANGED <<lifeVars, loopVars, controllers>>

(* The heartbeat interval, or ctx.touch() from the handler.                *)
Beat(w, s, t) ==
  /\ Live(w, s) /\ ~Microtasks(w)
  /\ Beaten(w, s, t) \/ BeatThrows(w, s)
  /\ UNCHANGED <<lifeVars, loopVars, controllers>>

-----------------------------------------------------------------------------
(* stop(), crashes                                                         *)

Stop(w) ==
  /\ \/ /\ state[w] = "idle"
        /\ state' = [state EXCEPT ![w] = "stopped"]
        /\ UNCHANGED stopStep
     \/ /\ state[w] = "running"
        /\ state' = [state EXCEPT ![w] = "stopping"]
        /\ stopStep' = [stopStep EXCEPT ![w] = "draining"]
  /\ UNCHANGED <<storageVars, loopVars, runVars>>

(* Mutant: stop() does not abort.                                          *)
LeaveLeftovers(w) ==
  /\ stopStep[w] = "draining" /\ loop[w] # "claimed"
  /\ stopStep' = [stopStep EXCEPT ![w] = "settling"]
  /\ UNCHANGED <<storageVars, state, loopVars, runVars>>

(* The runs in flight are done or drainTimeoutMs has passed: abort every   *)
(* run that #jobControllers knows.  A claim that has returned is always    *)
(* dispatched before stop() continues.                                     *)
AbortLeftovers(w) ==
  /\ stopStep[w] = "draining"
  /\ loop[w] # "claimed"
  /\ stopStep' = [stopStep EXCEPT ![w] = "settling"]
  /\ runs' = [runs EXCEPT ![w] =
       [s \in Slots |->
          IF \E id \in JobIds : controllers[w][id] = s
          THEN [@[s] EXCEPT !.aborted = TRUE] ELSE @[s]]]
  /\ UNCHANGED <<storageVars, state, loopVars, controllers>>

(* The second wait: all runs are done, or its timer fires.                 *)
WaitedForAborted(w) ==
  /\ stopStep[w] = "settling"
  /\ \/ \A s \in Slots : runs[w][s].phase = "free"
     \/ ~Microtasks(w)
  /\ stopStep' = [stopStep EXCEPT ![w] = "joining"]
  /\ UNCHANGED <<storageVars, state, loopVars, runVars>>

(* Mutant: stop() does not await the claim loop.                           *)
StopLeavesLoop(w) ==
  /\ stopStep[w] = "joining"
  /\ stopStep' = [stopStep EXCEPT ![w] = "none"]
  /\ state' = [state EXCEPT ![w] = "stopped"]
  /\ UNCHANGED <<storageVars, loopVars, runVars>>

StopFinishes(w) ==
  /\ stopStep[w] = "joining"
  /\ loop[w] = "off"
  /\ stopStep' = [stopStep EXCEPT ![w] = "none"]
  /\ state' = [state EXCEPT ![w] = "stopped"]
  /\ UNCHANGED <<storageVars, loopVars, runVars>>

(* The process dies; only the table survives.                              *)
Crash(w) ==
  /\ w \in MayCrash
  /\ now <= MaxCrashTime
  /\ state[w] \notin {"idle", "crashed"}
  /\ state' = [state EXCEPT ![w] = "crashed"]
  /\ stopStep' = [stopStep EXCEPT ![w] = "none"]
  /\ loop' = [loop EXCEPT ![w] = "off"]
  /\ claimed' = [claimed EXCEPT ![w] = NoClaim]
  /\ permits' = [permits EXCEPT ![w] = Concurrency]
  /\ runs' = [runs EXCEPT ![w] = [s \in Slots |-> NoRun]]
  /\ controllers' = [controllers EXCEPT ![w] = [id \in JobIds |-> 0]]
  /\ UNCHANGED storageVars

-----------------------------------------------------------------------------
(* Time passes for a process that does not stall only when it has nothing  *)
(* queued and no heartbeat due.                                            *)
Clock ==
  /\ \A w \in Workers \ MayStall :
       /\ ~Microtasks(w)
       /\ \A s \in Slots : Live(w, s) => runs[w][s].beatAt > now
  /\ Tick
  /\ UNCHANGED workerVars

(* Clients and the maintenance loops of other processes.                   *)
Others(t) == (ClientCall(t) \/ MaintenanceCall(t)) /\ UNCHANGED workerVars

LoopStep(w, t) ==
  \/ AcquirePermit(w) \/ LeaveLoop(w) \/ ClaimHit(w, t) \/ ClaimMiss(w, t) \/ Wake(w)
  \/ \E s \in Slots : Dispatch(w, s)

RunEnds(w, s, t) == HandlerReturns(w, s, t) \/ HandlerThrows(w, s, t)

StopStep(w) == AbortLeftovers(w) \/ WaitedForAborted(w) \/ StopFinishes(w)

WorkerNext ==
  \/ Clock
  \/ \E t \in Stamps :
       \/ Others(t)
       \/ \E w \in Workers :
            \/ LoopStep(w, t)
            \/ \E s \in Slots : RunEnds(w, s, t) \/ AbortSettles(w, s, t) \/ Beat(w, s, t)
  \/ \E w \in Workers :
       \/ Start(w) \/ Stop(w) \/ StopStep(w) \/ Crash(w)
       \/ \E s \in Slots : Finally(w, s) \/ TimeoutFires(w, s)

WorkerSpec == WorkerInit /\ [][WorkerNext]_vars

(* A process goes on running its continuations and its timers (poll sleep, *)
(* drain timeout, heartbeat interval, however often the loop polls in       *)
(* between); a maintenance loop goes on ticking; time passes however often  *)
(* the workers poll, because every poll sleep takes time.  A handler may    *)
(* hang.  A heartbeat that throws is followed by others that do not.        *)
BeatReturns(w, s) == \E t \in Stamps : Beat(w, s, t) /\ Beaten(w, s, t)

Maintenance ==
  /\ \E t \in Stamps : PromoteDelayed(t) \/ ReclaimStale(t)
  /\ UNCHANGED workerVars

Fairness ==
  /\ SF_vars(Clock)
  /\ WF_vars(Maintenance)
  /\ \A w \in Workers :
       /\ WF_vars(\E t \in Stamps : LoopStep(w, t))
       /\ WF_vars(StopStep(w))
       /\ \A s \in Slots :
            /\ WF_vars(\E t \in Stamps : AbortSettles(w, s, t))
            /\ WF_vars(Finally(w, s))
            /\ SF_vars(BeatReturns(w, s))

FairWorkerSpec == WorkerSpec /\ Fairness

HandlersEnd == \A w \in Workers : \A s \in Slots : WF_vars(\E t \in Stamps : RunEnds(w, s, t))

EndingHandlersSpec == FairWorkerSpec /\ HandlersEnd

-----------------------------------------------------------------------------
(* Properties                                                              *)

InFlight(w) == {s \in Slots : runs[w][s].phase # "free"}

(* Every path of the loop and of #runJob (claim miss, claim error, failing *)
(* storage call, abort) gives back the permit it took exactly once, and    *)
(* the loop waits for a permit only while every permit is taken.           *)
PermitsConserved ==
  \A w \in Workers :
    /\ permits[w] + Cardinality(InFlight(w))
         + (IF loop[w] \in {"holding", "claimed"} THEN 1 ELSE 0) = Concurrency
    /\ loop[w] = "queued" => permits[w] = 0

HoldsJob(w, id) ==
  \/ loop[w] = "claimed" /\ claimed[w].job = id
  \/ \E s \in Slots : Live(w, s) /\ runs[w][s].job = id

(* A live run owns its row: the row is active, and active for this very    *)
(* start.  Heartbeats must keep reclaimStale and every other worker away   *)
(* from it for as long as the handler runs.                                *)
LiveRunOwnsRow ==
  \A w \in Workers : \A s \in Slots :
    Live(w, s) => /\ Holds(runs[w][s].job, "active")
                  /\ jobs[runs[w][s].job].attempts = runs[w][s].start

(* A job never runs twice at the same time, in one worker or in two.       *)
OneRunPerJob ==
  \A v, w \in Workers : \A r, s \in Slots :
    (Live(v, r) /\ Live(w, s) /\ runs[v][r].job = runs[w][s].job) => (v = w /\ r = s)

(* No error path or shutdown forgets a row: an active row is in the hands  *)
(* of a worker, unless a worker died or a storage call failed.             *)
NoOrphanRow ==
  \A id \in DOMAIN jobs :
    jobs[id].status = "active" =>
      \/ WritesFail
      \/ \E w \in Workers : HoldsJob(w, id) \/ state[w] = "crashed"

(* worker/README.md, "Events this module emits at the right moment": the   *)
(* end that a run reports is what the run did to its row, at this start.   *)
TruthfulOutcome ==
  [][\A w \in Workers : \A s \in Slots :
       (Live(w, s) /\ runs'[w][s].phase \in Reported) =>
         LET id  == runs[w][s].job
             end == runs'[w][s].phase
         IN  /\ Holds(id, "active")
             /\ jobs[id].attempts = runs[w][s].start
             /\ jobs'[id].status \in (IF end = "failed" THEN Waiting ELSE {end})]_vars

(* CHANGELOG.md 0.2.0: "complete, moveToDead, and fail only mutate rows    *)
(* that are still active (zombie writers after reclaim cannot complete or  *)
(* resurrect jobs)".  The end of a run whose row was reclaimed leaves the  *)
(* table alone, also when the row has been started again since.            *)
ZombieCannotWrite ==
  [][\A w \in Workers : \A s \in Slots :
       LET id == runs[w][s].job
       IN  (/\ Live(w, s) /\ runs'[w][s].phase \in Settled
            /\ id \in DOMAIN jobs
            /\ ~(Holds(id, "active") /\ jobs[id].attempts = runs[w][s].start))
           => jobs' = jobs]_vars

(* stop(): "abort leftovers".  Once it has, no handler runs on unaborted,  *)
(* not even one that was being claimed or dispatched at that moment.       *)
LeftoversAborted ==
  \A w \in Workers : \A s \in Slots :
    (stopStep[w] \in {"settling", "joining"} /\ Live(w, s)) => runs[w][s].aborted

(* A worker that says it has stopped has nothing in flight and all its     *)
(* permits back, so that it can be started again.                          *)
StoppedIsQuiet ==
  \A w \in Workers :
    state[w] \in {"idle", "stopped"} =>
      /\ InFlight(w) = {} /\ loop[w] = "off" /\ permits[w] = Concurrency

(* CHANGELOG.md 0.2.0: "Active cancel() now aborts ctx.signal via          *)
(* heartbeat".  A job that is cancelled while it runs leaves its worker,    *)
(* even if the handler hangs and nothing but a heartbeat tells the worker.  *)
CancelEndsRun ==
  \A w \in Workers : \A s \in Slots :
    (Live(w, s) /\ CancelSeen(runs[w][s].job)) ~> ~Live(w, s)

(* stop() always finishes, even if every handler hangs: whoever waits for a *)
(* permit or a drain is woken by a run that the abort has ended.           *)
StopTerminates ==
  \A w \in Workers : state[w] = "stopping" ~> state[w] # "stopping"

SettlesDown ==
  /\ \A w \in Workers : \/ <>[](state[w] = "running")
                        \/ <>[](state[w] \in {"idle", "stopped", "crashed"})
  /\ \E w \in Workers : <>[](state[w] = "running")

(* README: "When the process dies, the file is still there."  If workers   *)
(* are not started and stopped forever and one stays up, every job comes   *)
(* to its end, also the job of a process that died with it in hand.        *)
(* This needs handlers that end.                                           *)
EveryJobEnds ==
  SettlesDown =>
    \A id \in JobIds : id \in DOMAIN jobs ~> (id \in DOMAIN jobs => jobs[id].status \in Terminal)
=============================================================================
