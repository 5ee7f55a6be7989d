--------------------------- MODULE OwnershipProofs ---------------------------
(***************************************************************************)
(* Proofs that a running handler owns its row, and that stop() leaves      *)
(* nothing behind, for any number of workers and permits.                  *)
(*                                                                         *)
(* A worker has a job in one of its hands: hand 0 is the claim loop, from  *)
(* claimNext to the dispatch, and every slot of the semaphore is a hand    *)
(* while its handler runs.  Ownership is a lease: the row stays active for *)
(* the start in the hand because the heartbeats written so far are younger *)
(* than the stale timeout, and no job is in two hands.                     *)
(***************************************************************************)
EXTENDS WorkerProofs

(* What the configuration has to promise: no event loop blocks, heartbeats *)
(* do not throw, and an interval is shorter than the stale timeout by the  *)
(* age that a timestamp can have when it is written.                       *)
BeatsInTime == MayStall = {} /\ ~WritesFail /\ HeartbeatMs + MaxLag <= StaleAfterMs

(* Or else nothing runs as long as the stale timeout.                      *)
NothingGoesStale == MaxTime <= StaleAfterMs

RowsAreKept == BeatsInTime \/ NothingGoesStale

(* A retry cannot be claimed in the instant in which it is put back.       *)
RetriesWait ==
  \A backoff \in Backoffs, attempt \in Nat : \A delay \in RetryDelays(backoff, attempt) :
    delay > MaxLag

Hands == {0} \cup Slots

InHand(w, h)  == IF h = 0 THEN loop[w] = "claimed" ELSE Live(w, h)
JobIn(w, h)   == IF h = 0 THEN claimed[w].job ELSE runs[w][h].job
StartIn(w, h) == IF h = 0 THEN claimed[w].start ELSE runs[w][h].start

(* The age that the heartbeat of the row has at most reached.              *)
Since(w, h) ==
  IF h = 0 THEN now - MaxLag ELSE runs[w][h].beatAt - HeartbeatMs - MaxLag

OwnsRow(w, h) ==
  LET id == JobIn(w, h)
  IN  /\ Holds(id, "active")
      /\ jobs[id].attempts = StartIn(w, h)
      /\ BeatsInTime => /\ jobs[id].heartbeatAt >= Since(w, h)
                        /\ Since(w, h) >= now - StaleAfterMs
                        /\ Since(w, h) <= now - MaxLag

Exclusive ==
  \A v, w \in Workers : \A g, h \in Hands :
    (InHand(v, g) /\ InHand(w, h) /\ JobIn(v, g) = JobIn(w, h)) => (v = w /\ g = h)

Ownership ==
  /\ now <= MaxTime
  /\ \A w \in Workers : \A h \in Hands : InHand(w, h) => OwnsRow(w, h)
  /\ Exclusive

(* Nobody can claim the row in this instant, and it is in no hand.         *)
Resting(id) ==
  id \in DOMAIN jobs =>
    \/ jobs[id].status \in Terminal
    \/ jobs[id].status \in Waiting /\ jobs[id].runAt > now
    \/ jobs[id].status = "active" /\ NothingGoesStale

Quiet(id) ==
  /\ id \in 1 .. nextId - 1 /\ Resting(id)
  /\ \A v \in Workers : \A h \in Hands : InHand(v, h) => JobIn(v, h) # id

(* A run that has ended and has not come to its finally block: its job is  *)
(* in no hand of its worker, and will not be before that block.            *)
Over(w, s) ==
  \/ /\ runs[w][s].phase = "released" /\ state[w] = "stopping"
     /\ \A h \in Hands : InHand(w, h) => JobIn(w, h) # runs[w][s].job
  \/ Quiet(runs[w][s].job)

Controlled(w) ==
  \A s \in Slots :
    /\ runs[w][s].phase \in Settled => Over(w, s)
    /\ Live(w, s) => controllers[w][runs[w][s].job] = s

(* How far stop() has come says what is left.                              *)
Draining(w) ==
  /\ stopStep[w] \in {"settling", "joining"} =>
       loop[w] # "claimed" /\ \A s \in Slots : Live(w, s) => runs[w][s].aborted
  /\ stopStep[w] = "joining" \/ state[w] \in {"idle", "stopped"} =>
       \A s \in Slots : runs[w][s].phase = "free"

Tidy == \A w \in Workers : Controlled(w) /\ Draining(w)

-----------------------------------------------------------------------------
(* What a step does to the hands and to the rows in them                   *)

(* No hand takes up a job, and every job stays the one it was.             *)
HandsShrink ==
  \A w \in Workers : \A h \in Hands :
    InHand(w, h)' => /\ InHand(w, h)
                     /\ JobIn(w, h)' = JobIn(w, h) /\ StartIn(w, h)' = StartIn(w, h)

BeatsStay == \A w \in Workers : \A s \in Slots : Live(w, s)' => runs'[w][s].beatAt = runs[w][s].beatAt

RowStays(id) ==
  /\ id \in DOMAIN jobs'
  /\ jobs'[id].status = jobs[id].status
  /\ jobs'[id].attempts = jobs[id].attempts
  /\ jobs'[id].heartbeatAt = jobs[id].heartbeatAt

LEMMA HandsAre ==
  ASSUME NEW h \in Hands
  PROVE  h = 0 \/ (h # 0 /\ h \in Slots)
BY DEF Hands

(* A step that lets go of jobs and leaves the rows of the others alone.    *)
LEMMA HandsLetGo ==
  ASSUME Ownership, now' = now, HandsShrink, BeatsStay,
         \A w \in Workers : \A h \in Hands : InHand(w, h)' => RowStays(JobIn(w, h))
  PROVE  Ownership'
<1>1. ASSUME NEW w \in Workers, NEW h \in Hands, InHand(w, h)' PROVE OwnsRow(w, h)'
  <2>1. OwnsRow(w, h) /\ RowStays(JobIn(w, h))
    BY <1>1 DEF Ownership, HandsShrink
  <2>2. JobIn(w, h)' = JobIn(w, h) /\ StartIn(w, h)' = StartIn(w, h)
    BY <1>1 DEF HandsShrink
  <2>3. Since(w, h)' = Since(w, h)
    BY <1>1, HandsAre DEF Since, BeatsStay, InHand
  <2> QED
    BY <2>1, <2>2, <2>3 DEF OwnsRow, RowStays, Holds
<1>2. Exclusive'
  BY DEF Ownership, Exclusive, HandsShrink
<1> QED
  BY <1>1, <1>2 DEF Ownership

(* Two hands hold two jobs.                                                *)
LEMMA OtherHandsOtherJobs ==
  ASSUME Ownership, NEW v \in Workers, NEW w \in Workers, NEW g \in Hands, NEW h \in Hands,
         InHand(v, g), InHand(w, h), v # w \/ g # h
  PROVE  JobIn(v, g) # JobIn(w, h)
BY DEF Ownership, Exclusive

LEMMA TimesAreNumbers ==
  ASSUME StorageInv, Types, NEW w \in Workers, NEW h \in Hands, NEW t \in Stamps
  PROVE  /\ now \in Nat /\ t \in Nat /\ t <= now /\ t >= now - MaxLag
         /\ Since(w, h) \in Int
<1>1. now \in Nat /\ t \in Nat /\ t <= now /\ t >= now - MaxLag
  BY ConstantsAssumption DEF StorageInv, TypeOK, Stamps
<1>2. h # 0 => runs[w][h].beatAt \in Nat
  BY HandsAre DEF Types, Run
<1> QED
  BY <1>1, <1>2, ConstantsAssumption, WorkerAssumption DEF Since

(* The row in a hand is not stale for any tick.                            *)
LEMMA HeldIsFresh ==
  ASSUME RowsAreKept, StorageInv, Types, now <= MaxTime,
         NEW w \in Workers, NEW h \in Hands, OwnsRow(w, h), NEW t \in Stamps
  PROVE  ~Stale(t, JobIn(w, h))
<1> DEFINE id == JobIn(w, h)
<1>1. Holds(id, "active") /\ jobs[id].heartbeatAt \in Nat
  BY DEF OwnsRow, Holds, StorageInv, TypeOK, Row, ActiveIsReclaimable
<1>2. now \in Nat /\ t \in Nat /\ t <= now /\ Since(w, h) \in Int
  BY TimesAreNumbers
<1>3. CASE BeatsInTime
  <2>1. jobs[id].heartbeatAt >= Since(w, h) /\ Since(w, h) >= now - StaleAfterMs
    BY <1>3 DEF OwnsRow
  <2>2. jobs[id].heartbeatAt >= t - StaleAfterMs
    BY <1>1, <1>2, <2>1, ConstantsAssumption
  <2> QED
    BY <1>1, <1>2, <2>2, ConstantsAssumption DEF Stale
<1>4. CASE NothingGoesStale
  BY <1>1, <1>2, <1>4, ConstantsAssumption DEF NothingGoesStale, Stale
<1> QED
  BY <1>3, <1>4 DEF RowsAreKept

(* Clients and maintenance loops leave a row in a hand in it: an active    *)
(* row that is not stale is not theirs.                                    *)
LEMMA OthersSpareRows ==
  ASSUME StorageInv, NEW t \in Stamps, ClientCall(t) \/ MaintenanceCall(t),
         NEW id, Holds(id, "active"), ~Stale(t, id)
  PROVE  RowStays(id)
<1>1. id \in DOMAIN jobs /\ jobs[id] \in Row /\ jobs[id].status = "active" /\ id # nextId
  BY DEF Holds, StorageInv, TypeOK
<1>2. "active" \notin Waiting /\ "active" \notin Terminal
  BY DEF Waiting, Terminal
<1>3. CASE \E i \in 1 .. nextId - 1 : Cancel(t, i)
  BY <1>1, <1>2, <1>3 DEF Cancel, RowStays, Row
<1>4. CASE \E queue \in Queues, priority \in Priorities, key \in DedupKeys \cup {NoKey},
             limit \in AttemptLimits, backoff \in Backoffs, runAt \in CallerTimes(t) :
            Enqueue(t, queue, priority, key, limit, backoff, runAt)
  BY <1>1, <1>4 DEF Enqueue, RowStays
<1>5. CASE PromoteDelayed(t)
  BY <1>1, <1>5 DEF PromoteDelayed, RowStays
<1>6. CASE ReclaimStale(t)
  BY <1>1, <1>6 DEF ReclaimStale, RowStays
<1>7. CASE Cleanup(t)
  BY <1>1, <1>2, <1>7 DEF Cleanup, Expired, RowStays
<1> QED
  BY <1>3, <1>4, <1>5, <1>6, <1>7 DEF ClientCall, MaintenanceCall

(* A write to the row of one job leaves every other row alone.             *)
LEMMA WriteSparesOthers ==
  ASSUME NEW t, NEW job, NEW id, id # job,
         \/ UNCHANGED storageVars
         \/ Complete(t, job) \/ Release(t, job) \/ Heartbeat(t, job)
         \/ \E error : MoveToDead(t, job, error)
         \/ \E error : Fail(t, job, error, TRUE, Null)
  PROVE  /\ DOMAIN jobs' = DOMAIN jobs /\ nextId' = nextId /\ now' = now
         /\ id \in DOMAIN jobs => jobs'[id] = jobs[id]
         /\ Holds(id, "active") => RowStays(id)
<1> DEFINE Spared == /\ DOMAIN jobs' = DOMAIN jobs /\ nextId' = nextId /\ now' = now
                     /\ id \in DOMAIN jobs => jobs'[id] = jobs[id]
<1>1. ASSUME NEW row, WriteActive(job, row) PROVE Spared
  BY <1>1 DEF WriteActive
<1>2. Spared
  <2>1. CASE Complete(t, job) \/ Release(t, job) \/ Heartbeat(t, job)
    BY <1>1, <2>1 DEF Complete, Release, Heartbeat
  <2>2. ASSUME NEW error, MoveToDead(t, job, error) PROVE Spared
    BY <1>1, <2>2 DEF MoveToDead
  <2>3. CASE UNCHANGED storageVars
    BY <2>3 DEF storageVars
  <2>4. ASSUME NEW error, Fail(t, job, error, TRUE, Null) PROVE Spared
    <3>1. ASSUME NEW runAt, Reschedule(t, job, error, runAt) PROVE Spared
      BY <1>1, <3>1 DEF Reschedule
    <3> QED
      BY <2>2, <2>3, <2>4, <3>1 DEF Fail
  <2> QED
    BY <2>1, <2>2, <2>3, <2>4
<1> QED
  BY <1>2 DEF RowStays, Holds

(* The claim loop, start() and stop() take up no job, but for ClaimHit.    *)
LEMMA LoopShrinks ==
  ASSUME WorkerInv, NEW w \in Workers, NEW t,
         \/ AcquirePermit(w) \/ LeaveLoop(w) \/ ClaimMiss(w, t) \/ Wake(w)
         \/ Start(w) \/ Stop(w) \/ WaitedForAborted(w) \/ StopFinishes(w)
  PROVE  UNCHANGED <<storageVars, claimed, runVars>> /\ HandsShrink /\ BeatsStay
<1>1. UNCHANGED <<storageVars, claimed, runVars>>
  BY DEF AcquirePermit, LeaveLoop, ClaimMiss, Wake, Start, Stop, WaitedForAborted,
         StopFinishes, runVars, loopVars
<1>2. \A v \in Workers : loop'[v] = "claimed" => loop[v] = "claimed"
  BY DEF AcquirePermit, LeaveLoop, ClaimMiss, Wake, Start, Stop,
         WaitedForAborted, StopFinishes, WorkerInv, Local, Types, loopVars
<1> QED
  BY <1>1, <1>2 DEF HandsShrink, BeatsStay, InHand, JobIn, StartIn, Live, runVars

(* Runs that change, where they stay live, only in what is not their job.  *)
LEMMA RunsShrink ==
  ASSUME \A v \in Workers : /\ loop'[v] = "claimed" => loop[v] = "claimed"
                            /\ claimed'[v] = claimed[v] \/ loop'[v] # "claimed",
         \A v \in Workers : \A r \in Slots :
           Live(v, r)' => /\ Live(v, r) /\ runs'[v][r].job = runs[v][r].job
                          /\ runs'[v][r].start = runs[v][r].start
  PROVE  HandsShrink
BY HandsAre DEF HandsShrink, InHand, JobIn, StartIn

LEMMA SettleShrinks ==
  ASSUME Types, NEW w \in Workers, NEW s \in Slots, NEW phase \in Settled, Settle(w, s, phase)
  PROVE  /\ HandsShrink /\ BeatsStay /\ ~Live(w, s)'
         /\ runs'[w][s].phase = phase /\ runs'[w][s].job = runs[w][s].job
         /\ \A v \in Workers : \A r \in Slots : (v # w \/ r # s) => runs'[v][r] = runs[v][r]
<1>1. /\ runs'[w][s] = [runs[w][s] EXCEPT !.phase = phase]
      /\ \A v \in Workers : \A r \in Slots : (v # w \/ r # s) => runs'[v][r] = runs[v][r]
  BY DEF Settle, Types
<1>2. runs[w][s] \in Run
  BY DEF Types
<1>3. runs'[w][s].phase = phase /\ runs'[w][s].job = runs[w][s].job
  BY <1>1, <1>2 DEF Run
<1>4. phase # "handler"
  BY DEF Settled, Reported
<1>5. \A v \in Workers : \A r \in Slots : Live(v, r)' => (v # w \/ r # s)
  BY <1>3, <1>4 DEF Live
<1>6. loop' = loop /\ claimed' = claimed
  BY DEF Settle, loopVars
<1>7. HandsShrink
  <2>1. \A v \in Workers : \A r \in Slots :
           Live(v, r)' => /\ Live(v, r) /\ runs'[v][r].job = runs[v][r].job
                          /\ runs'[v][r].start = runs[v][r].start
    BY <1>1, <1>5 DEF Live
  <2> QED
    BY <1>6, <2>1, RunsShrink
<1> QED
  BY <1>1, <1>3, <1>5, <1>7 DEF BeatsStay

LEMMA FinallyShrinks ==
  ASSUME Types, NEW w \in Workers, NEW s \in Slots, Finally(w, s)
  PROVE  /\ UNCHANGED storageVars /\ HandsShrink /\ BeatsStay /\ runs'[w][s] = NoRun
         /\ \A v \in Workers : \A r \in Slots : (v # w \/ r # s) => runs'[v][r] = runs[v][r]
<1>1. /\ runs'[w][s] = NoRun
      /\ \A v \in Workers : \A r \in Slots : (v # w \/ r # s) => runs'[v][r] = runs[v][r]
  BY DEF Finally, Types
<1>2. \A v \in Workers : \A r \in Slots : Live(v, r)' => (v # w \/ r # s)
  BY <1>1 DEF Live, NoRun
<1>3. claimed' = claimed /\ \A v \in Workers : loop'[v] = "claimed" => loop[v] = "claimed"
  BY DEF Finally, Types
<1>4. HandsShrink
  <2>1. \A v \in Workers : \A r \in Slots :
           Live(v, r)' => /\ Live(v, r) /\ runs'[v][r].job = runs[v][r].job
                          /\ runs'[v][r].start = runs[v][r].start
    BY <1>1, <1>2 DEF Live
  <2> QED
    BY <1>3, <2>1, RunsShrink
<1> QED
  BY <1>1, <1>2, <1>4 DEF BeatsStay, Finally

LEMMA TimeoutShrinks ==
  ASSUME Types, NEW w \in Workers, NEW s \in Slots, TimeoutFires(w, s)
  PROVE  /\ UNCHANGED storageVars /\ HandsShrink /\ BeatsStay
         /\ \A v \in Workers : \A r \in Slots :
              /\ runs'[v][r].phase = runs[v][r].phase /\ runs'[v][r].job = runs[v][r].job
              /\ runs[v][r].aborted => runs'[v][r].aborted
<1> DEFINE run == [runs[w][s] EXCEPT !.timedOut = TRUE, !.aborted = TRUE]
<1>1. runs' = [runs EXCEPT ![w][s] = run]
  BY DEF TimeoutFires, Types
<1>2. runs[w][s] \in Run
  BY DEF Types
<1>3. /\ run.phase = runs[w][s].phase /\ run.job = runs[w][s].job /\ run.aborted
      /\ run.start = runs[w][s].start /\ run.beatAt = runs[w][s].beatAt
  BY <1>2 DEF Run
<1> HIDE DEF run
<1>4. ASSUME NEW v \in Workers, NEW r \in Slots
      PROVE  /\ runs'[v][r].phase = runs[v][r].phase /\ runs'[v][r].job = runs[v][r].job
             /\ runs'[v][r].start = runs[v][r].start /\ runs'[v][r].beatAt = runs[v][r].beatAt
             /\ runs[v][r].aborted => runs'[v][r].aborted
  <2>1. CASE v = w /\ r = s
    <3>1. runs'[v][r] = run
      BY <1>1, <2>1 DEF Types
    <3> QED
      BY <1>3, <2>1, <3>1
  <2>2. CASE v # w \/ r # s
    <3>1. runs'[v][r] = runs[v][r]
      BY <1>1, <2>2 DEF Types
    <3> QED
      BY <3>1
  <2> QED
    BY <2>1, <2>2
<1>5. loop' = loop /\ claimed' = claimed /\ UNCHANGED storageVars
  BY DEF TimeoutFires, loopVars
<1> QED
  BY <1>4, <1>5, RunsShrink DEF BeatsStay, Live

LEMMA AbortShrinks ==
  ASSUME Types, NEW w \in Workers, AbortLeftovers(w)
  PROVE  /\ UNCHANGED storageVars /\ HandsShrink /\ BeatsStay
         /\ \A v \in Workers : \A r \in Slots :
              /\ runs'[v][r].phase = runs[v][r].phase /\ runs'[v][r].job = runs[v][r].job
              /\ runs[v][r].aborted => runs'[v][r].aborted
         /\ \A r \in Slots : (\E id \in JobIds : controllers[w][id] = r) => runs'[w][r].aborted
<1>1. \A v \in Workers : \A r \in Slots :
        runs'[v][r] = IF v = w /\ \E id \in JobIds : controllers[w][id] = r
                      THEN [runs[v][r] EXCEPT !.aborted = TRUE] ELSE runs[v][r]
  BY DEF AbortLeftovers, Types
<1>2. \A v \in Workers : \A r \in Slots : runs[v][r] \in Run
  BY DEF Types
<1>3. ASSUME NEW v \in Workers, NEW r \in Slots
      PROVE  /\ runs'[v][r].phase = runs[v][r].phase /\ runs'[v][r].job = runs[v][r].job
             /\ runs'[v][r].start = runs[v][r].start /\ runs'[v][r].beatAt = runs[v][r].beatAt
             /\ runs[v][r].aborted => runs'[v][r].aborted
  <2>1. runs'[v][r] \in {runs[v][r], [runs[v][r] EXCEPT !.aborted = TRUE]}
    BY <1>1
  <2>2. runs[v][r] \in Run
    BY <1>2
  <2> QED
    BY <2>1, <2>2 DEF Run
<1>4. \A r \in Slots : (\E id \in JobIds : controllers[w][id] = r) => runs'[w][r].aborted
  BY <1>1, <1>2 DEF Run
<1>5. loop' = loop /\ claimed' = claimed /\ UNCHANGED storageVars
  BY DEF AbortLeftovers, loopVars
<1> QED
  BY <1>3, <1>4, <1>5, RunsShrink DEF BeatsStay, Live

LEMMA CrashShrinks ==
  ASSUME Types, NEW w \in Workers, Crash(w)
  PROVE  /\ UNCHANGED storageVars /\ HandsShrink /\ BeatsStay
         /\ \A r \in Slots : runs'[w][r].phase = "free"
         /\ \A v \in Workers : v # w => runs'[v] = runs[v]
<1>1. /\ \A r \in Slots : runs'[w][r] = NoRun
      /\ \A v \in Workers : v # w => runs'[v] = runs[v]
  BY DEF Crash, Types
<1>2. /\ loop'[w] = "off"
      /\ \A v \in Workers : v # w => loop'[v] = loop[v] /\ claimed'[v] = claimed[v]
  BY DEF Crash, Types
<1>3. \A v \in Workers : \A r \in Slots : Live(v, r)' => v # w
  BY <1>1 DEF Live, NoRun
<1>4. HandsShrink
  BY <1>1, <1>2, <1>3, RunsShrink DEF Live
<1> QED
  BY <1>1, <1>3, <1>4 DEF BeatsStay, Crash, NoRun, Live


-----------------------------------------------------------------------------
(* Each step keeps the ownership                                           *)

LEMMA TableStays ==
  ASSUME Ownership, UNCHANGED storageVars, HandsShrink, BeatsStay
  PROVE  Ownership'
<1>1. ASSUME NEW w \in Workers, NEW h \in Hands, InHand(w, h)' PROVE RowStays(JobIn(w, h))
  <2>1. OwnsRow(w, h)
    BY <1>1 DEF Ownership, HandsShrink
  <2> QED
    BY <2>1 DEF OwnsRow, Holds, RowStays, storageVars
<1> QED
  BY <1>1, HandsLetGo DEF storageVars

(* Time passes for a worker with a job only while its next heartbeat is    *)
(* still to come.                                                          *)
LEMMA ClockOwns ==
  ASSUME RowsAreKept, WorkerInv, Ownership, Clock
  PROVE  Ownership'
<1>1. /\ now' = now + 1 /\ now < MaxTime /\ now \in Nat /\ jobs' = jobs
      /\ UNCHANGED <<loop, claimed, runs>>
  BY DEF Clock, Tick, workerVars, loopVars, runVars, WorkerInv, StorageInv, TypeOK
<1>2. now' <= MaxTime
  BY <1>1, ConstantsAssumption
<1>3. \A w \in Workers : \A h \in Hands :
        /\ InHand(w, h)' <=> InHand(w, h)
        /\ JobIn(w, h)' = JobIn(w, h) /\ StartIn(w, h)' = StartIn(w, h)
  BY <1>1 DEF InHand, JobIn, StartIn, Live
<1>4. ASSUME NEW w \in Workers, NEW h \in Hands, InHand(w, h), BeatsInTime
      PROVE  /\ Since(w, h)' = Since(w, h) /\ Since(w, h) \in Int
             /\ Since(w, h) >= now + 1 - StaleAfterMs
             /\ Since(w, h) <= now + 1 - MaxLag
  <2>1. ~Microtasks(w) /\ \A s \in Slots : Live(w, s) => runs[w][s].beatAt > now
    BY <1>4 DEF Clock, BeatsInTime
  <2>2. h # 0 /\ h \in Slots
    BY <1>4, <2>1, HandsAre DEF InHand, Microtasks
  <2>3. runs[w][h].beatAt > now /\ runs[w][h].beatAt \in Nat
    BY <1>4, <2>1, <2>2 DEF InHand, WorkerInv, Local, Types, Run
  <2>4. Since(w, h) = runs[w][h].beatAt - HeartbeatMs - MaxLag /\ Since(w, h)' = Since(w, h)
    BY <1>1, <2>2 DEF Since
  <2>5. Since(w, h) <= now - MaxLag
    BY <1>4 DEF Ownership, OwnsRow
  <2>6. HeartbeatMs + MaxLag <= StaleAfterMs
    BY <1>4 DEF BeatsInTime
  <2> QED
    BY <1>1, <2>3, <2>4, <2>5, <2>6, ConstantsAssumption, WorkerAssumption
<1>5. ASSUME NEW w \in Workers, NEW h \in Hands, InHand(w, h)' PROVE OwnsRow(w, h)'
  <2>1. InHand(w, h) /\ OwnsRow(w, h)
    BY <1>3, <1>5 DEF Ownership
  <2>2. BeatsInTime => /\ Since(w, h)' = Since(w, h)
                       /\ Since(w, h)' >= now' - StaleAfterMs
                       /\ Since(w, h)' <= now' - MaxLag
    BY <1>1, <1>4, <2>1, ConstantsAssumption
  <2>3. /\ JobIn(w, h)' = JobIn(w, h) /\ StartIn(w, h)' = StartIn(w, h)
        /\ jobs' = jobs
    BY <1>1, <1>3
  <2> QED
    BY <2>1, <2>2, <2>3 DEF OwnsRow, Holds
<1>6. Exclusive'
  BY <1>3 DEF Ownership, Exclusive
<1> QED
  BY <1>2, <1>5, <1>6 DEF Ownership

LEMMA OthersOwn ==
  ASSUME RowsAreKept, WorkerInv, Ownership, NEW t \in Stamps, Others(t)
  PROVE  Ownership'
<1>1. /\ StorageInv /\ Types /\ now <= MaxTime /\ UNCHANGED workerVars
      /\ ClientCall(t) \/ MaintenanceCall(t)
  BY DEF WorkerInv, Local, Others, Ownership
<1>2. now' = now
  BY <1>1 DEF ClientCall, MaintenanceCall, Enqueue, Cancel, PromoteDelayed, ReclaimStale, Cleanup
<1>3. HandsShrink /\ BeatsStay
  BY <1>1 DEF HandsShrink, BeatsStay, InHand, JobIn, StartIn, Live, workerVars, loopVars, runVars
<1>4. ASSUME NEW w \in Workers, NEW h \in Hands, InHand(w, h)' PROVE RowStays(JobIn(w, h))
  <2>1. OwnsRow(w, h)
    BY <1>3, <1>4 DEF HandsShrink, Ownership
  <2>2. ~Stale(t, JobIn(w, h)) /\ Holds(JobIn(w, h), "active")
    BY <1>1, <2>1, HeldIsFresh DEF OwnsRow
  <2> HIDE DEF Stale, JobIn
  <2> QED
    BY <1>1, <2>2, OthersSpareRows
<1> QED
  BY <1>2, <1>3, <1>4, HandsLetGo

(* A claim takes a row that is in nobody's hands.                          *)
LEMMA ClaimTakesFreeRow ==
  ASSUME WorkerInv, Ownership, NEW t, NEW id, ClaimNext(t, {}, id)
  PROVE  /\ id \in DOMAIN jobs /\ jobs[id].status = "pending" /\ jobs[id].runAt <= t
         /\ \A v \in Workers : \A h \in Hands : InHand(v, h) => JobIn(v, h) # id
<1>1. id \in DOMAIN jobs /\ jobs[id].status = "pending" /\ jobs[id].runAt <= t
  BY DEF ClaimNext, Runnable
<1> QED
  BY <1>1 DEF Ownership, OwnsRow, Holds

LEMMA ClaimHitOwns ==
  ASSUME WorkerInv, Ownership, NEW t \in Stamps, NEW w \in Workers, ClaimHit(w, t)
  PROVE  Ownership'
<1>1. Types /\ StorageInv
  BY DEF WorkerInv, Local
<1>2. PICK id \in DOMAIN jobs :
        /\ ClaimNext(t, {}, id)
        /\ claimed' = [claimed EXCEPT ![w] = [job |-> id, start |-> jobs[id].attempts + 1]]
  BY DEF ClaimHit
<1>3. /\ loop' = [loop EXCEPT ![w] = "claimed"] /\ loop[w] = "holding"
      /\ UNCHANGED runs /\ now' = now
  BY <1>2 DEF ClaimHit, runVars, ClaimNext
<1>4. /\ InHand(w, 0)' /\ JobIn(w, 0)' = id /\ StartIn(w, 0)' = jobs[id].attempts + 1
      /\ ~InHand(w, 0)
  BY <1>1, <1>2, <1>3 DEF InHand, JobIn, StartIn, Types
<1>5. ASSUME NEW v \in Workers, NEW h \in Hands, InHand(v, h)', v # w \/ h # 0
      PROVE  /\ InHand(v, h) /\ JobIn(v, h)' = JobIn(v, h) /\ StartIn(v, h)' = StartIn(v, h)
             /\ Since(v, h)' = Since(v, h)
  BY <1>1, <1>2, <1>3, <1>5 DEF InHand, JobIn, StartIn, Since, Live, Types
<1>6. \A v \in Workers : \A h \in Hands : InHand(v, h) => JobIn(v, h) # id
  BY <1>2, ClaimTakesFreeRow
<1>7. ASSUME NEW v \in Workers, NEW h \in Hands, InHand(v, h)', v # w \/ h # 0
      PROVE  OwnsRow(v, h)'
  <2>1. OwnsRow(v, h) /\ JobIn(v, h) # id
    BY <1>5, <1>6, <1>7 DEF Ownership
  <2>2. jobs'[JobIn(v, h)] = jobs[JobIn(v, h)] /\ DOMAIN jobs' = DOMAIN jobs
    BY <1>2, <2>1 DEF ClaimNext, OwnsRow, Holds
  <2> QED
    BY <1>3, <1>5, <1>7, <2>1, <2>2 DEF OwnsRow, Holds
<1>8. OwnsRow(w, 0)'
  <2>1. /\ Holds(id, "active")' /\ jobs'[id].attempts = jobs[id].attempts + 1
        /\ jobs'[id].heartbeatAt = t
    BY <1>1, <1>2 DEF ClaimNext, Holds, StorageInv, TypeOK, Row
  <2>2. Since(w, 0)' = now - MaxLag
    BY <1>3 DEF Since
  <2>3. t >= now - MaxLag /\ now \in Nat /\ t \in Nat
    BY <1>1, TimesAreNumbers DEF Hands
  <2>4. BeatsInTime => HeartbeatMs + MaxLag <= StaleAfterMs
    BY DEF BeatsInTime
  <2>5. BeatsInTime => now - MaxLag >= now - StaleAfterMs
    BY <2>3, <2>4, ConstantsAssumption, WorkerAssumption
  <2>6. now - MaxLag <= now - MaxLag
    BY <2>3, ConstantsAssumption
  <2> QED
    BY <1>3, <1>4, <2>1, <2>2, <2>3, <2>5, <2>6 DEF OwnsRow
<1>9. Exclusive'
  <2>1. \A v \in Workers : \A h \in Hands :
          (InHand(v, h)' /\ (v # w \/ h # 0)) => InHand(v, h) /\ JobIn(v, h)' = JobIn(v, h)
    BY <1>5
  <2>2. \A v \in Workers : \A h \in Hands : (InHand(v, h)' /\ JobIn(v, h)' = id) => v = w /\ h = 0
    BY <1>6, <2>1
  <2> QED
    BY <1>4, <2>1, <2>2 DEF Ownership, Exclusive
<1> QED
  BY <1>3, <1>7, <1>8, <1>9 DEF Ownership

(* The job passes from the claim loop to a slot, and its heartbeat is due  *)
(* an interval from now.                                                   *)
LEMMA DispatchMoves ==
  ASSUME Types, now \in Nat, NEW w \in Workers, NEW s \in Slots, Dispatch(w, s)
  PROVE  /\ UNCHANGED storageVars /\ s \in Hands /\ s # 0
         /\ InHand(w, 0) /\ ~InHand(w, 0)' /\ runs[w][s].phase = "free"
         /\ runs'[w][s].phase = "handler" /\ (runs'[w][s].aborted <=> Stopping(w))
         /\ JobIn(w, s)' = JobIn(w, 0) /\ StartIn(w, s)' = StartIn(w, 0)
         /\ Since(w, s)' = Since(w, 0)
         /\ \A v \in Workers : \A h \in Hands :
              (InHand(v, h)' /\ (v # w \/ h # s)) =>
                /\ InHand(v, h) /\ (v # w \/ h # 0)
                /\ JobIn(v, h)' = JobIn(v, h) /\ StartIn(v, h)' = StartIn(v, h)
                /\ Since(v, h)' = Since(v, h)
         /\ \A v \in Workers : \A r \in Slots : (v # w \/ r # s) => runs'[v][r] = runs[v][r]
<1> DEFINE run == [NoRun EXCEPT !.phase = "handler", !.job = claimed[w].job,
                                !.start = claimed[w].start, !.aborted = Stopping(w),
                                !.beatAt = now + HeartbeatMs]
<1>1. /\ UNCHANGED storageVars /\ runs' = [runs EXCEPT ![w][s] = run]
      /\ claimed' = [claimed EXCEPT ![w] = NoClaim]
      /\ loop' = [loop EXCEPT ![w] = "top"] /\ loop[w] = "claimed"
      /\ runs[w][s].phase = "free"
  BY DEF Dispatch
<1>2. /\ run.phase = "handler" /\ run.job = claimed[w].job /\ run.start = claimed[w].start
      /\ (run.aborted <=> Stopping(w)) /\ run.beatAt = now + HeartbeatMs
  BY DEF NoRun
<1> HIDE DEF run
<1>3. /\ runs'[w][s] = run
      /\ \A v \in Workers : \A r \in Slots : (v # w \/ r # s) => runs'[v][r] = runs[v][r]
  BY <1>1 DEF Types
<1>4. s \in Hands /\ s # 0
  BY DEF Hands, Slots
<1>5. /\ loop'[w] = "top"
      /\ \A v \in Workers : v # w => loop'[v] = loop[v] /\ claimed'[v] = claimed[v]
  BY <1>1 DEF Types
<1>6. InHand(w, 0) /\ ~InHand(w, 0)'
  BY <1>1, <1>5 DEF InHand
<1>7. JobIn(w, s)' = JobIn(w, 0) /\ StartIn(w, s)' = StartIn(w, 0)
  BY <1>2, <1>3, <1>4 DEF JobIn, StartIn
<1>8. Since(w, s)' = Since(w, 0)
  <2>1. Since(w, s)' = (now + HeartbeatMs) - HeartbeatMs - MaxLag
    BY <1>2, <1>3, <1>4 DEF Since
  <2>2. Since(w, 0) = now - MaxLag
    BY DEF Since
  <2> QED
    BY <2>1, <2>2, ConstantsAssumption, WorkerAssumption
<1>9. ASSUME NEW v \in Workers, NEW h \in Hands, InHand(v, h)', v # w \/ h # s
      PROVE  /\ InHand(v, h) /\ (v # w \/ h # 0)
             /\ JobIn(v, h)' = JobIn(v, h) /\ StartIn(v, h)' = StartIn(v, h)
             /\ Since(v, h)' = Since(v, h)
  <2>1. CASE h = 0
    <3>1. v # w
      BY <1>6, <1>9, <2>1
    <3> QED
      BY <1>1, <1>5, <1>9, <2>1, <3>1 DEF InHand, JobIn, StartIn, Since, storageVars
  <2>2. CASE h # 0
    <3>1. runs'[v][h] = runs[v][h]
      BY <1>3, <1>9, <2>2, HandsAre
    <3> QED
      BY <1>9, <2>2, <3>1 DEF InHand, JobIn, StartIn, Since, Live
  <2> QED
    BY <2>1, <2>2
<1> QED
  BY <1>1, <1>2, <1>3, <1>4, <1>6, <1>7, <1>8, <1>9

LEMMA DispatchOwns ==
  ASSUME WorkerInv, Ownership, NEW w \in Workers, NEW s \in Slots, Dispatch(w, s)
  PROVE  Ownership'
<1>1. Types /\ now \in Nat
  BY DEF WorkerInv, Local, StorageInv, TypeOK
<1> DEFINE old(v, h) == IF v = w /\ h = s THEN 0 ELSE h
<1>2. ASSUME NEW v \in Workers, NEW h \in Hands, InHand(v, h)'
      PROVE  /\ old(v, h) \in Hands /\ InHand(v, old(v, h))
             /\ JobIn(v, h)' = JobIn(v, old(v, h)) /\ StartIn(v, h)' = StartIn(v, old(v, h))
             /\ Since(v, h)' = Since(v, old(v, h))
  <2>1. CASE v = w /\ h = s
    BY <1>1, <2>1, DispatchMoves DEF Hands
  <2>2. CASE v # w \/ h # s
    BY <1>1, <1>2, <2>2, DispatchMoves
  <2> QED
    BY <2>1, <2>2
<1>3. ASSUME NEW v \in Workers, NEW g \in Hands, NEW h \in Hands,
             InHand(v, g)', InHand(v, h)', old(v, g) = old(v, h)
      PROVE  g = h
  <2>1. ~InHand(w, 0)'
    BY <1>1, DispatchMoves
  <2> QED
    BY <1>3, <2>1
<1>4. UNCHANGED <<jobs, now>>
  BY <1>1, DispatchMoves DEF storageVars
<1> HIDE DEF old
<1>5. ASSUME NEW v \in Workers, NEW h \in Hands, InHand(v, h)' PROVE OwnsRow(v, h)'
  <2>1. OwnsRow(v, old(v, h))
    BY <1>2, <1>5 DEF Ownership
  <2> QED
    BY <1>2, <1>4, <1>5, <2>1 DEF OwnsRow, Holds
<1>6. Exclusive'
  <2> SUFFICES ASSUME NEW u \in Workers, NEW v \in Workers, NEW g \in Hands, NEW h \in Hands,
                      InHand(u, g)', InHand(v, h)', JobIn(u, g)' = JobIn(v, h)'
               PROVE  u = v /\ g = h
    BY DEF Exclusive
  <2>1. u = v /\ old(u, g) = old(v, h)
    BY <1>2 DEF Ownership, Exclusive
  <2> QED
    BY <1>3, <2>1
<1> QED
  BY <1>4, <1>5, <1>6 DEF Ownership

(* What the end of a run does to its row and to the hands.                 *)
LEMMA EndIsSettle ==
  ASSUME NEW w \in Workers, NEW s \in Slots, NEW t, RunEnds(w, s, t) \/ AbortSettles(w, s, t)
  PROVE  /\ Live(w, s)
         /\ \E phase \in Settled : Settle(w, s, phase)
         /\ LET job == runs[w][s].job
            IN  \/ UNCHANGED storageVars
                \/ Complete(t, job) \/ Release(t, job) \/ Heartbeat(t, job)
                \/ \E error : MoveToDead(t, job, error)
                \/ \E error : Fail(t, job, error, TRUE, Null)
<1>1. Live(w, s)
  BY DEF RunEnds, HandlerReturns, HandlerThrows, AbortSettles
<1>2. \E phase \in Settled : Settle(w, s, phase)
  BY Zenon DEF RunEnds, HandlerReturns, HandlerThrows, AbortSettles, CallThrows, FailRun, KillRun,
               ReleaseRun, Settled, Reported
<1> DEFINE job == runs[w][s].job
<1>3. \/ UNCHANGED storageVars
      \/ Complete(t, job) \/ Release(t, job) \/ Heartbeat(t, job)
      \/ \E error : MoveToDead(t, job, error)
      \/ \E error : Fail(t, job, error, TRUE, Null)
  BY Zenon DEF RunEnds, HandlerReturns, HandlerThrows, AbortSettles, CallThrows, FailRun, KillRun,
               ReleaseRun
<1> QED
  BY <1>1, <1>2, <1>3

LEMMA EndOwns ==
  ASSUME WorkerInv, Ownership, NEW w \in Workers, NEW s \in Slots, NEW t \in Stamps,
         RunEnds(w, s, t) \/ AbortSettles(w, s, t)
  PROVE  Ownership'
<1>1. Types
  BY DEF WorkerInv, Local
<1> DEFINE job == runs[w][s].job
<1>2. /\ Live(w, s)
      /\ \/ UNCHANGED storageVars
         \/ Complete(t, job) \/ Release(t, job) \/ Heartbeat(t, job)
         \/ \E error : MoveToDead(t, job, error)
         \/ \E error : Fail(t, job, error, TRUE, Null)
  BY EndIsSettle
<1>3. PICK phase \in Settled : Settle(w, s, phase)
  BY EndIsSettle
<1>4. HandsShrink /\ BeatsStay /\ ~Live(w, s)'
  BY <1>1, <1>3, SettleShrinks
<1>5. s \in Hands /\ s # 0 /\ InHand(w, s) /\ ~InHand(w, s)' /\ JobIn(w, s) = job
  BY <1>2, <1>4 DEF Hands, Slots, InHand, JobIn
<1>6. CASE UNCHANGED storageVars
  BY <1>4, <1>6, TableStays
<1>7. CASE ~UNCHANGED storageVars
  <2>1. Holds(job, "active")
    BY <1>5 DEF Ownership, OwnsRow
  <2>2. ASSUME NEW v \in Workers, NEW h \in Hands, InHand(v, h)'
        PROVE  RowStays(JobIn(v, h)) /\ now' = now
    <3>1. InHand(v, h) /\ (v # w \/ h # s)
      BY <1>4, <1>5, <2>2 DEF HandsShrink
    <3>2. JobIn(v, h) # job /\ Holds(JobIn(v, h), "active")
      BY <1>5, <3>1, OtherHandsOtherJobs DEF Ownership, OwnsRow
    <3> HIDE DEF JobIn, job
    <3> QED
      BY <1>2, <1>7, <3>2, WriteSparesOthers
  <2>3. now' = now
    BY <1>2, <1>7 DEF Complete, Release, Heartbeat, MoveToDead, Fail, Reschedule, WriteActive,
                      storageVars
  <2> QED
    BY <1>4, <2>2, <2>3, HandsLetGo
<1> QED
  BY <1>6, <1>7

(* A heartbeat changes its own run, in what is not its job, and may abort  *)
(* it.                                                                     *)
LEMMA BeatShrinks ==
  ASSUME Types, NEW w \in Workers, NEW s \in Slots, NEW t, Beat(w, s, t)
  PROVE  /\ Live(w, s) /\ HandsShrink
         /\ runs'[w][s].beatAt = IF now >= runs[w][s].beatAt THEN now + HeartbeatMs
                                 ELSE runs[w][s].beatAt
         /\ \A v \in Workers : \A r \in Slots :
              /\ runs'[v][r].phase = runs[v][r].phase /\ runs'[v][r].job = runs[v][r].job
              /\ runs[v][r].aborted => runs'[v][r].aborted
              /\ (v # w \/ r # s) => runs'[v][r] = runs[v][r]
<1> DEFINE beatAt == IF now >= runs[w][s].beatAt THEN now + HeartbeatMs ELSE runs[w][s].beatAt
           seen   == runs[w][s].cancelSeen \/ CancelSeen(runs[w][s].job)
           gone   == runs[w][s].aborted \/ CancelSeen(runs[w][s].job)
<1>1. runs[w][s] \in Run /\ Live(w, s) /\ loop' = loop /\ claimed' = claimed
  BY DEF Types, Beat, loopVars
<1>2. PICK run : /\ runs' = [runs EXCEPT ![w][s] = run]
                 /\ run.phase = runs[w][s].phase /\ run.job = runs[w][s].job
                 /\ run.start = runs[w][s].start /\ run.beatAt = beatAt
                 /\ runs[w][s].aborted => run.aborted
  <2>1. CASE Beaten(w, s, t)
    <3> DEFINE run == [runs[w][s] EXCEPT !.cancelSeen = seen, !.aborted = gone, !.beatAt = beatAt]
    <3>1. runs' = [runs EXCEPT ![w][s] = run]
      BY <2>1, Zenon DEF Beaten
    <3>2. /\ run.phase = runs[w][s].phase /\ run.job = runs[w][s].job
          /\ run.start = runs[w][s].start /\ run.beatAt = beatAt /\ run.aborted = gone
      <4> HIDE DEF seen, gone, beatAt
      <4> QED
        BY <1>1 DEF Run
    <3>3. runs[w][s].aborted => gone
      OBVIOUS
    <3> HIDE DEF run, gone, beatAt
    <3> QED
      BY <3>1, <3>2, <3>3, Zenon
  <2>2. CASE BeatThrows(w, s)
    <3> DEFINE run == [runs[w][s] EXCEPT !.beatAt = beatAt]
    <3>1. runs' = [runs EXCEPT ![w][s] = run]
      BY <2>2 DEF BeatThrows
    <3>2. /\ run.phase = runs[w][s].phase /\ run.job = runs[w][s].job
          /\ run.start = runs[w][s].start /\ run.beatAt = beatAt
          /\ run.aborted = runs[w][s].aborted
      <4> HIDE DEF beatAt
      <4> QED
        BY <1>1 DEF Run
    <3> HIDE DEF run, beatAt
    <3> QED
      BY <3>1, <3>2, Zenon
  <2> QED
    BY <2>1, <2>2 DEF Beat
<1>3. runs'[w][s] = run /\ \A v \in Workers : \A r \in Slots : (v # w \/ r # s) => runs'[v][r] = runs[v][r]
  BY <1>2 DEF Types
<1>4. ASSUME NEW v \in Workers, NEW r \in Slots
      PROVE  /\ runs'[v][r].phase = runs[v][r].phase /\ runs'[v][r].job = runs[v][r].job
             /\ runs'[v][r].start = runs[v][r].start
             /\ runs[v][r].aborted => runs'[v][r].aborted
  <2>1. CASE v = w /\ r = s
    BY <1>2, <1>3, <2>1
  <2>2. CASE v # w \/ r # s
    BY <1>3, <2>2
  <2> QED
    BY <2>1, <2>2
<1>5. HandsShrink
  BY <1>1, <1>4, RunsShrink DEF Live
<1> QED
  BY <1>1, <1>2, <1>3, <1>4, <1>5

LEMMA BeatOwns ==
  ASSUME RowsAreKept, WorkerInv, Ownership, NEW w \in Workers, NEW s \in Slots, NEW t \in Stamps,
         Beat(w, s, t)
  PROVE  Ownership'
<1>1. Types /\ StorageInv /\ now \in Nat
  BY DEF WorkerInv, Local, StorageInv, TypeOK
<1>2. /\ HandsShrink /\ Live(w, s) /\ s \in Hands /\ s # 0 /\ InHand(w, s)
      /\ JobIn(w, s) = runs[w][s].job
  BY <1>1, BeatShrinks DEF Hands, Slots, InHand, JobIn
<1> DEFINE job == runs[w][s].job
<1>3. /\ OwnsRow(w, s) /\ Holds(job, "active")
      /\ jobs[job].attempts = StartIn(w, s)
  BY <1>2 DEF Ownership, OwnsRow
<1>4. Exclusive'
  BY <1>2 DEF Ownership, Exclusive, HandsShrink
<1>5. CASE BeatThrows(w, s)
  <2>1. ~BeatsInTime /\ UNCHANGED storageVars
    BY <1>5 DEF BeatThrows, BeatsInTime
  <2>2. ASSUME NEW v \in Workers, NEW h \in Hands, InHand(v, h)' PROVE OwnsRow(v, h)'
    <3>1. OwnsRow(v, h)
      BY <1>2, <2>2 DEF HandsShrink, Ownership
    <3>2. JobIn(v, h)' = JobIn(v, h) /\ StartIn(v, h)' = StartIn(v, h)
      BY <1>2, <2>2 DEF HandsShrink
    <3> QED
      BY <2>1, <3>1, <3>2 DEF OwnsRow, Holds, storageVars
  <2> QED
    BY <1>4, <2>1, <2>2 DEF Ownership, storageVars
<1>6. CASE Beaten(w, s, t)
  <2>1. Heartbeat(t, job)
    BY <1>6 DEF Beaten
  <2>2. now' = now
    BY <2>1 DEF Heartbeat, WriteActive
  <2>3. /\ job \in DOMAIN jobs' /\ jobs'[job].status = "active"
        /\ jobs'[job].attempts = jobs[job].attempts /\ jobs'[job].heartbeatAt = t
    <3>1. job \in DOMAIN jobs /\ jobs[job] \in Row /\ jobs[job].status = "active"
      BY <1>1, <1>3 DEF Holds, StorageInv, TypeOK
    <3>2. jobs' = [jobs EXCEPT ![job] = [jobs[job] EXCEPT !.heartbeatAt = t, !.updatedAt = t]]
      BY <1>3, <2>1 DEF Heartbeat, WriteActive
    <3> HIDE DEF job
    <3> QED
      BY <3>1, <3>2 DEF Row
  <2>4. ASSUME BeatsInTime
        PROVE  t >= Since(w, s)' /\ Since(w, s)' >= now - StaleAfterMs
               /\ Since(w, s)' <= now - MaxLag
    <3>1. /\ runs[w][s].beatAt \in Nat
          /\ runs'[w][s].beatAt = IF now >= runs[w][s].beatAt THEN now + HeartbeatMs
                                  ELSE runs[w][s].beatAt
      BY <1>1, BeatShrinks DEF Types, Run
    <3>2. Since(w, s) >= now - StaleAfterMs /\ Since(w, s) <= now - MaxLag
      BY <1>3, <2>4 DEF OwnsRow
    <3>3. HeartbeatMs + MaxLag <= StaleAfterMs
      BY <2>4 DEF BeatsInTime
    <3>4. t \in Nat /\ t >= now - MaxLag
      BY <1>1, <1>2, TimesAreNumbers
    <3>5. /\ Since(w, s) = runs[w][s].beatAt - HeartbeatMs - MaxLag
          /\ Since(w, s)' = runs'[w][s].beatAt - HeartbeatMs - MaxLag
      BY <1>2 DEF Since
    <3> QED
      BY <1>1, <3>1, <3>2, <3>3, <3>4, <3>5, ConstantsAssumption, WorkerAssumption
  <2>5. ASSUME NEW v \in Workers, NEW h \in Hands, InHand(v, h)' PROVE OwnsRow(v, h)'
    <3>1. /\ InHand(v, h) /\ OwnsRow(v, h)
          /\ JobIn(v, h)' = JobIn(v, h) /\ StartIn(v, h)' = StartIn(v, h)
      BY <1>2, <2>5 DEF HandsShrink, Ownership
    <3>2. CASE v = w /\ h = s
      <4>1. JobIn(w, s)' = job /\ StartIn(w, s)' = jobs'[job].attempts
        BY <1>2, <1>3, <2>3, <3>1, <3>2
      <4> QED
        BY <2>2, <2>3, <2>4, <3>2, <4>1 DEF OwnsRow, Holds
    <3>3. CASE v # w \/ h # s
      <4>1. JobIn(v, h) # job /\ Holds(JobIn(v, h), "active")
        BY <1>2, <3>1, <3>3, OtherHandsOtherJobs DEF OwnsRow
      <4>2. RowStays(JobIn(v, h))
        <5> HIDE DEF job, JobIn
        <5> QED
          BY <2>1, <4>1, WriteSparesOthers
      <4>3. Since(v, h)' = Since(v, h)
        <5>1. h # 0 => runs'[v][h] = runs[v][h]
          BY <1>1, <3>3, HandsAre, BeatShrinks
        <5> QED
          BY <2>2, <5>1 DEF Since
      <4> QED
        BY <2>2, <3>1, <4>2, <4>3 DEF OwnsRow, RowStays, Holds
    <3> QED
      BY <3>2, <3>3
  <2> QED
    BY <1>4, <2>2, <2>5 DEF Ownership
<1> QED
  BY <1>5, <1>6 DEF Beat

-----------------------------------------------------------------------------
(* The invariant and what it says                                          *)

LEMMA OwnershipInit == WorkerInit => Ownership
<1> SUFFICES ASSUME WorkerInit PROVE Ownership
  OBVIOUS
<1>1. now <= MaxTime
  BY ConstantsAssumption DEF WorkerInit, Init
<1>2. \A w \in Workers : \A h \in Hands : ~InHand(w, h)
  BY HandsAre DEF WorkerInit, InHand, Live, NoRun
<1> QED
  BY <1>1, <1>2 DEF Ownership, Exclusive

LEMMA OwnershipNext ==
  ASSUME RowsAreKept, WorkerInv, Ownership, [WorkerNext]_vars
  PROVE  Ownership'
<1>1. Types
  BY DEF WorkerInv, Local
<1>2. CASE UNCHANGED vars
  <2>1. UNCHANGED storageVars /\ UNCHANGED <<loop, claimed, runs>>
    BY <1>2 DEF vars, workerVars, loopVars, runVars
  <2> QED
    BY <2>1, TableStays DEF HandsShrink, BeatsStay, InHand, JobIn, StartIn, Live
<1>3. ASSUME NEW t \in Stamps, NEW w \in Workers, LoopStep(w, t) PROVE Ownership'
  <2>1. CASE ClaimHit(w, t)
    BY <2>1, ClaimHitOwns
  <2>2. CASE \E s \in Slots : Dispatch(w, s)
    BY <2>2, DispatchOwns
  <2>3. CASE AcquirePermit(w) \/ LeaveLoop(w) \/ ClaimMiss(w, t) \/ Wake(w)
    BY <2>3, LoopShrinks, TableStays
  <2> QED
    BY <1>3, <2>1, <2>2, <2>3 DEF LoopStep
<1>4. ASSUME NEW w \in Workers, Start(w) \/ Stop(w) \/ StopStep(w) \/ Crash(w)
      PROVE  Ownership'
  <2>1. CASE AbortLeftovers(w)
    BY <1>1, <2>1, AbortShrinks, TableStays
  <2>2. CASE Crash(w)
    BY <1>1, <2>2, CrashShrinks, TableStays
  <2>3. CASE Start(w) \/ Stop(w) \/ WaitedForAborted(w) \/ StopFinishes(w)
    <3>1. UNCHANGED storageVars /\ HandsShrink /\ BeatsStay
      BY <2>3, LoopShrinks
    <3> QED
      BY <3>1, TableStays
  <2> QED
    BY <1>4, <2>1, <2>2, <2>3 DEF StopStep
<1>5. ASSUME NEW w \in Workers, NEW s \in Slots, Finally(w, s) \/ TimeoutFires(w, s)
      PROVE  Ownership'
  BY <1>1, <1>5, FinallyShrinks, TimeoutShrinks, TableStays
<1> QED
  BY <1>2, <1>3, <1>4, <1>5, ClockOwns, OthersOwn, EndOwns, BeatOwns DEF WorkerNext

LEMMA OwnershipInvariant == RowsAreKept => (WorkerSpec => [](WorkerInv /\ Ownership))
<1> SUFFICES ASSUME RowsAreKept PROVE WorkerSpec => [](WorkerInv /\ Ownership)
  OBVIOUS
<1>1. WorkerInit => WorkerInv /\ Ownership
  BY WorkerInitOK, OwnershipInit
<1>2. WorkerInv /\ Ownership /\ [WorkerNext]_vars => (WorkerInv /\ Ownership)'
  BY WorkerNextOK, OwnershipNext
<1> QED
  BY <1>1, <1>2, PTL DEF WorkerSpec

(* A live run owns its row, for any number of workers that come, go and    *)
(* crash at any time: the row is active, and for this very start, as long  *)
(* as heartbeats come in time or nothing runs into the stale timeout.      *)
THEOREM LiveRunsOwnTheirRows == RowsAreKept => (WorkerSpec => []LiveRunOwnsRow)
<1> SUFFICES ASSUME RowsAreKept PROVE WorkerSpec => []LiveRunOwnsRow
  OBVIOUS
<1>1. Ownership => LiveRunOwnsRow
  <2> SUFFICES ASSUME Ownership, NEW w \in Workers, NEW s \in Slots, Live(w, s)
               PROVE  /\ Holds(runs[w][s].job, "active")
                      /\ jobs[runs[w][s].job].attempts = runs[w][s].start
    BY DEF LiveRunOwnsRow
  <2>1. s \in Hands /\ s # 0
    BY DEF Hands, Slots
  <2> QED
    BY <2>1 DEF Ownership, OwnsRow, InHand, JobIn, StartIn
<1> QED
  BY <1>1, OwnershipInvariant, PTL

(* No job runs twice at the same time, in one worker or in two.            *)
THEOREM OneRunAtATime == RowsAreKept => (WorkerSpec => []OneRunPerJob)
<1> SUFFICES ASSUME RowsAreKept PROVE WorkerSpec => []OneRunPerJob
  OBVIOUS
<1>1. Ownership => OneRunPerJob
  <2>1. \A s \in Slots : s \in Hands /\ s # 0
    BY DEF Hands, Slots
  <2> QED
    BY <2>1 DEF Ownership, Exclusive, OneRunPerJob, InHand, JobIn
<1> QED
  BY <1>1, OwnershipInvariant, PTL

-----------------------------------------------------------------------------
(* What the end of a run leaves in its row                                 *)

LEMMA CompletionIsWritten ==
  ASSUME StorageInv, NEW t, NEW id, Holds(id, "active"), Complete(t, id)
  PROVE  id \in DOMAIN jobs' /\ jobs'[id].status = "completed"
<1>1. jobs[id] \in Row
  BY DEF StorageInv, TypeOK, Holds
<1> QED
  BY <1>1 DEF Complete, WriteActive, Holds, Row

LEMMA DeathIsWritten ==
  ASSUME StorageInv, NEW t, NEW id, NEW error, Holds(id, "active"), MoveToDead(t, id, error)
  PROVE  id \in DOMAIN jobs' /\ jobs'[id].status = "dead"
<1>1. jobs[id] \in Row
  BY DEF StorageInv, TypeOK, Holds
<1> QED
  BY <1>1 DEF MoveToDead, WriteActive, Holds, Row

(* fail() ends the job or puts it back, and not for this instant.          *)
LEMMA FailureIsWritten ==
  ASSUME StorageInv, NEW t \in Stamps, NEW id, NEW error, Holds(id, "active"),
         Fail(t, id, error, TRUE, Null)
  PROVE  /\ id \in DOMAIN jobs'
         /\ \/ jobs'[id].status = "dead"
            \/ jobs'[id].status \in Waiting /\ (RetriesWait => jobs'[id].runAt > now')
<1>1. jobs[id] \in Row
  BY DEF StorageInv, TypeOK, Holds
<1>2. CASE MoveToDead(t, id, error)
  BY <1>2, DeathIsWritten
<1>3. ASSUME NEW delay \in RetryDelays(jobs[id].backoff, jobs[id].attempts),
             Reschedule(t, id, error, t + delay)
      PROVE  /\ id \in DOMAIN jobs' /\ jobs'[id].status \in Waiting
             /\ RetriesWait => jobs'[id].runAt > now'
  <2>1. /\ id \in DOMAIN jobs' /\ now' = now /\ jobs'[id].status \in Waiting
        /\ jobs'[id].runAt = t + delay
    <3> DEFINE due == t + delay
               row == [jobs[id] EXCEPT !.status = IF due > t THEN "delayed" ELSE "pending",
                                       !.runAt = due, !.lastError = error, !.updatedAt = t,
                                       !.heartbeatAt = Null, !.cancelRequested = FALSE]
    <3>1. /\ id \in DOMAIN jobs' /\ now' = now /\ jobs'[id] = row
      BY <1>3 DEF Reschedule, WriteActive, Holds
    <3> HIDE DEF due
    <3>2. row.status \in Waiting /\ row.runAt = due
      BY <1>1 DEF Row, Waiting
    <3> QED
      BY <3>1, <3>2 DEF due
  <2>2. now \in Nat /\ t \in Nat /\ t >= now - MaxLag /\ delay \in Nat
    BY ConstantsAssumption DEF StorageInv, TypeOK, Stamps, RetryDelays
  <2>3. RetriesWait => delay > MaxLag
    BY <1>1 DEF RetriesWait, Row
  <2> QED
    BY <2>1, <2>2, <2>3, ConstantsAssumption
<1> QED
  BY <1>2, <1>3 DEF Fail

LEMMA EndIsWritten ==
  ASSUME WorkerInv, NEW w \in Workers, NEW s \in Slots, NEW t \in Stamps,
         RunEnds(w, s, t) \/ AbortSettles(w, s, t),
         Holds(runs[w][s].job, "active")
  PROVE  LET id  == runs[w][s].job
             end == runs'[w][s].phase
         IN  /\ end \in Settled
             /\ id \in DOMAIN jobs'
             /\ end \in {"completed", "dead"} => jobs'[id].status = end
             /\ end = "failed" => /\ jobs'[id].status \in Waiting
                                  /\ RetriesWait => jobs'[id].runAt > now'
             /\ end = "released" => Stopping(w)
             /\ end = "error" => WritesFail /\ UNCHANGED storageVars
<1> DEFINE id  == runs[w][s].job
           end == runs'[w][s].phase
<1>1. Types /\ StorageInv /\ id \in DOMAIN jobs
  BY DEF WorkerInv, Local, Holds
<1>2. ASSUME NEW phase \in Settled, Settle(w, s, phase) PROVE end = phase
  BY <1>1, <1>2, SettleShrinks
<1>3. CASE CallThrows(w, s)
  <2>1. end = "error"
    BY <1>2, <1>3 DEF CallThrows, Settled
  <2> QED
    BY <1>1, <1>3, <2>1 DEF CallThrows, storageVars, Settled
<1>4. CASE Complete(t, id) /\ Settle(w, s, "completed")
  <2>1. end = "completed"
    BY <1>2, <1>4 DEF Settled, Reported
  <2>2. id \in DOMAIN jobs' /\ jobs'[id].status = "completed"
    BY <1>1, <1>4, CompletionIsWritten
  <2> QED
    BY <2>1, <2>2 DEF Settled, Reported
<1>5. ASSUME NEW error, KillRun(w, s, t, error)
      PROVE  end = "dead" /\ id \in DOMAIN jobs' /\ jobs'[id].status = "dead"
  <2>1. end = "dead"
    BY <1>2, <1>5 DEF KillRun, Settled, Reported
  <2>2. id \in DOMAIN jobs' /\ jobs'[id].status = "dead"
    BY <1>1, <1>5, DeathIsWritten DEF KillRun
  <2> QED
    BY <2>1, <2>2
<1>6. CASE FailRun(w, s, t)
  <2>1. Fail(t, id, "failed", TRUE, Null)
    BY <1>6 DEF FailRun
  <2>2. /\ id \in DOMAIN jobs'
        /\ \/ jobs'[id].status = "dead"
           \/ jobs'[id].status \in Waiting /\ (RetriesWait => jobs'[id].runAt > now')
    <3> HIDE DEF id
    <3>1. Holds(id, "active")
      BY DEF id
    <3> QED
      BY <1>1, <2>1, <3>1, FailureIsWritten
  <2>3. end = IF jobs'[id].status = "dead" THEN "dead" ELSE "failed"
    BY <1>1, <1>2, <1>6 DEF FailRun, Settled, Reported
  <2> QED
    BY <2>2, <2>3 DEF Settled, Reported
<1>7. CASE Stopping(w) /\ ReleaseRun(w, s, t)
  <2>1. end = "released"
    BY <1>2, <1>7 DEF ReleaseRun, Settled
  <2>2. id \in DOMAIN jobs'
    BY <1>1, <1>7 DEF ReleaseRun, Release, WriteActive
  <2> QED
    BY <1>7, <2>1, <2>2 DEF Settled
<1>8. \/ CallThrows(w, s) \/ FailRun(w, s, t)
      \/ \E error : KillRun(w, s, t, error)
      \/ Complete(t, id) /\ Settle(w, s, "completed")
      \/ Stopping(w) /\ ReleaseRun(w, s, t)
  BY DEF RunEnds, HandlerReturns, HandlerThrows, AbortSettles
<1> QED
  BY <1>3, <1>4, <1>5, <1>6, <1>7, <1>8 DEF Settled, Reported

(* No other step ends a live run with a report.                            *)
LEMMA OnlyEndsReport ==
  ASSUME WorkerInv, [WorkerNext]_vars, NEW w \in Workers, NEW s \in Slots,
         Live(w, s), runs'[w][s].phase \in Settled
  PROVE  \E t \in Stamps : RunEnds(w, s, t) \/ AbortSettles(w, s, t)
<1>1. Types /\ now \in Nat
  BY DEF WorkerInv, Local, StorageInv, TypeOK
<1>2. runs'[w][s].phase \notin {"free", "handler"} /\ runs[w][s].phase = "handler"
  BY DEF Live, Settled, Reported
<1>3. ~(runs' = runs)
  BY <1>2
<1>4. ASSUME NEW t \in Stamps, NEW v \in Workers, LoopStep(v, t) PROVE FALSE
  <2>1. CASE \E r \in Slots : Dispatch(v, r)
    BY <1>1, <1>2, <2>1, DispatchMoves
  <2>2. CASE ClaimHit(v, t)
    BY <1>3, <2>2 DEF ClaimHit, runVars
  <2> QED
    BY <1>3, <1>4, <2>1, <2>2, LoopShrinks DEF LoopStep, runVars
<1>5. ASSUME NEW v \in Workers, Start(v) \/ Stop(v) \/ StopStep(v) \/ Crash(v) PROVE FALSE
  <2>1. CASE AbortLeftovers(v)
    BY <1>1, <1>2, <2>1, AbortShrinks
  <2>2. CASE Crash(v)
    BY <1>1, <1>2, <2>2, CrashShrinks
  <2>3. CASE Start(v) \/ Stop(v) \/ WaitedForAborted(v) \/ StopFinishes(v)
    <3>1. UNCHANGED runVars
      BY <2>3, LoopShrinks
    <3> QED
      BY <1>3, <3>1 DEF runVars
  <2> QED
    BY <1>5, <2>1, <2>2, <2>3 DEF StopStep
<1>6. ASSUME NEW v \in Workers, NEW r \in Slots, Finally(v, r) \/ TimeoutFires(v, r) PROVE FALSE
  BY <1>1, <1>2, <1>6, FinallyShrinks, TimeoutShrinks DEF NoRun
<1>7. ASSUME NEW v \in Workers, NEW r \in Slots, NEW t \in Stamps, Beat(v, r, t) PROVE FALSE
  BY <1>1, <1>2, <1>7, BeatShrinks
<1>8. ASSUME NEW v \in Workers, NEW r \in Slots, NEW t \in Stamps,
             RunEnds(v, r, t) \/ AbortSettles(v, r, t)
      PROVE  v = w /\ r = s
  <2>1. PICK phase \in Settled : Settle(v, r, phase)
    BY <1>8, EndIsSettle
  <2> QED
    BY <1>1, <1>2, <2>1, SettleShrinks
<1>9. CASE Clock \/ (\E t \in Stamps : Others(t)) \/ UNCHANGED vars
  BY <1>3, <1>9 DEF Clock, Others, vars, workerVars, runVars
<1> QED
  BY <1>4, <1>5, <1>6, <1>7, <1>8, <1>9 DEF WorkerNext

(* The end that a run reports is the end that its row has come to, and     *)
(* the row was its own.                                                    *)
THEOREM OutcomesAreTruthful == RowsAreKept => (WorkerSpec => TruthfulOutcome)
<1> SUFFICES ASSUME RowsAreKept PROVE WorkerSpec => TruthfulOutcome
  OBVIOUS
<1> DEFINE Told ==
      \A w \in Workers : \A s \in Slots :
        (Live(w, s) /\ runs'[w][s].phase \in Reported) =>
          LET id  == runs[w][s].job
              end == runs'[w][s].phase
          IN  /\ Holds(id, "active")
              /\ jobs[id].attempts = runs[w][s].start
              /\ jobs'[id].status \in (IF end = "failed" THEN Waiting ELSE {end})
<1>1. ASSUME WorkerInv, Ownership, [WorkerNext]_vars PROVE Told
  <2> SUFFICES ASSUME NEW w \in Workers, NEW s \in Slots,
                      Live(w, s), runs'[w][s].phase \in Reported
               PROVE  LET id  == runs[w][s].job
                          end == runs'[w][s].phase
                      IN  /\ Holds(id, "active")
                          /\ jobs[id].attempts = runs[w][s].start
                          /\ jobs'[id].status \in (IF end = "failed" THEN Waiting ELSE {end})
    OBVIOUS
  <2>1. s \in Hands /\ s # 0
    BY DEF Hands, Slots
  <2>2. Holds(runs[w][s].job, "active") /\ jobs[runs[w][s].job].attempts = runs[w][s].start
    BY <1>1, <2>1 DEF Ownership, OwnsRow, InHand, JobIn, StartIn
  <2>3. PICK t \in Stamps : RunEnds(w, s, t) \/ AbortSettles(w, s, t)
    BY <1>1, OnlyEndsReport DEF Settled
  <2> QED
    BY <1>1, <2>2, <2>3, EndIsWritten DEF Reported
<1> QED
  BY <1>1, OwnershipInvariant, PTL DEF WorkerSpec, TruthfulOutcome

-----------------------------------------------------------------------------
(* A quiet row stays quiet while the clock stands                          *)

LEMMA OthersKeepResting ==
  ASSUME RowsAreKept, StorageInv, now <= MaxTime, NEW t \in Stamps,
         ClientCall(t) \/ MaintenanceCall(t), NEW id \in 1 .. nextId - 1, Resting(id)
  PROVE  Resting(id)' /\ id \in 1 .. nextId' - 1
<1>1. /\ now \in Nat /\ t \in Nat /\ t <= now /\ nextId \in Nat
      /\ now' = now /\ (nextId' = nextId \/ nextId' = nextId + 1)
  <2>1. now' = now /\ (nextId' = nextId \/ nextId' = nextId + 1)
    BY DEF ClientCall, MaintenanceCall, Enqueue, Cancel, PromoteDelayed, ReclaimStale, Cleanup
  <2> QED
    BY <2>1, ConstantsAssumption DEF StorageInv, TypeOK, Stamps
<1> SUFFICES ASSUME id \in DOMAIN jobs' PROVE Resting(id)'
  BY <1>1 DEF Resting
<1>2. id \in DOMAIN jobs
  <2>1. DOMAIN jobs' \subseteq DOMAIN jobs \cup {nextId}
    BY DEF ClientCall, MaintenanceCall, Enqueue, Cancel, PromoteDelayed, ReclaimStale, Cleanup
  <2> QED
    BY <1>1, <2>1
<1>3. /\ jobs[id] \in Row /\ jobs[id].runAt \in Nat
      /\ jobs[id].status = "active" => jobs[id].heartbeatAt \in Nat
  BY <1>2 DEF StorageInv, TypeOK, Row, ActiveIsReclaimable
<1>4. "active" \notin Waiting /\ "active" \notin Terminal /\ Waiting \cap Terminal = {}
  BY DEF Waiting, Terminal
<1>5. CASE jobs'[id] = jobs[id]
  BY <1>1, <1>2, <1>5 DEF Resting
<1>6. CASE \E i \in 1 .. nextId - 1 : Cancel(t, i)
  <2>1. \/ jobs'[id] = jobs[id]
        \/ jobs[id].status \in Waiting /\ jobs'[id].status = "dead"
        \/ jobs[id].status = "active" /\ jobs'[id].status = "active"
    BY <1>2, <1>3, <1>6 DEF Cancel, Row
  <2> QED
    BY <1>1, <1>2, <1>4, <1>5, <2>1 DEF Resting, Terminal
<1>7. CASE \E queue \in Queues, priority \in Priorities, key \in DedupKeys \cup {NoKey},
             limit \in AttemptLimits, backoff \in Backoffs, runAt \in CallerTimes(t) :
            Enqueue(t, queue, priority, key, limit, backoff, runAt)
  BY <1>1, <1>2, <1>5, <1>7 DEF Enqueue
<1>8. CASE PromoteDelayed(t)
  <2>1. ~(jobs[id].status = "delayed" /\ jobs[id].runAt <= t)
    BY <1>1, <1>2, <1>3, <1>4 DEF Resting, Waiting, Terminal
  <2> QED
    BY <1>2, <1>5, <1>8, <2>1 DEF PromoteDelayed
<1>9. CASE ReclaimStale(t)
  <2>1. ~Stale(t, id)
    BY <1>1, <1>2, <1>3, <1>4, ConstantsAssumption DEF Resting, Stale, Holds, NothingGoesStale
  <2> QED
    BY <1>2, <1>5, <1>9, <2>1 DEF ReclaimStale
<1>10. CASE Cleanup(t)
  BY <1>2, <1>5, <1>10 DEF Cleanup
<1> QED
  BY <1>6, <1>7, <1>8, <1>9, <1>10 DEF ClientCall, MaintenanceCall

(* A row that is not written keeps its rest.                               *)
LEMMA UnwrittenStaysQuiet ==
  ASSUME NEW id, Quiet(id), HandsShrink, DOMAIN jobs' = DOMAIN jobs,
         nextId' = nextId, now' = now, id \in DOMAIN jobs => jobs'[id] = jobs[id]
  PROVE  Quiet(id)'
BY DEF Quiet, Resting, HandsShrink

LEMMA QuietStays ==
  ASSUME RowsAreKept, WorkerInv, Ownership, [WorkerNext]_vars, now' = now, NEW id, Quiet(id)
  PROVE  Quiet(id)'
<1>1. Types /\ StorageInv /\ now \in Nat /\ id \in 1 .. nextId - 1 /\ Resting(id)
  BY DEF WorkerInv, Local, StorageInv, TypeOK, Quiet
<1>2. CASE UNCHANGED storageVars /\ HandsShrink
  BY <1>2, UnwrittenStaysQuiet DEF storageVars
<1>3. CASE UNCHANGED vars
  <2>1. UNCHANGED storageVars /\ UNCHANGED <<loop, claimed, runs>>
    BY <1>3 DEF vars, workerVars, loopVars, runVars
  <2> QED
    BY <1>2, <2>1 DEF HandsShrink, InHand, JobIn, StartIn, Live
<1>4. ASSUME NEW t \in Stamps, Others(t) PROVE Quiet(id)'
  <2>1. UNCHANGED <<loop, claimed, runs>>
    BY <1>4 DEF Others, workerVars, loopVars, runVars
  <2>2. Resting(id)' /\ id \in 1 .. nextId' - 1
    BY <1>1, <1>4, OthersKeepResting DEF Others, Ownership
  <2> QED
    BY <2>1, <2>2 DEF Quiet, InHand, JobIn, Live
<1>5. ASSUME NEW t \in Stamps, NEW w \in Workers, ClaimHit(w, t) PROVE Quiet(id)'
  <2>1. PICK job \in DOMAIN jobs :
          /\ ClaimNext(t, {}, job)
          /\ claimed' = [claimed EXCEPT ![w] = [job |-> job, start |-> jobs[job].attempts + 1]]
    BY <1>5 DEF ClaimHit
  <2>2. loop' = [loop EXCEPT ![w] = "claimed"] /\ UNCHANGED runs
    BY <1>5 DEF ClaimHit, runVars
  <2>3. job # id
    <3>1. jobs[job].status = "pending" /\ jobs[job].runAt <= t /\ jobs[job].runAt \in Nat
      BY <1>1, <2>1 DEF ClaimNext, Runnable, StorageInv, TypeOK, Row
    <3>2. t \in Nat /\ t <= now
      BY <1>1, ConstantsAssumption DEF Stamps
    <3> QED
      BY <1>1, <3>1, <3>2 DEF Resting, Terminal
  <2>4. Resting(id)' /\ nextId' = nextId
    BY <1>1, <2>1, <2>3 DEF ClaimNext, Resting
  <2>5. ASSUME NEW v \in Workers, NEW h \in Hands, InHand(v, h)' PROVE JobIn(v, h)' # id
    <3>1. CASE v = w /\ h = 0
      BY <1>1, <2>1, <2>3, <3>1 DEF JobIn, Types
    <3>2. CASE v # w \/ h # 0
      BY <1>1, <2>1, <2>2, <2>5, <3>2 DEF Quiet, InHand, JobIn, Live, Types
    <3> QED
      BY <3>1, <3>2
  <2> QED
    BY <1>1, <2>4, <2>5 DEF Quiet
<1>6. ASSUME NEW w \in Workers, NEW s \in Slots, Dispatch(w, s) PROVE Quiet(id)'
  <2>1. /\ UNCHANGED storageVars /\ InHand(w, 0) /\ JobIn(w, s)' = JobIn(w, 0)
        /\ \A v \in Workers : \A h \in Hands :
             (InHand(v, h)' /\ (v # w \/ h # s)) => InHand(v, h) /\ JobIn(v, h)' = JobIn(v, h)
    BY <1>1, <1>6, DispatchMoves
  <2>2. 0 \in Hands
    BY DEF Hands
  <2> QED
    BY <2>1, <2>2 DEF Quiet, Resting, storageVars
<1>7. ASSUME NEW w \in Workers, NEW s \in Slots, NEW t \in Stamps,
             RunEnds(w, s, t) \/ AbortSettles(w, s, t) \/ Beat(w, s, t)
      PROVE  Quiet(id)'
  <2> DEFINE job == runs[w][s].job
  <2>1. /\ Live(w, s) /\ HandsShrink
        /\ \/ UNCHANGED storageVars
           \/ Complete(t, job) \/ Release(t, job) \/ Heartbeat(t, job)
           \/ \E error : MoveToDead(t, job, error)
           \/ \E error : Fail(t, job, error, TRUE, Null)
    <3>1. CASE Beat(w, s, t)
      BY <1>1, <3>1, BeatShrinks DEF Beat, Beaten, BeatThrows
    <3>2. CASE RunEnds(w, s, t) \/ AbortSettles(w, s, t)
      <4>1. PICK phase \in Settled : Settle(w, s, phase)
        BY <3>2, EndIsSettle
      <4> QED
        BY <1>1, <3>2, <4>1, EndIsSettle, SettleShrinks
    <3> QED
      BY <1>7, <3>1, <3>2
  <2>2. job # id
    <3>1. s \in Hands /\ s # 0
      BY DEF Hands, Slots
    <3> QED
      BY <2>1, <3>1 DEF Quiet, InHand, JobIn
  <2>3. /\ DOMAIN jobs' = DOMAIN jobs /\ nextId' = nextId
        /\ id \in DOMAIN jobs => jobs'[id] = jobs[id]
    <3> HIDE DEF job
    <3> QED
      BY <2>1, <2>2, WriteSparesOthers
  <2> QED
    BY <2>1, <2>3, UnwrittenStaysQuiet
<1>8. ASSUME NEW w \in Workers,
             \/ AcquirePermit(w) \/ LeaveLoop(w) \/ Wake(w) \/ \E t \in Stamps : ClaimMiss(w, t)
             \/ Start(w) \/ Stop(w) \/ WaitedForAborted(w) \/ StopFinishes(w)
      PROVE  Quiet(id)'
  BY <1>2, <1>8, LoopShrinks
<1>9. ASSUME NEW w \in Workers,
             \/ AbortLeftovers(w) \/ Crash(w)
             \/ \E s \in Slots : Finally(w, s) \/ TimeoutFires(w, s)
      PROVE  Quiet(id)'
  BY <1>1, <1>2, <1>9, AbortShrinks, CrashShrinks, FinallyShrinks, TimeoutShrinks
<1>10. ~Clock
  BY <1>1 DEF Clock, Tick
<1> QED
  BY <1>3, <1>4, <1>5, <1>6, <1>7, <1>8, <1>9, <1>10 DEF WorkerNext, LoopStep, StopStep

-----------------------------------------------------------------------------
(* Each step keeps a worker tidy                                           *)

QuietKept == \A id \in JobIds : Quiet(id) => Quiet(id)'

(* What a step keeps of a worker that it does not move on.                 *)
Kept(w) ==
  /\ controllers'[w] = controllers[w] /\ state'[w] = state[w] /\ stopStep'[w] = stopStep[w]
  /\ loop'[w] = "claimed" => loop[w] = "claimed"
  /\ \A s \in Slots :
       /\ runs'[w][s].phase = runs[w][s].phase /\ runs'[w][s].job = runs[w][s].job
       /\ runs[w][s].aborted => runs'[w][s].aborted
  /\ \A h \in Hands : InHand(w, h)' => InHand(w, h) /\ JobIn(w, h)' = JobIn(w, h)

LEMMA NamedJobs ==
  ASSUME WorkerInv, NEW w \in Workers, NEW s \in Slots, runs[w][s].phase # "free"
  PROVE  runs[w][s].job \in JobIds /\ runs[w][s].job \in 1 .. nextId - 1
<1>1. runs[w][s].job \in 1 .. nextId - 1 /\ nextId \in 1 .. MaxJobs + 1
  BY DEF WorkerInv, Local, Known, StorageInv, TypeOK
<1> QED
  BY <1>1, ConstantsAssumption DEF JobIds

LEMMA Phases ==
  /\ "free" \notin Settled /\ "handler" \notin Settled
  /\ \A r \in Run : r.phase \in {"free", "handler"} \cup Settled
BY DEF Settled, Reported, Run

(* A run that is over stays over until its finally block.                  *)
LEMMA OverStays ==
  ASSUME WorkerInv, QuietKept, NEW w \in Workers, NEW s \in Slots, Over(w, s),
         runs[w][s].phase \in Settled,
         runs'[w][s].phase = runs[w][s].phase, runs'[w][s].job = runs[w][s].job,
         state[w] = "stopping" => state'[w] = "stopping",
         state[w] = "stopping" =>
           \A h \in Hands : InHand(w, h)' => \E g \in Hands : InHand(w, g) /\ JobIn(w, h)' = JobIn(w, g)
  PROVE  Over(w, s)'
<1>1. PICK id \in JobIds : id = runs[w][s].job
  BY NamedJobs, Phases
<1>2. runs'[w][s].job = id
  BY <1>1
<1>3. CASE Quiet(id)
  <2>1. Quiet(id)'
    BY <1>3 DEF QuietKept
  <2> QED
    BY <1>2, <2>1 DEF Over
<1>4. CASE ~Quiet(id)
  <2>1. /\ runs[w][s].phase = "released" /\ state[w] = "stopping"
        /\ \A h \in Hands : InHand(w, h) => JobIn(w, h) # id
    BY <1>1, <1>4 DEF Over
  <2> QED
    BY <1>2, <2>1 DEF Over
<1> QED
  BY <1>3, <1>4

LEMMA KeptIsTidy ==
  ASSUME WorkerInv, NEW w \in Workers, Controlled(w), Draining(w), Kept(w),
         QuietKept \/ \A s \in Slots : runs[w][s].phase \notin Settled
  PROVE  Controlled(w)' /\ Draining(w)'
<1>1. ASSUME NEW s \in Slots, runs'[w][s].phase \in Settled PROVE Over(w, s)'
  <2>1. Over(w, s) /\ QuietKept
    BY <1>1 DEF Controlled, Kept
  <2> QED
    BY <1>1, <2>1, OverStays DEF Kept
<1>2. ASSUME NEW s \in Slots, Live(w, s)'
      PROVE  Live(w, s) /\ controllers'[w][runs'[w][s].job] = s
  BY <1>2 DEF Controlled, Kept, Live
<1>3. Draining(w)'
  BY DEF Draining, Kept, Live
<1> QED
  BY <1>1, <1>2, <1>3 DEF Controlled

(* A worker that a step does not touch at all.                             *)
LEMMA AsideIsKept ==
  ASSUME NEW v \in Workers,
         controllers'[v] = controllers[v], state'[v] = state[v], stopStep'[v] = stopStep[v],
         loop'[v] = loop[v], claimed'[v] = claimed[v], runs'[v] = runs[v]
  PROVE  Kept(v)
BY DEF Kept, InHand, JobIn, Live

LEMMA ShrinkIsKept ==
  ASSUME NEW v \in Workers, HandsShrink,
         controllers'[v] = controllers[v], state'[v] = state[v], stopStep'[v] = stopStep[v],
         loop'[v] = "claimed" => loop[v] = "claimed",
         \A s \in Slots :
           /\ runs'[v][s].phase = runs[v][s].phase /\ runs'[v][s].job = runs[v][s].job
           /\ runs[v][s].aborted => runs'[v][s].aborted
  PROVE  Kept(v)
BY DEF Kept, HandsShrink

(* Whoever takes a step leaves the others' parts of the state as they are. *)
LEMMA OneWorkerSteps ==
  ASSUME WorkerInv, NEW w \in Workers, NEW v \in Workers, v # w,
         \/ Start(w) \/ Stop(w) \/ StopStep(w) \/ Crash(w)
         \/ \E t \in Stamps : LoopStep(w, t)
         \/ \E s \in Slots : Finally(w, s) \/ TimeoutFires(w, s)
         \/ \E s \in Slots, t \in Stamps :
              RunEnds(w, s, t) \/ AbortSettles(w, s, t) \/ Beat(w, s, t)
  PROVE  Kept(v)
<1>1. Types /\ now \in Nat
  BY DEF WorkerInv, Local, StorageInv, TypeOK
<1>2. CASE Start(w) \/ Stop(w) \/ StopStep(w) \/ Crash(w)
  BY <1>1, <1>2, AsideIsKept
  DEF Start, Stop, StopStep, AbortLeftovers, WaitedForAborted, StopFinishes, Crash, Types,
      lifeVars, loopVars, runVars
<1>3. ASSUME NEW t \in Stamps, LoopStep(w, t) PROVE Kept(v)
  BY <1>1, <1>3, AsideIsKept
  DEF LoopStep, AcquirePermit, LeaveLoop, ClaimHit, ClaimMiss, Wake, Dispatch, Types,
      lifeVars, loopVars, runVars
<1>4. ASSUME NEW s \in Slots, Finally(w, s) \/ TimeoutFires(w, s) PROVE Kept(v)
  BY <1>1, <1>4, AsideIsKept DEF Finally, TimeoutFires, Types, lifeVars, loopVars, runVars
<1>5. ASSUME NEW s \in Slots, NEW t \in Stamps, RunEnds(w, s, t) \/ AbortSettles(w, s, t)
      PROVE  Kept(v)
  <2>1. PICK phase \in Settled : Settle(w, s, phase)
    BY <1>5, EndIsSettle
  <2> QED
    BY <1>1, <2>1, AsideIsKept DEF Settle, Types, lifeVars, loopVars
<1>6. ASSUME NEW s \in Slots, NEW t \in Stamps, Beat(w, s, t) PROVE Kept(v)
  BY <1>1, <1>6, AsideIsKept DEF Beat, Beaten, BeatThrows, Types, lifeVars, loopVars
<1> QED
  BY <1>2, <1>3, <1>4, <1>5, <1>6

LEMMA ClaimHitTidy ==
  ASSUME WorkerInv, QuietKept, NEW w \in Workers, NEW t, Controlled(w), Draining(w), ClaimHit(w, t)
  PROVE  Controlled(w)' /\ Draining(w)'
<1>1. /\ state[w] = "running" /\ UNCHANGED <<state, stopStep, runs, controllers>>
      /\ stopStep[w] = "none"
  BY DEF ClaimHit, lifeVars, runVars, WorkerInv, Local, Orderly, Types
<1>2. ASSUME NEW s \in Slots, runs'[w][s].phase \in Settled PROVE Over(w, s)'
  <2>1. Over(w, s)
    BY <1>1, <1>2 DEF Controlled
  <2> QED
    BY <1>1, <1>2, <2>1, OverStays
<1>3. Draining(w)'
  BY <1>1 DEF Draining
<1> QED
  BY <1>1, <1>2, <1>3 DEF Controlled, Live

LEMMA DispatchTidy ==
  ASSUME WorkerInv, Ownership, QuietKept, NEW w \in Workers, NEW s \in Slots,
         Controlled(w), Draining(w), Dispatch(w, s)
  PROVE  Controlled(w)' /\ Draining(w)'
<1> DEFINE job == claimed[w].job
<1>1. /\ Types /\ now \in Nat /\ loop[w] = "claimed" /\ UNCHANGED <<state, stopStep>>
      /\ controllers' = [controllers EXCEPT ![w][job] = s]
  BY DEF WorkerInv, Local, StorageInv, TypeOK, Dispatch, lifeVars
<1>2. job \in JobIds
  <2>1. job \in 1 .. nextId - 1 /\ nextId \in 1 .. MaxJobs + 1
    BY <1>1 DEF WorkerInv, Local, Known, StorageInv, TypeOK
  <2> QED
    BY <2>1, ConstantsAssumption DEF JobIds
<1>3. /\ s \in Hands /\ s # 0 /\ 0 \in Hands
      /\ InHand(w, 0) /\ runs'[w][s].phase = "handler"
      /\ JobIn(w, s)' = JobIn(w, 0)
      /\ \A r \in Slots : r # s => runs'[w][r] = runs[w][r]
      /\ \A h \in Hands : (InHand(w, h)' /\ h # s) => InHand(w, h) /\ JobIn(w, h)' = JobIn(w, h)
  BY <1>1, DispatchMoves DEF Hands
<1>4. JobIn(w, 0) = job /\ runs'[w][s].job = job
  BY <1>3 DEF JobIn
<1>5. ASSUME NEW r \in Slots, runs'[w][r].phase \in Settled PROVE Over(w, r)'
  <2>1. r # s
    BY <1>3, <1>5, Phases
  <2>2. runs'[w][r] = runs[w][r] /\ Over(w, r)
    BY <1>3, <1>5, <2>1 DEF Controlled
  <2>3. \A h \in Hands : InHand(w, h)' => \E g \in Hands : InHand(w, g) /\ JobIn(w, h)' = JobIn(w, g)
    BY <1>3
  <2> QED
    BY <1>1, <1>5, <2>2, <2>3, OverStays
<1>6. ASSUME NEW r \in Slots, Live(w, r)' PROVE controllers'[w][runs'[w][r].job] = r
  <2>1. CASE r = s
    BY <1>1, <1>2, <1>4, <2>1 DEF Types
  <2>2. CASE r # s
    <3>1. runs'[w][r] = runs[w][r] /\ Live(w, r) /\ controllers[w][runs[w][r].job] = r
      BY <1>3, <1>6, <2>2 DEF Live, Controlled
    <3>2. runs[w][r].job # job
      <4>1. r \in Hands /\ r # 0
        BY DEF Hands, Slots
      <4>2. InHand(w, r) /\ JobIn(w, r) = runs[w][r].job
        BY <3>1, <4>1 DEF InHand, JobIn
      <4> QED
        BY <1>3, <1>4, <4>1, <4>2, OtherHandsOtherJobs
    <3>3. runs[w][r].job \in JobIds
      BY <3>1, NamedJobs DEF Live
    <3> QED
      BY <1>1, <1>2, <3>1, <3>2, <3>3 DEF Types
  <2> QED
    BY <2>1, <2>2
<1>7. Draining(w)'
  <2>1. stopStep[w] \notin {"settling", "joining"} /\ state[w] \notin {"idle", "stopped"}
    BY <1>1 DEF Draining, WorkerInv, Local, Orderly
  <2> QED
    BY <1>1, <2>1 DEF Draining
<1> QED
  BY <1>5, <1>6, <1>7 DEF Controlled

(* The steps of start() and stop() that leave the runs alone.              *)
LEMMA StopTidy ==
  ASSUME WorkerInv, QuietKept, NEW w \in Workers, Controlled(w), Draining(w),
         Start(w) \/ Stop(w) \/ WaitedForAborted(w) \/ StopFinishes(w)
  PROVE  Controlled(w)' /\ Draining(w)'
<1>1. /\ Types /\ Orderly(w) /\ HandsShrink /\ UNCHANGED <<runs, controllers>>
      /\ loop'[w] = "claimed" => loop[w] = "claimed"
  BY LoopShrinks DEF WorkerInv, Local, runVars, HandsShrink, InHand, Start, Stop,
     WaitedForAborted, StopFinishes, loopVars, Types
<1>2. \/ \A s \in Slots : runs[w][s].phase = "free"
      \/ state[w] = "stopping" => state'[w] = "stopping"
  BY <1>1 DEF Start, Stop, WaitedForAborted, StopFinishes, Draining, Types
<1>3. ASSUME NEW s \in Slots, runs'[w][s].phase \in Settled PROVE Over(w, s)'
  <2>1. Over(w, s) /\ runs[w][s].phase # "free"
    BY <1>1, <1>3, Phases DEF Controlled
  <2>2. \A h \in Hands : InHand(w, h)' => \E g \in Hands : InHand(w, g) /\ JobIn(w, h)' = JobIn(w, g)
    BY <1>1 DEF HandsShrink
  <2> QED
    BY <1>1, <1>2, <1>3, <2>1, <2>2, OverStays
<1>4. Draining(w)'
  <2>1. CASE Start(w)
    <3>1. stopStep'[w] = "none" /\ state'[w] = "running"
      BY <1>1, <2>1 DEF Start, Orderly, Types
    <3> QED
      BY <3>1 DEF Draining
  <2>2. CASE Stop(w)
    <3>1. \/ state[w] = "idle" /\ UNCHANGED stopStep
          \/ state'[w] = "stopping" /\ stopStep'[w] = "draining"
      BY <1>1, <2>2 DEF Stop, Types
    <3>2. state[w] = "idle" => stopStep[w] = "none"
      BY <1>1 DEF Orderly, Types
    <3> QED
      BY <1>1, <3>1, <3>2 DEF Draining
  <2>3. CASE WaitedForAborted(w)
    <3>1. /\ stopStep[w] = "settling" /\ stopStep'[w] = "joining" /\ loop' = loop
          /\ state' = state
      BY <1>1, <2>3 DEF WaitedForAborted, Types, loopVars
    <3>2. \A s \in Slots : Live(w, s) => runs[w][s].aborted
      BY <3>1 DEF Draining
    <3>3. \A s \in Slots : runs[w][s].phase = "free"
      <4>1. \A s \in Slots : runs[w][s].phase \in {"free", "handler"} \cup Settled
        BY <1>1, Phases DEF Types
      <4> QED
        BY <2>3, <3>2, <4>1 DEF WaitedForAborted, Microtasks, Live
    <3> QED
      BY <1>1, <3>1, <3>2, <3>3 DEF Draining, Live
  <2>4. CASE StopFinishes(w)
    <3>1. stopStep[w] = "joining" /\ stopStep'[w] = "none"
      BY <1>1, <2>4 DEF StopFinishes, Types
    <3> QED
      BY <1>1, <3>1 DEF Draining
  <2> QED
    BY <2>1, <2>2, <2>3, <2>4
<1> QED
  BY <1>1, <1>3, <1>4 DEF Controlled, Live

(* #jobControllers knows every live run, so the abort reaches it.          *)
LEMMA AbortTidy ==
  ASSUME WorkerInv, QuietKept, NEW w \in Workers, Controlled(w), Draining(w), AbortLeftovers(w)
  PROVE  Controlled(w)' /\ Draining(w)'
<1>1. /\ Types /\ HandsShrink
      /\ \A r \in Slots :
           /\ runs'[w][r].phase = runs[w][r].phase /\ runs'[w][r].job = runs[w][r].job
           /\ runs[w][r].aborted => runs'[w][r].aborted
           /\ (\E id \in JobIds : controllers[w][id] = r) => runs'[w][r].aborted
  BY AbortShrinks DEF WorkerInv, Local
<1>2. /\ UNCHANGED <<state, loop, controllers>> /\ stopStep'[w] = "settling"
      /\ stopStep[w] = "draining" /\ loop[w] # "claimed"
  BY <1>1 DEF AbortLeftovers, loopVars, Types
<1>3. ASSUME NEW s \in Slots, runs'[w][s].phase \in Settled PROVE Over(w, s)'
  <2>1. Over(w, s)
    BY <1>1, <1>3 DEF Controlled
  <2> QED
    BY <1>1, <1>2, <1>3, <2>1, OverStays DEF HandsShrink
<1>4. ASSUME NEW s \in Slots, Live(w, s)' PROVE runs'[w][s].aborted
  <2>1. controllers[w][runs[w][s].job] = s /\ runs[w][s].job \in JobIds
    BY <1>1, <1>4, NamedJobs DEF Controlled, Live
  <2> QED
    BY <1>1, <2>1
<1>5. Draining(w)'
  <2>1. state[w] = "stopping"
    BY <1>2 DEF WorkerInv, Local, Orderly
  <2> QED
    BY <1>2, <1>4, <2>1 DEF Draining
<1> QED
  BY <1>1, <1>2, <1>3, <1>5 DEF Controlled, Live

LEMMA CrashTidy ==
  ASSUME WorkerInv, NEW w \in Workers, Crash(w)
  PROVE  Controlled(w)' /\ Draining(w)'
<1>1. /\ Types /\ \A r \in Slots : runs'[w][r].phase = "free"
  BY CrashShrinks DEF WorkerInv, Local
<1>2. stopStep'[w] = "none"
  BY <1>1 DEF Crash, Types
<1> QED
  BY <1>1, <1>2, Phases DEF Controlled, Draining, Live

(* The finally block takes its own controller away, no other one.          *)
LEMMA FinallyTidy ==
  ASSUME WorkerInv, QuietKept, NEW w \in Workers, NEW s \in Slots, Controlled(w), Draining(w),
         Finally(w, s)
  PROVE  Controlled(w)' /\ Draining(w)'
<1> DEFINE job == runs[w][s].job
<1>1. /\ Types /\ HandsShrink /\ runs'[w][s] = NoRun
      /\ \A r \in Slots : r # s => runs'[w][r] = runs[w][r]
  BY FinallyShrinks DEF WorkerInv, Local
<1>2. /\ runs[w][s].phase \in Settled /\ UNCHANGED <<state, stopStep>>
      /\ controllers' = [controllers EXCEPT ![w][job] = 0]
      /\ loop'[w] = "claimed" => loop[w] = "claimed"
  BY <1>1 DEF Finally, lifeVars, Types
<1>3. ASSUME NEW h \in Hands, InHand(w, h) PROVE JobIn(w, h) # job
  BY <1>2, <1>3 DEF Controlled, Over, Quiet
<1>4. ASSUME NEW r \in Slots, runs'[w][r].phase # "free" PROVE r # s /\ runs'[w][r] = runs[w][r]
  BY <1>1, <1>4 DEF NoRun
<1>5. ASSUME NEW r \in Slots, runs'[w][r].phase \in Settled PROVE Over(w, r)'
  <2>1. runs'[w][r] = runs[w][r] /\ Over(w, r)
    BY <1>4, <1>5, Phases DEF Controlled
  <2> QED
    BY <1>1, <1>2, <1>5, <2>1, OverStays DEF HandsShrink
<1>6. ASSUME NEW r \in Slots, Live(w, r)' PROVE controllers'[w][runs'[w][r].job] = r
  <2>1. /\ runs'[w][r] = runs[w][r] /\ Live(w, r)
        /\ controllers[w][runs[w][r].job] = r
    BY <1>4, <1>6 DEF Live, Controlled
  <2>2. runs[w][r].job # job
    <3>1. r \in Hands /\ r # 0
      BY DEF Hands, Slots
    <3> QED
      BY <1>3, <2>1, <3>1 DEF InHand, JobIn
  <2>3. runs[w][r].job \in JobIds
    BY <2>1, NamedJobs DEF Live
  <2> QED
    BY <1>1, <1>2, <2>1, <2>2, <2>3 DEF Types
<1>7. Draining(w)'
  <2>1. runs[w][s].phase # "free"
    BY <1>2, Phases
  <2> QED
    BY <1>2, <1>4, <2>1 DEF Draining, Live
<1> QED
  BY <1>5, <1>6, <1>7 DEF Controlled

(* A run that ends leaves a row that nobody can claim in this instant, or  *)
(* gives it up while its own worker is stopping.                           *)
LEMMA EndIsOver ==
  ASSUME RowsAreKept, RetriesWait, WorkerInv, Ownership, NEW w \in Workers, NEW s \in Slots,
         NEW t \in Stamps, RunEnds(w, s, t) \/ AbortSettles(w, s, t), Draining(w)
  PROVE  Over(w, s)'
<1>1. Types /\ Live(w, s) /\ s \in Hands /\ s # 0
  <2>1. Live(w, s)
    BY EndIsSettle
  <2> QED
    BY <2>1 DEF WorkerInv, Local, Hands, Slots
<1>2. PICK id \in JobIds : id = runs[w][s].job
  BY <1>1, NamedJobs DEF Live
<1>3. InHand(w, s) /\ JobIn(w, s) = id /\ Holds(id, "active")
  BY <1>1, <1>2 DEF InHand, JobIn, Ownership, OwnsRow
<1>4. PICK phase \in Settled : Settle(w, s, phase)
  BY EndIsSettle
<1>5. /\ HandsShrink /\ ~Live(w, s)' /\ runs'[w][s].job = id /\ state' = state
      /\ runs'[w][s].phase = phase
  <2>1. state' = state
    BY <1>4 DEF Settle, lifeVars
  <2> QED
    BY <1>1, <1>2, <1>4, <2>1, SettleShrinks
<1>6. ASSUME NEW v \in Workers, NEW h \in Hands, InHand(v, h)' PROVE JobIn(v, h)' # id
  <2>1. InHand(v, h) /\ JobIn(v, h)' = JobIn(v, h) /\ (v # w \/ h # s)
    BY <1>1, <1>5, <1>6 DEF HandsShrink, InHand
  <2> QED
    BY <1>1, <1>3, <2>1, OtherHandsOtherJobs
<1>7. /\ id \in DOMAIN jobs'
      /\ phase \in {"completed", "dead"} => jobs'[id].status = phase
      /\ phase = "failed" => jobs'[id].status \in Waiting /\ jobs'[id].runAt > now'
      /\ phase = "released" => Stopping(w)
      /\ phase = "error" => WritesFail /\ UNCHANGED storageVars
  BY <1>2, <1>3, <1>5, EndIsWritten
<1>8. CASE phase = "released"
  <2>1. state[w] = "stopping"
    BY <1>1, <1>7, <1>8 DEF Stopping, Draining, Live
  <2> QED
    BY <1>5, <1>6, <1>8, <2>1 DEF Over
<1>9. CASE phase # "released"
  <2>1. Resting(id)'
    <3>1. CASE phase \in {"completed", "dead"}
      BY <1>7, <3>1 DEF Resting, Terminal
    <3>2. CASE phase = "failed"
      BY <1>7, <3>2 DEF Resting
    <3>3. CASE phase = "error"
      BY <1>3, <1>7, <3>3 DEF Resting, RowsAreKept, BeatsInTime, Holds, storageVars
    <3> QED
      BY <1>9, <3>1, <3>2, <3>3 DEF Settled, Reported
  <2>2. id \in 1 .. nextId' - 1
    <3>1. StorageInv'
      BY WorkerNextOK DEF WorkerNext, WorkerInv
    <3> QED
      BY <1>7, <3>1 DEF StorageInv, TypeOK
  <2>3. Quiet(id)'
    BY <1>6, <2>1, <2>2 DEF Quiet
  <2> QED
    BY <1>5, <2>3 DEF Over
<1> QED
  BY <1>8, <1>9

LEMMA EndTidy ==
  ASSUME RowsAreKept, RetriesWait, WorkerInv, Ownership, QuietKept, NEW w \in Workers,
         NEW s \in Slots, NEW t \in Stamps, RunEnds(w, s, t) \/ AbortSettles(w, s, t),
         Controlled(w), Draining(w)
  PROVE  Controlled(w)' /\ Draining(w)'
<1>1. Types /\ Live(w, s)
  BY EndIsSettle DEF WorkerInv, Local
<1>2. PICK phase \in Settled : Settle(w, s, phase)
  BY EndIsSettle
<1>3. /\ HandsShrink /\ ~Live(w, s)'
      /\ \A r \in Slots : r # s => runs'[w][r] = runs[w][r]
      /\ UNCHANGED <<state, stopStep, loop, controllers>>
  <2>1. UNCHANGED <<state, stopStep, loop, controllers>>
    BY <1>2 DEF Settle, lifeVars, loopVars
  <2> QED
    BY <1>1, <1>2, <2>1, SettleShrinks
<1>4. ASSUME NEW r \in Slots, runs'[w][r].phase \in Settled PROVE Over(w, r)'
  <2>1. CASE r = s
    BY <2>1, EndIsOver
  <2>2. CASE r # s
    <3>1. runs'[w][r] = runs[w][r] /\ Over(w, r)
      BY <1>3, <1>4, <2>2 DEF Controlled
    <3> QED
      BY <1>3, <1>4, <3>1, OverStays DEF HandsShrink
  <2> QED
    BY <2>1, <2>2
<1>5. ASSUME NEW r \in Slots, Live(w, r)' PROVE r # s /\ runs'[w][r] = runs[w][r] /\ Live(w, r)
  BY <1>3, <1>5 DEF Live
<1>6. Draining(w)'
  BY <1>1, <1>3, <1>5 DEF Draining, Live
<1> QED
  BY <1>3, <1>4, <1>5, <1>6 DEF Controlled

(* Heartbeats, timeouts and the claim loop, but for ClaimHit and Dispatch. *)
LEMMA SelfIsKept ==
  ASSUME WorkerInv, NEW w \in Workers,
         \/ AcquirePermit(w) \/ LeaveLoop(w) \/ Wake(w) \/ \E t \in Stamps : ClaimMiss(w, t)
         \/ \E s \in Slots : TimeoutFires(w, s)
         \/ \E s \in Slots, t \in Stamps : Beat(w, s, t)
  PROVE  Kept(w)
<1>1. Types
  BY DEF WorkerInv, Local
<1>2. CASE AcquirePermit(w) \/ LeaveLoop(w) \/ Wake(w) \/ \E t \in Stamps : ClaimMiss(w, t)
  <2>1. UNCHANGED lifeVars /\ (loop'[w] = "claimed" => loop[w] = "claimed")
    BY <1>1, <1>2 DEF AcquirePermit, LeaveLoop, Wake, ClaimMiss, Types, lifeVars
  <2> QED
    BY <1>2, <2>1, LoopShrinks, ShrinkIsKept DEF lifeVars, runVars
<1>3. ASSUME NEW s \in Slots, TimeoutFires(w, s) PROVE Kept(w)
  BY <1>1, <1>3, TimeoutShrinks, ShrinkIsKept DEF TimeoutFires, lifeVars, loopVars
<1>4. ASSUME NEW s \in Slots, NEW t \in Stamps, Beat(w, s, t) PROVE Kept(w)
  BY <1>1, <1>4, BeatShrinks, ShrinkIsKept DEF Beat, lifeVars, loopVars
<1> QED
  BY <1>2, <1>3, <1>4

LEMMA TidyNext ==
  ASSUME RowsAreKept, RetriesWait, MayStall = {}, WorkerInv, Ownership, Tidy, [WorkerNext]_vars
  PROVE  Tidy'
<1>1. Types /\ now \in Nat
  BY DEF WorkerInv, Local, StorageInv, TypeOK
<1>2. CASE Clock
  <2>1. ASSUME NEW w \in Workers PROVE Kept(w) /\ \A s \in Slots : runs[w][s].phase \notin Settled
    BY <1>2, AsideIsKept DEF Clock, Microtasks, workerVars, lifeVars, loopVars, runVars
  <2> QED
    BY <2>1, KeptIsTidy DEF Tidy
<1>3. CASE ~Clock
  <2>1. now' = now
    <3>1. UNCHANGED storageVars => now' = now
      BY DEF storageVars
    <3>2. ASSUME NEW t \in Stamps, ClientCall(t) \/ MaintenanceCall(t) PROVE now' = now
      BY <3>2 DEF ClientCall, MaintenanceCall, Enqueue, Cancel, PromoteDelayed, ReclaimStale,
                  Cleanup
    <3>3. ASSUME NEW w \in Workers, NEW t \in Stamps, LoopStep(w, t) PROVE now' = now
      BY <3>3 DEF LoopStep, AcquirePermit, LeaveLoop, ClaimHit, ClaimNext, ClaimMiss, Wake,
                  Dispatch, storageVars
    <3>4. ASSUME NEW w \in Workers, NEW s \in Slots, NEW t \in Stamps,
                 RunEnds(w, s, t) \/ AbortSettles(w, s, t)
          PROVE  now' = now
      BY <3>1, <3>4, EndIsSettle DEF Complete, Release, Heartbeat, MoveToDead, Fail, Reschedule,
                                     WriteActive
    <3>5. ASSUME NEW w \in Workers, NEW s \in Slots, NEW t \in Stamps, Beat(w, s, t)
          PROVE  now' = now
      BY <3>1, <3>5 DEF Beat, Beaten, BeatThrows, Heartbeat, WriteActive
    <3>6. ASSUME NEW w \in Workers, Start(w) \/ Stop(w) \/ StopStep(w) \/ Crash(w)
          PROVE  now' = now
      BY <3>1, <3>6 DEF Start, Stop, StopStep, AbortLeftovers, WaitedForAborted, StopFinishes, Crash
    <3>7. ASSUME NEW w \in Workers, NEW s \in Slots, Finally(w, s) \/ TimeoutFires(w, s)
          PROVE  now' = now
      BY <3>1, <3>7 DEF Finally, TimeoutFires
    <3>8. UNCHANGED vars => now' = now
      BY DEF vars, storageVars
    <3> QED
      BY <1>3, <3>2, <3>3, <3>4, <3>5, <3>6, <3>7, <3>8 DEF WorkerNext, Others
  <2>2. QuietKept
    BY <2>1, QuietStays DEF QuietKept
  <2>3. ASSUME NEW v \in Workers, Kept(v) PROVE Controlled(v)' /\ Draining(v)'
    BY <2>2, <2>3, KeptIsTidy DEF Tidy
  <2>4. ASSUME NEW w \in Workers,
               \A v \in Workers : v # w => Kept(v), Controlled(w)' /\ Draining(w)'
        PROVE  Tidy'
    BY <2>3, <2>4 DEF Tidy
  <2>5. CASE (\E t \in Stamps : Others(t)) \/ UNCHANGED vars
    BY <2>3, <2>5, AsideIsKept DEF Tidy, Others, vars, workerVars, lifeVars, loopVars, runVars
  <2>6. ASSUME NEW w \in Workers, NEW t \in Stamps, LoopStep(w, t) PROVE Tidy'
    <3>1. Controlled(w)' /\ Draining(w)'
      BY <2>2, <2>3, <2>6, ClaimHitTidy, DispatchTidy, SelfIsKept DEF Tidy, LoopStep
    <3> QED
      BY <2>4, <2>6, <3>1, OneWorkerSteps
  <2>7. ASSUME NEW w \in Workers, Start(w) \/ Stop(w) \/ StopStep(w) \/ Crash(w) PROVE Tidy'
    <3>1. Controlled(w)' /\ Draining(w)'
      BY <2>2, <2>7, StopTidy, AbortTidy, CrashTidy DEF Tidy, StopStep
    <3> QED
      BY <2>4, <2>7, <3>1, OneWorkerSteps
  <2>8. ASSUME NEW w \in Workers, NEW s \in Slots, Finally(w, s) \/ TimeoutFires(w, s)
        PROVE  Tidy'
    <3>1. Controlled(w)' /\ Draining(w)'
      BY <2>2, <2>3, <2>8, FinallyTidy, SelfIsKept DEF Tidy
    <3> QED
      BY <2>4, <2>8, <3>1, OneWorkerSteps
  <2>9. ASSUME NEW w \in Workers, NEW s \in Slots, NEW t \in Stamps,
               RunEnds(w, s, t) \/ AbortSettles(w, s, t) \/ Beat(w, s, t)
        PROVE  Tidy'
    <3>1. Controlled(w)' /\ Draining(w)'
      BY <2>2, <2>3, <2>9, EndTidy, SelfIsKept DEF Tidy
    <3> QED
      BY <2>4, <2>9, <3>1, OneWorkerSteps
  <2> QED
    BY <1>3, <2>5, <2>6, <2>7, <2>8, <2>9 DEF WorkerNext
<1> QED
  BY <1>2, <1>3

LEMMA TidyInit == WorkerInit => Tidy
BY Phases DEF WorkerInit, Tidy, Controlled, Draining, Live, NoRun

LEMMA TidyInvariant ==
  (RowsAreKept /\ RetriesWait /\ MayStall = {}) =>
    (WorkerSpec => [](WorkerInv /\ Ownership /\ Tidy))
<1> SUFFICES ASSUME RowsAreKept, RetriesWait, MayStall = {}
             PROVE  WorkerSpec => [](WorkerInv /\ Ownership /\ Tidy)
  OBVIOUS
<1>1. WorkerInit => WorkerInv /\ Ownership /\ Tidy
  BY WorkerInitOK, OwnershipInit, TidyInit
<1>2. WorkerInv /\ Ownership /\ Tidy /\ [WorkerNext]_vars => (WorkerInv /\ Ownership /\ Tidy)'
  BY WorkerNextOK, OwnershipNext, TidyNext
<1> QED
  BY <1>1, <1>2, PTL DEF WorkerSpec

(* Once stop() has aborted what was left, no handler runs on unaborted,    *)
(* not even one that was being claimed at that moment: whatever order the  *)
(* claim loop, the runs and stop() take, #jobControllers knows every live  *)
(* run.  This needs retries that wait: a job that is claimed again before  *)
(* its old run has come to its finally block loses its controller to it.   *)
THEOREM AbortReachesLeftovers ==
  (RowsAreKept /\ RetriesWait /\ MayStall = {}) => (WorkerSpec => []LeftoversAborted)
<1> SUFFICES ASSUME RowsAreKept, RetriesWait, MayStall = {}
             PROVE  WorkerSpec => []LeftoversAborted
  OBVIOUS
<1>1. Tidy => LeftoversAborted
  BY DEF Tidy, Draining, LeftoversAborted
<1> QED
  BY <1>1, TidyInvariant, PTL

(* A worker that says it has stopped has no run, no claim loop, and all    *)
(* its permits.                                                            *)
THEOREM StoppedWorkersAreQuiet ==
  (RowsAreKept /\ RetriesWait /\ MayStall = {}) => (WorkerSpec => []StoppedIsQuiet)
<1> SUFFICES ASSUME RowsAreKept, RetriesWait, MayStall = {}
             PROVE  WorkerSpec => []StoppedIsQuiet
  OBVIOUS
<1>1. WorkerInv /\ Tidy => StoppedIsQuiet
  <2> SUFFICES ASSUME WorkerInv, Tidy, NEW w \in Workers, state[w] \in {"idle", "stopped"}
               PROVE  InFlight(w) = {} /\ loop[w] = "off" /\ permits[w] = Concurrency
    BY DEF StoppedIsQuiet
  <2>1. InFlight(w) = {}
    BY DEF Tidy, Draining, InFlight
  <2>2. loop[w] = "off" /\ permits[w] \in Nat
    BY DEF WorkerInv, Local, Orderly, Types
  <2>3. Used(w) = 0 /\ Held(w) = 0
    BY <2>1, <2>2, FS_EmptySet DEF Used, Held
  <2>4. permits[w] + Used(w) + Held(w) = Concurrency
    BY DEF WorkerInv, Local, Counted
  <2> QED
    BY <2>1, <2>2, <2>3, <2>4
<1> QED
  BY <1>1, TidyInvariant, PTL
=============================================================================
