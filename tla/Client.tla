------------------------------- MODULE Client -------------------------------
(***************************************************************************)
(* One process: a Vardiya client, its maintenance loops and its workers,   *)
(* as the application calls init, close, process and createWorker, and     *)
(* start and stop of a worker.  Callers are the application's asynchronous *)
(* tasks: a task awaits each call before it makes the next, two tasks may  *)
(* have calls under way at the same time.                                  *)
(*                                                                         *)
(* A call is cut where the code awaits.  Opening a storage is synchronous: *)
(* while it migrates nothing else happens in this process, but in others.  *)
(* The connections are those of Migration; the ones that are not Own       *)
(* belong to other processes.                                              *)
(*                                                                         *)
(* Of WorkerRuntime (see Worker) there is its state, whether the claim     *)
(* loop is alive, and one run in flight; the semaphore has permits left,   *)
(* so that the loop never waits for one.                                   *)
(***************************************************************************)
EXTENDS Migration

CONSTANTS
  Own,         \* bound: the connections this process may open, 1 .. n
  Embedded,    \* bound: the workers that process() may create
  Created,     \* bound: those that createWorker() may create
  Standalone,  \* workers with a storage of their own
  Callers,
  None,
  Reuse        \* whether workers are started again when their storage is closed

ASSUME ClientAssumption ==
  /\ Own \subseteq Connections /\ Own \subseteq Nat
  /\ Embedded \cap Created = {} /\ (Embedded \cup Created) \cap Standalone = {}
  /\ Reuse \in BOOLEAN
  /\ None \notin Connections \cup Embedded \cup Created \cup Standalone

Shared  == Embedded \cup Created
Workers == Shared \cup Standalone

VARIABLES
  storage,       \* Vardiya.#storage
  maintenance,   \* #maintenance; a loop is named by its connection
  members,       \* #workers
  embedded,      \* #embeddedWorker
  startPromise,  \* whether #embeddedStartPromise is set
  starting,      \* embedded workers whose start() is queued as a microtask
  loops,         \* the maintenance loops
  workers,       \* the Worker objects, each with its runtime
  opening,       \* the connection whose init() is running
  calls          \* what each caller is doing

clientVars == <<storage, maintenance, members, embedded, startPromise, starting>>
objectVars == <<loops, workers>>
allVars    == <<migrationVars, clientVars, objectVars, opening, calls>>

NoLoop == [timer |-> FALSE, tick |-> FALSE]

(* on: the storage that the runtime was constructed with.                  *)
NewWorker == [storage |-> None, owns |-> FALSE, on |-> None, state |-> "none",
              claims |-> FALSE, run |-> "free"]

Idle == [op |-> "none", at |-> "", conn |-> None, worker |-> None, todo |-> {}]

ClientTypeOK ==
  /\ MigrationTypeOK
  /\ storage \in Own \cup {None} /\ maintenance \in Own \cup {None}
  /\ members \subseteq Shared /\ embedded \in Embedded \cup {None}
  /\ startPromise \in BOOLEAN /\ starting \subseteq Embedded
  /\ loops \in [Own -> [timer : BOOLEAN, tick : BOOLEAN]]
  /\ workers \in [Workers -> [storage : Own \cup {None}, owns : BOOLEAN, on : Own \cup {None},
                              state : {"none", "running", "stopping", "stopped"},
                              claims : BOOLEAN, run : {"free", "handler", "aborted"}]]
  /\ opening \in Own \cup {None}
  /\ calls \in [Callers ->
       [op : {"none", "init", "enqueue", "close", "start", "stop"},
        at : {"", "open", "opened", "added", "embedded", "idle", "next", "draining", "settling",
              "joining", "waiting", "stopped", "closing"},
        conn : Own \cup {None}, worker : Workers \cup {None}, todo : SUBSET Shared]]

ClientInit ==
  /\ MigrationInit
  /\ storage = None /\ maintenance = None /\ members = {} /\ embedded = None
  /\ startPromise = FALSE /\ starting = {}
  /\ loops = [c \in Own |-> NoLoop]
  /\ workers = [w \in Workers |-> NewWorker]
  /\ opening = None
  /\ calls = [k \in Callers |-> Idle]

-----------------------------------------------------------------------------
Free(k)       == opening = None /\ calls[k] = Idle
At(k, op, at) == opening = None /\ calls[k].op = op /\ calls[k].at = at

Go(k, at) == calls' = [calls EXCEPT ![k].at = at]
Return(k) == calls' = [calls EXCEPT ![k] = Idle]

(* new SqliteStorage, and init() up to user_version.                       *)
Open(k, op, w) ==
  \E c \in Own :
    /\ \A d \in Own : conns[d].step = "new" => c <= d
    /\ ReadVersion(c)
    /\ opening' = c
    /\ calls' = [calls EXCEPT ![k] =
         [Idle EXCEPT !.op = op, !.at = "open", !.conn = c, !.worker = w]]
    /\ UNCHANGED <<clientVars, objectVars>>

(* The rest of init(): it returns, or throws and the call with it.         *)
OpenStep(k) ==
  /\ opening # None
  /\ calls[k].at = "open" /\ calls[k].conn = opening
  /\ Migrate(opening)
  /\ CASE conns'[opening].step = "migrating" -> UNCHANGED <<opening, calls>>
       [] conns'[opening].step = "ready"     -> opening' = None /\ Go(k, "opened")
       [] conns'[opening].step = "failed"    -> opening' = None /\ Return(k)
  /\ UNCHANGED <<clientVars, objectVars>>

CloseConn(c) == conns' = [conns EXCEPT ![c].step = "closed"] /\ UNCHANGED fileVars

-----------------------------------------------------------------------------
(* The client: init, createWorker, process, enqueue                        *)

InitCall(k) == Free(k) /\ storage = None /\ Open(k, "init", None)

(* start() of the loop fires a tick at once.                               *)
InitEnds(k) ==
  LET c == calls[k].conn
  IN  /\ At(k, "init", "opened")
      /\ storage' = c /\ maintenance' = c
      /\ loops' = [loops EXCEPT ![c] = [timer |-> TRUE, tick |-> TRUE]]
      /\ Return(k)
      /\ UNCHANGED <<migrationVars, members, embedded, startPromise, starting, workers, opening>>

Create(w) ==
  /\ workers[w] = NewWorker
  /\ workers' = [workers EXCEPT ![w].storage = storage]
  /\ members' = members \cup {w}

CreateWorker(k) ==
  /\ Free(k) /\ storage # None
  /\ \E w \in Created : Create(w)
  /\ UNCHANGED <<migrationVars, storage, maintenance, embedded, startPromise, starting, loops,
                 opening, calls>>

(* The first call of process; further calls add handlers or throw.         *)
Process(k) ==
  /\ Free(k) /\ storage # None /\ embedded = None
  /\ \E w \in Embedded : Create(w) /\ embedded' = w /\ starting' = starting \cup {w}
  /\ startPromise' = TRUE
  /\ UNCHANGED <<migrationVars, storage, maintenance, loops, opening, calls>>

(* storage.enqueue, and after an await storage.getJob, which throws if     *)
(* somebody has closed the storage in between; the job is there all the    *)
(* same.                                                                   *)
EnqueueCall(k) ==
  /\ Free(k) /\ storage # None
  /\ \E key \in Keys : Enqueue(storage, key)
  /\ calls' = [calls EXCEPT ![k] = [Idle EXCEPT !.op = "enqueue", !.at = "added", !.conn = storage]]
  /\ UNCHANGED <<clientVars, objectVars, opening>>

EnqueueReads(k) ==
  /\ At(k, "enqueue", "added")
  /\ Return(k)
  /\ UNCHANGED <<migrationVars, clientVars, objectVars, opening>>

-----------------------------------------------------------------------------
(* Worker.start                                                            *)

(* Constructs the runtime if there is none, and starts its claim loop.     *)
Started(worker, c) ==
  [worker EXCEPT !.on = IF worker.state = "none" THEN c ELSE @, !.state = "running", !.claims = TRUE]

(* The microtask of process().                                             *)
EmbeddedStarts(w) ==
  /\ opening = None /\ w \in starting
  /\ starting' = starting \ {w}
  /\ workers' = [workers EXCEPT ![w] = IF @.state = "none" THEN Started(@, @.storage) ELSE @]
  /\ UNCHANGED <<migrationVars, storage, maintenance, members, embedded, startPromise, loops,
                 opening, calls>>

(* Without Reuse the application starts no worker whose client is closed,  *)
(* and no standalone worker that it has stopped.  start() of one worker is *)
(* not called twice at the same time.                                      *)
MayStart(w) ==
  /\ \A k \in Callers : ~(calls[k].op = "start" /\ calls[k].worker = w)
  /\ w \in Standalone \/ workers[w].storage # None
  /\ \/ Reuse
     \/ w \in members
     \/ w \in Standalone /\ (workers[w].state = "none" \/ workers[w].storage # None)

StartCall(k, w) ==
  /\ Free(k) /\ MayStart(w)
  /\ \/ /\ workers[w].state = "none" /\ workers[w].storage = None
        /\ Open(k, "start", w)
     \/ /\ \/ workers[w].state = "none" /\ workers[w].storage # None
           \/ workers[w].state = "stopped"
        /\ workers' = [workers EXCEPT ![w] = Started(@, @.storage)]
        /\ UNCHANGED <<migrationVars, clientVars, loops, opening, calls>>

StartEnds(k) ==
  LET c == calls[k].conn
      w == calls[k].worker
  IN  /\ At(k, "start", "opened")
      /\ workers' = [workers EXCEPT ![w] =
           [Started(@, c) EXCEPT !.storage = c, !.owns = TRUE]]
      /\ Return(k)
      /\ UNCHANGED <<migrationVars, clientVars, loops, opening>>

-----------------------------------------------------------------------------
(* Worker.stop, called by the application or by close()                    *)

Stopping(k, at) == calls[k].op \in {"stop", "close"} /\ At(k, calls[k].op, at)

StopReturns(k) == IF calls[k].op = "close" THEN Go(k, "next") ELSE Return(k)

(* WorkerRuntime.stop up to its first await.                               *)
StopBegins(k, op, w, todo) ==
  LET at == CASE workers[w].state = "running"  -> "draining"
              [] workers[w].state = "stopping" -> "waiting"
              [] OTHER                         -> "stopped"
  IN  /\ calls' = [calls EXCEPT ![k] =
           [Idle EXCEPT !.op = op, !.at = at, !.worker = w, !.todo = todo]]
      /\ workers' = [workers EXCEPT ![w].state = IF @ = "running" THEN "stopping" ELSE @]
      /\ UNCHANGED <<migrationVars, clientVars, loops, opening>>

StopCall(k, w) == Free(k) /\ workers[w] # NewWorker /\ StopBegins(k, "stop", w, {})

(* Mutant: the runs in flight are not aborted.                             *)
DrainedOnly(k) ==
  /\ Stopping(k, "draining")
  /\ Go(k, "settling")
  /\ UNCHANGED <<migrationVars, clientVars, objectVars, opening>>

(* Nothing is in flight or drainTimeoutMs has passed.                      *)
Drained(k) ==
  /\ Stopping(k, "draining")
  /\ workers' = [workers EXCEPT ![calls[k].worker].run = IF @ = "free" THEN @ ELSE "aborted"]
  /\ Go(k, "settling")
  /\ UNCHANGED <<migrationVars, clientVars, loops, opening>>

(* An aborted run ends before the second timer fires, see Worker.          *)
SettledDown(k) ==
  /\ Stopping(k, "settling")
  /\ workers[calls[k].worker].run = "free"
  /\ Go(k, "joining")
  /\ UNCHANGED <<migrationVars, clientVars, objectVars, opening>>

(* The claim loop has ended.  A second stop() awaits this and nothing else, *)
(* and leaves the state to the first one.                                  *)
LoopEnded(k) ==
  /\ calls[k].at \in {"joining", "waiting"} /\ Stopping(k, calls[k].at)
  /\ ~workers[calls[k].worker].claims
  /\ workers' = [workers EXCEPT ![calls[k].worker].state =
       IF calls[k].at = "joining" THEN "stopped" ELSE @]
  /\ Go(k, "stopped")
  /\ UNCHANGED <<migrationVars, clientVars, loops, opening>>

(* runtime.stop() has returned: close the storage that the worker owns.    *)
RuntimeStopped(k) ==
  LET worker == workers[calls[k].worker]
  IN  /\ Stopping(k, "stopped")
      /\ IF worker.owns /\ worker.storage # None
         THEN CloseConn(worker.storage) /\ Go(k, "closing")
         ELSE UNCHANGED migrationVars /\ StopReturns(k)
      /\ UNCHANGED <<clientVars, objectVars, opening>>

StopEnds(k) ==
  /\ At(k, "stop", "closing")
  /\ workers' = [workers EXCEPT ![calls[k].worker].storage = None, ![calls[k].worker].owns = FALSE]
  /\ Return(k)
  /\ UNCHANGED <<migrationVars, clientVars, loops, opening>>

-----------------------------------------------------------------------------
(* close                                                                   *)

(* Takes the workers out of the client, to stop them one after the other.  *)
TakeWorkers(k) ==
  /\ calls' = [calls EXCEPT ![k] = [Idle EXCEPT !.op = "close", !.at = "next", !.todo = members]]
  /\ maintenance' = None /\ members' = {} /\ embedded' = None

StopMaintenance(k) ==
  \/ /\ maintenance = None
     /\ TakeWorkers(k)
     /\ UNCHANGED loops
  \/ /\ maintenance # None
     /\ loops' = [loops EXCEPT ![maintenance].timer = FALSE]
     /\ calls' = [calls EXCEPT ![k] =
          [Idle EXCEPT !.op = "close", !.at = "idle", !.conn = maintenance]]
     /\ UNCHANGED <<maintenance, members, embedded>>

(* Mutant: close() does not wait for the queued start.                     *)
CloseAtOnce(k) ==
  /\ Free(k)
  /\ StopMaintenance(k) /\ startPromise' = FALSE
  /\ UNCHANGED <<migrationVars, storage, starting, workers, opening>>

CloseCall(k) ==
  /\ Free(k)
  /\ \/ /\ startPromise
        /\ calls' = [calls EXCEPT ![k] = [Idle EXCEPT !.op = "close", !.at = "embedded"]]
        /\ UNCHANGED <<clientVars, loops>>
     \/ /\ ~startPromise
        /\ StopMaintenance(k)
        /\ UNCHANGED <<storage, startPromise, starting>>
  /\ UNCHANGED <<migrationVars, workers, opening>>

EmbeddedStarted(k) ==
  /\ At(k, "close", "embedded") /\ starting = {}
  /\ startPromise' = FALSE
  /\ StopMaintenance(k)
  /\ UNCHANGED <<migrationVars, storage, starting, workers, opening>>

(* Mutant: close() does not wait for the tick.                             *)
MaintenanceUnchecked(k) ==
  /\ At(k, "close", "idle")
  /\ TakeWorkers(k)
  /\ UNCHANGED <<migrationVars, storage, startPromise, starting, objectVars, opening>>

(* waitForIdle().                                                          *)
MaintenanceIdle(k) ==
  /\ At(k, "close", "idle") /\ ~loops[calls[k].conn].tick
  /\ TakeWorkers(k)
  /\ UNCHANGED <<migrationVars, storage, startPromise, starting, objectVars, opening>>

CloseNextWorker(k) ==
  /\ At(k, "close", "next")
  /\ \E w \in calls[k].todo : StopBegins(k, "close", w, calls[k].todo \ {w})

CloseStorage(k) ==
  /\ At(k, "close", "next") /\ calls[k].todo = {}
  /\ IF storage = None THEN UNCHANGED migrationVars /\ Return(k)
                       ELSE CloseConn(storage) /\ Go(k, "closing")
  /\ UNCHANGED <<clientVars, objectVars, opening>>

CloseEnds(k) ==
  /\ At(k, "close", "closing")
  /\ storage' = None
  /\ Return(k)
  /\ UNCHANGED <<migrationVars, maintenance, members, embedded, startPromise, starting, objectVars,
                 opening>>

-----------------------------------------------------------------------------
(* What goes on by itself                                                  *)

TickStarts(c) ==
  /\ opening = None /\ loops[c].timer /\ ~loops[c].tick
  /\ loops' = [loops EXCEPT ![c].tick = TRUE]
  /\ UNCHANGED <<migrationVars, clientVars, workers, opening, calls>>

TickEnds(c) ==
  /\ opening = None /\ loops[c].tick
  /\ loops' = [loops EXCEPT ![c].tick = FALSE]
  /\ UNCHANGED <<migrationVars, clientVars, workers, opening, calls>>

WorkerStep(w, field, value) ==
  /\ opening = None
  /\ workers' = [workers EXCEPT ![w][field] = value]
  /\ UNCHANGED <<migrationVars, clientVars, loops, opening, calls>>

(* claimNext returns a job, and #runJob begins.                            *)
RunStarts(w) ==
  /\ workers[w].claims /\ workers[w].state = "running" /\ workers[w].run = "free"
  /\ WorkerStep(w, "run", "handler")

HandlerEnds(w) == workers[w].run = "handler" /\ WorkerStep(w, "run", "free")
AbortedEnds(w) == workers[w].run = "aborted" /\ WorkerStep(w, "run", "free")

LoopExits(w) ==
  /\ workers[w].claims /\ workers[w].state # "running"
  /\ WorkerStep(w, "claims", FALSE)

OtherProcess ==
  /\ \E c \in Connections \ Own : MigrationStep(c)
  /\ UNCHANGED <<clientVars, objectVars, opening, calls>>

NewCall(k) ==
  \/ InitCall(k) \/ CreateWorker(k) \/ Process(k) \/ EnqueueCall(k) \/ CloseCall(k)
  \/ \E w \in Created \cup Standalone : StartCall(k, w) \/ StopCall(k, w)

CallStep(k) ==
  \/ OpenStep(k) \/ InitEnds(k) \/ EnqueueReads(k) \/ StartEnds(k)
  \/ Drained(k) \/ SettledDown(k) \/ LoopEnded(k) \/ RuntimeStopped(k) \/ StopEnds(k)
  \/ EmbeddedStarted(k) \/ MaintenanceIdle(k) \/ CloseNextWorker(k) \/ CloseStorage(k) \/ CloseEnds(k)

ClientNext ==
  \/ OtherProcess
  \/ \E k \in Callers : NewCall(k) \/ CallStep(k)
  \/ \E c \in Own : TickStarts(c) \/ TickEnds(c)
  \/ \E w \in Workers : RunStarts(w) \/ HandlerEnds(w) \/ AbortedEnds(w) \/ LoopExits(w)
  \/ \E w \in Embedded : EmbeddedStarts(w)

ClientSpec == ClientInit /\ [][ClientNext]_allVars

(* The process goes on: continuations, timers and the storage calls of a   *)
(* tick take their turn.  A handler may hang, and nobody has to call.      *)
FairClientSpec ==
  /\ ClientSpec
  /\ \A k \in Callers : WF_allVars(CallStep(k))
  /\ \A c \in Own : WF_allVars(TickEnds(c))
  /\ \A w \in Workers : WF_allVars(AbortedEnds(w)) /\ WF_allVars(LoopExits(w))
  /\ \A w \in Embedded : WF_allVars(EmbeddedStarts(w))

-----------------------------------------------------------------------------
(* Properties                                                              *)

(* stop(): "wait for in-flight handlers (or abort them ...)".  The storage  *)
(* is closed after the last run has written its end, and not before.       *)
RunsKeepTheirStorage ==
  \A w \in Workers : workers[w].run # "free" => Ready(workers[w].on)

(* Nobody is left with a closed storage in hand: not a run, not a tick, not *)
(* a worker that claims and not an enqueue that has to read its row,       *)
(* whatever was stopped or closed in between.                              *)
StorageOutlivesUse ==
  /\ RunsKeepTheirStorage
  /\ \A k \in Callers : calls[k].op = "enqueue" => Ready(calls[k].conn)
  /\ \A c \in Own : loops[c].tick => Ready(c)
  /\ \A w \in Workers : workers[w].state = "running" => Ready(workers[w].on)

(* close(): "so we do not leave a fire-and-forget start() racing past      *)
(* close()".  Whenever no call is under way and the client has no storage, *)
(* no timer, tick, queued start, claim loop or run of it is left, and no   *)
(* connection is open that nobody can close.                               *)
NothingLeftRunning ==
  (storage = None /\ \A k \in Callers : calls[k] = Idle) =>
    /\ \A c \in Own : loops[c] = NoLoop
    /\ starting = {}
    /\ \A w \in Shared : workers[w].state \in {"none", "stopped"} /\ ~workers[w].claims
                           /\ workers[w].run = "free"
    /\ \A c \in Own : Ready(c) => \E w \in Standalone : workers[w].owns /\ workers[w].storage = c

(* close() and stop() return, even if every handler hangs: close() waits   *)
(* for a start, a tick and every worker in turn, and each of them ends.    *)
CallsEnd == \A k \in Callers : calls[k].op # "none" ~> calls[k].op = "none"
=============================================================================
