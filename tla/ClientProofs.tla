---------------------------- MODULE ClientProofs ----------------------------
(***************************************************************************)
(* What holds of a client, its loops and its workers for any number of     *)
(* workers, of connections and of other processes on the file.             *)
(*                                                                         *)
(* The first part holds for any number of callers.  In the second the      *)
(* application is one task that does not start what it has stopped or      *)
(* closed: the run second_stop shows what two tasks can do.                *)
(***************************************************************************)
EXTENDS Client, MigrationProofs

(* A call in the middle of something names what it works on.               *)
CallsNameTheirThings ==
  \A k \in Callers :
    /\ calls[k].at \in {"open", "opened", "added", "idle"} => calls[k].conn \in Own
    /\ calls[k].op \in {"start", "stop"} => calls[k].worker \in Workers
    /\ calls[k].at \in {"draining", "settling", "joining", "waiting", "stopped"} =>
         calls[k].worker \in Workers

TypeInv == ClientTypeOK /\ CallsNameTheirThings

-----------------------------------------------------------------------------
(* One caller, k                                                           *)

(* The worker that stop() is about to take down.                           *)
TakenDown(k) == calls[k].at \in {"draining", "settling", "joining"}

(* Where each call may be, and what it has found and left behind so far.   *)
CallInv(k) ==
  /\ calls[k].op = "none"  => calls[k] = Idle
  /\ calls[k].op = "init"  => calls[k].at \in {"open", "opened"} /\ storage = None
  /\ calls[k].op = "enqueue" => calls[k].at = "added" /\ calls[k].conn = storage /\ storage # None
  /\ calls[k].op = "start" => /\ calls[k].at \in {"open", "opened"}
                              /\ calls[k].worker \in Standalone
                              /\ workers[calls[k].worker] = NewWorker
  /\ calls[k].op = "stop"  => /\ TakenDown(k) \/ calls[k].at \in {"stopped", "closing"}
                              /\ calls[k].worker \in Created \cup Standalone
                              /\ calls[k].at = "closing" => calls[k].worker \in Standalone
  /\ calls[k].op = "close" => /\ TakenDown(k) \/ calls[k].at \in {"embedded", "idle", "next", "stopped", "closing"}
                              /\ TakenDown(k) \/ calls[k].at = "stopped" => calls[k].worker \in Shared
                              /\ calls[k].at \in {"embedded", "idle", "closing"} => calls[k].todo = {}
  /\ TakenDown(k) => workers[calls[k].worker].state = "stopping"
  /\ calls[k].at = "joining" => workers[calls[k].worker].run = "free"
  /\ calls[k].at = "stopped" => workers[calls[k].worker].state \in {"none", "stopped"}
  /\ calls[k].op = "stop" /\ calls[k].at = "closing" => workers[calls[k].worker].state = "stopped"

(* Every open connection is in one place: it is being opened, it is the    *)
(* client's, or it is a standalone worker's.                               *)
Opened(k) ==
  /\ opening # None => calls[k].at = "open" /\ calls[k].conn = opening
  /\ calls[k].at = "open" => opening = calls[k].conn /\ conns[opening].step = "migrating"
  /\ calls[k].at = "opened" => /\ Ready(calls[k].conn)
                               /\ calls[k].conn # storage
                               /\ \A w \in Standalone : workers[w].storage # calls[k].conn

Held(k) ==
  /\ storage # None =>
       conns[storage].step =
         IF calls[k].op = "close" /\ calls[k].at = "closing" THEN "closed" ELSE "ready"
  /\ \A w \in Standalone : workers[w].storage # None =>
       /\ conns[workers[w].storage].step =
            IF calls[k].op = "stop" /\ calls[k].at = "closing" /\ calls[k].worker = w
            THEN "closed" ELSE "ready"
       /\ workers[w].storage # storage
       /\ \A v \in Standalone : workers[v].storage = workers[w].storage => v = w
  /\ \A c \in Own : Ready(c) =>
       \/ c = storage
       \/ \E w \in Standalone : workers[w].storage = c
       \/ calls[k].at = "opened" /\ calls[k].conn = c

(* The client's workers: its members, and those that close() has yet to    *)
(* stop or is stopping.                                                    *)
Kept(k, w) ==
  \/ w \in members
  \/ calls[k].op = "close" /\ (w \in calls[k].todo \/ (TakenDown(k) /\ calls[k].worker = w))

WorkersInv(k) ==
  \A w \in Workers :
    /\ workers[w].owns <=> (w \in Standalone /\ workers[w].storage # None)
    /\ workers[w].state \in {"none", "stopped"} => ~workers[w].claims /\ workers[w].run = "free"
    /\ workers[w].state # "none" /\ workers[w].storage # None => workers[w].on = workers[w].storage
    /\ workers[w].state \in {"running", "stopping"} => workers[w].storage # None
    /\ workers[w].state = "stopping" => TakenDown(k) /\ calls[k].worker = w
    /\ w \in Shared => /\ workers[w].state \in {"running", "stopping"} => Kept(k, w)
                       /\ Kept(k, w) => workers[w].storage = storage /\ storage # None
    /\ w \in Standalone =>
         /\ workers[w].state = "none" => workers[w] = NewWorker
         /\ workers[w].state = "stopped" /\ workers[w].storage # None =>
              calls[k].op = "stop" /\ calls[k].worker = w /\ calls[k].at \in {"stopped", "closing"}

(* close() takes the client apart in order: the queued start, the loop,    *)
(* the workers, and the storage last.                                      *)
ClientInv(k) ==
  /\ maintenance \in {None, storage}
  /\ storage = None => members = {} /\ ~startPromise
  /\ storage # None /\ (calls[k].op = "close" => calls[k].at \in {"embedded", "idle"}) =>
       maintenance = storage
  /\ ~startPromise => starting = {}
  /\ starting \subseteq members /\ \A w \in starting : workers[w].state = "none"
  /\ calls[k].op = "close" /\ calls[k].at # "embedded" => ~startPromise
  /\ calls[k].op = "close" /\ calls[k].at \notin {"embedded", "idle"} =>
       maintenance = None /\ members = {}
  /\ calls[k].at = "idle" => /\ calls[k].conn = maintenance /\ maintenance # None
                             /\ ~loops[calls[k].conn].timer
  /\ \A c \in Own : loops[c].timer \/ loops[c].tick => c = maintenance

OneTaskInv(k) ==
  TypeInv /\ MigrationInv /\ CallInv(k) /\ Opened(k) /\ Held(k) /\ WorkersInv(k) /\ ClientInv(k)

-----------------------------------------------------------------------------
(* The file, for any number of callers                                     *)

LEMMA ConnectionsOfAll == Own \subseteq Connections
BY ClientAssumption

(* What this process does to the file is what Migration says of one of its *)
(* connections, except that it may close one.                              *)
LEMMA FileSteps ==
  ASSUME TypeInv, [ClientNext]_allVars
  PROVE  [MigrationNext]_migrationVars \/ \E c \in Own : CloseConn(c)
<1> USE ConnectionsOfAll
<1>1. CASE UNCHANGED allVars BY <1>1 DEF allVars
<1>2. CASE OtherProcess BY <1>2 DEF OtherProcess, MigrationNext
<1>3. ASSUME NEW k \in Callers, NewCall(k) PROVE [MigrationNext]_migrationVars
  <2>1. ASSUME NEW op, NEW w, Open(k, op, w) PROVE MigrationNext
    BY <2>1 DEF Open, MigrationNext, MigrationStep
  <2>2. CASE InitCall(k) BY <2>1, <2>2 DEF InitCall
  <2>3. CASE EnqueueCall(k)
    BY <2>3 DEF EnqueueCall, TypeInv, ClientTypeOK, MigrationNext, MigrationStep
  <2>4. ASSUME NEW w \in Created \cup Standalone, StartCall(k, w) PROVE [MigrationNext]_migrationVars
    BY <2>1, <2>4 DEF StartCall
  <2>5. CASE CreateWorker(k) \/ Process(k) \/ CloseCall(k)
    BY <2>5 DEF CreateWorker, Process, CloseCall
  <2>6. ASSUME NEW w \in Created \cup Standalone, StopCall(k, w) PROVE UNCHANGED migrationVars
    BY <2>6 DEF StopCall, StopBegins
  <2> QED BY <1>3, <2>2, <2>3, <2>4, <2>5, <2>6 DEF NewCall
<1>4. ASSUME NEW k \in Callers, CallStep(k)
      PROVE  [MigrationNext]_migrationVars \/ \E c \in Own : CloseConn(c)
  <2>1. CASE OpenStep(k)
    BY <2>1 DEF OpenStep, TypeInv, ClientTypeOK, MigrationNext, MigrationStep
  <2>2. CASE RuntimeStopped(k)
    <3>1. CASE UNCHANGED migrationVars BY <3>1
    <3>2. CASE ~UNCHANGED migrationVars
      <4>1. /\ calls[k].at = "stopped"
            /\ workers[calls[k].worker].storage # None
            /\ CloseConn(workers[calls[k].worker].storage)
        BY <2>2, <3>2 DEF RuntimeStopped, Stopping, At
      <4>2. workers[calls[k].worker].storage \in Own
        BY <4>1 DEF TypeInv, ClientTypeOK, CallsNameTheirThings
      <4> QED BY <4>1, <4>2
    <3> QED BY <3>1, <3>2
  <2>3. CASE CloseStorage(k)
    BY <2>3 DEF CloseStorage, TypeInv, ClientTypeOK
  <2>4. CASE InitEnds(k) \/ EnqueueReads(k) \/ StartEnds(k)
    BY <2>4 DEF InitEnds, EnqueueReads, StartEnds
  <2>5. CASE Drained(k) \/ SettledDown(k) \/ LoopEnded(k) \/ StopEnds(k)
    BY <2>5 DEF Drained, SettledDown, LoopEnded, StopEnds
  <2>6. CASE EmbeddedStarted(k) \/ MaintenanceIdle(k) \/ CloseNextWorker(k) \/ CloseEnds(k)
    BY <2>6 DEF EmbeddedStarted, MaintenanceIdle, CloseNextWorker, StopBegins, CloseEnds
  <2> QED BY <1>4, <2>1, <2>2, <2>3, <2>4, <2>5, <2>6 DEF CallStep
<1>5. ASSUME NEW c \in Own, TickStarts(c) \/ TickEnds(c) PROVE UNCHANGED migrationVars
  BY <1>5 DEF TickStarts, TickEnds
<1>6. ASSUME NEW w \in Workers, RunStarts(w) \/ HandlerEnds(w) \/ AbortedEnds(w) \/ LoopExits(w)
      PROVE  UNCHANGED migrationVars
  BY <1>6 DEF RunStarts, HandlerEnds, AbortedEnds, LoopExits, WorkerStep
<1>7. ASSUME NEW w \in Embedded, EmbeddedStarts(w) PROVE UNCHANGED migrationVars
  BY <1>7 DEF EmbeddedStarts
<1> QED BY <1>1, <1>2, <1>3, <1>4, <1>5, <1>6, <1>7 DEF ClientNext

(* To close a connection changes nothing that the others believe.          *)
LEMMA ClosingKeepsInv ==
  ASSUME MigrationInv, NEW c \in Own, CloseConn(c) PROVE MigrationInv'
<1>1. conns \in [Connections -> Conn] /\ BelievedVersions
  BY DEF MigrationInv, MigrationTypeOK
<1>2. UNCHANGED fileVars /\ conns' \in [Connections -> Conn]
  BY <1>1, ConnectionsOfAll DEF CloseConn, Conn
<1>3. BelievedVersions'
  BY <1>1, <1>2, ConnectionsOfAll DEF CloseConn, Conn, BelievedVersions, Migrating, Ready, fileVars
<1> QED BY <1>2, <1>3, FileUntouched

LEMMA ClientKeepsFile ==
  ASSUME TypeInv, MigrationInv, [ClientNext]_allVars PROVE MigrationInv'
BY FileSteps, ClosingKeepsInv, StepInv

-----------------------------------------------------------------------------
(* Types, for any number of callers                                        *)

WorkerRecords == [storage : Own \cup {None}, owns : BOOLEAN, on : Own \cup {None},
                  state : {"none", "running", "stopping", "stopped"},
                  claims : BOOLEAN, run : {"free", "handler", "aborted"}]

CallRecords ==
  [op : {"none", "init", "enqueue", "close", "start", "stop"},
   at : {"", "open", "opened", "added", "embedded", "idle", "next", "draining", "settling",
         "joining", "waiting", "stopped", "closing"},
   conn : Own \cup {None}, worker : Workers \cup {None}, todo : SUBSET Shared]

(* What a call says of itself, one caller at a time.                       *)
Names(call) ==
  /\ call.at \in {"open", "opened", "added", "idle"} => call.conn \in Own
  /\ call.op \in {"start", "stop"} => call.worker \in Workers
  /\ call.at \in {"draining", "settling", "joining", "waiting", "stopped"} =>
       call.worker \in Workers

Called(k, call) == calls' = [calls EXCEPT ![k] = call]

LEMMA CallsKept ==
  ASSUME TypeInv, NEW k \in Callers, NEW call, Called(k, call), call \in CallRecords, Names(call)
  PROVE  calls' \in [Callers -> CallRecords] /\ CallsNameTheirThings'
<1>1. calls \in [Callers -> CallRecords] BY DEF TypeInv, ClientTypeOK, CallRecords
<1>2. calls' \in [Callers -> CallRecords] BY <1>1 DEF Called
<1>3. \A j \in Callers : calls'[j] = IF j = k THEN call ELSE calls[j] BY <1>1 DEF Called
<1>4. \A j \in Callers : Names(calls'[j])
  BY <1>3 DEF TypeInv, CallsNameTheirThings, Names
<1> QED BY <1>2, <1>4 DEF Names, CallsNameTheirThings

(* Where the call goes on to, which needs what it names.                   *)
LEMMA GoKeeps ==
  ASSUME TypeInv, NEW k \in Callers,
         NEW at \in {"opened", "next", "draining", "settling", "joining", "waiting", "stopped", "closing"},
         Go(k, at),
         at = "opened" => calls[k].conn \in Own,
         at \in {"draining", "settling", "joining", "waiting", "stopped"} => calls[k].worker \in Workers
  PROVE  calls' \in [Callers -> CallRecords] /\ CallsNameTheirThings'
<1> DEFINE call == [calls[k] EXCEPT !.at = at]
<1>1. calls[k] \in CallRecords BY DEF TypeInv, ClientTypeOK, CallRecords
<1>2. call \in CallRecords BY <1>1 DEF CallRecords
<1>3. /\ call.at = at /\ call.op = calls[k].op
      /\ call.worker = calls[k].worker /\ call.conn = calls[k].conn
  BY <1>1 DEF CallRecords
<1>4. Names(call) BY <1>3 DEF Names, TypeInv, CallsNameTheirThings
<1>5. Called(k, call) BY DEF Go, Called
<1> QED BY <1>2, <1>4, <1>5, CallsKept

LEMMA IdleFields ==
  /\ Idle \in CallRecords /\ Idle.op = "none" /\ Idle.at = ""
  /\ Idle.conn = None /\ Idle.worker = None /\ Idle.todo = {}
BY DEF Idle, CallRecords

LEMMA ReturnKeeps ==
  ASSUME TypeInv, NEW k \in Callers, Return(k)
  PROVE  calls' \in [Callers -> CallRecords] /\ CallsNameTheirThings'
<1>1. Idle \in CallRecords /\ Names(Idle) BY IdleFields DEF Names
<1>2. Called(k, Idle) BY DEF Return, Called
<1> QED BY <1>1, <1>2, CallsKept

LEMMA WorkersKept ==
  ASSUME TypeInv, NEW w \in Workers, NEW worker \in WorkerRecords,
         workers' = [workers EXCEPT ![w] = worker]
  PROVE  workers' \in [Workers -> WorkerRecords]
BY DEF TypeInv, ClientTypeOK, WorkerRecords

LEMMA StartedIsWorker ==
  ASSUME NEW worker \in WorkerRecords, NEW c \in Own \cup {None}
  PROVE  Started(worker, c) \in WorkerRecords
<1>1. CASE worker.state = "none"
  <2>1. Started(worker, c) = [worker EXCEPT !.on = c, !.state = "running", !.claims = TRUE]
    BY <1>1 DEF Started, WorkerRecords
  <2> QED BY <2>1 DEF WorkerRecords
<1>2. CASE worker.state # "none"
  <2>1. Started(worker, c) = [worker EXCEPT !.state = "running", !.claims = TRUE]
    BY <1>2 DEF Started, WorkerRecords
  <2> QED BY <2>1 DEF WorkerRecords
<1> QED BY <1>1, <1>2

ClientFields ==
  /\ storage \in Own \cup {None} /\ maintenance \in Own \cup {None}
  /\ members \subseteq Shared /\ embedded \in Embedded \cup {None}
  /\ startPromise \in BOOLEAN /\ starting \subseteq Embedded
LoopsOK   == loops \in [Own -> [timer : BOOLEAN, tick : BOOLEAN]]
WorkersOK == workers \in [Workers -> WorkerRecords]
OpeningOK == opening \in Own \cup {None}
CallsOK   == calls \in [Callers -> CallRecords] /\ CallsNameTheirThings

LEMMA TypeInvParts ==
  TypeInv <=> MigrationTypeOK /\ ClientFields /\ LoopsOK /\ WorkersOK /\ OpeningOK /\ CallsOK
BY DEF TypeInv, ClientTypeOK, ClientFields, LoopsOK, WorkersOK, OpeningOK, CallsOK,
       WorkerRecords, CallRecords

(* The three kinds of step: a part that no step writes keeps its type.     *)
LEMMA Untouched ==
  /\ ClientFields /\ UNCHANGED clientVars => ClientFields'
  /\ LoopsOK /\ UNCHANGED loops => LoopsOK'
  /\ WorkersOK /\ UNCHANGED workers => WorkersOK'
  /\ OpeningOK /\ UNCHANGED opening => OpeningOK'
  /\ CallsOK /\ UNCHANGED calls => CallsOK'
BY DEF ClientFields, clientVars, LoopsOK, WorkersOK, OpeningOK, CallsOK, CallsNameTheirThings

Parts == ClientFields' /\ LoopsOK' /\ WorkersOK' /\ OpeningOK' /\ CallsOK'

LEMMA OpenTypes ==
  ASSUME TypeInv, NEW k \in Callers, NEW op \in {"init", "start"}, NEW w \in Workers \cup {None},
         op = "start" => w \in Workers, Open(k, op, w)
  PROVE  Parts
<1>1. PICK c \in Own :
        /\ opening' = c
        /\ calls' = [calls EXCEPT ![k] =
             [Idle EXCEPT !.op = op, !.at = "open", !.conn = c, !.worker = w]]
        /\ UNCHANGED <<clientVars, objectVars>>
  BY DEF Open
<1> DEFINE call == [Idle EXCEPT !.op = op, !.at = "open", !.conn = c, !.worker = w]
<1>2. Called(k, call) BY <1>1 DEF Called
<1>3. call \in CallRecords /\ call.op = op /\ call.at = "open" /\ call.conn = c /\ call.worker = w
  BY IdleFields DEF CallRecords
<1>4. CallsOK'
  <2>1. Names(call) BY <1>3 DEF Names
  <2> QED BY <1>2, <1>3, <2>1, CallsKept DEF CallsOK
<1>5. OpeningOK' BY <1>1 DEF OpeningOK
<1>6. UNCHANGED <<clientVars, loops, workers>> BY <1>1 DEF objectVars
<1> QED BY <1>4, <1>5, <1>6, TypeInvParts, Untouched DEF Parts

LEMMA CreateTypes ==
  ASSUME TypeInv, NEW w \in Shared, Create(w)
  PROVE  WorkersOK' /\ members' \subseteq Shared
<1>1. workers' = [workers EXCEPT ![w] = [workers[w] EXCEPT !.storage = storage]]
  BY DEF Create
<1>2. workers[w] \in WorkerRecords /\ storage \in Own \cup {None} /\ members \subseteq Shared
  BY TypeInvParts DEF WorkersOK, ClientFields, Workers
<1>3. [workers[w] EXCEPT !.storage = storage] \in WorkerRecords BY <1>2 DEF WorkerRecords
<1>4. w \in Workers BY DEF Workers
<1>5. WorkersOK' BY <1>1, <1>3, <1>4, WorkersKept DEF WorkersOK
<1> QED BY <1>2, <1>5 DEF Create

LEMMA StopBeginsTypes ==
  ASSUME TypeInv, NEW k \in Callers, NEW op \in {"stop", "close"}, NEW w \in Workers,
         NEW todo \in SUBSET Shared, StopBegins(k, op, w, todo)
  PROVE  Parts
<1> DEFINE at == CASE workers[w].state = "running"  -> "draining"
                   [] workers[w].state = "stopping" -> "waiting"
                   [] OTHER                         -> "stopped"
           worker == [workers[w] EXCEPT !.state = IF @ = "running" THEN "stopping" ELSE @]
           call == [Idle EXCEPT !.op = op, !.at = at, !.worker = w, !.todo = todo]
<1>1. at \in {"draining", "waiting", "stopped"} OBVIOUS
<1>2. Called(k, call) BY DEF StopBegins, Called
<1>3. /\ workers' = [workers EXCEPT ![w] = worker]
      /\ UNCHANGED <<clientVars, loops, opening>>
  BY DEF StopBegins
<1>4. worker \in WorkerRecords
  <2>1. workers[w] \in WorkerRecords BY TypeInvParts DEF WorkersOK
  <2>2. CASE workers[w].state = "running"
    <3>1. worker = [workers[w] EXCEPT !.state = "stopping"] BY <2>2
    <3> QED BY <2>1, <3>1 DEF WorkerRecords
  <2>3. CASE workers[w].state # "running"
    <3>1. worker = workers[w] BY <2>1, <2>3 DEF WorkerRecords
    <3> QED BY <2>1, <3>1
  <2> QED BY <2>2, <2>3
<1> HIDE DEF at, worker
<1>5. call \in CallRecords /\ call.op = op /\ call.at = at /\ call.worker = w
  BY <1>1, IdleFields DEF CallRecords
<1>6. CallsOK'
  <2>1. Names(call) BY <1>1, <1>5 DEF Names
  <2> QED BY <1>2, <1>5, <2>1, CallsKept DEF CallsOK
<1>7. WorkersOK' BY <1>3, <1>4, WorkersKept DEF WorkersOK
<1> QED BY <1>3, <1>6, <1>7, TypeInvParts, Untouched DEF Parts

LEMMA TakeWorkersTypes ==
  ASSUME TypeInv, NEW k \in Callers, TakeWorkers(k)
  PROVE  /\ CallsOK' /\ members' \subseteq Shared
         /\ maintenance' \in Own \cup {None} /\ embedded' \in Embedded \cup {None}
<1> DEFINE call == [Idle EXCEPT !.op = "close", !.at = "next", !.todo = members]
<1>1. Called(k, call) BY DEF TakeWorkers, Called
<1>2. members \subseteq Shared BY TypeInvParts DEF ClientFields
<1>3. call \in CallRecords /\ call.op = "close" /\ call.at = "next"
  BY <1>2, IdleFields DEF CallRecords
<1>4. CallsOK'
  <2>1. Names(call) BY <1>3 DEF Names
  <2> QED BY <1>1, <1>3, <2>1, CallsKept DEF CallsOK
<1> QED BY <1>4 DEF TakeWorkers

LEMMA StopMaintenanceTypes ==
  ASSUME TypeInv, NEW k \in Callers, StopMaintenance(k)
  PROVE  /\ CallsOK' /\ LoopsOK' /\ members' \subseteq Shared
         /\ maintenance' \in Own \cup {None} /\ embedded' \in Embedded \cup {None}
<1>0. LoopsOK /\ ClientFields BY TypeInvParts
<1>1. CASE maintenance = None
  <2>1. TakeWorkers(k) /\ UNCHANGED loops BY <1>1 DEF StopMaintenance
  <2> QED BY <1>0, <2>1, TakeWorkersTypes, Untouched
<1>2. CASE maintenance # None
  <2> DEFINE call == [Idle EXCEPT !.op = "close", !.at = "idle", !.conn = maintenance]
  <2>1. /\ loops' = [loops EXCEPT ![maintenance].timer = FALSE]
        /\ Called(k, call)
        /\ UNCHANGED <<maintenance, members, embedded>>
    BY <1>2 DEF StopMaintenance, Called
  <2>2. maintenance \in Own BY <1>0, <1>2 DEF ClientFields
  <2>3. call \in CallRecords /\ call.op = "close" /\ call.at = "idle" /\ call.conn = maintenance
    BY <2>2, IdleFields DEF CallRecords
  <2>4. CallsOK'
    <3>1. Names(call) BY <2>2, <2>3 DEF Names
    <3> QED BY <2>1, <2>3, <3>1, CallsKept DEF CallsOK
  <2>5. LoopsOK' BY <1>0, <2>1, <2>2 DEF LoopsOK
  <2> QED BY <1>0, <2>1, <2>4, <2>5 DEF ClientFields
<1> QED BY <1>1, <1>2

(* A step of a connection is a step of no other one.                       *)
LEMMA OwnConnOnly ==
  ASSUME MigrationTypeOK, NEW c \in Connections, MigrationStep(c),
         NEW d \in Connections, d # c
  PROVE  conns'[d] = conns[d]
<1>1. conns \in [Connections -> Conn] BY DEF MigrationTypeOK
<1>2. CASE \E key \in Keys : Enqueue(c, key) BY <1>2 DEF Enqueue
<1>3. CASE ReadVersion(c) \/ Reopen(c) BY <1>1, <1>3 DEF ReadVersion, Reopen
<1>4. CASE Migrate(c)
  BY <1>1, <1>4 DEF Migrate, CreateTables, TablesExist, AddDedupKey, MigrationIsBusy, PrepareStatements
<1> QED BY <1>2, <1>3, <1>4 DEF MigrationStep

(* init() goes on, returns or throws.                                      *)
LEMMA MigrateLeadsTo ==
  ASSUME MigrationTypeOK, NEW c \in Connections, Migrate(c)
  PROVE  conns[c].step = "migrating" /\ conns'[c].step \in {"migrating", "ready", "failed"}
<1>1. conns \in [Connections -> Conn] /\ conns[c] \in Conn BY DEF MigrationTypeOK
<1>2. CASE CreateTables(c) \/ AddDedupKey(c)
  BY <1>1, <1>2 DEF CreateTables, AddDedupKey, Migrating, Conn
<1>3. CASE TablesExist(c) \/ PrepareStatements(c)
  BY <1>1, <1>3 DEF TablesExist, PrepareStatements, Migrating, Conn
<1>4. CASE MigrationIsBusy(c)
  <2>1. CASE conns[c].retried
    <3>1. conns' = [conns EXCEPT ![c] = [conns[c] EXCEPT !.step = "failed"]]
      BY <1>4, <2>1 DEF MigrationIsBusy
    <3> QED BY <1>1, <1>4, <3>1 DEF MigrationIsBusy, Conn
  <2>2. CASE ~conns[c].retried
    <3>1. conns' = [conns EXCEPT ![c] = [conns[c] EXCEPT !.next = version + 1, !.retried = TRUE]]
      BY <1>4, <2>2 DEF MigrationIsBusy
    <3> QED BY <1>1, <1>4, <3>1 DEF MigrationIsBusy, Conn
  <2> QED BY <2>1, <2>2
<1> QED BY <1>2, <1>3, <1>4 DEF Migrate

LEMMA NewCallTypes ==
  ASSUME TypeInv, NEW k \in Callers, NewCall(k) PROVE Parts
<1>0. /\ ClientFields /\ LoopsOK /\ WorkersOK /\ OpeningOK /\ CallsOK
  BY TypeInvParts
<1>1. CASE InitCall(k) BY <1>1, OpenTypes DEF InitCall
<1>2. CASE CreateWorker(k)
  <2>1. PICK w \in Created : Create(w) BY <1>2 DEF CreateWorker
  <2>2. WorkersOK' /\ members' \subseteq Shared BY <2>1, CreateTypes DEF Shared
  <2>3. UNCHANGED <<storage, maintenance, embedded, startPromise, starting, loops, opening, calls>>
    BY <1>2 DEF CreateWorker
  <2>4. ClientFields' BY <1>0, <2>2, <2>3 DEF ClientFields
  <2> QED BY <1>0, <2>2, <2>3, <2>4, Untouched DEF Parts
<1>3. CASE Process(k)
  <2>1. PICK w \in Embedded : Create(w) /\ embedded' = w /\ starting' = starting \cup {w}
    BY <1>3 DEF Process
  <2>2. WorkersOK' /\ members' \subseteq Shared BY <2>1, CreateTypes DEF Shared
  <2>3. startPromise' = TRUE /\ UNCHANGED <<storage, maintenance, loops, opening, calls>>
    BY <1>3 DEF Process
  <2>4. ClientFields' BY <1>0, <2>1, <2>2, <2>3 DEF ClientFields
  <2> QED BY <1>0, <2>2, <2>3, <2>4, Untouched DEF Parts
<1>4. CASE EnqueueCall(k)
  <2> DEFINE call == [Idle EXCEPT !.op = "enqueue", !.at = "added", !.conn = storage]
  <2>1. Called(k, call) /\ UNCHANGED <<clientVars, loops, workers, opening>>
    BY <1>4 DEF EnqueueCall, Called, objectVars
  <2>2. storage \in Own BY <1>0, <1>4 DEF EnqueueCall, ClientFields
  <2>3. call \in CallRecords /\ call.op = "enqueue" /\ call.at = "added" /\ call.conn = storage
    BY <2>2, IdleFields DEF CallRecords
  <2>4. CallsOK'
    <3>1. Names(call) BY <2>2, <2>3 DEF Names
    <3> QED BY <2>1, <2>3, <3>1, CallsKept DEF CallsOK
  <2> QED BY <1>0, <2>1, <2>4, Untouched DEF Parts
<1>5. CASE CloseCall(k)
  <2>0. UNCHANGED <<workers, opening>> BY <1>5 DEF CloseCall
  <2>1. CASE startPromise
    <3> DEFINE call == [Idle EXCEPT !.op = "close", !.at = "embedded"]
    <3>1. Called(k, call) /\ UNCHANGED <<clientVars, loops>>
      BY <1>5, <2>1 DEF CloseCall, Called
    <3>2. call \in CallRecords /\ call.op = "close" /\ call.at = "embedded"
      BY IdleFields DEF CallRecords
    <3>3. CallsOK'
      <4>1. Names(call) BY <3>2 DEF Names
      <4> QED BY <3>1, <3>2, <4>1, CallsKept DEF CallsOK
    <3> QED BY <1>0, <2>0, <3>1, <3>3, Untouched DEF Parts
  <2>2. CASE ~startPromise
    <3>1. StopMaintenance(k) /\ UNCHANGED <<storage, startPromise, starting>>
      BY <1>5, <2>2 DEF CloseCall
    <3>2. /\ CallsOK' /\ LoopsOK' /\ members' \subseteq Shared
          /\ maintenance' \in Own \cup {None} /\ embedded' \in Embedded \cup {None}
      BY <3>1, StopMaintenanceTypes
    <3>3. ClientFields' BY <1>0, <3>1, <3>2 DEF ClientFields
    <3> QED BY <1>0, <2>0, <3>2, <3>3, Untouched DEF Parts
  <2> QED BY <2>1, <2>2
<1>6. ASSUME NEW w \in Created \cup Standalone, StartCall(k, w) PROVE Parts
  <2>0. w \in Workers BY DEF Workers, Shared
  <2>1. CASE Open(k, "start", w) BY <2>0, <2>1, OpenTypes
  <2>2. CASE workers' = [workers EXCEPT ![w] = Started(@, @.storage)]
             /\ UNCHANGED <<clientVars, loops, opening, calls>>
    <3>1. workers[w] \in WorkerRecords /\ workers[w].storage \in Own \cup {None}
      BY <1>0, <2>0 DEF WorkersOK, WorkerRecords
    <3>2. Started(workers[w], workers[w].storage) \in WorkerRecords BY <3>1, StartedIsWorker
    <3>3. workers' = [workers EXCEPT ![w] = Started(workers[w], workers[w].storage)] BY <2>2
    <3>4. WorkersOK' BY <2>0, <3>2, <3>3, WorkersKept DEF WorkersOK
    <3> QED BY <1>0, <2>2, <3>4, Untouched DEF Parts
  <2> QED BY <1>6, <2>1, <2>2 DEF StartCall
<1>7. ASSUME NEW w \in Created \cup Standalone, StopCall(k, w) PROVE Parts
  <2>1. w \in Workers BY DEF Workers, Shared
  <2> QED BY <1>7, <2>1, StopBeginsTypes DEF StopCall
<1> QED BY <1>1, <1>2, <1>3, <1>4, <1>5, <1>6, <1>7 DEF NewCall

LEMMA CallStepTypes ==
  ASSUME TypeInv, NEW k \in Callers, CallStep(k) PROVE Parts
<1>0. /\ ClientFields /\ LoopsOK /\ WorkersOK /\ OpeningOK /\ CallsOK
  BY TypeInvParts
<1>1. /\ calls[k].at \in {"open", "opened", "idle"} => calls[k].conn \in Own
      /\ calls[k].op \in {"start", "stop"} => calls[k].worker \in Workers
      /\ calls[k].at \in {"draining", "settling", "joining", "waiting", "stopped"} =>
           calls[k].worker \in Workers
  BY <1>0 DEF CallsOK, CallsNameTheirThings
<1>2. CASE OpenStep(k)
  <2>1. /\ calls[k].at = "open" /\ calls[k].conn = opening /\ Migrate(opening)
        /\ opening \in Own /\ UNCHANGED <<clientVars, loops, workers>>
    BY <1>0, <1>2 DEF OpenStep, objectVars, OpeningOK
  <2>2. conns'[opening].step \in {"migrating", "ready", "failed"}
    BY <2>1, TypeInvParts, MigrateLeadsTo, ConnectionsOfAll
  <2>3. CASE conns'[opening].step = "migrating"
    <3>1. UNCHANGED <<opening, calls>> BY <1>2, <2>3 DEF OpenStep
    <3> QED BY <1>0, <2>1, <3>1, Untouched DEF Parts
  <2>4. CASE conns'[opening].step = "ready"
    <3>1. opening' = None /\ Go(k, "opened") BY <1>2, <2>4 DEF OpenStep
    <3>2. CallsOK' BY <1>1, <2>1, <3>1, GoKeeps DEF CallsOK
    <3> QED BY <1>0, <2>1, <3>1, <3>2, Untouched DEF Parts, OpeningOK
  <2>5. CASE conns'[opening].step = "failed"
    <3>1. opening' = None /\ Return(k) BY <1>2, <2>5 DEF OpenStep
    <3>2. CallsOK' BY <3>1, ReturnKeeps DEF CallsOK
    <3> QED BY <1>0, <2>1, <3>1, <3>2, Untouched DEF Parts, OpeningOK
  <2> QED BY <2>2, <2>3, <2>4, <2>5
<1>3. CASE InitEnds(k)
  <2>1. PICK c \in Own : c = calls[k].conn BY <1>1, <1>3 DEF InitEnds, At
  <2>2. /\ storage' = c /\ maintenance' = c /\ Return(k)
        /\ loops' = [loops EXCEPT ![c] = [timer |-> TRUE, tick |-> TRUE]]
        /\ UNCHANGED <<members, embedded, startPromise, starting, workers, opening>>
    BY <1>3, <2>1 DEF InitEnds
  <2>3. ClientFields' /\ LoopsOK' BY <1>0, <2>2 DEF ClientFields, LoopsOK
  <2>4. CallsOK' BY <2>2, ReturnKeeps DEF CallsOK
  <2> QED BY <1>0, <2>2, <2>3, <2>4, Untouched DEF Parts
<1>4. CASE StartEnds(k)
  <2>1. PICK c \in Own : c = calls[k].conn BY <1>1, <1>4 DEF StartEnds, At
  <2>2. PICK w \in Workers : w = calls[k].worker BY <1>1, <1>4 DEF StartEnds, At
  <2>3. /\ workers' = [workers EXCEPT ![w] =
             [Started(workers[w], c) EXCEPT !.storage = c, !.owns = TRUE]]
        /\ Return(k) /\ UNCHANGED <<clientVars, loops, opening>>
    BY <1>4, <2>1, <2>2 DEF StartEnds
  <2>4. Started(workers[w], c) \in WorkerRecords BY <1>0, StartedIsWorker DEF WorkersOK
  <2>5. [Started(workers[w], c) EXCEPT !.storage = c, !.owns = TRUE] \in WorkerRecords
    BY <2>4 DEF WorkerRecords
  <2>6. WorkersOK' BY <2>3, <2>5, WorkersKept DEF WorkersOK
  <2>7. CallsOK' BY <2>3, ReturnKeeps DEF CallsOK
  <2> QED BY <1>0, <2>3, <2>6, <2>7, Untouched DEF Parts
<1>5. CASE Drained(k)
  <2>1. PICK w \in Workers : w = calls[k].worker BY <1>1, <1>5 DEF Drained, Stopping, At
  <2>2. /\ workers' = [workers EXCEPT ![w].run = IF @ = "free" THEN @ ELSE "aborted"]
        /\ Go(k, "settling") /\ UNCHANGED <<clientVars, loops, opening>>
    BY <1>5, <2>1 DEF Drained
  <2>3. WorkersOK' BY <1>0, <2>2 DEF WorkersOK, WorkerRecords
  <2>4. CallsOK' BY <2>1, <2>2, GoKeeps DEF CallsOK
  <2> QED BY <1>0, <2>2, <2>3, <2>4, Untouched DEF Parts
<1>6. CASE SettledDown(k)
  <2>1. calls[k].worker \in Workers /\ Go(k, "joining")
    BY <1>1, <1>6 DEF SettledDown, Stopping, At
  <2>2. UNCHANGED <<clientVars, loops, workers, opening>> BY <1>6 DEF SettledDown, objectVars
  <2>3. CallsOK' BY <2>1, GoKeeps DEF CallsOK
  <2> QED BY <1>0, <2>2, <2>3, Untouched DEF Parts
<1>7. CASE LoopEnded(k)
  <2>1. PICK w \in Workers : w = calls[k].worker BY <1>1, <1>7 DEF LoopEnded
  <2>2. /\ workers' = [workers EXCEPT ![w].state =
             IF calls[k].at = "joining" THEN "stopped" ELSE @]
        /\ Go(k, "stopped") /\ UNCHANGED <<clientVars, loops, opening>>
    BY <1>7, <2>1 DEF LoopEnded
  <2>3. WorkersOK' BY <1>0, <2>2 DEF WorkersOK, WorkerRecords
  <2>4. CallsOK' BY <2>1, <2>2, GoKeeps DEF CallsOK
  <2> QED BY <1>0, <2>2, <2>3, <2>4, Untouched DEF Parts
<1>8. CASE RuntimeStopped(k)
  <2>1. /\ Go(k, "closing") \/ Go(k, "next") \/ Return(k)
        /\ UNCHANGED <<clientVars, loops, workers, opening>>
    BY <1>8 DEF RuntimeStopped, StopReturns, objectVars
  <2>2. CallsOK' BY <2>1, GoKeeps, ReturnKeeps DEF CallsOK
  <2> QED BY <1>0, <2>1, <2>2, Untouched DEF Parts
<1>9. CASE StopEnds(k)
  <2>1. PICK w \in Workers : w = calls[k].worker BY <1>1, <1>9 DEF StopEnds, At
  <2>2. /\ workers' = [workers EXCEPT ![w] = [workers[w] EXCEPT !.storage = None, !.owns = FALSE]]
        /\ Return(k) /\ UNCHANGED <<clientVars, loops, opening>>
    BY <1>9, <2>1 DEF StopEnds
  <2>3. [workers[w] EXCEPT !.storage = None, !.owns = FALSE] \in WorkerRecords
    BY <1>0 DEF WorkersOK, WorkerRecords
  <2>4. WorkersOK' BY <2>2, <2>3, WorkersKept DEF WorkersOK
  <2>5. CallsOK' BY <2>2, ReturnKeeps DEF CallsOK
  <2> QED BY <1>0, <2>2, <2>4, <2>5, Untouched DEF Parts
<1>10. CASE EmbeddedStarted(k)
  <2>1. StopMaintenance(k) /\ startPromise' = FALSE /\ UNCHANGED <<storage, starting, workers, opening>>
    BY <1>10 DEF EmbeddedStarted
  <2>2. /\ CallsOK' /\ LoopsOK' /\ members' \subseteq Shared
        /\ maintenance' \in Own \cup {None} /\ embedded' \in Embedded \cup {None}
    BY <2>1, StopMaintenanceTypes
  <2>3. ClientFields' BY <1>0, <2>1, <2>2 DEF ClientFields
  <2> QED BY <1>0, <2>1, <2>2, <2>3, Untouched DEF Parts
<1>11. CASE MaintenanceIdle(k)
  <2>1. TakeWorkers(k) /\ UNCHANGED <<storage, startPromise, starting, loops, workers, opening>>
    BY <1>11 DEF MaintenanceIdle, objectVars
  <2>2. /\ CallsOK' /\ members' \subseteq Shared
        /\ maintenance' \in Own \cup {None} /\ embedded' \in Embedded \cup {None}
    BY <2>1, TakeWorkersTypes
  <2>3. ClientFields' BY <1>0, <2>1, <2>2 DEF ClientFields
  <2> QED BY <1>0, <2>1, <2>2, <2>3, Untouched DEF Parts
<1>12. CASE CloseNextWorker(k)
  <2>1. PICK w \in calls[k].todo : StopBegins(k, "close", w, calls[k].todo \ {w})
    BY <1>12 DEF CloseNextWorker
  <2>2. calls[k].todo \subseteq Shared BY <1>0 DEF CallsOK, CallRecords
  <2>3. w \in Workers /\ calls[k].todo \ {w} \in SUBSET Shared BY <2>2 DEF Workers
  <2> QED BY <2>1, <2>3, StopBeginsTypes
<1>13. CASE CloseStorage(k)
  <2>1. /\ Go(k, "closing") \/ Return(k)
        /\ UNCHANGED <<clientVars, loops, workers, opening>>
    BY <1>13 DEF CloseStorage, objectVars
  <2>2. CallsOK' BY <2>1, GoKeeps, ReturnKeeps DEF CallsOK
  <2> QED BY <1>0, <2>1, <2>2, Untouched DEF Parts
<1>14. CASE CloseEnds(k)
  <2>1. /\ storage' = None /\ Return(k)
        /\ UNCHANGED <<maintenance, members, embedded, startPromise, starting, loops, workers, opening>>
    BY <1>14 DEF CloseEnds, objectVars
  <2>2. ClientFields' BY <1>0, <2>1 DEF ClientFields
  <2>3. CallsOK' BY <2>1, ReturnKeeps DEF CallsOK
  <2> QED BY <1>0, <2>1, <2>2, <2>3, Untouched DEF Parts
<1>15. CASE EnqueueReads(k)
  <2>1. Return(k) /\ UNCHANGED <<clientVars, loops, workers, opening>>
    BY <1>15 DEF EnqueueReads, objectVars
  <2>2. CallsOK' BY <2>1, ReturnKeeps DEF CallsOK
  <2> QED BY <1>0, <2>1, <2>2, Untouched DEF Parts
<1> QED
  BY <1>2, <1>3, <1>4, <1>5, <1>6, <1>7, <1>8, <1>9, <1>10, <1>11, <1>12, <1>13, <1>14, <1>15
  DEF CallStep

(* What a runtime does by itself.                                          *)
LEMMA RuntimeSteps ==
  ASSUME NEW w \in Workers
  PROVE  /\ RunStarts(w) => workers' = [workers EXCEPT ![w].run = "handler"]
         /\ HandlerEnds(w) \/ AbortedEnds(w) => workers' = [workers EXCEPT ![w].run = "free"]
         /\ LoopExits(w) => workers' = [workers EXCEPT ![w].claims = FALSE]
<1>1. ASSUME NEW value, WorkerStep(w, "run", value)
      PROVE  workers' = [workers EXCEPT ![w].run = value]
  BY <1>1, Zenon DEF WorkerStep
<1>2. ASSUME WorkerStep(w, "claims", FALSE)
      PROVE  workers' = [workers EXCEPT ![w].claims = FALSE]
  BY <1>2, Zenon DEF WorkerStep
<1> QED BY <1>1, <1>2 DEF RunStarts, HandlerEnds, AbortedEnds, LoopExits

LEMMA TypeStep ==
  ASSUME TypeInv, MigrationTypeOK', [ClientNext]_allVars PROVE TypeInv'
<1>0. /\ ClientFields /\ LoopsOK /\ WorkersOK /\ OpeningOK /\ CallsOK
  BY TypeInvParts
<1>1. Parts
  <2>1. CASE UNCHANGED allVars
    <3>1. UNCHANGED <<clientVars, loops, workers, opening, calls>> BY <2>1 DEF allVars, objectVars
    <3> QED BY <1>0, <3>1, Untouched DEF Parts
  <2>2. CASE OtherProcess
    <3>1. UNCHANGED <<clientVars, loops, workers, opening, calls>> BY <2>2 DEF OtherProcess, objectVars
    <3> QED BY <1>0, <3>1, Untouched DEF Parts
  <2>3. ASSUME NEW c \in Own, TickStarts(c) \/ TickEnds(c) PROVE Parts
    <3>1. UNCHANGED <<clientVars, workers, opening, calls>> BY <2>3 DEF TickStarts, TickEnds
    <3>2. LoopsOK' BY <1>0, <2>3 DEF LoopsOK, TickStarts, TickEnds
    <3> QED BY <1>0, <3>1, <3>2, Untouched DEF Parts
  <2>4. ASSUME NEW w \in Workers, RunStarts(w) \/ HandlerEnds(w) \/ AbortedEnds(w) \/ LoopExits(w)
        PROVE  Parts
    <3>1. UNCHANGED <<clientVars, loops, opening, calls>>
      BY <2>4 DEF RunStarts, HandlerEnds, AbortedEnds, LoopExits, WorkerStep
    <3>2. workers[w] \in WorkerRecords BY <1>0 DEF WorkersOK
    <3>3. \/ workers' = [workers EXCEPT ![w].run = "handler"]
          \/ workers' = [workers EXCEPT ![w].run = "free"]
          \/ workers' = [workers EXCEPT ![w].claims = FALSE]
      BY <2>4, RuntimeSteps
    <3>4. WorkersOK'
      <4>1. /\ [workers[w] EXCEPT !.run = "handler"] \in WorkerRecords
            /\ [workers[w] EXCEPT !.run = "free"] \in WorkerRecords
            /\ [workers[w] EXCEPT !.claims = FALSE] \in WorkerRecords
        BY <3>2 DEF WorkerRecords
      <4> QED BY <3>3, <4>1, WorkersKept DEF WorkersOK
    <3> QED BY <1>0, <3>1, <3>4, Untouched DEF Parts
  <2>5. ASSUME NEW w \in Embedded, EmbeddedStarts(w) PROVE Parts
    <3>1. /\ starting' = starting \ {w}
          /\ workers' = [workers EXCEPT ![w] =
               IF @.state = "none" THEN Started(@, @.storage) ELSE @]
          /\ UNCHANGED <<storage, maintenance, members, embedded, startPromise, loops, opening, calls>>
      BY <2>5 DEF EmbeddedStarts
    <3>2. w \in Workers BY DEF Workers, Shared
    <3>3. workers[w] \in WorkerRecords /\ workers[w].storage \in Own \cup {None}
      BY <1>0, <3>2 DEF WorkersOK, WorkerRecords
    <3>4. Started(workers[w], workers[w].storage) \in WorkerRecords BY <3>3, StartedIsWorker
    <3>5. WorkersOK'
      <4>1. CASE workers[w].state = "none"
        <5>1. workers' = [workers EXCEPT ![w] = Started(workers[w], workers[w].storage)]
          BY <3>1, <4>1
        <5> QED BY <3>2, <3>4, <5>1, WorkersKept DEF WorkersOK
      <4>2. CASE workers[w].state # "none"
        <5>1. workers' = [workers EXCEPT ![w] = workers[w]] BY <3>1, <4>2
        <5> QED BY <3>2, <3>3, <5>1, WorkersKept DEF WorkersOK
      <4> QED BY <4>1, <4>2
    <3>6. ClientFields' BY <1>0, <3>1 DEF ClientFields
    <3> QED BY <1>0, <3>1, <3>5, <3>6, Untouched DEF Parts
  <2> QED BY <2>1, <2>2, <2>3, <2>4, <2>5, NewCallTypes, CallStepTypes DEF ClientNext
<1> QED BY <1>1 DEF Parts, TypeInv, ClientTypeOK, ClientFields, LoopsOK, WorkersOK, OpeningOK, CallsOK,
       WorkerRecords, CallRecords

LEMMA InitialTypes == ClientInit => TypeInv /\ MigrationInv
<1> SUFFICES ASSUME ClientInit PROVE TypeInv /\ MigrationInv OBVIOUS
<1>1. MigrationInv BY InitialInv DEF ClientInit
<1>2. NewWorker \in WorkerRecords BY DEF NewWorker, WorkerRecords
<1>3. WorkersOK BY <1>2 DEF ClientInit, WorkersOK
<1>4. CallsOK
  <2>1. calls = [k \in Callers |-> Idle] BY DEF ClientInit
  <2> QED BY <2>1, IdleFields DEF CallsOK, CallsNameTheirThings
<1>5. ClientFields /\ OpeningOK BY DEF ClientInit, ClientFields, OpeningOK
<1>6. LoopsOK BY DEF ClientInit, LoopsOK, NoLoop
<1> QED BY <1>1, <1>3, <1>4, <1>5, <1>6, TypeInvParts DEF MigrationInv

(* The client, its loops, its workers and the calls are always well typed, *)
(* and every call names the connection and the worker it works on.         *)
THEOREM ClientInvariant == ClientSpec => [](TypeInv /\ MigrationInv)
<1>1. TypeInv /\ MigrationInv /\ [ClientNext]_allVars => (TypeInv /\ MigrationInv)'
  BY ClientKeepsFile, TypeStep DEF MigrationInv
<1> QED BY <1>1, InitialTypes, PTL DEF ClientSpec

(* Whatever any number of tasks call, and in whatever order: init, close,  *)
(* process, start and stop leave the client and its workers well typed.    *)
THEOREM ClientTypeCorrect == ClientSpec => []ClientTypeOK
<1>1. TypeInv => ClientTypeOK BY DEF TypeInv
<1> QED BY <1>1, ClientInvariant, PTL

(* migrate(): user_version tells which table the file holds, also while    *)
(* clients open it, close it and open it again.                            *)
THEOREM ClientVersionIsTrue == ClientSpec => []VersionTellsTable
<1>1. MigrationInv => VersionTellsTable
  BY DEF MigrationInv, BelievedVersions, VersionTellsTable, SCHEMA_VERSION
<1> QED BY <1>1, ClientInvariant, PTL

(* Migration 2 keeps the job ids of an old release: a row answers to its   *)
(* old id, whatever clients open, enqueue and close.                       *)
THEOREM ClientOldIdsHit == ClientSpec => []OldJobIdsStillHit
<1>1. MigrationInv => OldJobIdsStillHit BY DEF MigrationInv
<1> QED BY <1>1, ClientInvariant, PTL

(* Nor does a client lose a row, by what it calls, opens and closes.       *)
THEOREM ClientLosesNoRow == ClientSpec => NoRowLost
<1>1. ASSUME TypeInv /\ MigrationInv, [ClientNext]_allVars PROVE [RowsKept]_migrationVars
  <2>1. CASE [MigrationNext]_migrationVars BY <1>1, <2>1, StepKeepsRows
  <2>2. ASSUME NEW c \in Own, CloseConn(c) PROVE RowsKept
    BY <2>2 DEF CloseConn, fileVars, RowsKept
  <2> QED BY <1>1, <2>1, <2>2, FileSteps
<1> QED BY <1>1, ClientInvariant, PTL DEF ClientSpec, NoRowLost, RowsKept

-----------------------------------------------------------------------------
(* One task: the steps that no call takes                                  *)

OneTaskInvNext(k) == CallInv(k)' /\ Opened(k)' /\ Held(k)' /\ WorkersInv(k)' /\ ClientInv(k)'

LEMMA OneTaskTypes ==
  ASSUME NEW k \in Callers, OneTaskInv(k)
  PROVE  /\ ClientFields /\ LoopsOK /\ WorkersOK /\ OpeningOK /\ CallsOK
         /\ calls[k] \in CallRecords
         /\ \A w \in Workers : workers[w] \in WorkerRecords
         /\ conns \in [Connections -> Conn] /\ None \notin Connections
         /\ None \notin Workers /\ Shared \cap Standalone = {}
         /\ CallInv(k) /\ Opened(k) /\ Held(k) /\ WorkersInv(k) /\ ClientInv(k)
<1>1. ClientFields /\ LoopsOK /\ WorkersOK /\ OpeningOK /\ CallsOK /\ MigrationTypeOK
  BY TypeInvParts DEF OneTaskInv
<1> QED BY <1>1, ClientAssumption
        DEF CallsOK, WorkersOK, MigrationTypeOK, OneTaskInv, Workers, Shared

OwnConnsKept == \A c \in Own : conns'[c].step = conns[c].step

(* Nothing is opened, closed or handed over.                               *)
LEMMA SameConnections ==
  ASSUME NEW k \in Callers, OneTaskInv(k), OwnConnsKept, UNCHANGED <<storage, opening, calls>>,
         \A w \in Standalone : workers'[w].storage = workers[w].storage
  PROVE  Opened(k)' /\ Held(k)'
<1>1. /\ ClientFields /\ OpeningOK /\ Opened(k) /\ Held(k)
      /\ \A w \in Standalone : workers[w].storage \in Own \cup {None}
      /\ calls[k].at \in {"open", "opened", "idle"} => calls[k].conn \in Own
  BY OneTaskTypes DEF WorkerRecords, Workers, CallsOK, CallsNameTheirThings
<1>2. Opened(k)' BY <1>1 DEF Opened, Ready, OwnConnsKept, OpeningOK
<1>3. Held(k)' BY <1>1 DEF Held, Ready, OwnConnsKept, ClientFields
<1> QED BY <1>2, <1>3

(* Held, of a call that neither hands a connection over nor closes one.    *)
AllHeld ==
  /\ storage # None => conns[storage].step = "ready"
  /\ \A w \in Standalone : workers[w].storage # None =>
       /\ conns[workers[w].storage].step = "ready"
       /\ workers[w].storage # storage
       /\ \A v \in Standalone : workers[v].storage = workers[w].storage => v = w
  /\ \A c \in Own : conns[c].step = "ready" =>
       c = storage \/ \E w \in Standalone : workers[w].storage = c

LEMMA HeldByAll ==
  ASSUME NEW k \in Callers, OneTaskInv(k), calls[k].at \notin {"opened", "closing"}
  PROVE  AllHeld
<1>1. Held(k) BY OneTaskTypes
<1>2. ~(calls[k].op = "close" /\ calls[k].at = "closing") /\ calls[k].at # "opened" OBVIOUS
<1>3. \A w : ~(calls[k].op = "stop" /\ calls[k].at = "closing" /\ calls[k].worker = w) OBVIOUS
<1> QED BY <1>1, <1>2, <1>3 DEF Held, Ready, AllHeld

LEMMA HeldNext ==
  ASSUME NEW k \in Callers, calls'[k].at \notin {"opened", "closing"}, AllHeld'
  PROVE  Held(k)'
<1>2. ~(calls'[k].op = "close" /\ calls'[k].at = "closing") OBVIOUS
<1>3. \A w : ~(calls'[k].op = "stop" /\ calls'[k].at = "closing" /\ calls'[k].worker = w) OBVIOUS
<1> QED BY <1>2, <1>3 DEF Held, Ready, AllHeld

LEMMA OtherProcessStep ==
  ASSUME NEW k \in Callers, OneTaskInv(k), OtherProcess PROVE OneTaskInvNext(k)
<1>1. UNCHANGED <<clientVars, loops, workers, opening, calls>> BY DEF OtherProcess, objectVars
<1>2. OwnConnsKept
  BY OwnConnOnly, ConnectionsOfAll DEF OtherProcess, OwnConnsKept, OneTaskInv, TypeInv, ClientTypeOK
<1>3. Opened(k)' /\ Held(k)' BY <1>1, <1>2, SameConnections DEF clientVars
<1>4. CallInv(k)' /\ WorkersInv(k)' /\ ClientInv(k)'
  BY <1>1 DEF clientVars, OneTaskInv, CallInv, WorkersInv, ClientInv, TakenDown, Kept
<1> QED BY <1>3, <1>4 DEF OneTaskInvNext

LEMMA TickStep ==
  ASSUME NEW k \in Callers, OneTaskInv(k), NEW c \in Own, TickStarts(c) \/ TickEnds(c)
  PROVE  OneTaskInvNext(k)
<1>1. /\ UNCHANGED <<clientVars, workers, opening, calls, conns>>
      /\ \E b \in BOOLEAN : loops' = [loops EXCEPT ![c].tick = b]
      /\ loops[c].timer \/ loops[c].tick
  BY DEF TickStarts, TickEnds, migrationVars
<1>2. Opened(k)' /\ Held(k)' BY <1>1, SameConnections DEF clientVars, OwnConnsKept
<1>3. CallInv(k)' /\ WorkersInv(k)'
  BY <1>1 DEF clientVars, OneTaskInv, CallInv, WorkersInv, TakenDown, Kept
<1>4. ClientInv(k)'
  <2>1. LoopsOK /\ ClientInv(k) BY OneTaskTypes
  <2>2. \A d \in Own : /\ loops'[d].timer = loops[d].timer
                       /\ loops'[d].tick => loops[d].tick \/ d = c
    BY <1>1, <2>1 DEF LoopsOK
  <2>3. calls[k].at = "idle" => calls[k].conn \in Own
    BY OneTaskTypes DEF CallsOK, CallsNameTheirThings
  <2> QED BY <1>1, <2>1, <2>2, <2>3 DEF clientVars, ClientInv
<1> QED BY <1>2, <1>3, <1>4 DEF OneTaskInvNext

(* What a step of a runtime leaves alone.                                  *)
LEMMA RuntimeStep ==
  ASSUME NEW k \in Callers, OneTaskInv(k), NEW w \in Workers,
         RunStarts(w) \/ HandlerEnds(w) \/ AbortedEnds(w) \/ LoopExits(w)
  PROVE  OneTaskInvNext(k)
<1>0. /\ WorkersOK /\ workers[w] \in WorkerRecords
      /\ CallInv(k) /\ WorkersInv(k) /\ ClientInv(k)
  BY OneTaskTypes
<1>1. UNCHANGED <<clientVars, loops, opening, calls, conns>>
  BY DEF RunStarts, HandlerEnds, AbortedEnds, LoopExits, WorkerStep, migrationVars
<1>2. PICK worker \in WorkerRecords :
        /\ workers' = [workers EXCEPT ![w] = worker]
        /\ worker.storage = workers[w].storage /\ worker.owns = workers[w].owns
        /\ worker.on = workers[w].on /\ worker.state = workers[w].state
        /\ worker.claims => workers[w].claims
        /\ worker.run # "free" => workers[w].state = "running" \/ workers[w].run # "free"
  <2>1. \/ RunStarts(w) /\ workers' = [workers EXCEPT ![w].run = "handler"]
        \/ workers' = [workers EXCEPT ![w].run = "free"]
        \/ workers' = [workers EXCEPT ![w].claims = FALSE]
    BY RuntimeSteps
  <2>2. CASE RunStarts(w) /\ workers' = [workers EXCEPT ![w].run = "handler"]
    <3> DEFINE worker == [workers[w] EXCEPT !.run = "handler"]
    <3>1. worker \in WorkerRecords /\ workers' = [workers EXCEPT ![w] = worker]
      BY <1>0, <2>2 DEF WorkerRecords
    <3>2. workers[w].state = "running" BY <2>2 DEF RunStarts
    <3> QED BY <1>0, <3>1, <3>2 DEF WorkerRecords
  <2>3. CASE workers' = [workers EXCEPT ![w].run = "free"]
    <3> DEFINE worker == [workers[w] EXCEPT !.run = "free"]
    <3>1. worker \in WorkerRecords /\ workers' = [workers EXCEPT ![w] = worker]
      BY <1>0, <2>3 DEF WorkerRecords
    <3> QED BY <1>0, <3>1 DEF WorkerRecords
  <2>4. CASE workers' = [workers EXCEPT ![w].claims = FALSE]
    <3> DEFINE worker == [workers[w] EXCEPT !.claims = FALSE]
    <3>1. worker \in WorkerRecords /\ workers' = [workers EXCEPT ![w] = worker]
      BY <1>0, <2>4 DEF WorkerRecords
    <3> QED BY <1>0, <3>1 DEF WorkerRecords
  <2> QED BY <2>1, <2>2, <2>3, <2>4
<1>3. /\ workers'[w] = worker
      /\ \A v \in Workers : v # w => workers'[v] = workers[v]
  BY <1>0, <1>2 DEF WorkersOK
<1>4. \A v \in Workers : /\ workers'[v].storage = workers[v].storage
                         /\ workers'[v].owns = workers[v].owns
                         /\ workers'[v].on = workers[v].on
                         /\ workers'[v].state = workers[v].state
                         /\ workers'[v].claims => workers[v].claims
                         /\ workers'[v].run # "free" => workers[v].state = "running" \/ workers[v].run # "free"
  BY <1>2, <1>3
<1>5. Opened(k)' /\ Held(k)' BY <1>1, <1>4, SameConnections DEF clientVars, OwnConnsKept, Workers
<1>6. w \in Standalone => workers[w].state # "none"
  <2>1. SUFFICES ASSUME w \in Standalone, workers[w].state = "none" PROVE FALSE OBVIOUS
  <2>2. ~workers[w].claims /\ workers[w].run = "free" BY <1>0, <2>1 DEF WorkersInv
  <2> QED BY <2>1, <2>2 DEF RunStarts, HandlerEnds, AbortedEnds, LoopExits
<1>7. WorkersInv(k)'
  <2>1. \A v \in Standalone : workers[v].state = "none" => workers'[v] = workers[v]
    BY <1>3, <1>6 DEF Workers
  <2> QED BY <1>0, <1>1, <1>4, <2>1 DEF WorkersInv, Kept, TakenDown, clientVars
<1>8. CallInv(k)'
  <2>1. CASE calls[k].op = "start"
    <3>1. calls[k].worker \in Standalone /\ workers[calls[k].worker] = NewWorker /\ calls[k].worker \in Workers
      BY <1>0, <2>1 DEF CallInv, Workers
    <3>2. workers'[calls[k].worker] = NewWorker BY <1>3, <1>6, <3>1 DEF NewWorker
    <3> QED BY <1>0, <1>1, <2>1, <3>1, <3>2 DEF CallInv, TakenDown, clientVars
  <2>2. CASE calls[k].op # "start"
    <3>1. TakenDown(k) \/ calls[k].at = "stopped" => calls[k].worker \in Workers
      BY OneTaskTypes DEF CallsOK, CallsNameTheirThings, TakenDown
    <3>2. calls[k].op = "stop" => calls[k].worker \in Workers
      BY OneTaskTypes DEF CallsOK, CallsNameTheirThings
    <3>3. calls[k].at = "joining" => workers[calls[k].worker].state = "stopping"
      BY <1>0 DEF CallInv, TakenDown
    <3> QED BY <1>0, <1>1, <1>4, <2>2, <3>1, <3>2, <3>3 DEF CallInv, TakenDown, clientVars
  <2> QED BY <2>1, <2>2
<1>9. ClientInv(k)'
  <2>1. starting \subseteq Workers BY OneTaskTypes DEF ClientFields, Workers, Shared
  <2> QED BY <1>0, <1>1, <1>4, <2>1 DEF ClientInv, clientVars
<1> QED BY <1>5, <1>7, <1>8, <1>9 DEF OneTaskInvNext

(* The fields of a worker that has started.                                *)
LEMMA StartedFields ==
  ASSUME NEW worker \in WorkerRecords, NEW c \in Own \cup {None}
  PROVE  /\ Started(worker, c).storage = worker.storage /\ Started(worker, c).owns = worker.owns
         /\ Started(worker, c).run = worker.run /\ Started(worker, c).state = "running"
         /\ Started(worker, c).claims = TRUE
         /\ Started(worker, c).on = IF worker.state = "none" THEN c ELSE worker.on
<1>1. CASE worker.state = "none"
  <2>1. Started(worker, c) = [worker EXCEPT !.on = c, !.state = "running", !.claims = TRUE]
    BY <1>1 DEF Started, WorkerRecords
  <2> QED BY <1>1, <2>1 DEF WorkerRecords
<1>2. CASE worker.state # "none"
  <2>1. Started(worker, c) = [worker EXCEPT !.state = "running", !.claims = TRUE]
    BY <1>2 DEF Started, WorkerRecords
  <2> QED BY <1>2, <2>1 DEF WorkerRecords
<1> QED BY <1>1, <1>2

(* A worker that is started keeps the storage it has, which is open: it is *)
(* a member of the client.                                                 *)
LEMMA MemberStarts ==
  ASSUME NEW k \in Callers, OneTaskInv(k), NEW w \in Shared,
         workers[w].state \in {"none", "stopped"}, Kept(k, w),
         calls[k].at = "stopped" => calls[k].worker # w,
         workers' = [workers EXCEPT ![w] = Started(workers[w], workers[w].storage)],
         starting' \subseteq starting, w \notin starting',
         UNCHANGED <<storage, maintenance, members, startPromise, loops, opening, calls, conns>>
  PROVE  OneTaskInvNext(k)
<1>0. /\ WorkersOK /\ workers[w] \in WorkerRecords /\ w \in Workers /\ w \notin Standalone
      /\ CallInv(k) /\ WorkersInv(k) /\ ClientInv(k)
  BY OneTaskTypes DEF Workers
<1>1. PICK worker \in WorkerRecords : worker = Started(workers[w], workers[w].storage)
  <2>1. workers[w].storage \in Own \cup {None} BY <1>0 DEF WorkerRecords
  <2> QED BY <1>0, <2>1, StartedIsWorker
<1>2. /\ worker.storage = workers[w].storage /\ worker.owns = workers[w].owns
      /\ worker.state = "running" /\ worker.run = workers[w].run
      /\ worker.on = IF workers[w].state = "none" THEN workers[w].storage ELSE workers[w].on
  <2>1. PICK c \in Own \cup {None} : c = workers[w].storage BY <1>0 DEF WorkerRecords
  <2>2. /\ Started(workers[w], c).storage = workers[w].storage
        /\ Started(workers[w], c).owns = workers[w].owns
        /\ Started(workers[w], c).run = workers[w].run /\ Started(workers[w], c).state = "running"
        /\ Started(workers[w], c).on = IF workers[w].state = "none" THEN c ELSE workers[w].on
    BY <1>0, StartedFields
  <2> QED BY <1>1, <2>1, <2>2
<1>3. /\ workers'[w] = worker
      /\ \A v \in Workers : v # w => workers'[v] = workers[v]
  BY <1>0, <1>1 DEF WorkersOK
<1>4. Opened(k)' /\ Held(k)' BY <1>0, <1>3, SameConnections DEF OwnConnsKept, Workers
<1>5. Kept(k, w)' /\ \A v \in Workers : Kept(k, v)' <=> Kept(k, v)
  BY DEF Kept, TakenDown
<1>6. workers[w].storage = storage /\ storage # None BY <1>0 DEF WorkersInv
<1>7. WorkersInv(k)'
  <2>1. /\ workers'[w].owns <=> (w \in Standalone /\ workers'[w].storage # None)
        /\ workers'[w].on = workers'[w].storage
    BY <1>0, <1>2, <1>3, <1>6 DEF WorkersInv
  <2> QED BY <1>0, <1>2, <1>3, <1>5, <1>6, <2>1 DEF WorkersInv, TakenDown
<1>8. CallInv(k)'
  <2>1. calls[k].op = "start" => calls[k].worker \in Workers /\ calls[k].worker # w
    BY <1>0 DEF CallInv, Workers
  <2>2. TakenDown(k) => calls[k].worker \in Workers /\ calls[k].worker # w
    BY <1>0, OneTaskTypes DEF CallInv, CallsOK, CallsNameTheirThings, TakenDown
  <2>3. calls[k].at = "stopped" => calls[k].worker \in Workers /\ calls[k].worker # w
    BY OneTaskTypes DEF CallsOK, CallsNameTheirThings
  <2>4. calls[k].op = "stop" /\ calls[k].at = "closing" => calls[k].worker \in Workers /\ calls[k].worker # w
    BY <1>0 DEF CallInv, Workers
  <2> QED BY <1>0, <1>3, <2>1, <2>2, <2>3, <2>4 DEF CallInv, TakenDown
<1>9. ClientInv(k)'
  <2>1. starting \subseteq Workers BY OneTaskTypes DEF ClientFields, Workers, Shared
  <2> QED BY <1>0, <1>3, <2>1 DEF ClientInv
<1> QED BY <1>4, <1>7, <1>8, <1>9 DEF OneTaskInvNext

LEMMA EmbeddedStep ==
  ASSUME NEW k \in Callers, OneTaskInv(k), NEW w \in Embedded, EmbeddedStarts(w)
  PROVE  OneTaskInvNext(k)
<1>1. /\ w \in starting /\ starting' = starting \ {w}
      /\ workers' = [workers EXCEPT ![w] = IF @.state = "none" THEN Started(@, @.storage) ELSE @]
      /\ UNCHANGED <<storage, maintenance, members, startPromise, loops, opening, calls, conns>>
  BY DEF EmbeddedStarts, migrationVars
<1>2. CallInv(k) /\ ClientInv(k) BY OneTaskTypes
<1>3. w \in members /\ workers[w].state = "none" BY <1>1, <1>2 DEF ClientInv
<1>4. workers' = [workers EXCEPT ![w] = Started(workers[w], workers[w].storage)] BY <1>1, <1>3
<1>5. calls[k].at = "stopped" => calls[k].worker # w
  <2>1. SUFFICES ASSUME calls[k].at = "stopped", calls[k].worker = w PROVE FALSE OBVIOUS
  <2>2. calls[k].op \in {"stop", "close"}
    <3>1. calls[k].op \in {"none", "init", "enqueue", "close", "start", "stop"}
      BY OneTaskTypes DEF CallRecords
    <3> QED BY <1>2, <2>1, <3>1, IdleFields DEF CallInv
  <2>3. CASE calls[k].op = "stop"
    BY <1>2, <2>1, <2>3, ClientAssumption DEF CallInv
  <2>4. CASE calls[k].op = "close"
    BY <1>2, <1>3, <2>1, <2>4 DEF ClientInv
  <2> QED BY <2>2, <2>3, <2>4
<1>6. Kept(k, w) /\ w \in Shared BY <1>3 DEF Kept, Shared
<1> QED BY <1>1, <1>3, <1>4, <1>5, <1>6, MemberStarts

-----------------------------------------------------------------------------
(* One task: calls that return at once                                     *)

LEMMA NoCall ==
  ASSUME NEW k \in Callers, Free(k)
  PROVE  /\ opening = None /\ calls[k] = Idle /\ calls[k].op = "none" /\ calls[k].at = ""
         /\ calls[k].conn = None /\ calls[k].worker = None /\ calls[k].todo = {}
         /\ ~TakenDown(k)
BY IdleFields DEF Free, TakenDown

(* A new worker becomes a member of a client that is open.                 *)
LEMMA CreateStep ==
  ASSUME NEW k \in Callers, OneTaskInv(k), NEW w \in Shared, Free(k), storage # None, Create(w),
         starting' \subseteq starting \cup {w},
         startPromise' = TRUE \/ UNCHANGED <<startPromise, starting>>,
         UNCHANGED <<storage, maintenance, loops, opening, calls, conns>>
  PROVE  OneTaskInvNext(k)
<1>0. /\ WorkersOK /\ workers[w] \in WorkerRecords /\ w \in Workers /\ w \notin Standalone
      /\ CallInv(k) /\ WorkersInv(k) /\ ClientInv(k)
  BY OneTaskTypes DEF Workers
<1>1. /\ workers[w] = NewWorker /\ members' = members \cup {w}
      /\ workers' = [workers EXCEPT ![w] = [workers[w] EXCEPT !.storage = storage]]
  BY DEF Create
<1>2. PICK worker : worker = [workers[w] EXCEPT !.storage = storage] OBVIOUS
<1>3. /\ worker.storage = storage /\ worker.owns = FALSE /\ worker.state = "none"
      /\ worker.claims = FALSE /\ worker.run = "free"
  BY <1>0, <1>1, <1>2 DEF WorkerRecords, NewWorker
<1>4. /\ workers'[w] = worker
      /\ \A v \in Workers : v # w => workers'[v] = workers[v]
  BY <1>0, <1>1, <1>2 DEF WorkersOK
<1>5. Opened(k)' /\ Held(k)' BY <1>0, <1>4, SameConnections DEF OwnConnsKept, Workers
<1>6. CallInv(k)' BY NoCall DEF CallInv, TakenDown
<1>7. Kept(k, w)' /\ \A v \in Workers : v # w => (Kept(k, v)' <=> Kept(k, v))
  BY <1>1 DEF Kept, TakenDown
<1>8. WorkersInv(k)'
  BY <1>0, <1>3, <1>4, <1>7 DEF WorkersInv, TakenDown
<1>9. ClientInv(k)'
  <2>1. starting \subseteq Workers BY OneTaskTypes DEF ClientFields, Workers, Shared
  <2>2. \A v \in starting' : workers'[v].state = "none"
    BY <1>0, <1>3, <1>4, <2>1 DEF ClientInv
  <2>3. startPromise \in BOOLEAN BY OneTaskTypes DEF ClientFields
  <2> QED BY <1>0, <1>1, <2>2, <2>3, NoCall DEF ClientInv
<1> QED BY <1>5, <1>6, <1>8, <1>9 DEF OneTaskInvNext

-----------------------------------------------------------------------------
(* One task: calls that begin                                              *)

(* A new connection is nobody's yet.                                       *)
LEMMA OpenBegins ==
  ASSUME NEW k \in Callers, OneTaskInv(k), Free(k), NEW op, NEW w, Open(k, op, w),
         \/ op = "init" /\ w = None /\ storage = None
         \/ op = "start" /\ w \in Standalone /\ workers[w] = NewWorker
  PROVE  OneTaskInvNext(k)
<1>0. /\ CallInv(k) /\ Opened(k) /\ Held(k) /\ WorkersInv(k) /\ ClientInv(k)
      /\ ClientFields /\ CallsOK /\ OpeningOK /\ calls[k].at = "" /\ calls[k].op = "none" /\ ~TakenDown(k)
      /\ calls[k].todo = {} /\ None \notin Own
      /\ conns \in [Connections -> Conn] /\ Own \subseteq Connections
      /\ \A v \in Standalone : workers[v].storage \in Own \cup {None}
  BY OneTaskTypes, NoCall, ConnectionsOfAll DEF WorkerRecords, Workers
<1>1. PICK c \in Own :
        /\ conns[c].step = "new"
        /\ conns' = [conns EXCEPT ![c] = [step |-> "migrating", next |-> version + 1, retried |-> FALSE]]
        /\ opening' = c
        /\ calls' = [calls EXCEPT ![k] =
             [Idle EXCEPT !.op = op, !.at = "open", !.conn = c, !.worker = w]]
        /\ UNCHANGED <<clientVars, loops, workers>>
  BY DEF Open, ReadVersion, objectVars
<1>2. /\ calls'[k].op = op /\ calls'[k].at = "open" /\ calls'[k].conn = c
      /\ calls'[k].worker = w /\ calls'[k].todo = {}
  <2> DEFINE call == [Idle EXCEPT !.op = op, !.at = "open", !.conn = c, !.worker = w]
  <2>1. call.op = op /\ call.at = "open" /\ call.conn = c /\ call.worker = w /\ call.todo = {}
    BY IdleFields DEF CallRecords
  <2>2. calls'[k] = call BY <1>0, <1>1 DEF CallsOK
  <2> QED BY <2>1, <2>2
<1>3. conns'[c].step = "migrating" /\ \A d \in Own : d # c => conns'[d] = conns[d]
  BY <1>0, <1>1
<1>4. UNCHANGED <<storage, maintenance, members, startPromise, starting, loops, workers>>
  BY <1>1 DEF clientVars
<1>5. CallInv(k)' BY <1>2, <1>4 DEF CallInv, TakenDown
<1>6. Opened(k)' BY <1>1, <1>2, <1>3 DEF Opened
<1>7. Held(k)'
  <2>0. AllHeld BY <1>0, HeldByAll
  <2>1. storage # None => storage # c /\ storage \in Own BY <1>0, <1>1, <2>0 DEF AllHeld, ClientFields
  <2>2. \A v \in Standalone : workers[v].storage # None =>
          workers[v].storage # c /\ workers[v].storage \in Own
    BY <1>0, <1>1, <2>0 DEF AllHeld
  <2>3. AllHeld' BY <1>3, <1>4, <2>0, <2>1, <2>2 DEF AllHeld
  <2> QED BY <1>2, <2>3, HeldNext
<1>8. WorkersInv(k)'
  <2>1. \A v \in Workers : Kept(k, v)' <=> Kept(k, v) BY <1>0, <1>2, <1>4 DEF Kept, TakenDown
  <2>2. ~TakenDown(k)' BY <1>2 DEF TakenDown
  <2> QED BY <1>0, <1>2, <1>4, <2>1, <2>2 DEF WorkersInv
<1>9. ClientInv(k)' BY <1>0, <1>2, <1>4 DEF ClientInv
<1> QED BY <1>5, <1>6, <1>7, <1>8, <1>9 DEF OneTaskInvNext

LEMMA StartCallStep ==
  ASSUME NEW k \in Callers, Callers = {k}, ~Reuse, OneTaskInv(k),
         NEW w \in Created \cup Standalone, StartCall(k, w)
  PROVE  OneTaskInvNext(k)
<1>0. /\ WorkersInv(k) /\ Free(k) /\ MayStart(w) /\ w \in Workers
  BY OneTaskTypes DEF StartCall, Workers, Shared
<1>1. CASE workers[w].state = "none" /\ workers[w].storage = None /\ Open(k, "start", w)
  <2>1. w \in Standalone BY <1>0, <1>1 DEF MayStart
  <2>2. workers[w] = NewWorker BY <1>0, <1>1, <2>1 DEF WorkersInv
  <2> QED BY <1>0, <1>1, <2>1, <2>2, OpenBegins
<1>2. CASE /\ \/ workers[w].state = "none" /\ workers[w].storage # None
              \/ workers[w].state = "stopped"
           /\ workers' = [workers EXCEPT ![w] = Started(@, @.storage)]
           /\ UNCHANGED <<migrationVars, clientVars, loops, opening, calls>>
  <2>1. w \notin Standalone
    <3>1. SUFFICES ASSUME w \in Standalone PROVE FALSE OBVIOUS
    <3>2. CASE workers[w].state = "none"
      BY <1>0, <1>2, <3>1, <3>2 DEF WorkersInv, NewWorker
    <3>3. CASE workers[w].state = "stopped" /\ workers[w].storage # None
      BY <1>0, <3>1, <3>3, NoCall DEF WorkersInv
    <3>4. CASE workers[w].state = "stopped" /\ workers[w].storage = None
      BY <1>0, <3>1, <3>4, OneTaskTypes, ClientAssumption DEF MayStart, ClientFields, Shared
    <3> QED BY <1>2, <3>2, <3>3, <3>4
  <2>2. w \in members BY <1>0, <2>1 DEF MayStart
  <2>3. w \in Shared /\ Kept(k, w) BY <2>1, <2>2 DEF Shared, Kept
  <2>4. w \notin starting'
    BY <1>2, OneTaskTypes, ClientAssumption, <2>1 DEF clientVars, ClientFields
  <2>5. workers' = [workers EXCEPT ![w] = Started(workers[w], workers[w].storage)] BY <1>2
  <2>6. calls[k].at = "stopped" => calls[k].worker # w BY <1>0, NoCall
  <2> QED BY <1>2, <2>3, <2>4, <2>5, <2>6, MemberStarts DEF clientVars, migrationVars
<1> QED BY <1>1, <1>2 DEF StartCall

(* stop() begins: on its own or as part of close().                        *)
LEMMA StopBeginsStep ==
  ASSUME NEW k \in Callers, OneTaskInv(k), NEW op, NEW w \in Workers, NEW todo \in SUBSET Shared,
         StopBegins(k, op, w, todo),
         \/ op = "stop" /\ Free(k) /\ todo = {} /\ w \in Created \cup Standalone /\ workers[w] # NewWorker
         \/ /\ op = "close" /\ At(k, "close", "next")
            /\ w \in Shared /\ w \in calls[k].todo /\ todo = calls[k].todo \ {w}
  PROVE  OneTaskInvNext(k)
<1>0. /\ CallInv(k) /\ Opened(k) /\ Held(k) /\ WorkersInv(k) /\ ClientInv(k)
      /\ ClientFields /\ CallsOK /\ WorkersOK /\ workers[w] \in WorkerRecords
      /\ Shared \cap Standalone = {}
  BY OneTaskTypes
<1>1. /\ ~TakenDown(k) /\ calls[k].at \in {"", "next"} /\ opening = None
      /\ calls[k].op = "close" <=> op = "close"
      /\ calls[k].op \in {"none", "close"}
      /\ op = "stop" => calls[k].todo = {}
      /\ calls[k].at = "next" <=> op = "close"
  BY NoCall DEF At, TakenDown
<1>2. PICK at : at = CASE workers[w].state = "running"  -> "draining"
                       [] workers[w].state = "stopping" -> "waiting"
                       [] OTHER                         -> "stopped"
  OBVIOUS
<1>3. /\ workers[w].state \in {"none", "running", "stopped"}
      /\ at = IF workers[w].state = "running" THEN "draining" ELSE "stopped"
  BY <1>0, <1>1, <1>2 DEF WorkersInv, WorkerRecords
<1>4. /\ calls'[k].op = op /\ calls'[k].at = at /\ calls'[k].worker = w
      /\ calls'[k].todo = todo /\ calls'[k].conn = None
  <2> DEFINE call == [Idle EXCEPT !.op = op, !.at = at, !.worker = w, !.todo = todo]
  <2>1. call.op = op /\ call.at = at /\ call.worker = w /\ call.todo = todo /\ call.conn = None
    BY IdleFields DEF CallRecords
  <2>2. calls' = [calls EXCEPT ![k] = call] BY <1>2 DEF StopBegins
  <2>3. calls'[k] = call BY <1>0, <2>2 DEF CallsOK
  <2> QED BY <2>1, <2>3
<1>5. PICK worker : worker = [workers[w] EXCEPT !.state = IF @ = "running" THEN "stopping" ELSE @]
  OBVIOUS
<1>6. /\ worker.state = (IF workers[w].state = "running" THEN "stopping" ELSE workers[w].state)
      /\ worker.storage = workers[w].storage /\ worker.owns = workers[w].owns
      /\ worker.on = workers[w].on /\ worker.claims = workers[w].claims
      /\ worker.run = workers[w].run
      /\ workers[w].state # "running" => worker = workers[w]
  BY <1>0, <1>5 DEF WorkerRecords
<1>7. /\ workers'[w] = worker
      /\ \A v \in Workers : v # w => workers'[v] = workers[v]
  BY <1>0, <1>5 DEF StopBegins, WorkersOK
<1>8. UNCHANGED <<storage, maintenance, members, startPromise, starting, loops, opening, conns>>
  BY DEF StopBegins, migrationVars, clientVars
<1>9. CallInv(k)'
  BY <1>0, <1>3, <1>4, <1>6, <1>7, <1>8 DEF CallInv, TakenDown
<1>10. Opened(k)' BY <1>0, <1>1, <1>3, <1>4, <1>8 DEF Opened
<1>11. Held(k)'
  <2>1. \A v \in Standalone : workers'[v].storage = workers[v].storage
    BY <1>6, <1>7 DEF Workers
  <2>2. AllHeld BY <1>1, HeldByAll
  <2>3. AllHeld' BY <1>8, <2>1, <2>2 DEF AllHeld
  <2> QED BY <1>3, <1>4, <2>3, HeldNext
<1>12. WorkersInv(k)'
  <2>1. \A v \in Workers : v # w => (Kept(k, v)' <=> Kept(k, v))
    BY <1>1, <1>4, <1>8 DEF Kept, TakenDown
  <2>2. Kept(k, w)' => Kept(k, w) BY <1>1, <1>4, <1>8 DEF Kept, TakenDown
  <2>3. workers'[w].state = "stopping" => TakenDown(k)'
    BY <1>3, <1>4, <1>6, <1>7 DEF TakenDown
  <2>4. workers'[w].state = "stopping" /\ w \in Shared => Kept(k, w)'
    BY <1>0, <1>1, <1>3, <1>4, <1>6, <1>7, <1>8, <2>3 DEF Kept, WorkersInv
  <2>5. \A v \in Workers : v # w => workers'[v].state # "stopping"
    BY <1>0, <1>1, <1>7 DEF WorkersInv
  <2>6. w \in Standalone /\ workers'[w].state = "none" => workers'[w] = NewWorker
    BY <1>0, <1>3, <1>6, <1>7 DEF WorkersInv
  <2>7. w \in Standalone /\ workers'[w].state = "stopped" => op = "stop" /\ at = "stopped"
    BY <1>0, <1>1, <1>3, <1>6, <1>7
  <2>8. \A v \in Standalone : v # w => ~(workers[v].state = "stopped" /\ workers[v].storage # None)
    BY <1>0, <1>1 DEF WorkersInv, Workers
  <2> QED BY <1>0, <1>3, <1>4, <1>6, <1>7, <1>8, <2>1, <2>2, <2>3, <2>4, <2>5, <2>6, <2>7, <2>8 DEF WorkersInv
<1>13. ClientInv(k)'
  <2>1. starting \subseteq Workers BY <1>0 DEF ClientFields, Workers, Shared
  <2>2. \A v \in starting : workers'[v].state = "none"
    BY <1>0, <1>6, <1>7, <2>1 DEF ClientInv
  <2> QED BY <1>0, <1>1, <1>3, <1>4, <1>8, <2>2 DEF ClientInv
<1> QED BY <1>9, <1>10, <1>11, <1>12, <1>13 DEF OneTaskInvNext

-----------------------------------------------------------------------------
(* One task: enqueue                                                       *)

(* Calls move on, and no connection is opened, closed or handed over.      *)
LEMMA CallMovesOn ==
  ASSUME NEW k \in Callers, OneTaskInv(k), opening = None,
         calls[k].at \notin {"open", "opened", "closing"}, calls'[k].at \notin {"open", "opened", "closing"},
         UNCHANGED <<storage, opening, conns>>,
         \A w \in Standalone : workers'[w].storage = workers[w].storage
  PROVE  Opened(k)' /\ Held(k)'
<1>1. Opened(k)' BY DEF Opened
<1>2. AllHeld BY HeldByAll
<1>3. AllHeld' BY <1>2 DEF AllHeld
<1>4. Held(k)' BY <1>3, HeldNext
<1> QED BY <1>1, <1>4

LEMMA ReturnFields ==
  ASSUME NEW k \in Callers, CallsOK, Return(k)
  PROVE  /\ calls'[k] = Idle /\ calls'[k].at = "" /\ calls'[k].op = "none"
         /\ calls'[k].todo = {} /\ ~TakenDown(k)'
<1>1. calls'[k] = Idle BY DEF CallsOK, Return
<1> QED BY <1>1, IdleFields DEF TakenDown

(* A call that ends leaves an invariant behind that speaks of no call.     *)
LEMMA NobodyCalls ==
  ASSUME NEW k \in Callers, CallsOK, Return(k)
  PROVE  CallInv(k)'
<1>1. calls'[k].op = "none" /\ calls'[k] = Idle /\ calls'[k].at = "" /\ ~TakenDown(k)'
  BY ReturnFields
<1>2. (calls[k] = Idle)' BY <1>1
<1> QED BY <1>1, <1>2 DEF CallInv

(* The job goes into the storage that the client has, and keeps it.        *)
LEMMA EnqueueCallStep ==
  ASSUME NEW k \in Callers, OneTaskInv(k), EnqueueCall(k)
  PROVE  OneTaskInvNext(k)
<1>0. /\ WorkersInv(k) /\ ClientInv(k) /\ ClientFields /\ CallsOK
      /\ Free(k) /\ storage # None
      /\ calls[k].op = "none" /\ calls[k].at = "" /\ calls[k].todo = {} /\ ~TakenDown(k)
      /\ opening = None
  BY OneTaskTypes, NoCall DEF EnqueueCall
<1>1. UNCHANGED <<storage, maintenance, members, startPromise, starting, loops, workers, opening, conns>>
  BY DEF EnqueueCall, clientVars, objectVars, Enqueue
<1>2. /\ calls'[k].op = "enqueue" /\ calls'[k].at = "added" /\ calls'[k].conn = storage
      /\ calls'[k].worker = None /\ calls'[k].todo = {} /\ ~TakenDown(k)'
  <2> DEFINE call == [Idle EXCEPT !.op = "enqueue", !.at = "added", !.conn = storage]
  <2>1. /\ call.op = "enqueue" /\ call.at = "added" /\ call.conn = storage
        /\ call.worker = None /\ call.todo = {}
    BY IdleFields DEF CallRecords
  <2>2. calls'[k] = call BY <1>0 DEF CallsOK, EnqueueCall
  <2> QED BY <2>1, <2>2 DEF TakenDown
<1>3. CallInv(k)' BY <1>0, <1>1, <1>2 DEF CallInv
<1>4. Opened(k)' /\ Held(k)' BY <1>0, <1>1, <1>2, CallMovesOn
<1>5. WorkersInv(k)'
  <2>1. \A w \in Workers : Kept(k, w)' <=> Kept(k, w) BY <1>0, <1>1, <1>2 DEF Kept
  <2> QED BY <1>0, <1>1, <1>2, <2>1 DEF WorkersInv
<1>6. ClientInv(k)' BY <1>0, <1>1, <1>2 DEF ClientInv
<1> QED BY <1>3, <1>4, <1>5, <1>6 DEF OneTaskInvNext

(* enqueue has read the row back and returns.                              *)
LEMMA EnqueueReadsStep ==
  ASSUME NEW k \in Callers, OneTaskInv(k), EnqueueReads(k)
  PROVE  OneTaskInvNext(k)
<1>0. /\ WorkersInv(k) /\ ClientInv(k) /\ CallsOK
      /\ calls[k].op = "enqueue" /\ calls[k].at = "added" /\ ~TakenDown(k) /\ opening = None
  BY OneTaskTypes DEF EnqueueReads, At, TakenDown
<1>1. /\ Return(k)
      /\ UNCHANGED <<storage, maintenance, members, startPromise, starting, loops, workers, opening, conns>>
  BY DEF EnqueueReads, clientVars, objectVars, migrationVars
<1>2. calls'[k].at = "" /\ calls'[k].op = "none" /\ calls'[k].todo = {} /\ ~TakenDown(k)'
  BY <1>0, <1>1, ReturnFields
<1>3. CallInv(k)' BY <1>0, <1>1, NobodyCalls
<1>4. Opened(k)' /\ Held(k)' BY <1>0, <1>1, <1>2, CallMovesOn
<1>5. WorkersInv(k)'
  <2>1. \A w \in Workers : Kept(k, w)' <=> Kept(k, w) BY <1>0, <1>1, <1>2 DEF Kept
  <2> QED BY <1>0, <1>1, <1>2, <2>1 DEF WorkersInv
<1>6. ClientInv(k)' BY <1>0, <1>1, <1>2 DEF ClientInv
<1> QED BY <1>3, <1>4, <1>5, <1>6 DEF OneTaskInvNext

-----------------------------------------------------------------------------
(* One task: close, up to its workers                                      *)

(* A call at which nothing is open and nobody stopped yet.                 *)
CloseEarly(k) ==
  /\ opening = None
  /\ calls[k].op \in {"none", "close"} /\ calls[k].at \in {"", "embedded", "idle"}
  /\ calls[k].todo = {}
  /\ starting = {}

LEMMA TakeWorkersStep ==
  ASSUME NEW k \in Callers, OneTaskInv(k), CloseEarly(k), TakeWorkers(k), startPromise' = FALSE,
         \A c \in Own : ~loops[c].timer /\ ~loops[c].tick,
         UNCHANGED <<storage, starting, loops, workers, opening, conns>>
  PROVE  OneTaskInvNext(k)
<1>0. /\ CallInv(k) /\ Opened(k) /\ Held(k) /\ WorkersInv(k) /\ ClientInv(k)
      /\ ClientFields /\ CallsOK
  BY OneTaskTypes
<1>1. /\ calls'[k].op = "close" /\ calls'[k].at = "next" /\ calls'[k].todo = members
      /\ maintenance' = None /\ members' = {}
  <2> DEFINE call == [Idle EXCEPT !.op = "close", !.at = "next", !.todo = members]
  <2>1. call.op = "close" /\ call.at = "next" /\ call.todo = members
    BY IdleFields DEF CallRecords
  <2>2. calls'[k] = call BY <1>0 DEF CallsOK, TakeWorkers
  <2> QED BY <2>1, <2>2 DEF TakeWorkers
<1>2. CallInv(k)' BY <1>1 DEF CallInv, TakenDown
<1>3. Opened(k)' /\ Held(k)' BY <1>1, CallMovesOn DEF CloseEarly
<1>4. WorkersInv(k)'
  <2>1. ~TakenDown(k) /\ ~TakenDown(k)' BY <1>1 DEF CloseEarly, TakenDown
  <2>2. \A w \in Workers : Kept(k, w)' <=> Kept(k, w)
    BY <1>1, <2>1 DEF Kept, CloseEarly
  <2>3. \A w \in Standalone : ~(workers[w].state = "stopped" /\ workers[w].storage # None)
    BY <1>0 DEF WorkersInv, CloseEarly, Workers
  <2> QED BY <1>0, <1>1, <2>1, <2>2, <2>3 DEF WorkersInv
<1>5. ClientInv(k)' BY <1>0, <1>1 DEF ClientInv, CloseEarly
<1> QED BY <1>2, <1>3, <1>4, <1>5 DEF OneTaskInvNext

(* close() stops the loop, or goes on to the workers if there is none.     *)
LEMMA StopMaintenanceStep ==
  ASSUME NEW k \in Callers, OneTaskInv(k), CloseEarly(k), calls[k].at # "idle",
         StopMaintenance(k), startPromise' = FALSE,
         UNCHANGED <<storage, starting, workers, opening, conns>>
  PROVE  OneTaskInvNext(k)
<1>0. /\ CallInv(k) /\ Opened(k) /\ Held(k) /\ WorkersInv(k) /\ ClientInv(k)
      /\ ClientFields /\ CallsOK /\ LoopsOK /\ None \notin Own
  BY OneTaskTypes, ConnectionsOfAll
<1>1. CASE maintenance = None
  <2>1. TakeWorkers(k) /\ UNCHANGED loops BY <1>1 DEF StopMaintenance
  <2>2. \A c \in Own : ~loops[c].timer /\ ~loops[c].tick BY <1>0, <1>1 DEF ClientInv
  <2> QED BY <2>1, <2>2, TakeWorkersStep
<1>2. CASE maintenance # None
  <2>1. PICK c \in Own : c = maintenance BY <1>0, <1>2 DEF ClientFields
  <2> DEFINE call == [Idle EXCEPT !.op = "close", !.at = "idle", !.conn = c]
  <2>2. /\ loops' = [loops EXCEPT ![c].timer = FALSE]
        /\ calls' = [calls EXCEPT ![k] = call]
        /\ UNCHANGED <<maintenance, members>>
    BY <1>2, <2>1 DEF StopMaintenance
  <2>3. call.op = "close" /\ call.at = "idle" /\ call.conn = c /\ call.todo = {}
    BY IdleFields DEF CallRecords
  <2>4. calls'[k] = call BY <1>0, <2>2 DEF CallsOK
  <2> HIDE DEF call
  <2>5. CallInv(k)' BY <2>3, <2>4 DEF CallInv, TakenDown
  <2>6. Opened(k)' /\ Held(k)' BY <2>3, <2>4, CallMovesOn DEF CloseEarly
  <2>7. WorkersInv(k)'
    <3>1. ~TakenDown(k) /\ ~TakenDown(k)' BY <2>3, <2>4 DEF CloseEarly, TakenDown
    <3>2. \A w \in Workers : Kept(k, w)' <=> Kept(k, w)
      BY <2>2, <2>3, <2>4, <3>1 DEF Kept, CloseEarly
    <3>3. \A w \in Standalone : ~(workers[w].state = "stopped" /\ workers[w].storage # None)
      BY <1>0 DEF WorkersInv, CloseEarly, Workers
    <3> QED BY <1>0, <3>1, <3>2, <3>3 DEF WorkersInv
  <2>8. ClientInv(k)'
    <3>1. /\ loops'[c].timer = FALSE
          /\ \A d \in Own : loops'[d].timer \/ loops'[d].tick => loops[d].timer \/ loops[d].tick
      BY <1>0, <2>2 DEF LoopsOK
    <3> QED BY <1>0, <2>1, <2>2, <2>3, <2>4, <3>1 DEF ClientInv, CloseEarly
  <2> QED BY <2>5, <2>6, <2>7, <2>8 DEF OneTaskInvNext
<1> QED BY <1>1, <1>2

LEMMA CloseCallStep ==
  ASSUME NEW k \in Callers, OneTaskInv(k), CloseCall(k)
  PROVE  OneTaskInvNext(k)
<1>0. /\ CallInv(k) /\ WorkersInv(k) /\ ClientInv(k) /\ ClientFields /\ CallsOK
      /\ Free(k)
  BY OneTaskTypes DEF CloseCall
<1>1. CASE ~startPromise
  <2>1. StopMaintenance(k) /\ UNCHANGED <<storage, startPromise, starting, workers, opening, conns>>
    BY <1>1 DEF CloseCall, migrationVars
  <2>2. startPromise' = FALSE BY <1>0, <1>1, <2>1 DEF ClientFields
  <2>3. CloseEarly(k) /\ calls[k].at # "idle" BY <1>0, <1>1, NoCall DEF CloseEarly, ClientInv
  <2> QED BY <2>1, <2>2, <2>3, StopMaintenanceStep
<1>2. CASE startPromise
  <2> DEFINE call == [Idle EXCEPT !.op = "close", !.at = "embedded"]
  <2>1. /\ calls' = [calls EXCEPT ![k] = call]
        /\ UNCHANGED <<storage, maintenance, members, startPromise, starting, loops, workers, opening, conns>>
    BY <1>2 DEF CloseCall, clientVars, migrationVars
  <2>2. call.op = "close" /\ call.at = "embedded" /\ call.todo = {}
    BY IdleFields DEF CallRecords
  <2>3. calls'[k] = call BY <1>0, <2>1 DEF CallsOK
  <2> HIDE DEF call
  <2>4. CallInv(k)' BY <2>2, <2>3 DEF CallInv, TakenDown
  <2>5. Opened(k)' /\ Held(k)' BY <1>0, <2>1, <2>2, <2>3, CallMovesOn, NoCall
  <2>6. WorkersInv(k)'
    <3>1. ~TakenDown(k) /\ ~TakenDown(k)' BY <1>0, <2>2, <2>3, NoCall DEF TakenDown
    <3>2. \A w \in Workers : Kept(k, w)' <=> Kept(k, w)
      BY <1>0, <2>1, <2>2, <2>3, <3>1, NoCall DEF Kept
    <3>3. \A w \in Standalone : ~(workers[w].state = "stopped" /\ workers[w].storage # None)
      BY <1>0, NoCall DEF WorkersInv, Workers
    <3> QED BY <1>0, <2>1, <3>1, <3>2, <3>3 DEF WorkersInv
  <2>7. ClientInv(k)' BY <1>0, <2>1, <2>2, <2>3, NoCall DEF ClientInv
  <2> QED BY <2>4, <2>5, <2>6, <2>7 DEF OneTaskInvNext
<1> QED BY <1>0, <1>1, <1>2 DEF ClientFields

LEMMA EmbeddedStartedStep ==
  ASSUME NEW k \in Callers, OneTaskInv(k), EmbeddedStarted(k)
  PROVE  OneTaskInvNext(k)
<1>1. CallInv(k) BY OneTaskTypes
<1>2. CloseEarly(k) /\ calls[k].at # "idle"
  BY <1>1 DEF EmbeddedStarted, At, CloseEarly, CallInv
<1> QED BY <1>2, StopMaintenanceStep DEF EmbeddedStarted, migrationVars

LEMMA MaintenanceIdleStep ==
  ASSUME NEW k \in Callers, OneTaskInv(k), MaintenanceIdle(k)
  PROVE  OneTaskInvNext(k)
<1>1. CallInv(k) /\ ClientInv(k) /\ ClientFields BY OneTaskTypes
<1>2. calls[k].op = "close" /\ calls[k].at = "idle" /\ opening = None /\ ~loops[calls[k].conn].tick
  BY DEF MaintenanceIdle, At
<1>3. CloseEarly(k) BY <1>1, <1>2 DEF CloseEarly, CallInv, ClientInv
<1>4. \A c \in Own : ~loops[c].timer /\ ~loops[c].tick BY <1>1, <1>2 DEF ClientInv
<1>5. startPromise = FALSE BY <1>1, <1>2 DEF ClientInv, ClientFields
<1>6. TakeWorkers(k) /\ UNCHANGED <<storage, startPromise, starting, loops, workers, opening, conns>>
  BY DEF MaintenanceIdle, migrationVars, objectVars
<1> QED BY <1>3, <1>4, <1>5, <1>6, TakeWorkersStep

-----------------------------------------------------------------------------
(* One task: the connection is open                                        *)

LEMMA GoFields ==
  ASSUME NEW k \in Callers, CallsOK, NEW at, Go(k, at)
  PROVE  /\ calls'[k].at = at /\ calls'[k].op = calls[k].op /\ calls'[k].conn = calls[k].conn
         /\ calls'[k].worker = calls[k].worker /\ calls'[k].todo = calls[k].todo
<1>1. calls[k] \in CallRecords /\ calls' = [calls EXCEPT ![k] = [calls[k] EXCEPT !.at = at]]
  BY DEF CallsOK, Go
<1>2. calls'[k] = [calls[k] EXCEPT !.at = at] BY <1>1 DEF CallsOK
<1> QED BY <1>1, <1>2 DEF CallRecords

LEMMA OpenStepStep ==
  ASSUME NEW k \in Callers, OneTaskInv(k), OpenStep(k)
  PROVE  OneTaskInvNext(k)
<1>0. /\ CallInv(k) /\ Opened(k) /\ Held(k) /\ WorkersInv(k) /\ ClientInv(k)
      /\ ClientFields /\ CallsOK /\ OpeningOK /\ MigrationTypeOK /\ Own \subseteq Connections
      /\ None \notin Own
      /\ \A w \in Standalone : workers[w].storage \in Own \cup {None}
  BY OneTaskTypes, ConnectionsOfAll DEF OneTaskInv, TypeInv, ClientTypeOK, WorkerRecords, Workers
<1>1. PICK c \in Own : c = opening /\ calls[k].at = "open" /\ calls[k].conn = c /\ Migrate(c)
  BY <1>0 DEF OpenStep, OpeningOK
<1>2. /\ conns[c].step = "migrating" /\ conns'[c].step \in {"migrating", "ready", "failed"}
      /\ \A d \in Own : d # c => conns'[d].step = conns[d].step
  BY <1>0, <1>1, MigrateLeadsTo, OwnConnOnly DEF MigrationStep
<1>3. UNCHANGED <<storage, maintenance, members, startPromise, starting, loops, workers>>
  BY DEF OpenStep, objectVars, clientVars
<1>4. /\ calls[k].op \in {"init", "start"} /\ ~TakenDown(k) /\ ~(calls[k].op = "close")
      /\ calls[k].at \notin {"opened", "closing"}
  <2>1. calls[k].op \in {"none", "init", "enqueue", "close", "start", "stop"} BY OneTaskTypes DEF CallRecords
  <2> QED BY <1>0, <1>1, <2>1, IdleFields DEF CallInv, TakenDown
<1>5. /\ storage # None => storage \in Own /\ storage # c
      /\ \A w \in Standalone : workers[w].storage # None =>
           workers[w].storage \in Own /\ workers[w].storage # c
  BY <1>0, <1>2, <1>4, HeldByAll DEF AllHeld, Ready, ClientFields
<1>6. CASE conns'[c].step = "migrating"
  <2>1. UNCHANGED <<opening, calls>> BY <1>1, <1>6 DEF OpenStep
  <2>2. OwnConnsKept BY <1>2, <1>6 DEF OwnConnsKept
  <2>3. Opened(k)' /\ Held(k)' BY <1>3, <2>1, <2>2, SameConnections
  <2>4. CallInv(k)' /\ WorkersInv(k)' /\ ClientInv(k)'
    BY <1>0, <1>3, <2>1 DEF CallInv, WorkersInv, ClientInv, TakenDown, Kept
  <2> QED BY <2>3, <2>4 DEF OneTaskInvNext
<1>7. CASE conns'[c].step = "ready"
  <2>1. opening' = None /\ Go(k, "opened") BY <1>1, <1>7 DEF OpenStep
  <2>2. /\ calls'[k].at = "opened" /\ calls'[k].op = calls[k].op /\ calls'[k].conn = c
        /\ calls'[k].worker = calls[k].worker /\ calls'[k].todo = calls[k].todo /\ ~TakenDown(k)'
    BY <1>0, <1>1, <2>1, GoFields DEF TakenDown
  <2>3. CallInv(k)' BY <1>0, <1>3, <1>4, <2>2 DEF CallInv
  <2>4. Opened(k)'
    <3>1. c # storage /\ \A w \in Standalone : workers[w].storage # c BY <1>0, <1>5
    <3> QED BY <1>3, <1>7, <2>1, <2>2, <3>1 DEF Opened, Ready
  <2>5. Held(k)' BY <1>2, <1>3, <1>4, <1>5, <1>7, <2>2, HeldByAll DEF AllHeld, Held, Ready
  <2>6. WorkersInv(k)' BY <1>0, <1>3, <1>4, <2>2 DEF WorkersInv, Kept
  <2>7. ClientInv(k)' BY <1>0, <1>3, <1>4, <2>2 DEF ClientInv
  <2> QED BY <2>3, <2>4, <2>5, <2>6, <2>7 DEF OneTaskInvNext
<1>8. CASE conns'[c].step = "failed"
  <2>1. opening' = None /\ Return(k) BY <1>1, <1>8 DEF OpenStep
  <2>2. calls'[k].at = "" /\ calls'[k].op = "none" /\ calls'[k].todo = {} /\ ~TakenDown(k)'
    BY <1>0, <2>1, ReturnFields
  <2>3. CallInv(k)' BY <1>0, <2>1, NobodyCalls
  <2>4. Opened(k)' BY <2>1, <2>2 DEF Opened
  <2>5. Held(k)' BY <1>2, <1>3, <1>4, <1>5, <1>8, <2>2, HeldByAll DEF AllHeld, Held, Ready
  <2>6. WorkersInv(k)' BY <1>0, <1>3, <1>4, <2>2 DEF WorkersInv, Kept
  <2>7. ClientInv(k)' BY <1>0, <1>3, <1>4, <2>2 DEF ClientInv
  <2> QED BY <2>3, <2>4, <2>5, <2>6, <2>7 DEF OneTaskInvNext
<1> QED BY <1>2, <1>6, <1>7, <1>8

LEMMA InitEndsStep ==
  ASSUME NEW k \in Callers, OneTaskInv(k), InitEnds(k)
  PROVE  OneTaskInvNext(k)
<1>0. /\ CallInv(k) /\ Opened(k) /\ Held(k) /\ WorkersInv(k) /\ ClientInv(k)
      /\ ClientFields /\ CallsOK /\ LoopsOK /\ None \notin Own
  BY OneTaskTypes, ConnectionsOfAll
<1>1. calls[k].op = "init" /\ calls[k].at = "opened" /\ opening = None /\ ~TakenDown(k)
  BY DEF InitEnds, At, TakenDown
<1>2. PICK c \in Own : c = calls[k].conn BY <1>0, <1>1 DEF CallsOK, CallsNameTheirThings
<1>3. /\ storage' = c /\ maintenance' = c /\ Return(k)
      /\ loops' = [loops EXCEPT ![c] = [timer |-> TRUE, tick |-> TRUE]]
      /\ UNCHANGED <<members, startPromise, starting, workers, opening, conns>>
  BY <1>2 DEF InitEnds, migrationVars
<1>4. calls'[k].at = "" /\ calls'[k].op = "none" /\ calls'[k].todo = {} /\ ~TakenDown(k)'
  BY <1>0, <1>3, ReturnFields
<1>5. Ready(c) /\ storage = None /\ c # None /\ \A w \in Standalone : workers[w].storage # c
  BY <1>0, <1>1, <1>2 DEF Opened, CallInv
<1>6. CallInv(k)' BY <1>0, <1>3, NobodyCalls
<1>7. Opened(k)' BY <1>1, <1>3, <1>4 DEF Opened
<1>8. Held(k)' BY <1>0, <1>1, <1>2, <1>3, <1>4, <1>5 DEF Held, Ready
<1>9. WorkersInv(k)'
  <2>1. members = {} BY <1>0, <1>5 DEF ClientInv
  <2>2. \A w \in Workers : ~Kept(k, w) /\ ~Kept(k, w)' BY <1>1, <1>3, <1>4, <2>1 DEF Kept
  <2> QED BY <1>0, <1>1, <1>3, <1>4, <2>2 DEF WorkersInv
<1>10. ClientInv(k)'
  <2>1. \A d \in Own : d # c => loops'[d] = loops[d] BY <1>0, <1>3 DEF LoopsOK
  <2>2. \A d \in Own : ~loops[d].timer /\ ~loops[d].tick BY <1>0, <1>5 DEF ClientInv
  <2> QED BY <1>0, <1>3, <1>4, <1>5, <2>1, <2>2 DEF ClientInv
<1> QED BY <1>6, <1>7, <1>8, <1>9, <1>10 DEF OneTaskInvNext

LEMMA StartEndsStep ==
  ASSUME NEW k \in Callers, OneTaskInv(k), StartEnds(k)
  PROVE  OneTaskInvNext(k)
<1>0. /\ CallInv(k) /\ Opened(k) /\ Held(k) /\ WorkersInv(k) /\ ClientInv(k)
      /\ ClientFields /\ CallsOK /\ WorkersOK /\ None \notin Own /\ Shared \cap Standalone = {}
  BY OneTaskTypes, ConnectionsOfAll
<1>1. calls[k].op = "start" /\ calls[k].at = "opened" /\ opening = None /\ ~TakenDown(k)
  BY DEF StartEnds, At, TakenDown
<1>2. PICK c \in Own : c = calls[k].conn BY <1>0, <1>1 DEF CallsOK, CallsNameTheirThings
<1>3. PICK w \in Standalone : w = calls[k].worker /\ workers[w] = NewWorker
  BY <1>0, <1>1 DEF CallInv
<1>4. w \in Workers /\ w \notin Shared /\ workers[w] \in WorkerRecords BY <1>0 DEF Workers, WorkersOK
<1>5. /\ workers' = [workers EXCEPT ![w] = [Started(workers[w], c) EXCEPT !.storage = c, !.owns = TRUE]]
      /\ Return(k)
      /\ UNCHANGED <<storage, maintenance, members, startPromise, starting, loops, opening, conns>>
  BY <1>2, <1>3 DEF StartEnds, migrationVars, clientVars
<1>6. PICK worker : worker = [Started(workers[w], c) EXCEPT !.storage = c, !.owns = TRUE] OBVIOUS
<1>7. /\ worker.storage = c /\ worker.owns = TRUE /\ worker.state = "running" /\ worker.on = c
  <2>1. PICK started \in WorkerRecords : started = Started(workers[w], c)
    BY <1>4, StartedIsWorker
  <2>2. started.state = "running" /\ started.on = c
    <3>1. workers[w].state = "none" BY <1>3 DEF NewWorker
    <3>2. /\ Started(workers[w], c).state = "running"
          /\ Started(workers[w], c).on = IF workers[w].state = "none" THEN c ELSE workers[w].on
      BY <1>4, StartedFields
    <3> QED BY <2>1, <3>1, <3>2
  <2>3. worker = [started EXCEPT !.storage = c, !.owns = TRUE] BY <1>6, <2>1
  <2> QED BY <2>1, <2>2, <2>3 DEF WorkerRecords
<1>8. /\ workers'[w] = worker
      /\ \A v \in Workers : v # w => workers'[v] = workers[v]
  BY <1>0, <1>4, <1>5, <1>6 DEF WorkersOK
<1>9. calls'[k].at = "" /\ calls'[k].op = "none" /\ calls'[k].todo = {} /\ ~TakenDown(k)'
  BY <1>0, <1>5, ReturnFields
<1>10. Ready(c) /\ storage # c /\ c # None /\ \A v \in Standalone : workers[v].storage # c
  BY <1>0, <1>1, <1>2 DEF Opened
<1>11. CallInv(k)' BY <1>0, <1>5, NobodyCalls
<1>12. Opened(k)' BY <1>1, <1>5, <1>9 DEF Opened
<1>13. Held(k)'
  <2>1. \A v \in Standalone : v # w => workers'[v].storage = workers[v].storage
    BY <1>8 DEF Workers
  <2>2. workers[w].storage = None BY <1>3 DEF NewWorker
  <2>3. /\ storage # None => conns[storage].step = "ready"
        /\ \A v \in Standalone : workers[v].storage # None =>
             /\ conns[workers[v].storage].step = "ready"
             /\ workers[v].storage # storage
             /\ \A u \in Standalone : workers[u].storage = workers[v].storage => u = v
        /\ \A d \in Own : conns[d].step = "ready" =>
             d = storage \/ d = c \/ \E v \in Standalone : workers[v].storage = d
    <3>1. Held(k) /\ ~(calls[k].op = "close") /\ ~(calls[k].op = "stop") BY <1>0, <1>1
    <3> QED BY <1>2, <3>1 DEF Held, Ready
  <2>4. \A v \in Standalone : workers'[v].storage # None =>
          /\ conns[workers'[v].storage].step = "ready"
          /\ workers'[v].storage # storage
          /\ \A u \in Standalone : workers'[u].storage = workers'[v].storage => u = v
    BY <1>7, <1>8, <1>10, <2>1, <2>3 DEF Ready
  <2>5. \A d \in Own : conns[d].step = "ready" =>
          d = storage \/ \E v \in Standalone : workers'[v].storage = d
    BY <1>7, <1>8, <2>1, <2>2, <2>3, <1>0
  <2>6. AllHeld' BY <1>5, <2>3, <2>4, <2>5 DEF AllHeld
  <2> QED BY <1>9, <2>6, HeldNext
<1>14. WorkersInv(k)'
  <2>1. \A v \in Workers : Kept(k, v)' <=> Kept(k, v) BY <1>1, <1>5, <1>9 DEF Kept
  <2>2. \A v \in Workers : v # w =>
          /\ ~(calls[k].op = "stop") /\ workers[v].state # "stopping"
          /\ v \in Standalone => ~(workers[v].state = "stopped" /\ workers[v].storage # None)
    BY <1>0, <1>1 DEF WorkersInv
  <2>3. SUFFICES ASSUME NEW v \in Workers
                 PROVE  /\ workers'[v].owns <=> (v \in Standalone /\ workers'[v].storage # None)
                        /\ workers'[v].state \in {"none", "stopped"} =>
                             ~workers'[v].claims /\ workers'[v].run = "free"
                        /\ workers'[v].state # "none" /\ workers'[v].storage # None =>
                             workers'[v].on = workers'[v].storage
                        /\ workers'[v].state \in {"running", "stopping"} => workers'[v].storage # None
                        /\ workers'[v].state # "stopping"
                        /\ v \in Shared =>
                             /\ workers'[v].state \in {"running", "stopping"} => Kept(k, v)
                             /\ Kept(k, v) => workers'[v].storage = storage /\ storage # None
                        /\ v \in Standalone =>
                             /\ workers'[v].state = "none" => workers'[v] = NewWorker
                             /\ ~(workers'[v].state = "stopped" /\ workers'[v].storage # None)
    BY <1>5, <1>9, <2>1 DEF WorkersInv
  <2>4. CASE v = w BY <1>4, <1>7, <1>8, <1>10, <2>4
  <2>5. CASE v # w BY <1>0, <1>8, <2>2, <2>5 DEF WorkersInv
  <2> QED BY <2>4, <2>5
<1>15. ClientInv(k)'
  <2>1. starting \subseteq Workers /\ w \notin starting
    BY <1>0, <1>4 DEF ClientFields, Workers, Shared
  <2> QED BY <1>0, <1>1, <1>5, <1>8, <1>9, <2>1 DEF ClientInv
<1> QED BY <1>11, <1>12, <1>13, <1>14, <1>15 DEF OneTaskInvNext

-----------------------------------------------------------------------------
(* One task: stop                                                          *)

(* A step of stop() within which a worker may change but keeps its storage *)
(* and, unless it is the last one, its state.                              *)
LEMMA DrainedStep ==
  ASSUME NEW k \in Callers, OneTaskInv(k), Drained(k)
  PROVE  OneTaskInvNext(k)
<1>0. /\ CallInv(k) /\ Opened(k) /\ Held(k) /\ WorkersInv(k) /\ ClientInv(k)
      /\ ClientFields /\ CallsOK /\ WorkersOK
  BY OneTaskTypes
<1>1. /\ calls[k].op \in {"stop", "close"} /\ calls[k].at = "draining" /\ opening = None /\ TakenDown(k)
      /\ Go(k, "settling")
  BY DEF Drained, Stopping, At, TakenDown
<1>2. PICK w \in Workers : w = calls[k].worker
  BY <1>0, <1>1 DEF CallsOK, CallsNameTheirThings
<1>3. PICK worker : worker = [workers[w] EXCEPT !.run = IF @ = "free" THEN @ ELSE "aborted"]
  OBVIOUS
<1>4. /\ workers' = [workers EXCEPT ![w] = worker]
      /\ UNCHANGED <<storage, maintenance, members, startPromise, starting, loops, opening, conns>>
  BY <1>2, <1>3 DEF Drained, clientVars, migrationVars
<1>5. /\ worker.storage = workers[w].storage /\ worker.owns = workers[w].owns
      /\ worker.on = workers[w].on /\ worker.claims = workers[w].claims
      /\ worker.state = workers[w].state
  BY <1>0, <1>3 DEF WorkersOK, WorkerRecords
<1>6. /\ workers'[w] = worker
      /\ \A v \in Workers : v # w => workers'[v] = workers[v]
  BY <1>0, <1>4 DEF WorkersOK
<1>7. /\ calls'[k].at = "settling" /\ calls'[k].op = calls[k].op
      /\ calls'[k].worker = w /\ calls'[k].todo = calls[k].todo /\ TakenDown(k)'
  BY <1>0, <1>1, <1>2, GoFields DEF TakenDown
<1>8. workers[w].state = "stopping" BY <1>0, <1>1, <1>2 DEF CallInv
<1>9. CallInv(k)' BY <1>0, <1>1, <1>2, <1>5, <1>6, <1>7, <1>8 DEF CallInv
<1>10. Opened(k)' /\ Held(k)'
  <2>1. \A v \in Standalone : workers'[v].storage = workers[v].storage BY <1>5, <1>6 DEF Workers
  <2> QED BY <1>1, <1>4, <1>7, <2>1, CallMovesOn
<1>11. WorkersInv(k)'
  <2>1. \A v \in Workers : Kept(k, v)' <=> Kept(k, v) BY <1>1, <1>2, <1>4, <1>7 DEF Kept
  <2> QED BY <1>0, <1>1, <1>2, <1>4, <1>5, <1>6, <1>7, <1>8, <2>1 DEF WorkersInv
<1>12. ClientInv(k)'
  <2>1. starting \subseteq Workers BY <1>0 DEF ClientFields, Workers, Shared
  <2>2. \A v \in starting : workers'[v].state = "none" BY <1>0, <1>5, <1>6, <2>1 DEF ClientInv
  <2> QED BY <1>0, <1>1, <1>4, <1>7, <2>2 DEF ClientInv
<1> QED BY <1>9, <1>10, <1>11, <1>12 DEF OneTaskInvNext

LEMMA SettledDownStep ==
  ASSUME NEW k \in Callers, OneTaskInv(k), SettledDown(k)
  PROVE  OneTaskInvNext(k)
<1>0. /\ CallInv(k) /\ Opened(k) /\ Held(k) /\ WorkersInv(k) /\ ClientInv(k)
      /\ ClientFields /\ CallsOK
  BY OneTaskTypes
<1>1. /\ calls[k].op \in {"stop", "close"} /\ calls[k].at = "settling" /\ opening = None /\ TakenDown(k)
      /\ workers[calls[k].worker].run = "free" /\ Go(k, "joining")
  BY DEF SettledDown, Stopping, At, TakenDown
<1>2. UNCHANGED <<storage, maintenance, members, startPromise, starting, loops, workers, opening, conns>>
  BY DEF SettledDown, clientVars, objectVars, migrationVars
<1>3. /\ calls'[k].at = "joining" /\ calls'[k].op = calls[k].op
      /\ calls'[k].worker = calls[k].worker /\ calls'[k].todo = calls[k].todo /\ TakenDown(k)'
  BY <1>0, <1>1, GoFields DEF TakenDown
<1>4. CallInv(k)' BY <1>0, <1>1, <1>2, <1>3 DEF CallInv
<1>5. Opened(k)' /\ Held(k)' BY <1>1, <1>2, <1>3, CallMovesOn
<1>6. WorkersInv(k)' BY <1>0, <1>1, <1>2, <1>3 DEF WorkersInv, Kept
<1>7. ClientInv(k)' BY <1>0, <1>1, <1>2, <1>3 DEF ClientInv
<1> QED BY <1>4, <1>5, <1>6, <1>7 DEF OneTaskInvNext

LEMMA LoopEndedStep ==
  ASSUME NEW k \in Callers, OneTaskInv(k), LoopEnded(k)
  PROVE  OneTaskInvNext(k)
<1>0. /\ CallInv(k) /\ Opened(k) /\ Held(k) /\ WorkersInv(k) /\ ClientInv(k)
      /\ ClientFields /\ CallsOK /\ WorkersOK /\ Shared \cap Standalone = {}
  BY OneTaskTypes
<1>1. /\ calls[k].op \in {"stop", "close"} /\ calls[k].at = "joining" /\ opening = None /\ TakenDown(k)
      /\ Go(k, "stopped") /\ ~workers[calls[k].worker].claims
  BY <1>0 DEF LoopEnded, Stopping, At, TakenDown, CallInv
<1>2. PICK w \in Workers : w = calls[k].worker
  BY <1>0, <1>1 DEF CallsOK, CallsNameTheirThings
<1>3. PICK worker : worker = [workers[w] EXCEPT !.state = "stopped"] OBVIOUS
<1>4. /\ workers' = [workers EXCEPT ![w] = worker]
      /\ UNCHANGED <<storage, maintenance, members, startPromise, starting, loops, opening, conns>>
  BY <1>1, <1>2, <1>3 DEF LoopEnded, clientVars, migrationVars
<1>5. /\ worker.storage = workers[w].storage /\ worker.owns = workers[w].owns
      /\ worker.on = workers[w].on /\ worker.claims = workers[w].claims
      /\ worker.run = workers[w].run /\ worker.state = "stopped"
  BY <1>0, <1>3 DEF WorkersOK, WorkerRecords
<1>6. /\ workers'[w] = worker
      /\ \A v \in Workers : v # w => workers'[v] = workers[v]
  BY <1>0, <1>4 DEF WorkersOK
<1>7. /\ calls'[k].at = "stopped" /\ calls'[k].op = calls[k].op
      /\ calls'[k].worker = w /\ calls'[k].todo = calls[k].todo /\ ~TakenDown(k)'
  BY <1>0, <1>1, <1>2, GoFields DEF TakenDown
<1>8. /\ workers[w].state = "stopping" /\ workers[w].run = "free" /\ ~workers[w].claims
  BY <1>0, <1>1, <1>2 DEF CallInv
<1>9. CallInv(k)' BY <1>0, <1>1, <1>2, <1>5, <1>6, <1>7 DEF CallInv
<1>10. Opened(k)' /\ Held(k)'
  <2>1. \A v \in Standalone : workers'[v].storage = workers[v].storage BY <1>5, <1>6 DEF Workers
  <2> QED BY <1>1, <1>4, <1>7, <2>1, CallMovesOn
<1>11. WorkersInv(k)'
  <2>1. \A v \in Workers : /\ Kept(k, v)' => Kept(k, v)
                           /\ v # w => (Kept(k, v) => Kept(k, v)')
    BY <1>1, <1>2, <1>4, <1>7 DEF Kept
  <2>2. w \in Standalone => calls[k].op = "stop" BY <1>0, <1>1, <1>2 DEF CallInv
  <2> QED BY <1>0, <1>1, <1>2, <1>4, <1>5, <1>6, <1>7, <1>8, <2>1, <2>2 DEF WorkersInv
<1>12. ClientInv(k)'
  <2>1. starting \subseteq Workers /\ w \notin starting
    BY <1>0, <1>8 DEF ClientFields, Workers, Shared, ClientInv
  <2>2. \A v \in starting : workers'[v].state = "none" BY <1>0, <1>6, <2>1 DEF ClientInv
  <2> QED BY <1>0, <1>1, <1>4, <1>7, <2>2 DEF ClientInv
<1> QED BY <1>9, <1>10, <1>11, <1>12 DEF OneTaskInvNext

(* The runtime has stopped; what the worker owns is closed next.           *)
LEMMA RuntimeStoppedStep ==
  ASSUME NEW k \in Callers, OneTaskInv(k), RuntimeStopped(k)
  PROVE  OneTaskInvNext(k)
<1>0. /\ CallInv(k) /\ Opened(k) /\ Held(k) /\ WorkersInv(k) /\ ClientInv(k)
      /\ ClientFields /\ CallsOK /\ WorkersOK /\ Shared \cap Standalone = {}
      /\ conns \in [Connections -> Conn] /\ Own \subseteq Connections /\ None \notin Own
  BY OneTaskTypes, ConnectionsOfAll
<1>1. calls[k].op \in {"stop", "close"} /\ calls[k].at = "stopped" /\ opening = None /\ ~TakenDown(k)
  BY DEF RuntimeStopped, Stopping, At, TakenDown
<1>2. PICK w \in Workers : w = calls[k].worker
  BY <1>0, <1>1 DEF CallsOK, CallsNameTheirThings
<1>3. UNCHANGED <<storage, maintenance, members, startPromise, starting, loops, workers, opening>>
  BY DEF RuntimeStopped, clientVars, objectVars
<1>4. workers[w].storage \in Own \cup {None} /\ workers[w].state \in {"none", "stopped"}
  BY <1>0, <1>1, <1>2 DEF WorkersOK, WorkerRecords, CallInv
<1>5. CASE workers[w].owns /\ workers[w].storage # None
  <2>1. PICK c \in Own : c = workers[w].storage BY <1>4, <1>5
  <2>2. CloseConn(c) /\ Go(k, "closing") BY <1>2, <1>5, <2>1 DEF RuntimeStopped
  <2>3. w \in Standalone BY <1>0, <1>5 DEF WorkersInv
  <2>4. calls[k].op = "stop" BY <1>0, <1>1, <1>2, <2>3 DEF CallInv
  <2>5. /\ calls'[k].at = "closing" /\ calls'[k].op = "stop"
        /\ calls'[k].worker = w /\ calls'[k].todo = calls[k].todo /\ ~TakenDown(k)'
    BY <1>0, <1>2, <2>2, <2>4, GoFields DEF TakenDown
  <2>6. conns'[c].step = "closed" /\ \A d \in Own : d # c => conns'[d] = conns[d]
    BY <1>0, <2>2 DEF CloseConn, Conn
  <2>7. workers[w].state = "stopped" BY <1>0, <1>4, <1>5, <2>3 DEF WorkersInv, NewWorker
  <2>8. CallInv(k)' BY <1>0, <1>2, <1>3, <2>3, <2>4, <2>5, <2>7 DEF CallInv
  <2>9. Opened(k)' BY <1>1, <1>3, <2>5 DEF Opened
  <2>10. Held(k)'
    <3>1. storage # c BY <1>0, <1>5, <2>1, <2>3 DEF Held
    <3>2. storage # None => storage \in Own BY <1>0 DEF ClientFields
    <3>3. \A v \in Standalone : workers[v].storage # None => workers[v].storage \in Own
      BY <1>0 DEF WorkersOK, WorkerRecords, Workers
    <3>4. \A v \in Standalone : v # w => workers[v].storage # c
      BY <1>1, <1>5, <2>1, <2>3, HeldByAll DEF AllHeld
    <3>5. \A d \in Own : Ready(d)' => d # c /\ Ready(d) BY <2>6 DEF Ready
    <3>6. \A d \in Own : Ready(d) /\ d # c => Ready(d)' BY <2>6 DEF Ready
    <3>7. storage # None => conns'[storage].step = "ready"
      BY <1>1, <3>1, <3>2, <3>6, HeldByAll DEF AllHeld, Ready
    <3>8. \A v \in Standalone : workers[v].storage # None =>
            /\ IF v = w THEN conns'[workers[v].storage].step = "closed"
                        ELSE conns'[workers[v].storage].step = "ready"
            /\ workers[v].storage # storage
            /\ \A u \in Standalone : workers[u].storage = workers[v].storage => u = v
      BY <1>1, <2>1, <2>6, <3>3, <3>4, HeldByAll DEF AllHeld, Ready
    <3>9. \A d \in Own : Ready(d)' => d = storage \/ \E v \in Standalone : workers[v].storage = d
      BY <1>1, <3>5, HeldByAll DEF AllHeld, Ready
    <3> QED BY <1>3, <2>5, <3>7, <3>8, <3>9 DEF Held, Ready
  <2>11. WorkersInv(k)' BY <1>0, <1>1, <1>2, <1>3, <2>4, <2>5 DEF WorkersInv, Kept
  <2>12. ClientInv(k)' BY <1>0, <1>3, <2>4, <2>5 DEF ClientInv
  <2> QED BY <2>8, <2>9, <2>10, <2>11, <2>12 DEF OneTaskInvNext
<1>6. CASE ~(workers[w].owns /\ workers[w].storage # None)
  <2>1. UNCHANGED conns /\ StopReturns(k) BY <1>2, <1>6 DEF RuntimeStopped, migrationVars
  <2>2. \A v \in Standalone : ~(workers[v].state = "stopped" /\ workers[v].storage # None)
    BY <1>0, <1>1, <1>2, <1>6 DEF WorkersInv, Workers
  <2>3. CASE calls[k].op = "close"
    <3>1. /\ calls'[k].at = "next" /\ calls'[k].op = "close"
          /\ calls'[k].todo = calls[k].todo /\ ~TakenDown(k)'
      BY <1>0, <2>1, <2>3, GoFields DEF StopReturns, TakenDown
    <3>2. CallInv(k)' BY <1>0, <1>3, <3>1 DEF CallInv
    <3>3. Opened(k)' /\ Held(k)' BY <1>1, <1>3, <2>1, <3>1, CallMovesOn
    <3>4. WorkersInv(k)' BY <1>0, <1>1, <1>3, <2>2, <2>3, <3>1 DEF WorkersInv, Kept
    <3>5. ClientInv(k)' BY <1>0, <1>1, <1>3, <2>3, <3>1 DEF ClientInv
    <3> QED BY <3>2, <3>3, <3>4, <3>5 DEF OneTaskInvNext
  <2>4. CASE calls[k].op = "stop"
    <3>1. Return(k) BY <2>1, <2>4 DEF StopReturns
    <3>2. /\ calls'[k].at = "" /\ calls'[k].op = "none" /\ calls'[k].todo = {} /\ ~TakenDown(k)'
      BY <1>0, <3>1, ReturnFields
    <3>3. CallInv(k)' BY <1>0, <3>1, NobodyCalls
    <3>4. Opened(k)' /\ Held(k)' BY <1>1, <1>3, <2>1, <3>2, CallMovesOn
    <3>5. WorkersInv(k)' BY <1>0, <1>1, <1>3, <2>2, <2>4, <3>2 DEF WorkersInv, Kept
    <3>6. ClientInv(k)' BY <1>0, <1>1, <1>3, <2>4, <3>2 DEF ClientInv
    <3> QED BY <3>3, <3>4, <3>5, <3>6 DEF OneTaskInvNext
  <2> QED BY <1>1, <2>3, <2>4
<1> QED BY <1>5, <1>6

LEMMA StopEndsStep ==
  ASSUME NEW k \in Callers, OneTaskInv(k), StopEnds(k)
  PROVE  OneTaskInvNext(k)
<1>0. /\ CallInv(k) /\ Opened(k) /\ Held(k) /\ WorkersInv(k) /\ ClientInv(k)
      /\ ClientFields /\ CallsOK /\ WorkersOK /\ Shared \cap Standalone = {}
      /\ None \notin Own
  BY OneTaskTypes, ConnectionsOfAll
<1>1. calls[k].op = "stop" /\ calls[k].at = "closing" /\ opening = None /\ ~TakenDown(k)
  BY DEF StopEnds, At, TakenDown
<1>2. PICK w \in Standalone : w = calls[k].worker /\ workers[w].state = "stopped"
  BY <1>0, <1>1 DEF CallInv
<1>3. w \in Workers /\ w \notin Shared BY <1>0 DEF Workers
<1>4. PICK worker : worker = [workers[w] EXCEPT !.storage = None, !.owns = FALSE] OBVIOUS
<1>5. /\ workers' = [workers EXCEPT ![w] = worker] /\ Return(k)
      /\ UNCHANGED <<storage, maintenance, members, startPromise, starting, loops, opening, conns>>
  BY <1>2, <1>4 DEF StopEnds, clientVars, migrationVars
<1>6. /\ worker.storage = None /\ worker.owns = FALSE /\ worker.state = "stopped"
      /\ worker.claims = workers[w].claims /\ worker.run = workers[w].run
  BY <1>0, <1>2, <1>3, <1>4 DEF WorkersOK, WorkerRecords
<1>7. /\ workers'[w] = worker
      /\ \A v \in Workers : v # w => workers'[v] = workers[v]
  BY <1>0, <1>3, <1>5 DEF WorkersOK
<1>8. /\ calls'[k].at = "" /\ calls'[k].op = "none" /\ calls'[k].todo = {} /\ ~TakenDown(k)'
  BY <1>0, <1>5, ReturnFields
<1>9. CallInv(k)' BY <1>0, <1>5, NobodyCalls
<1>10. Opened(k)' BY <1>1, <1>5, <1>8 DEF Opened
<1>11. Held(k)'
  <2>1. /\ storage # None => conns[storage].step = "ready"
        /\ \A v \in Standalone : v # w /\ workers[v].storage # None =>
             /\ conns[workers[v].storage].step = "ready"
             /\ workers[v].storage # storage
             /\ \A u \in Standalone : workers[u].storage = workers[v].storage => u = v
        /\ \A d \in Own : conns[d].step = "ready" =>
             d = storage \/ \E v \in Standalone : workers[v].storage = d
    BY <1>0, <1>1, <1>2 DEF Held, Ready
  <2>2. \A d \in Own : conns[d].step = "ready" => d # workers[w].storage
    BY <1>0, <1>1, <1>2, <2>1 DEF Held, Ready
  <2>3. \A v \in Standalone : v # w => workers'[v].storage = workers[v].storage
    BY <1>7 DEF Workers
  <2>4. workers'[w].storage = None BY <1>6, <1>7
  <2>5. \A v \in Standalone : workers'[v].storage # None =>
          /\ conns[workers'[v].storage].step = "ready"
          /\ workers'[v].storage # storage
          /\ \A u \in Standalone : workers'[u].storage = workers'[v].storage => u = v
    BY <2>1, <2>3, <2>4
  <2>6. \A d \in Own : conns[d].step = "ready" =>
          d = storage \/ \E v \in Standalone : workers'[v].storage = d
    BY <2>1, <2>2, <2>3
  <2>7. AllHeld' BY <1>5, <2>1, <2>5, <2>6 DEF AllHeld
  <2> QED BY <1>8, <2>7, HeldNext
<1>12. WorkersInv(k)'
  <2>1. \A v \in Workers : Kept(k, v)' <=> Kept(k, v) BY <1>1, <1>5, <1>8 DEF Kept
  <2>2. \A v \in Workers : v # w =>
          /\ workers[v].state # "stopping"
          /\ v \in Standalone => ~(workers[v].state = "stopped" /\ workers[v].storage # None)
    BY <1>0, <1>1, <1>2 DEF WorkersInv
  <2>3. workers'[w].claims = FALSE /\ workers'[w].run = "free"
    BY <1>0, <1>2, <1>3, <1>6, <1>7 DEF WorkersInv, WorkersOK, WorkerRecords
  <2>4. SUFFICES ASSUME NEW v \in Workers
                 PROVE  /\ workers'[v].owns <=> (v \in Standalone /\ workers'[v].storage # None)
                        /\ workers'[v].state \in {"none", "stopped"} =>
                             ~workers'[v].claims /\ workers'[v].run = "free"
                        /\ workers'[v].state # "none" /\ workers'[v].storage # None =>
                             workers'[v].on = workers'[v].storage
                        /\ workers'[v].state \in {"running", "stopping"} => workers'[v].storage # None
                        /\ workers'[v].state # "stopping"
                        /\ v \in Shared =>
                             /\ workers'[v].state \in {"running", "stopping"} => Kept(k, v)
                             /\ Kept(k, v) => workers'[v].storage = storage /\ storage # None
                        /\ v \in Standalone =>
                             /\ workers'[v].state = "none" => workers'[v] = NewWorker
                             /\ ~(workers'[v].state = "stopped" /\ workers'[v].storage # None)
    BY <1>5, <1>8, <2>1 DEF WorkersInv
  <2>5. CASE v = w BY <1>3, <1>6, <1>7, <2>3, <2>5
  <2>6. CASE v # w BY <1>0, <1>7, <2>2, <2>6 DEF WorkersInv
  <2> QED BY <2>5, <2>6
<1>13. ClientInv(k)'
  <2>1. starting \subseteq Workers /\ w \notin starting
    BY <1>0, <1>3 DEF ClientFields, Workers, Shared
  <2>2. \A v \in starting : workers'[v].state = "none" BY <1>0, <1>7, <2>1 DEF ClientInv
  <2> QED BY <1>0, <1>1, <1>5, <1>8, <2>2 DEF ClientInv
<1> QED BY <1>9, <1>10, <1>11, <1>12, <1>13 DEF OneTaskInvNext

-----------------------------------------------------------------------------
(* One task: the end of close                                              *)

(* No worker of the client is left when the storage is closed.             *)
LEMMA CloseStorageStep ==
  ASSUME NEW k \in Callers, OneTaskInv(k), CloseStorage(k)
  PROVE  OneTaskInvNext(k)
<1>0. /\ CallInv(k) /\ Opened(k) /\ Held(k) /\ WorkersInv(k) /\ ClientInv(k)
      /\ ClientFields /\ CallsOK /\ WorkersOK
      /\ conns \in [Connections -> Conn] /\ Own \subseteq Connections /\ None \notin Own
  BY OneTaskTypes, ConnectionsOfAll
<1>1. /\ calls[k].op = "close" /\ calls[k].at = "next" /\ calls[k].todo = {} /\ opening = None
      /\ ~TakenDown(k)
  BY DEF CloseStorage, At, TakenDown
<1>2. UNCHANGED <<storage, maintenance, members, startPromise, starting, loops, workers, opening>>
  BY DEF CloseStorage, clientVars, objectVars
<1>3. \A v \in Standalone : ~(workers[v].state = "stopped" /\ workers[v].storage # None)
  BY <1>0, <1>1 DEF WorkersInv, Workers
<1>4. CASE storage = None
  <2>1. UNCHANGED conns /\ Return(k) BY <1>4 DEF CloseStorage, migrationVars
  <2>2. /\ calls'[k].at = "" /\ calls'[k].op = "none" /\ calls'[k].todo = {} /\ ~TakenDown(k)'
    BY <1>0, <2>1, ReturnFields
  <2>3. CallInv(k)' BY <1>0, <2>1, NobodyCalls
  <2>4. Opened(k)' /\ Held(k)' BY <1>1, <1>2, <2>1, <2>2, CallMovesOn
  <2>5. WorkersInv(k)' BY <1>0, <1>1, <1>2, <1>3, <2>2 DEF WorkersInv, Kept
  <2>6. ClientInv(k)' BY <1>0, <1>1, <1>2, <1>4, <2>2 DEF ClientInv
  <2> QED BY <2>3, <2>4, <2>5, <2>6 DEF OneTaskInvNext
<1>5. CASE storage # None
  <2>1. PICK c \in Own : c = storage BY <1>0, <1>5 DEF ClientFields
  <2>2. CloseConn(c) /\ Go(k, "closing") BY <1>5, <2>1 DEF CloseStorage
  <2>3. /\ calls'[k].at = "closing" /\ calls'[k].op = "close"
        /\ calls'[k].todo = {} /\ ~TakenDown(k)'
    BY <1>0, <1>1, <2>2, GoFields DEF TakenDown
  <2>4. conns'[c].step = "closed" /\ \A d \in Own : d # c => conns'[d] = conns[d]
    BY <1>0, <2>2 DEF CloseConn, Conn
  <2>5. CallInv(k)' BY <2>3 DEF CallInv
  <2>6. Opened(k)' BY <1>1, <1>2, <2>3 DEF Opened
  <2>7. Held(k)'
    <3>1. \A v \in Standalone : workers[v].storage # None => workers[v].storage \in Own
      BY <1>0 DEF WorkersOK, WorkerRecords, Workers
    <3>2. \A v \in Standalone : workers[v].storage # None =>
            /\ conns'[workers[v].storage].step = "ready"
            /\ workers[v].storage # c
            /\ \A u \in Standalone : workers[u].storage = workers[v].storage => u = v
      BY <1>1, <2>1, <2>4, <3>1, HeldByAll DEF AllHeld, Ready
    <3>3. \A d \in Own : conns'[d].step = "ready" =>
            d = storage \/ \E v \in Standalone : workers[v].storage = d
      BY <1>1, <2>4, HeldByAll DEF AllHeld, Ready
    <3> QED BY <1>2, <2>1, <2>3, <2>4, <3>2, <3>3 DEF Held, Ready
  <2>8. WorkersInv(k)' BY <1>0, <1>1, <1>2, <1>3, <2>3 DEF WorkersInv, Kept
  <2>9. ClientInv(k)' BY <1>0, <1>1, <1>2, <2>3 DEF ClientInv
  <2> QED BY <2>5, <2>6, <2>7, <2>8, <2>9 DEF OneTaskInvNext
<1> QED BY <1>4, <1>5

LEMMA CloseEndsStep ==
  ASSUME NEW k \in Callers, OneTaskInv(k), CloseEnds(k)
  PROVE  OneTaskInvNext(k)
<1>0. /\ CallInv(k) /\ Opened(k) /\ Held(k) /\ WorkersInv(k) /\ ClientInv(k)
      /\ ClientFields /\ CallsOK /\ None \notin Own
  BY OneTaskTypes, ConnectionsOfAll
<1>1. /\ calls[k].op = "close" /\ calls[k].at = "closing" /\ calls[k].todo = {} /\ opening = None
      /\ ~TakenDown(k)
  BY <1>0 DEF CloseEnds, At, TakenDown, CallInv
<1>2. /\ storage' = None /\ Return(k)
      /\ UNCHANGED <<maintenance, members, startPromise, starting, loops, workers, opening, conns>>
  BY DEF CloseEnds, objectVars, migrationVars
<1>3. /\ calls'[k].at = "" /\ calls'[k].op = "none" /\ calls'[k].todo = {} /\ ~TakenDown(k)'
  BY <1>0, <1>2, ReturnFields
<1>4. maintenance = None /\ members = {} /\ ~startPromise BY <1>0, <1>1 DEF ClientInv
<1>5. CallInv(k)' BY <1>0, <1>2, NobodyCalls
<1>6. Opened(k)' BY <1>1, <1>2, <1>3 DEF Opened
<1>7. Held(k)'
  <2>1. storage # None => conns[storage].step = "closed" BY <1>0, <1>1 DEF Held
  <2>2. \A v \in Standalone : workers[v].storage # None =>
          /\ conns[workers[v].storage].step = "ready"
          /\ \A u \in Standalone : workers[u].storage = workers[v].storage => u = v
    BY <1>0, <1>1 DEF Held
  <2>3. \A d \in Own : conns[d].step = "ready" => \E v \in Standalone : workers[v].storage = d
    BY <1>0, <1>1, <2>1 DEF Held, Ready
  <2>4. AllHeld' BY <1>2, <2>2, <2>3 DEF AllHeld
  <2> QED BY <1>3, <2>4, HeldNext
<1>8. WorkersInv(k)'
  <2>1. \A v \in Workers : ~Kept(k, v) /\ ~Kept(k, v)' BY <1>1, <1>2, <1>3, <1>4 DEF Kept
  <2> QED BY <1>0, <1>1, <1>2, <1>3, <2>1 DEF WorkersInv
<1>9. ClientInv(k)' BY <1>0, <1>2, <1>3, <1>4 DEF ClientInv
<1> QED BY <1>5, <1>6, <1>7, <1>8, <1>9 DEF OneTaskInvNext

-----------------------------------------------------------------------------
(* One task: the invariant and what follows from it                        *)

LEMMA InitialOneTask ==
  ASSUME NEW k \in Callers, ClientInit PROVE OneTaskInv(k)
<1>1. /\ storage = None /\ maintenance = None /\ members = {} /\ startPromise = FALSE /\ starting = {}
      /\ opening = None
      /\ \A c \in Own : ~loops[c].timer /\ ~loops[c].tick
      /\ \A w \in Workers : workers[w] = NewWorker
      /\ conns = [c \in Connections |-> NewConn]
      /\ calls[k] = Idle
  BY DEF ClientInit, MigrationInit, NoLoop
<1>2. calls[k].op = "none" /\ calls[k].at = "" /\ calls[k].todo = {} BY <1>1, IdleFields
<1>3. /\ NewWorker.storage = None /\ NewWorker.owns = FALSE /\ NewWorker.state = "none"
      /\ NewWorker.claims = FALSE /\ NewWorker.run = "free"
  BY DEF NewWorker
<1>4. ~TakenDown(k) BY <1>2 DEF TakenDown
<1>5. CallInv(k) BY <1>1, <1>2, <1>4 DEF CallInv
<1>6. Opened(k) BY <1>1, <1>2 DEF Opened
<1>7. Held(k)
  <2>1. \A c \in Own : ~Ready(c) BY <1>1, ConnectionsOfAll DEF Ready, NewConn
  <2> QED BY <1>1, <1>3, <2>1 DEF Held, Workers
<1>8. WorkersInv(k)
  <2>1. \A w \in Workers : ~Kept(k, w) BY <1>1, <1>2 DEF Kept
  <2> QED BY <1>1, <1>3, <2>1 DEF WorkersInv
<1>9. ClientInv(k) BY <1>1, <1>2 DEF ClientInv
<1> QED BY InitialTypes, <1>5, <1>6, <1>7, <1>8, <1>9 DEF OneTaskInv

LEMMA OneTaskStep ==
  ASSUME NEW k, Callers = {k}, ~Reuse, OneTaskInv(k), [ClientNext]_allVars
  PROVE  OneTaskInv(k)'
<1>0. k \in Callers OBVIOUS
<1>1. TypeInv' /\ MigrationInv'
  BY ClientKeepsFile, TypeStep DEF OneTaskInv, MigrationInv
<1> SUFFICES OneTaskInvNext(k) BY <1>1 DEF OneTaskInv, OneTaskInvNext
<1>2. CASE UNCHANGED allVars
  <2>1. UNCHANGED <<clientVars, loops, workers, opening, calls, conns>>
    BY <1>2 DEF allVars, objectVars, migrationVars
  <2>2. Opened(k)' /\ Held(k)' BY <1>0, <2>1, SameConnections DEF clientVars, OwnConnsKept
  <2>3. CallInv(k)' /\ WorkersInv(k)' /\ ClientInv(k)'
    BY <2>1 DEF clientVars, OneTaskInv, CallInv, WorkersInv, ClientInv, TakenDown, Kept
  <2> QED BY <2>2, <2>3 DEF OneTaskInvNext
<1>3. CASE NewCall(k)
  <2>1. CASE InitCall(k) BY <1>0, <2>1, OpenBegins DEF InitCall
  <2>2. CASE CreateWorker(k)
    <3>1. PICK w \in Created : Create(w) BY <2>2 DEF CreateWorker
    <3>2. /\ Free(k) /\ storage # None
          /\ UNCHANGED <<storage, maintenance, startPromise, starting, loops, opening, calls, conns>>
      BY <2>2 DEF CreateWorker, migrationVars
    <3>3. w \in Shared BY DEF Shared
    <3>4. starting' \subseteq starting \cup {w} BY <3>2
    <3> QED BY <1>0, <3>1, <3>2, <3>3, <3>4, CreateStep
  <2>3. CASE Process(k)
    <3>1. PICK w \in Embedded : Create(w) /\ starting' = starting \cup {w} BY <2>3 DEF Process
    <3>2. /\ Free(k) /\ storage # None /\ startPromise' = TRUE
          /\ UNCHANGED <<storage, maintenance, loops, opening, calls, conns>>
      BY <2>3 DEF Process, migrationVars
    <3>3. w \in Shared BY DEF Shared
    <3>4. starting' \subseteq starting \cup {w} BY <3>1
    <3> QED BY <1>0, <3>1, <3>2, <3>3, <3>4, CreateStep
  <2>4. CASE EnqueueCall(k) BY <1>0, <2>4, EnqueueCallStep
  <2>5. CASE CloseCall(k) BY <1>0, <2>5, CloseCallStep
  <2>6. ASSUME NEW w \in Created \cup Standalone, StartCall(k, w) PROVE OneTaskInvNext(k)
    BY <1>0, <2>6, StartCallStep
  <2>7. ASSUME NEW w \in Created \cup Standalone, StopCall(k, w) PROVE OneTaskInvNext(k)
    <3>1. w \in Workers /\ {} \in SUBSET Shared BY DEF Workers, Shared
    <3>2. Free(k) /\ workers[w] # NewWorker /\ StopBegins(k, "stop", w, {}) BY <2>7 DEF StopCall
    <3> QED BY <1>0, <3>1, <3>2, StopBeginsStep
  <2> QED BY <1>3, <2>1, <2>2, <2>3, <2>4, <2>5, <2>6, <2>7 DEF NewCall
<1>4. CASE CallStep(k)
  <2>1. CASE CloseNextWorker(k)
    <3>1. PICK w \in calls[k].todo : StopBegins(k, "close", w, calls[k].todo \ {w})
      BY <2>1 DEF CloseNextWorker
    <3>2. At(k, "close", "next") BY <2>1 DEF CloseNextWorker
    <3>3. calls[k].todo \subseteq Shared BY <1>0, OneTaskTypes DEF CallRecords
    <3>4. w \in Workers /\ w \in Shared /\ calls[k].todo \ {w} \in SUBSET Shared
      BY <3>3 DEF Workers
    <3> QED BY <1>0, <3>1, <3>2, <3>4, StopBeginsStep
  <2> QED
    BY <1>0, <1>4, <2>1, OpenStepStep, InitEndsStep, EnqueueReadsStep, StartEndsStep, DrainedStep, SettledDownStep,
       LoopEndedStep, RuntimeStoppedStep, StopEndsStep, EmbeddedStartedStep, MaintenanceIdleStep,
       CloseStorageStep, CloseEndsStep
    DEF CallStep
<1>5. CASE OtherProcess BY <1>0, <1>5, OtherProcessStep
<1>6. ASSUME NEW c \in Own, TickStarts(c) \/ TickEnds(c) PROVE OneTaskInvNext(k)
  BY <1>0, <1>6, TickStep
<1>7. ASSUME NEW w \in Workers, RunStarts(w) \/ HandlerEnds(w) \/ AbortedEnds(w) \/ LoopExits(w)
      PROVE  OneTaskInvNext(k)
  BY <1>0, <1>7, RuntimeStep
<1>8. ASSUME NEW w \in Embedded, EmbeddedStarts(w) PROVE OneTaskInvNext(k)
  BY <1>0, <1>8, EmbeddedStep
<1>9. \A j \in Callers : j = k OBVIOUS
<1> QED BY <1>2, <1>3, <1>4, <1>5, <1>6, <1>7, <1>8, <1>9 DEF ClientNext

(* If one task makes the calls and starts nothing again that it has        *)
(* stopped or closed, the client is taken down in order.                   *)
THEOREM OneTaskInvariant ==
  ASSUME NEW k, Callers = {k}, ~Reuse PROVE ClientSpec => []OneTaskInv(k)
<1>1. ClientInit => OneTaskInv(k) BY InitialOneTask
<1>2. OneTaskInv(k) /\ [ClientNext]_allVars => OneTaskInv(k)' BY OneTaskStep
<1> QED BY <1>1, <1>2, PTL DEF ClientSpec

(* stop() and close() close no storage that a run, a tick of the loop, a   *)
(* claiming worker or an enqueue still uses.                               *)
THEOREM StorageIsClosedLast ==
  ASSUME NEW k, Callers = {k}, ~Reuse PROVE ClientSpec => []StorageOutlivesUse
<1>1. ASSUME OneTaskInv(k) PROVE StorageOutlivesUse
  <2>0. /\ k \in Callers /\ CallInv(k) /\ Held(k) /\ WorkersInv(k) /\ ClientInv(k)
        /\ \A w \in Workers : workers[w] \in WorkerRecords
        /\ Workers = Shared \cup Standalone
    BY <1>1, OneTaskTypes DEF Workers
  <2>1. ASSUME NEW w \in Workers, workers[w].state \in {"running", "stopping"}
        PROVE  Ready(workers[w].on)
    <3>1. workers[w].on = workers[w].storage /\ workers[w].storage # None
      BY <2>0, <2>1 DEF WorkersInv
    <3>2. CASE w \in Standalone
      <4>1. ~(calls[k].op = "stop" /\ calls[k].at = "closing" /\ calls[k].worker = w)
        BY <2>0, <2>1 DEF CallInv
      <4> QED BY <2>0, <3>1, <3>2, <4>1 DEF Held, Ready
    <3>3. CASE w \in Shared
      <4>1. Kept(k, w) /\ workers[w].storage = storage /\ storage # None
        BY <2>0, <2>1, <3>3 DEF WorkersInv
      <4>2. ~(calls[k].op = "close" /\ calls[k].at = "closing")
        BY <2>0, <4>1 DEF Kept, ClientInv, CallInv, TakenDown
      <4> QED BY <2>0, <3>1, <4>1, <4>2 DEF Held, Ready
    <3> QED BY <2>0, <3>2, <3>3
  <2>2. RunsKeepTheirStorage
    <3>1. ASSUME NEW w \in Workers, workers[w].run # "free"
          PROVE  workers[w].state \in {"running", "stopping"}
      BY <2>0, <3>1 DEF WorkersInv, WorkerRecords
    <3> QED BY <2>1, <3>1 DEF RunsKeepTheirStorage
  <2>3. ASSUME NEW c \in Own, loops[c].tick PROVE Ready(c)
    <3>1. c = maintenance /\ c = storage /\ c # None
      BY <1>1, <2>0, <2>3, ConnectionsOfAll, OneTaskTypes DEF ClientInv
    <3>2. ~(calls[k].op = "close" /\ calls[k].at = "closing") BY <2>0, <3>1 DEF ClientInv
    <3> QED BY <2>0, <3>1, <3>2 DEF Held, Ready
  <2>4. calls[k].op = "enqueue" => Ready(calls[k].conn) BY <2>0 DEF CallInv, Held, Ready
  <2>5. \A j \in Callers : j = k OBVIOUS
  <2> QED BY <2>1, <2>2, <2>3, <2>4, <2>5 DEF StorageOutlivesUse
<1> QED BY <1>1, OneTaskInvariant, PTL

(* After close() nothing of the client is left: no timer, no tick, no      *)
(* queued start, no claim loop, no run, and no open connection but those   *)
(* of standalone workers.                                                  *)
THEOREM NothingIsLeftRunning ==
  ASSUME NEW k, Callers = {k}, ~Reuse PROVE ClientSpec => []NothingLeftRunning
<1>1. ASSUME OneTaskInv(k) PROVE NothingLeftRunning
  <2>0. /\ k \in Callers /\ CallInv(k) /\ Held(k) /\ WorkersInv(k) /\ ClientInv(k)
        /\ \A w \in Workers : workers[w] \in WorkerRecords
        /\ LoopsOK /\ None \notin Own
    BY <1>1, OneTaskTypes, ConnectionsOfAll
  <2>1. SUFFICES ASSUME storage = None, \A j \in Callers : calls[j] = Idle
                 PROVE  /\ \A c \in Own : loops[c] = NoLoop
                        /\ starting = {}
                        /\ \A w \in Shared : workers[w].state \in {"none", "stopped"} /\ ~workers[w].claims
                                               /\ workers[w].run = "free"
                        /\ \A c \in Own : Ready(c) =>
                             \E w \in Standalone : workers[w].owns /\ workers[w].storage = c
    BY DEF NothingLeftRunning
  <2>2. calls[k].at = "" /\ calls[k].op = "none" BY <2>0, <2>1, IdleFields
  <2>3. \A c \in Own : loops[c] = NoLoop
    <3>1. maintenance = None BY <2>0, <2>1 DEF ClientInv
    <3>2. ASSUME NEW c \in Own PROVE loops[c] = NoLoop
      <4>1. ~loops[c].timer /\ ~loops[c].tick BY <2>0, <3>1 DEF ClientInv
      <4>2. loops[c] \in [timer : BOOLEAN, tick : BOOLEAN] BY <2>0 DEF LoopsOK
      <4> QED BY <4>1, <4>2 DEF NoLoop
    <3> QED BY <3>2
  <2>4. starting = {} BY <2>0, <2>1 DEF ClientInv
  <2>5. ASSUME NEW w \in Shared
        PROVE  workers[w].state \in {"none", "stopped"} /\ ~workers[w].claims /\ workers[w].run = "free"
    <3>1. w \in Workers BY DEF Workers
    <3>2. workers[w].state \notin {"running", "stopping"} BY <2>0, <2>1, <3>1 DEF WorkersInv
    <3>3. workers[w].state \in {"none", "stopped"} BY <2>0, <3>1, <3>2 DEF WorkerRecords
    <3> QED BY <2>0, <3>1, <3>3 DEF WorkersInv
  <2>6. ASSUME NEW c \in Own, Ready(c)
        PROVE  \E w \in Standalone : workers[w].owns /\ workers[w].storage = c
    <3>1. PICK w \in Standalone : workers[w].storage = c BY <2>0, <2>1, <2>2, <2>6 DEF Held
    <3>2. workers[w].owns BY <2>0, <3>1 DEF WorkersInv, Workers
    <3> QED BY <3>1, <3>2
  <2> QED BY <2>3, <2>4, <2>5, <2>6
<1> QED BY <1>1, OneTaskInvariant, PTL
=============================================================================
