------------------------------ MODULE Migration ------------------------------
(***************************************************************************)
(* SqliteStorage.init on a file that other processes open as well, and     *)
(* migrate: user_version is read first, then every migration above it runs *)
(* in a transaction of its own.  A connection that is opened again after a *)
(* crash keeps its name.                                                   *)
(*                                                                         *)
(* Of the table only what the migrations touch is kept: the dedup key and  *)
(* the status, "pending" standing for all that they copy as they are.  Up  *)
(* to version 1 the jobId that a caller passed was the id of the row, so   *)
(* an id may come again as a key.                                          *)
(***************************************************************************)
EXTENDS Integers

CONSTANTS
  Connections,    \* the SqliteStorage objects of all processes
  FirstVersions,  \* the versions of the files they may find
  LegacyIds,      \* ids of rows that an old release has written
  NewIds,         \* bound: ids for the rows that this release inserts
  Keys,           \* what callers pass as options.jobId, NoKey for none
  NoKey,          \* dedup_key NULL
  MayOverlap      \* whether a connection may migrate while another one does

ASSUME MigrationAssumption ==
  /\ FirstVersions \subseteq 0 .. 2
  /\ LegacyIds \cap NewIds = {}
  /\ NoKey \notin LegacyIds \cup NewIds
  /\ MayOverlap \in BOOLEAN

SCHEMA_VERSION == 2

VARIABLES
  version,  \* PRAGMA user_version
  table,    \* the migration whose CREATE TABLE made the jobs table, 0: none
  rows,     \* the jobs table: row id -> row, for the rows that exist
  conns     \* the connections

fileVars == <<version, table, rows>>
migrationVars == <<fileVars, conns>>

Ids      == LegacyIds \cup NewIds
Statuses == {"pending", "failed", "dead"}
Row      == [status : Statuses, key : Keys \cup Ids \cup {NoKey}]

(* next: the migration to apply; above SCHEMA_VERSION there is none left.  *)
Conn == [step : {"new", "migrating", "ready", "failed", "closed"},
         next : 1 .. SCHEMA_VERSION + 1, retried : BOOLEAN]

NewConn == [step |-> "new", next |-> 1, retried |-> FALSE]

Ready(c) == conns[c].step = "ready"

MigrationTypeOK ==
  /\ version \in 0 .. SCHEMA_VERSION /\ table \in 0 .. SCHEMA_VERSION
  /\ DOMAIN rows \subseteq Ids /\ rows \in [DOMAIN rows -> Row]
  /\ conns \in [Connections -> Conn]

NoRows == [id \in {} |-> NoKey]

(* A version 1 table may hold failed rows, and has no keys.  A version 2   *)
(* table may hold what a migration has made of them.                       *)
MigrationInit ==
  /\ version \in FirstVersions
  /\ table = version
  /\ rows \in (IF version = 0 THEN {NoRows}
               ELSE IF version = 1 THEN [LegacyIds -> [status : {"pending", "failed"}, key : {NoKey}]]
               ELSE {[id \in LegacyIds |-> [status |-> "pending", key |-> id]]})
  /\ conns = [c \in Connections |-> NewConn]

-----------------------------------------------------------------------------
(* migrate                                                                 *)

Migrating(c, n) == conns[c].step = "migrating" /\ conns[c].next = n

(* The constructor, and the first line of migrate.                         *)
ReadVersion(c) ==
  /\ conns[c].step = "new"
  /\ MayOverlap \/ \A d \in Connections : conns[d].step # "migrating"
  /\ conns' = [conns EXCEPT ![c] = [step |-> "migrating", next |-> version + 1, retried |-> FALSE]]
  /\ UNCHANGED fileVars

(* Mutant: the transaction does not set user_version.                      *)
CreateTablesUnversioned(c) ==
  /\ Migrating(c, 1) /\ table = 0
  /\ table' = 1
  /\ conns' = [conns EXCEPT ![c].next = 2]
  /\ UNCHANGED <<version, rows>>

(* Migration 1.                                                            *)
CreateTables(c) ==
  /\ Migrating(c, 1)
  /\ table = 0
  /\ table' = 1
  /\ version' = 1
  /\ conns' = [conns EXCEPT ![c].next = 2]
  /\ UNCHANGED rows

(* Another connection was faster: "table jobs already exists".             *)
TablesExist(c) ==
  /\ Migrating(c, 1)
  /\ table # 0
  /\ conns' = [conns EXCEPT ![c].step = "failed"]
  /\ UNCHANGED fileVars

(* Mutants: the keys stay NULL, the failed rows are left behind, or the     *)
(* version is counted up twice.                                            *)
AddDedupKeyNull(c) ==
  /\ Migrating(c, 2)
  /\ rows' = [id \in DOMAIN rows |->
                [rows[id] EXCEPT !.status = IF @ = "failed" THEN "dead" ELSE @]]
  /\ table' = 2 /\ version' = 2
  /\ conns' = [conns EXCEPT ![c].next = 3]

AddDedupKeyDropsFailed(c) ==
  /\ Migrating(c, 2)
  /\ rows' = [id \in {i \in DOMAIN rows : rows[i].status # "failed"} |-> [rows[id] EXCEPT !.key = id]]
  /\ table' = 2 /\ version' = 2
  /\ conns' = [conns EXCEPT ![c].next = 3]

AddDedupKeyCountsTwice(c) ==
  /\ Migrating(c, 2)
  /\ rows' = [id \in DOMAIN rows |->
                [status |-> IF rows[id].status = "failed" THEN "dead" ELSE rows[id].status,
                 key |-> id]]
  /\ table' = 2 /\ version' = 3
  /\ conns' = [conns EXCEPT ![c].next = 3]

(* Migration 2 copies the table, whatever version it has by now.           *)
AddDedupKey(c) ==
  /\ Migrating(c, 2)
  /\ rows' = [id \in DOMAIN rows |->
                [status |-> IF rows[id].status = "failed" THEN "dead" ELSE rows[id].status,
                 key |-> id]]
  /\ table' = 2
  /\ version' = 2
  /\ conns' = [conns EXCEPT ![c].next = 3]

(* SQLITE_BUSY: withBusyRetry calls migrate once more, from its start.     *)
MigrationIsBusy(c) ==
  /\ conns[c].step = "migrating" /\ conns[c].next <= SCHEMA_VERSION
  /\ \E d \in Connections \ {c} : conns[d].step \in {"migrating", "ready"}
  /\ conns' = [conns EXCEPT ![c] =
       IF @.retried THEN [@ EXCEPT !.step = "failed"]
       ELSE [@ EXCEPT !.next = version + 1, !.retried = TRUE]]
  /\ UNCHANGED fileVars

PrepareStatements(c) ==
  /\ Migrating(c, SCHEMA_VERSION + 1)
  /\ conns' = [conns EXCEPT ![c].step = "ready"]
  /\ UNCHANGED fileVars

Migrate(c) ==
  CreateTables(c) \/ TablesExist(c) \/ AddDedupKey(c) \/ MigrationIsBusy(c) \/ PrepareStatements(c)

-----------------------------------------------------------------------------
(* What else happens to the file and to the connections                    *)

(* A key that is taken inserts nothing.                                    *)
Enqueue(c, key) ==
  /\ Ready(c)
  /\ key = NoKey \/ \A id \in DOMAIN rows : rows[id].key # key
  /\ \E new \in NewIds \ DOMAIN rows :
       rows' = [id \in DOMAIN rows \cup {new} |->
                  IF id = new THEN [status |-> "pending", key |-> key] ELSE rows[id]]
  /\ UNCHANGED <<version, table, conns>>

(* The process dies or gives up, and opens the file again later.           *)
Reopen(c) ==
  /\ conns[c].step \in {"migrating", "ready", "failed"}
  /\ conns' = [conns EXCEPT ![c] = NewConn]
  /\ UNCHANGED fileVars

MigrationStep(c) ==
  \/ ReadVersion(c) \/ Migrate(c) \/ Reopen(c)
  \/ \E key \in Keys : Enqueue(c, key)

MigrationNext == \E c \in Connections : MigrationStep(c)

MigrationSpec == MigrationInit /\ [][MigrationNext]_migrationVars

-----------------------------------------------------------------------------
(* Properties                                                              *)

(* "Runs inside a single transaction per version bump": wherever a process *)
(* dies, and whoever migrates at the same time, user_version tells which   *)
(* table there is, and init ends only with the newest one.                 *)
VersionTellsTable ==
  /\ version = table
  /\ \A c \in Connections : Ready(c) => table = SCHEMA_VERSION

(* schema.ts: "Existing rows keep their id and copy it into dedup_key so   *)
(* prior jobId dedup behavior still hits the same row".                    *)
OldJobIdsStillHit ==
  table = SCHEMA_VERSION => \A id \in DOMAIN rows \cap LegacyIds : rows[id].key = id

(* No migration, repeated or not, loses a row or revives a job that ended. *)
NoRowLost ==
  [][\A id \in DOMAIN rows :
       /\ id \in DOMAIN rows'
       /\ rows'[id].status # rows[id].status =>
            rows[id].status = "failed" /\ rows'[id].status = "dead"]_migrationVars

(* migrate: "Safe to call repeatedly".  The key under which a job was      *)
(* enqueued stays its key: a second enqueue with the same jobId finds it.  *)
KeysAreKept ==
  [][table = SCHEMA_VERSION => \A id \in DOMAIN rows : rows'[id].key = rows[id].key]_migrationVars
=============================================================================
