--------------------------- MODULE MigrationProofs ---------------------------
(* What holds of the migrations for any number of processes, rows and keys. *)
EXTENDS Migration, TLAPS

(* What a connection believes about the file is true of it for as long as  *)
(* it needs it, because user_version only grows and the table with it.     *)
BelievedVersions ==
  \A c \in Connections :
    /\ Migrating(c, 2) => version \in {1, 2}
    /\ (Migrating(c, 3) \/ Ready(c)) => version = 2

MigrationInv ==
  /\ MigrationTypeOK
  /\ version = table
  /\ BelievedVersions
  /\ table = 0 => DOMAIN rows = {}
  /\ OldJobIdsStillHit

LEMMA InitialInv == MigrationInit => MigrationInv
<1> SUFFICES ASSUME MigrationInit PROVE MigrationInv OBVIOUS
<1> USE DEF MigrationInit, SCHEMA_VERSION
<1>1. version \in 0 .. 2 /\ table = version BY MigrationAssumption
<1>2. /\ version = 0 => DOMAIN rows = {}
      /\ DOMAIN rows \subseteq Ids /\ rows \in [DOMAIN rows -> Row]
  <2>1. CASE version = 0 BY <2>1 DEF NoRows
  <2>2. CASE version = 1
    <3>1. rows \in [LegacyIds -> [status : {"pending", "failed"}, key : {NoKey}]] BY <2>2
    <3> QED BY <2>2, <3>1 DEF Ids, Row, Statuses
  <2>3. CASE version = 2
    <3>1. rows = [id \in LegacyIds |-> [status |-> "pending", key |-> id]] BY <2>3
    <3> QED BY <2>3, <3>1 DEF Ids, Row, Statuses
  <2> QED BY <1>1, <2>1, <2>2, <2>3
<1>3. /\ conns \in [Connections -> Conn]
      /\ \A c \in Connections : conns[c].step = "new"
  BY DEF NewConn, Conn
<1>4. OldJobIdsStillHit
  <2>1. CASE version = 2
    <3>1. rows = [id \in LegacyIds |-> [status |-> "pending", key |-> id]] BY <2>1
    <3> QED BY <3>1 DEF OldJobIdsStillHit
  <2> QED BY <1>1, <2>1 DEF OldJobIdsStillHit
<1> QED BY <1>1, <1>2, <1>3, <1>4 DEF MigrationInv, MigrationTypeOK, BelievedVersions, Migrating, Ready

(* Migration 2 on whatever table there is.                                 *)
LEMMA CopiedRows ==
  ASSUME MigrationTypeOK, NEW c \in Connections, AddDedupKey(c)
  PROVE  /\ DOMAIN rows' = DOMAIN rows
         /\ rows' \in [DOMAIN rows' -> Row]
         /\ \A id \in DOMAIN rows :
              /\ rows'[id].key = id
              /\ rows'[id].status = IF rows[id].status = "failed" THEN "dead" ELSE rows[id].status
<1>1. DOMAIN rows' = DOMAIN rows BY DEF AddDedupKey
<1>2. \A id \in DOMAIN rows :
        rows'[id] = [status |-> IF rows[id].status = "failed" THEN "dead" ELSE rows[id].status,
                     key |-> id]
  BY DEF AddDedupKey
<1>3. \A id \in DOMAIN rows : id \in Ids /\ rows[id].status \in Statuses
  BY DEF MigrationTypeOK, Row
<1>4. ASSUME NEW id \in DOMAIN rows PROVE rows'[id] \in Row
  <2>1. CASE rows[id].status = "failed"
    <3>1. rows'[id] = [status |-> "dead", key |-> id] BY <1>2, <2>1
    <3> QED BY <1>3, <3>1 DEF Row, Statuses
  <2>2. CASE rows[id].status # "failed"
    <3>1. rows'[id] = [status |-> rows[id].status, key |-> id] BY <1>2, <2>2
    <3> QED BY <1>3, <3>1 DEF Row, Statuses
  <2> QED BY <2>1, <2>2
<1>5. rows' = [id \in DOMAIN rows' |-> rows'[id]] BY DEF AddDedupKey
<1> QED BY <1>1, <1>2, <1>4, <1>5

(* enqueue adds one row under a new id.                                    *)
LEMMA AddedRow ==
  ASSUME MigrationTypeOK, NEW c \in Connections, NEW key \in Keys, Enqueue(c, key)
  PROVE  \E new \in NewIds \ DOMAIN rows :
           /\ DOMAIN rows' = DOMAIN rows \cup {new}
           /\ rows' \in [DOMAIN rows' -> Row]
           /\ \A id \in DOMAIN rows : rows'[id] = rows[id]
<1>1. PICK new \in NewIds \ DOMAIN rows :
        rows' = [id \in DOMAIN rows \cup {new} |->
                   IF id = new THEN [status |-> "pending", key |-> key] ELSE rows[id]]
  BY DEF Enqueue
<1>2. [status |-> "pending", key |-> key] \in Row BY DEF Row, Statuses
<1>3. \A id \in DOMAIN rows : rows[id] \in Row BY DEF MigrationTypeOK
<1> QED BY <1>1, <1>2, <1>3

(* The step of a connection that leaves the file alone.                    *)
LEMMA FileUntouched ==
  ASSUME MigrationInv, UNCHANGED fileVars, conns' \in [Connections -> Conn],
         BelievedVersions'
  PROVE  MigrationInv'
BY DEF MigrationInv, MigrationTypeOK, OldJobIdsStillHit, fileVars, SCHEMA_VERSION

LEMMA StepInv ==
  ASSUME MigrationInv, [MigrationNext]_migrationVars
  PROVE  MigrationInv'
<1> USE DEF SCHEMA_VERSION
<1>0. /\ version \in 0 .. 2 /\ table = version
      /\ conns \in [Connections -> Conn] /\ BelievedVersions
  BY DEF MigrationInv, MigrationTypeOK
<1>1. CASE UNCHANGED migrationVars
  BY <1>1 DEF migrationVars, fileVars, MigrationInv, MigrationTypeOK, BelievedVersions,
              OldJobIdsStillHit, Migrating, Ready
<1>2. ASSUME NEW c \in Connections, MigrationStep(c) PROVE MigrationInv'
  <2>1. CASE ReadVersion(c)
    <3>1. UNCHANGED fileVars /\ conns' \in [Connections -> Conn]
      BY <1>0, <2>1 DEF ReadVersion, Conn
    <3>2. BelievedVersions'
      BY <1>0, <2>1 DEF ReadVersion, Conn, BelievedVersions, Migrating, Ready, fileVars
    <3> QED BY <3>1, <3>2, FileUntouched
  <2>2. CASE CreateTables(c)
    <3>1. /\ table' = 1 /\ version' = 1 /\ rows' = rows /\ version = 0
          /\ conns' = [conns EXCEPT ![c].next = 2] /\ Migrating(c, 1)
      BY <1>0, <2>2 DEF CreateTables
    <3>2. conns' \in [Connections -> Conn] BY <1>0, <3>1 DEF Conn
    <3>3. BelievedVersions'
      BY <1>0, <3>1 DEF BelievedVersions, Migrating, Ready, Conn
    <3> QED BY <3>1, <3>2, <3>3 DEF MigrationInv, MigrationTypeOK, OldJobIdsStillHit
  <2>3. CASE TablesExist(c)
    <3>1. UNCHANGED fileVars /\ conns' \in [Connections -> Conn]
      BY <1>0, <2>3 DEF TablesExist, Conn
    <3>2. BelievedVersions'
      BY <1>0, <2>3 DEF TablesExist, Conn, BelievedVersions, Migrating, Ready, fileVars
    <3> QED BY <3>1, <3>2, FileUntouched
  <2>4. CASE AddDedupKey(c)
    <3>1. /\ table' = 2 /\ version' = 2 /\ Migrating(c, 2)
          /\ conns' = [conns EXCEPT ![c].next = 3]
      BY <2>4 DEF AddDedupKey
    <3>2. conns' \in [Connections -> Conn] BY <1>0, <3>1 DEF Conn
    <3>3. BelievedVersions' BY <1>0, <3>1 DEF BelievedVersions, Migrating, Ready, Conn
    <3>4. /\ DOMAIN rows' = DOMAIN rows /\ rows' \in [DOMAIN rows' -> Row]
          /\ \A id \in DOMAIN rows : rows'[id].key = id
      BY <2>4, CopiedRows DEF MigrationInv
    <3> QED BY <3>1, <3>2, <3>3, <3>4 DEF MigrationInv, MigrationTypeOK, OldJobIdsStillHit
  <2>5. CASE MigrationIsBusy(c)
    <3>1. UNCHANGED fileVars /\ conns' \in [Connections -> Conn]
      <4>1. CASE conns[c].retried
        <5>1. conns' = [conns EXCEPT ![c] = [conns[c] EXCEPT !.step = "failed"]]
          BY <2>5, <4>1 DEF MigrationIsBusy
        <5> QED BY <1>0, <2>5, <5>1 DEF MigrationIsBusy, Conn
      <4>2. CASE ~conns[c].retried
        <5>1. conns' = [conns EXCEPT ![c] = [conns[c] EXCEPT !.next = version + 1, !.retried = TRUE]]
          BY <2>5, <4>2 DEF MigrationIsBusy
        <5>2. conns[c] \in Conn /\ version + 1 \in 1 .. SCHEMA_VERSION + 1 BY <1>0
        <5>3. [conns[c] EXCEPT !.next = version + 1, !.retried = TRUE] \in Conn
          BY <5>2, Zenon DEF Conn
        <5>4. UNCHANGED fileVars BY <2>5 DEF MigrationIsBusy
        <5> QED BY <1>0, <5>1, <5>3, <5>4
      <4> QED BY <4>1, <4>2
    <3>2. BelievedVersions'
      BY <1>0, <2>5 DEF MigrationIsBusy, Conn, BelievedVersions, Migrating, Ready, fileVars
    <3> QED BY <3>1, <3>2, FileUntouched
  <2>6. CASE PrepareStatements(c)
    <3>1. UNCHANGED fileVars /\ conns' \in [Connections -> Conn]
      BY <1>0, <2>6 DEF PrepareStatements, Conn
    <3>2. BelievedVersions'
      BY <1>0, <2>6 DEF PrepareStatements, Conn, BelievedVersions, Migrating, Ready, fileVars
    <3> QED BY <3>1, <3>2, FileUntouched
  <2>7. CASE Reopen(c)
    <3>1. UNCHANGED fileVars /\ conns' \in [Connections -> Conn]
      BY <1>0, <2>7 DEF Reopen, NewConn, Conn
    <3>2. BelievedVersions'
      BY <1>0, <2>7 DEF Reopen, NewConn, Conn, BelievedVersions, Migrating, Ready, fileVars
    <3> QED BY <3>1, <3>2, FileUntouched
  <2>8. ASSUME NEW key \in Keys, Enqueue(c, key) PROVE MigrationInv'
    <3>1. PICK new \in NewIds \ DOMAIN rows :
            /\ DOMAIN rows' = DOMAIN rows \cup {new}
            /\ rows' \in [DOMAIN rows' -> Row]
            /\ \A id \in DOMAIN rows : rows'[id] = rows[id]
      BY <2>8, AddedRow DEF MigrationInv
    <3>2. UNCHANGED <<version, table, conns>> /\ Ready(c) BY <2>8 DEF Enqueue
    <3>3. version = 2 BY <1>0, <3>2 DEF BelievedVersions
    <3>4. BelievedVersions' BY <1>0, <3>2 DEF BelievedVersions, Migrating, Ready
    <3>5. DOMAIN rows' \subseteq Ids BY <3>1 DEF MigrationInv, MigrationTypeOK, Ids
    <3>6. OldJobIdsStillHit'
      BY <3>1, <3>2, MigrationAssumption DEF MigrationInv, OldJobIdsStillHit
    <3> QED BY <1>0, <3>1, <3>2, <3>3, <3>4, <3>5, <3>6 DEF MigrationInv, MigrationTypeOK
  <2> QED BY <1>2, <2>1, <2>2, <2>3, <2>4, <2>5, <2>6, <2>7, <2>8 DEF MigrationStep, Migrate
<1> QED BY <1>1, <1>2 DEF MigrationNext

(* The inductive invariant holds, whoever migrates at the same time.       *)
THEOREM MigrationInvariant == MigrationSpec => []MigrationInv
<1>1. MigrationInit => MigrationInv BY InitialInv
<1>2. MigrationInv /\ [MigrationNext]_migrationVars => MigrationInv' BY StepInv
<1> QED BY <1>1, <1>2, PTL DEF MigrationSpec

(* user_version always tells which table the file holds, and no connection *)
(* is ready before the newest one is there, however many processes migrate  *)
(* and wherever they die.                                                  *)
THEOREM VersionIsTrue == MigrationSpec => []VersionTellsTable
<1>1. MigrationInv => VersionTellsTable
  BY DEF MigrationInv, BelievedVersions, VersionTellsTable, SCHEMA_VERSION
<1> QED BY <1>1, MigrationInvariant, PTL

(* A row of an old release answers to its old job id for ever.             *)
THEOREM OldIdsHit == MigrationSpec => []OldJobIdsStillHit
<1>1. MigrationInv => OldJobIdsStillHit BY DEF MigrationInv
<1> QED BY <1>1, MigrationInvariant, PTL

(* What NoRowLost says of a step.                                          *)
RowsKept ==
  \A id \in DOMAIN rows :
    /\ id \in DOMAIN rows'
    /\ rows'[id].status # rows[id].status =>
         rows[id].status = "failed" /\ rows'[id].status = "dead"

LEMMA StepKeepsRows ==
  ASSUME MigrationInv, [MigrationNext]_migrationVars PROVE RowsKept
<1>1. CASE rows' = rows BY <1>1 DEF RowsKept
<1>2. ASSUME NEW c \in Connections, MigrationStep(c), rows' # rows PROVE RowsKept
  <2>1. CASE AddDedupKey(c) BY <2>1, CopiedRows DEF MigrationInv, RowsKept
  <2>2. ASSUME NEW key \in Keys, Enqueue(c, key) PROVE RowsKept
    BY <2>2, AddedRow DEF MigrationInv, RowsKept
  <2> QED BY <1>2, <2>1, <2>2 DEF MigrationStep, Migrate, ReadVersion, CreateTables, TablesExist,
                                  MigrationIsBusy, PrepareStatements, Reopen, fileVars
<1> QED BY <1>1, <1>2 DEF MigrationNext, migrationVars, fileVars

(* No migration loses a row, also when two processes apply the same one.   *)
THEOREM RowsSurvive == MigrationSpec => NoRowLost
<1>1. ASSUME MigrationInv, [MigrationNext]_migrationVars PROVE [RowsKept]_migrationVars
  BY <1>1, StepKeepsRows
<1> QED BY <1>1, MigrationInvariant, PTL DEF MigrationSpec, NoRowLost, RowsKept

-----------------------------------------------------------------------------
(* Migrations that do not overlap                                          *)

(* What a connection that migrates alone has read is still so.             *)
OneMigrates ==
  /\ MigrationInv
  /\ \A c, d \in Connections :
       (conns[c].step = "migrating" /\ conns[d].step = "migrating") => c = d
  /\ \A c \in Connections : conns[c].step = "migrating" => conns[c].next = version + 1

LEMMA OneMigratesStep ==
  ASSUME MayOverlap = FALSE, OneMigrates, [MigrationNext]_migrationVars
  PROVE  OneMigrates'
<1> USE DEF SCHEMA_VERSION
<1>0. /\ version \in 0 .. 2 /\ table = version /\ conns \in [Connections -> Conn]
  BY DEF OneMigrates, MigrationInv, MigrationTypeOK
<1>1. MigrationInv' BY StepInv DEF OneMigrates
<1>2. CASE UNCHANGED migrationVars
  BY <1>1, <1>2 DEF OneMigrates, migrationVars, fileVars
<1>3. ASSUME NEW c \in Connections, MigrationStep(c) PROVE OneMigrates'
  <2>1. CASE ReadVersion(c)
    BY <1>0, <1>1, <2>1 DEF OneMigrates, ReadVersion, fileVars, Conn
  <2>2. CASE CreateTables(c)
    BY <1>0, <1>1, <2>2 DEF OneMigrates, CreateTables, Migrating, Conn
  <2>3. CASE TablesExist(c)
    BY <1>0, <1>1, <2>3 DEF OneMigrates, TablesExist, fileVars, Conn
  <2>4. CASE AddDedupKey(c)
    BY <1>0, <1>1, <2>4 DEF OneMigrates, AddDedupKey, Migrating, Conn
  <2>5. CASE MigrationIsBusy(c)
    BY <1>0, <1>1, <2>5 DEF OneMigrates, MigrationIsBusy, fileVars, Conn
  <2>6. CASE PrepareStatements(c)
    BY <1>0, <1>1, <2>6 DEF OneMigrates, PrepareStatements, Migrating, fileVars, Conn
  <2>7. CASE Reopen(c)
    BY <1>0, <1>1, <2>7 DEF OneMigrates, Reopen, NewConn, fileVars, Conn
  <2>8. ASSUME NEW key \in Keys, Enqueue(c, key) PROVE OneMigrates'
    BY <1>1, <2>8 DEF OneMigrates, Enqueue
  <2> QED BY <1>3, <2>1, <2>2, <2>3, <2>4, <2>5, <2>6, <2>7, <2>8 DEF MigrationStep, Migrate
<1> QED BY <1>2, <1>3 DEF MigrationNext

(* If no two processes migrate at the same time, the key of a job is never  *)
(* overwritten: the overlap is the only thing wrong with migrate.          *)
THEOREM KeysAreKeptAlone ==
  ASSUME MayOverlap = FALSE PROVE MigrationSpec => KeysAreKept
<1> DEFINE Kept == table = SCHEMA_VERSION => \A id \in DOMAIN rows : rows'[id].key = rows[id].key
<1>1. MigrationInit => OneMigrates BY InitialInv DEF OneMigrates, MigrationInit, NewConn
<1>2. OneMigrates /\ [MigrationNext]_migrationVars => OneMigrates' BY OneMigratesStep
<1>3. ASSUME OneMigrates, [MigrationNext]_migrationVars PROVE [Kept]_migrationVars
  <2>1. CASE rows' = rows BY <2>1
  <2>2. ASSUME NEW c \in Connections, MigrationStep(c), rows' # rows PROVE Kept
    <3>1. CASE AddDedupKey(c)
      <4>1. version = 1
        BY <1>3, <3>1 DEF AddDedupKey, Migrating, OneMigrates, MigrationInv, MigrationTypeOK
      <4>2. table # SCHEMA_VERSION BY <1>3, <4>1 DEF OneMigrates, MigrationInv, SCHEMA_VERSION
      <4> QED BY <4>2
    <3>2. ASSUME NEW key \in Keys, Enqueue(c, key) PROVE Kept
      BY <1>3, <3>2, AddedRow DEF OneMigrates, MigrationInv
    <3> QED BY <2>2, <3>1, <3>2 DEF MigrationStep, Migrate, ReadVersion, CreateTables, TablesExist,
                                     MigrationIsBusy, PrepareStatements, Reopen, fileVars
  <2> QED BY <1>3, <2>1, <2>2 DEF MigrationNext, migrationVars, fileVars
<1> QED BY <1>1, <1>2, <1>3, PTL DEF MigrationSpec, KeysAreKept
=============================================================================
