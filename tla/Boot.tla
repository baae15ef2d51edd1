-------------------------------- MODULE Boot --------------------------------
(* What a process does with the database before it serves: the schema        *)
(* migrations (migrate.py), which two processes may run together, the        *)
(* checks of the file and of the volume it is on (db_integrity.py,           *)
(* data_persistence.py) and the lock of the one process (single_process.py). *)
(* A process that does not get the lock says so on the Health page and goes  *)
(* on.                                                                       *)
EXTENDS Integers, Sequences, FiniteSets, SequencesExt

CONSTANTS
  Processes,   \* processes on the same database
  Migrations,  \* the numbers of the migrations
  Columns      \* what each migration adds, in its order

ASSUME BootAssumption == Migrations \subseteq Nat /\ Columns \subseteq Nat

NoProcess == "no process"
ASSUME ProcessesAssumption == NoProcess \notin Processes
NoTxn == [by |-> NoProcess, m |-> 0, done |-> {}, added |-> {}]
Down == [at |-> "down", todo |-> {}, got |-> FALSE]
Least(s) == CHOOSE x \in s : \A y \in s : x <= y

VARIABLES
  schema,     \* the columns that are there, as <<migration, column>>
  recorded,   \* schema_versions
  txn,        \* the open transaction: [by, m, done, added]
  booting,    \* per process [at, todo, got]
  processLock,\* who holds subarr.lock
  lockRed     \* task_health: the verdict "single-process" is red

bootVars == <<schema, recorded, txn, booting, processLock, lockRed>>

\* a database of any release, some of its tables extended by an init_schema()
\* of old
BootInit ==
  /\ \E known \in {{}} \cup {{n \in Migrations : n <= m} : m \in Migrations} :
       /\ recorded = known
       /\ \E early \in SUBSET ((Migrations \ known) \X Columns) :
            schema = (known \X Columns) \cup early
  /\ txn = NoTxn /\ booting = [p \in Processes |-> Down]
  /\ processLock = NoProcess /\ lockRed = FALSE

\* run: what is recorded is read once, before the first migration
MigratorStarts(p) ==
  /\ booting[p] = Down
  /\ booting' = [booting EXCEPT ![p] = [at |-> "migrating", todo |-> Migrations \ recorded, got |-> FALSE]]
  /\ UNCHANGED <<schema, recorded, txn, processLock, lockRed>>

\* _apply_one: BEGIN IMMEDIATE waits for the other process ...
MigrationBegins(p) ==
  /\ booting[p].at = "migrating" /\ booting[p].todo # {} /\ txn = NoTxn
  /\ txn' = [by |-> p, m |-> Least(booting[p].todo), done |-> {}, added |-> {}]
  /\ UNCHANGED <<schema, recorded, booting, processLock, lockRed>>

\* ... and gives up after busy_timeout: the boot fails
MigratorWaitedTooLong(p) ==
  /\ booting[p].at = "migrating" /\ booting[p].todo # {} /\ txn.by \notin {p, NoProcess}
  /\ booting' = [booting EXCEPT ![p] = Down]
  /\ UNCHANGED <<schema, recorded, txn, processLock, lockRed>>

\* Mutant: every statement that fails is passed over.
StatementPassedOver(p) ==
  /\ txn.by = p /\ txn.done # Columns
  /\ txn' = [txn EXCEPT !.done = @ \cup {Least(Columns \ txn.done)}]
  /\ UNCHANGED <<schema, recorded, booting, processLock, lockRed>>

\* a statement of the file, in its order; "duplicate column name" is passed over
StatementRuns(p) ==
  /\ txn.by = p /\ txn.done # Columns
  /\ LET c == Least(Columns \ txn.done)
     IN txn' = [txn EXCEPT !.done = @ \cup {c}, !.added = @ \cup ({<<txn.m, c>>} \ schema)]
  /\ UNCHANGED <<schema, recorded, booting, processLock, lockRed>>

\* any other error of a statement rolls back and ends the boot
StatementFails(p) ==
  /\ txn.by = p /\ txn.done # Columns
  /\ txn' = NoTxn /\ booting' = [booting EXCEPT ![p] = Down]
  /\ UNCHANGED <<schema, recorded, processLock, lockRed>>

\* the version is recorded with what the migration added, unless the other
\* process recorded it since: then the work is rolled back
MigrationRecorded(p) ==
  /\ txn.by = p /\ txn.done = Columns
  /\ IF txn.m \in recorded THEN UNCHANGED <<schema, recorded>>
     ELSE schema' = schema \cup txn.added /\ recorded' = recorded \cup {txn.m}
  /\ txn' = NoTxn
  /\ booting' = [booting EXCEPT ![p].todo = @ \ {txn.m}]
  /\ UNCHANGED <<processLock, lockRed>>

\* acquire_process_lock
LockTried(p) ==
  /\ booting[p].at = "migrating" /\ booting[p].todo = {}
  /\ booting' = [booting EXCEPT ![p] = [@ EXCEPT !.at = "locked", !.got = processLock = NoProcess]]
  /\ processLock' = IF processLock = NoProcess THEN p ELSE processLock
  /\ UNCHANGED <<schema, recorded, txn, lockRed>>

\* check_single_process records what it got, in the row both processes write
LockToldHealth(p) ==
  /\ booting[p].at = "locked"
  /\ lockRed' = ~booting[p].got
  /\ booting' = [booting EXCEPT ![p].at = "running"]
  /\ UNCHANGED <<schema, recorded, txn, processLock>>

\* a process ends anywhere: sqlite rolls back, the lock goes with the handle
ProcessEnds(p) ==
  /\ booting[p] # Down
  /\ booting' = [booting EXCEPT ![p] = Down]
  /\ txn' = IF txn.by = p THEN NoTxn ELSE txn
  /\ processLock' = IF processLock = p THEN NoProcess ELSE processLock
  /\ UNCHANGED <<schema, recorded, lockRed>>

BootNext ==
  \E p \in Processes :
    \/ MigratorStarts(p) \/ MigrationBegins(p) \/ MigratorWaitedTooLong(p)
    \/ StatementRuns(p) \/ StatementFails(p) \/ MigrationRecorded(p)
    \/ LockTried(p) \/ LockToldHealth(p) \/ ProcessEnds(p)

BootSpec == BootInit /\ [][BootNext]_bootVars

----------------------------------------------------------------------------
(* The checks of the file and of its volume. *)

\* check_db_integrity and deep_integrity_check
QuickCheck(readable, findings) == readable /\ findings = <<"ok">>

\* vacuum_backup: the backups on disk, oldest first, after one more is written
BackedUp(backups, stamp, undeletable, keep) ==
  LET written == SortSeq(Append(backups, stamp), LAMBDA a, b : a < b)
      excess == IF Len(written) > keep THEN Len(written) - keep ELSE 0
  IN SelectSeq(written, LAMBDA b : \/ b \in undeletable
                                   \/ \E i \in (excess + 1)..Len(written) : written[i] = b)

NetworkFs == {"nfs", "nfs4", "cifs", "smb3", "smbfs", "fuse.glusterfs", "fuse.rclone"}
NoFs == "none"

\* mount_fstype_for: of the longest mount point above the path; of two mounts on
\* one point the first
MountFstype(segs, mounts) ==
  LET above == {i \in DOMAIN mounts : IsPrefix(mounts[i].at, segs) /\ mounts[i].fstype # NoFs}
      best == {i \in above : \A j \in above :
                 \/ Len(mounts[j].at) < Len(mounts[i].at)
                 \/ Len(mounts[j].at) = Len(mounts[i].at) /\ i <= j}
  IN IF best = {} THEN NoFs ELSE mounts[CHOOSE i \in best : TRUE].fstype

\* data_dir_network_fs
DataNetworkFs(host, segs) ==
  IF host.container /\ host.linux /\ host.readable
     /\ MountFstype(segs, host.mounts) \in NetworkFs
  THEN MountFstype(segs, host.mounts) ELSE NoFs

\* apply_journal_mode
JournalMode(host, segs) == IF DataNetworkFs(host, segs) # NoFs THEN "TRUNCATE" ELSE "WAL"

\* data_dir_is_ephemeral: "unknown" is not a verdict
Ephemeral(host) ==
  CASE ~host.container \/ ~host.dataThere -> "unknown"
    [] host.container /\ host.dataThere -> IF host.dataOnRoot THEN "yes" ELSE "no"

\* diagnose_legacy_config_mount
LegacyMount(host) == Ephemeral(host) = "yes" /\ host.legacyDb

\* check_data_persistence: what the Health page says
PersistenceShown(host) ==
  CASE Ephemeral(host) = "unknown" -> "nothing"
    [] Ephemeral(host) = "no" -> "ok"
    [] OTHER -> IF LegacyMount(host) THEN "legacy mount" ELSE "not persistent"

\* check_network_fs
NetworkShown(host, segs) == IF DataNetworkFs(host, segs) # NoFs THEN "network" ELSE "ok"

----------------------------------------------------------------------------
\* "silent partial-apply is the worst possible outcome" (migrate.py:23): what is
\* recorded is there in full and in order, whatever two processes, crashes and
\* failing statements did, and no process serves before all of it is.
RecordedIsApplied ==
  /\ recorded \X Columns \subseteq schema
  /\ \A m \in recorded, n \in Migrations : n < m => n \in recorded
  /\ \A p \in Processes : booting[p].at = "running" => recorded = Migrations

\* "The second process fails to acquire and we surface it ... a red task on the
\* Health page" (single_process.py:11): two processes that serve are shown.
TwoAreShown ==
  Cardinality({p \in Processes : booting[p].at = "running"}) > 1 => lockRed
=============================================================================
