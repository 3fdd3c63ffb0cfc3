-------------------------------- MODULE Backup --------------------------------
(***************************************************************************)
(* The database backup and the restore test of backup.service.js, with the *)
(* dump (mysql-dump.js), the object store (backup-store.js) and the scratch*)
(* server (scratch-mysql.js), while migrations run and an operator may     *)
(* start either by hand (backup-once.js). Any step may fail.               *)
(***************************************************************************)
EXTENDS Naturals

CONSTANTS Backups,       \* runs of the backup
          Tests,         \* runs of the restore test
          MaxSchema,     \* bound on the migrations
          MaxClock,      \* bound on the clock; an object key names its hour
          Sundays,       \* the hours of the clock that fall on one
          MaxBackupAge,  \* MAX_BACKUP_AGE_HOURS
          Missing        \* no object under that key

ASSUME BackupAssumption == MaxSchema \in Nat /\ MaxClock \in Nat /\ MaxBackupAge \in Nat

VARIABLES
  schema,   \* the live database: its tables and the last migration on record
  hour,     \* the clock
  objects,  \* the bucket: a dump and its manifest under each key
  backup,   \* where each backup stands
  test      \* where each restore test stands

backupVars == <<schema, hour, objects, backup, test>>

Hours == 0..MaxClock
Keys == {"daily", "weekly"} \X Hours
Facts == [tables : 0..MaxSchema, version : 0..MaxSchema]
Dump == [facts : Facts, whole : BOOLEAN, taken : Hours]

NoFacts == [tables |-> 0, version |-> 0]
NoDump == [facts |-> NoFacts, whole |-> FALSE, taken |-> 0]
NotRunning == [pc |-> "idle", now |-> 0, facts |-> NoFacts, file |-> NoDump,
               prefix |-> "daily"]
Over == [NotRunning EXCEPT !.pc = "over"]
NotTesting == [pc |-> "idle", now |-> 0, key |-> <<"daily", 0>>,
               manifest |-> Missing, dump |-> NoDump]

BackupInit ==
  /\ schema = NoFacts
  /\ hour = 0
  /\ objects = [k \in Keys |-> [dump |-> Missing, manifest |-> Missing]]
  /\ backup = [b \in Backups |-> NotRunning]
  /\ test = [t \in Tests |-> NotTesting]

------------------------------------------------------------------------------
(* A migration: its DDL takes effect before its row in the history.        *)
MigrateTables ==
  /\ schema.tables = schema.version /\ schema.tables < MaxSchema
  /\ schema' = [schema EXCEPT !.tables = @ + 1]
  /\ UNCHANGED <<hour, objects, backup, test>>

MigrateHistory ==
  /\ schema.version < schema.tables
  /\ schema' = [schema EXCEPT !.version = @ + 1]
  /\ UNCHANGED <<hour, objects, backup, test>>

HourPasses ==
  /\ hour < MaxClock
  /\ hour' = hour + 1
  /\ UNCHANGED <<schema, objects, backup, test>>

------------------------------------------------------------------------------
(* runBackup.                                                              *)
StartBackup(b) ==
  /\ backup[b].pc = "idle"
  /\ backup' = [backup EXCEPT ![b] = [NotRunning EXCEPT !.pc = "tables", !.now = hour,
                  !.facts.version = schema.version]]
  /\ UNCHANGED <<schema, hour, objects, test>>

ListBaseTables(b) ==
  /\ backup[b].pc = "tables"
  /\ backup' = [backup EXCEPT ![b].pc = "dump", ![b].facts.tables = schema.tables]
  /\ UNCHANGED <<schema, hour, objects, test>>

(* writeCompressedDump: a dump that mysqldump did not finish is refused;   *)
(* broken: the end of the stream is taken for the end of the dump.         *)
AnyEnd(whole) == TRUE
Accepted(whole) == whole

WriteDump(b, whole) ==
  /\ backup[b].pc = "dump"
  /\ backup' = IF Accepted(whole)
               THEN [backup EXCEPT ![b].pc = "file",
                       ![b].file = [facts |-> schema, whole |-> whole, taken |-> hour]]
               ELSE [backup EXCEPT ![b] = Over]
  /\ UNCHANGED <<schema, hour, objects, test>>

(* putFile, then putJson: daily, and on Sundays weekly.                    *)
PutFile(b) ==
  /\ backup[b].pc = "file"
  /\ objects' = [objects EXCEPT ![<<backup[b].prefix, backup[b].now>>].dump = backup[b].file]
  /\ backup' = [backup EXCEPT ![b].pc = "manifest"]
  /\ UNCHANGED <<schema, hour, test>>

PutManifest(b) ==
  LET q == backup[b]
  IN  /\ q.pc = "manifest"
      /\ objects' = [objects EXCEPT ![<<q.prefix, q.now>>].manifest =
           [facts |-> q.facts, createdAt |-> q.now, sha256 |-> q.file]]
      /\ backup' = IF q.prefix = "daily" /\ q.now \in Sundays
                   THEN [backup EXCEPT ![b].pc = "file", ![b].prefix = "weekly"]
                   ELSE [backup EXCEPT ![b] = Over]
      /\ UNCHANGED <<schema, hour, test>>

BackupFails(b) ==
  /\ backup[b].pc \notin {"idle", "over"}
  /\ backup' = [backup EXCEPT ![b] = Over]
  /\ UNCHANGED <<schema, hour, objects, test>>

------------------------------------------------------------------------------
(* runRestoreTest.                                                         *)
Failed(t) == test' = [test EXCEPT ![t] = [NotTesting EXCEPT !.pc = "failed"]]

(* latestKey: the newest daily dump.                                       *)
LatestKey(t) ==
  LET found == {h \in Hours : objects[<<"daily", h>>].dump # Missing}
  IN  /\ test[t].pc = "idle"
      /\ found # {}
      /\ test' = [test EXCEPT ![t] = [NotTesting EXCEPT !.pc = "manifest",
           !.key = <<"daily", CHOOSE h \in found : \A k \in found : k <= h>>]]
      /\ UNCHANGED <<schema, hour, objects, backup>>

(* The manifest, and its age; broken: the age is not looked at.            *)
NeverTooOld(manifest) == TRUE
YoungEnough(manifest) == hour - manifest.createdAt <= MaxBackupAge

GetManifest(t) ==
  LET manifest == objects[test[t].key].manifest
  IN  /\ test[t].pc = "manifest"
      /\ IF manifest # Missing /\ YoungEnough(manifest)
         THEN test' = [test EXCEPT ![t].pc = "restore", ![t].manifest = manifest, ![t].now = hour]
         ELSE Failed(t)
      /\ UNCHANGED <<schema, hour, objects, backup>>

(* getStream and restore: the dump that is under the key by now.           *)
RestoreDump(t) ==
  /\ test[t].pc = "restore"
  /\ test' = [test EXCEPT ![t].pc = "compare", ![t].dump = objects[test[t].key].dump]
  /\ UNCHANGED <<schema, hour, objects, backup>>

(* Checksum, tables, schema version; broken: the checksum alone.           *)
SameChecksum(q) == q.dump = q.manifest.sha256
Matches(q) == q.dump = q.manifest.sha256 /\ q.dump.facts = q.manifest.facts

Compare(t) ==
  /\ test[t].pc = "compare"
  /\ IF Matches(test[t]) THEN test' = [test EXCEPT ![t].pc = "passed"] ELSE Failed(t)
  /\ UNCHANGED <<schema, hour, objects, backup>>

TestFails(t) ==
  /\ test[t].pc \in {"manifest", "restore", "compare"}
  /\ Failed(t)
  /\ UNCHANGED <<schema, hour, objects, backup>>

------------------------------------------------------------------------------
BackupStep(b) ==
  \/ \E whole \in BOOLEAN : WriteDump(b, whole)
  \/ StartBackup(b) \/ ListBaseTables(b) \/ PutFile(b) \/ PutManifest(b) \/ BackupFails(b)

TestStep(t) == LatestKey(t) \/ GetManifest(t) \/ RestoreDump(t) \/ Compare(t) \/ TestFails(t)

BackupNext ==
  \/ MigrateTables \/ MigrateHistory \/ HourPasses
  \/ \E b \in Backups : BackupStep(b)
  \/ \E t \in Tests : TestStep(t)

BackupSpec == BackupInit /\ [][BackupNext]_backupVars

------------------------------------------------------------------------------
(* Properties.                                                             *)

(* The values every variable ranges over.                                  *)
BackupTypeOK ==
  /\ schema \in Facts
  /\ hour \in Hours
  /\ \A k \in Keys : objects[k].dump \in Dump \cup {Missing}
  /\ \A b \in Backups : backup[b].facts \in Facts /\ backup[b].now \in Hours
  /\ \A t \in Tests : test[t].key \in Keys /\ test[t].now \in Hours

(* A restore test that passes has restored a whole dump of a database that *)
(* had the tables and the schema its manifest names, taken within the age  *)
(* allowed; so nothing passes on the word of a backup that stopped, was cut*)
(* short, was overwritten by another of the same key, or ran across a      *)
(* migration and recorded what it did not dump.                            *)
PassedIsRestorable ==
  \A t \in Tests :
    test[t].pc = "passed" =>
      /\ test[t].dump.whole
      /\ test[t].dump.facts = test[t].manifest.facts
      /\ test[t].now - test[t].dump.taken <= MaxBackupAge
==============================================================================
