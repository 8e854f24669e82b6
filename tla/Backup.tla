-------------------------------- MODULE Backup --------------------------------
(***************************************************************************)
(* backup create beside the running server and restore in its absence.     *)
(* The database is abstracted to the managed files it refers to; what was  *)
(* written last is in the write-ahead log until a clean stop folds it into *)
(* the database file.  A file is named by its content, so two files of one *)
(* name are equal.  How the server saves and collects files is detailed in *)
(* ManagedFiles; here each is one step.  The operator runs one of the      *)
(* commands at a time, with the binary of the server, and installs another *)
(* release while nothing runs.                                             *)
(***************************************************************************)
EXTENDS Integers, Sequences

CONSTANTS
  ImageKeys, AttachmentKeys,   \* content addresses
  OperatorStartsEarly,         \* whether the server may be started on a half restored directory
  Releases,                    \* numbers of the last migrations embedded in the releases
  MaxArchives, MaxRestores, MaxReferences   \* bounds

ASSUME BackupAssumption ==
  /\ ImageKeys \cap AttachmentKeys = {}
  /\ OperatorStartsEarly \in BOOLEAN
  /\ Releases \subseteq Nat \ {0}
  /\ {MaxArchives, MaxRestores, MaxReferences} \subseteq Nat

VARIABLES
  live,         \* the data directory: what each of Items holds, or Missing
  server,       \* the server process: DOWN, OPENING or UP
  binary,       \* the installed release
  changes,      \* reference changes so far
  create,       \* the backup create command under way
  archive,      \* the output file
  restore,      \* the restore command under way or finished last
  recovery,     \* the directories .restore-backup-<time>
  interrupted,  \* the last restore ended in the middle
  previous      \* the data directory before the first of the latest attempts

backupVars == <<live, server, binary, changes, create, archive, restore, recovery, interrupted, previous>>

Items == {"db", "wal", "images", "attachments"}

\* Mutant of MoveOrder: the log stays beside the new database.
MoveOrderButLog == <<"db", "images", "attachments">>

\* In the order in which Restore moves them aside.  The shared memory file
\* beside the log holds no data.
MoveOrder == <<"db", "wal", "images", "attachments">>
InstallOrder == <<"db", "images", "attachments">>
Missing == [present |-> FALSE, keys |-> {}, schema |-> 0]
Holding(keys) == [present |-> TRUE, keys |-> keys, schema |-> 0]
Rows(keys, schema) == [present |-> TRUE, keys |-> keys, schema |-> schema]
Empty == [i \in Items |-> Missing]
NoCommand == [phase |-> "NONE"]

Database == IF live["wal"].present THEN live["wal"] ELSE live["db"]
Referenced == Database.keys
Stored == live["images"].keys \cup live["attachments"].keys
StoreOfKey(k) == IF k \in ImageKeys THEN "images" ELSE "attachments"

BackupInit ==
  /\ live = Empty
  /\ server = "DOWN"
  /\ binary \in Releases
  /\ changes = 0
  /\ create = NoCommand
  /\ archive = [number |-> 0]
  /\ restore = NoCommand
  /\ recovery = <<>>
  /\ interrupted = FALSE
  /\ previous = Empty

-----------------------------------------------------------------------------
(* The server.                                                             *)

Refer(k) ==
  /\ server = "UP"
  /\ changes < MaxReferences
  /\ k \notin Referenced
  /\ changes' = changes + 1
  /\ live' = [live EXCEPT !["wal"] = Rows(Referenced \cup {k}, binary), ![StoreOfKey(k)] = Holding(@.keys \cup {k})]
  /\ UNCHANGED <<server, binary, create, archive, restore, recovery, interrupted, previous>>

Unrefer(k) ==
  /\ server = "UP"
  /\ k \in Referenced
  /\ live' = [live EXCEPT !["wal"] = Rows(Referenced \ {k}, binary)]
  /\ UNCHANGED <<server, binary, changes, create, archive, restore, recovery, interrupted, previous>>

Collect(k) ==
  /\ server = "UP"
  /\ k \in Stored \ Referenced
  /\ live' = [live EXCEPT ![StoreOfKey(k)] = Holding(@.keys \ {k})]
  /\ UNCHANGED <<server, binary, changes, create, archive, restore, recovery, interrupted, previous>>

\* A clean stop folds the log into the database; a killed process leaves it.
Folded == [live EXCEPT !["db"] = Database, !["wal"] = Missing]

StopServer(clean) ==
  /\ server # "DOWN"
  /\ create.phase = "NONE"
  /\ server' = "DOWN"
  /\ live' = IF clean THEN Folded ELSE live
  /\ UNCHANGED <<binary, changes, create, archive, restore, recovery, interrupted, previous>>

MayOpen ==
  /\ server = "DOWN"
  /\ restore.phase \in {"NONE", "DONE"}
  /\ interrupted => OperatorStartsEarly

\* Nothing keeps the server from a directory that a restore has left half
\* way: it begins a new database there.
OpenDatabase ==
  /\ MayOpen
  /\ live["db"].present => Database.schema <= binary
  /\ server' = "OPENING"
  /\ restore' = NoCommand
  /\ live' = IF live["db"].present THEN live ELSE [live EXCEPT !["db"] = Rows({}, 0), !["wal"] = Missing]
  /\ UNCHANGED <<binary, changes, create, archive, recovery, interrupted, previous>>

\* A database with migrations the binary does not know is closed again.
RefuseNewer ==
  /\ MayOpen
  /\ live["db"].present /\ Database.schema > binary
  /\ live' = Folded
  /\ restore' = NoCommand
  /\ UNCHANGED <<server, binary, changes, create, archive, recovery, interrupted, previous>>

\* One transaction per migration.
ApplyMigration ==
  /\ server = "OPENING"
  /\ Database.schema < binary
  /\ live' = [live EXCEPT !["wal"] = Rows(Referenced, Database.schema + 1)]
  /\ UNCHANGED <<server, binary, changes, create, archive, restore, recovery, interrupted, previous>>

Serve ==
  /\ server = "OPENING"
  /\ Database.schema = binary
  /\ server' = "UP"
  /\ UNCHANGED <<live, binary, changes, create, archive, restore, recovery, interrupted, previous>>

InstallRelease(release) ==
  /\ server = "DOWN" /\ restore.phase \in {"NONE", "DONE"}
  /\ binary' = release
  /\ UNCHANGED <<live, server, changes, create, archive, restore, recovery, interrupted, previous>>

-----------------------------------------------------------------------------
(* Create.                                                                 *)

SnapshotDatabase ==
  /\ server = "UP"
  /\ create.phase = "NONE" /\ archive.number < MaxArchives
  /\ create' = [phase |-> "SNAPSHOT", refs |-> Referenced]
  /\ UNCHANGED <<live, server, binary, changes, archive, restore, recovery, interrupted, previous>>

\* Every file the snapshot refers to is looked up and hashed, or Create fails.
InventoryFiles ==
  /\ create.phase = "SNAPSHOT"
  /\ create' = IF create.refs \subseteq Stored THEN [phase |-> "ADD", refs |-> create.refs, files |-> {}] ELSE NoCommand
  /\ UNCHANGED <<live, server, binary, changes, archive, restore, recovery, interrupted, previous>>

AddFile(k) ==
  /\ create.phase = "ADD"
  /\ k \in create.refs \ create.files
  /\ create' = IF k \in Stored THEN [create EXCEPT !.files = @ \cup {k}] ELSE NoCommand
  /\ UNCHANGED <<live, server, binary, changes, archive, restore, recovery, interrupted, previous>>

\* A complete temporary file takes its name.
PublishArchive ==
  /\ create.phase = "ADD"
  /\ create.files = create.refs
  /\ archive' = [number |-> archive.number + 1, refs |-> create.refs, files |-> create.files,
                 schema |-> binary, damaged |-> FALSE]
  /\ create' = NoCommand
  /\ UNCHANGED <<live, server, binary, changes, restore, recovery, interrupted, previous>>

CreateKilled ==
  /\ create.phase # "NONE"
  /\ create' = NoCommand
  /\ UNCHANGED <<live, server, binary, changes, archive, restore, recovery, interrupted, previous>>

DamageArchive ==
  /\ archive.number > 0 /\ ~archive.damaged
  /\ restore.phase \in {"NONE", "DONE"}
  /\ archive' = [archive EXCEPT !.damaged = TRUE]
  /\ UNCHANGED <<live, server, binary, changes, create, restore, recovery, interrupted, previous>>

-----------------------------------------------------------------------------
(* Restore.                                                                *)

\* Checksums find damage; the binary must know the migrations; the files must
\* be those the database refers to.
ValidateRestoredDatabase(a) == a.schema <= binary /\ a.files = a.refs
ExtractValidated(a) == ~a.damaged /\ ValidateRestoredDatabase(a)

Extracted(a) ==
  LET Directory(keys) == IF keys = {} THEN Missing ELSE Holding(keys)
  IN  [Empty EXCEPT !["db"] = Rows(a.refs, a.schema),
                    !["images"] = Directory(a.files \cap ImageKeys),
                    !["attachments"] = Directory(a.files \cap AttachmentKeys)]

HasExistingData == \E i \in Items : live[i].present

BeginRestore(force) ==
  /\ server = "DOWN" /\ create.phase = "NONE" /\ restore.phase \in {"NONE", "DONE"}
  /\ archive.number > 0
  /\ Len(recovery) < MaxRestores
  /\ live["db"].present => force
  /\ ExtractValidated(archive)
  /\ restore' = [phase |-> "MOVE", next |-> 1, staged |-> Extracted(archive)]
  /\ recovery' = IF HasExistingData THEN Append(recovery, Empty) ELSE recovery
  /\ previous' = IF interrupted THEN previous ELSE live
  /\ interrupted' = TRUE
  /\ UNCHANGED <<live, server, binary, changes, create, archive>>

\* One rename into the recovery directory; what is missing is passed over.
MoveAside ==
  /\ restore.phase = "MOVE"
  /\ LET item == MoveOrder[restore.next]
     IN  IF live[item].present
         THEN /\ recovery' = [recovery EXCEPT ![Len(recovery)][item] = live[item]]
              /\ live' = [live EXCEPT ![item] = Missing]
         ELSE UNCHANGED <<recovery, live>>
  /\ restore' = IF restore.next < Len(MoveOrder) THEN [restore EXCEPT !.next = @ + 1]
                ELSE [restore EXCEPT !.phase = "INSTALL", !.next = 1]
  /\ UNCHANGED <<server, binary, changes, create, archive, interrupted, previous>>

\* One rename out of the staging directory.
Install ==
  /\ restore.phase = "INSTALL"
  /\ LET item == InstallOrder[restore.next]
     IN  live' = IF restore.staged[item].present THEN [live EXCEPT ![item] = restore.staged[item]] ELSE live
  /\ restore' = IF restore.next < Len(InstallOrder) THEN [restore EXCEPT !.next = @ + 1]
                ELSE [restore EXCEPT !.phase = "DONE"]
  /\ interrupted' = (restore.next < Len(InstallOrder))
  /\ UNCHANGED <<server, binary, changes, create, archive, recovery, previous>>

\* The process dies, or a rename fails and the command returns.
RestoreStops ==
  /\ restore.phase \in {"MOVE", "INSTALL"}
  /\ restore' = NoCommand
  /\ UNCHANGED <<live, server, binary, changes, create, archive, recovery, interrupted, previous>>

BackupNext ==
  \/ \E k \in ImageKeys \cup AttachmentKeys : Refer(k) \/ Unrefer(k) \/ Collect(k) \/ AddFile(k)
  \/ \E clean \in BOOLEAN : StopServer(clean)
  \/ OpenDatabase \/ RefuseNewer \/ ApplyMigration \/ Serve
  \/ \E release \in Releases : InstallRelease(release)
  \/ SnapshotDatabase \/ InventoryFiles \/ PublishArchive \/ CreateKilled \/ DamageArchive
  \/ \E force \in BOOLEAN : BeginRestore(force)
  \/ MoveAside \/ Install \/ RestoreStops

BackupSpec == BackupInit /\ [][BackupNext]_backupVars
-----------------------------------------------------------------------------
\* However the collector runs beside a backup and wherever a restore is cut
\* off and repeated: a published archive has exactly the files its database
\* refers to (Create); the server never runs on a database with a dangling
\* reference or with other migrations than its own, though migrating was cut
\* off, or an archive of another release was restored; a finished restore
\* leaves the archive and nothing else, no log of the old database included;
\* and each part of the data from before the first attempt is still in its
\* place or in a recovery directory (Restore).
RestoreKeepsData ==
  /\ archive.number > 0 => archive.files = archive.refs
  /\ server = "UP" => Referenced \subseteq Stored /\ Database.schema = binary
  /\ restore.phase = "DONE" => live = restore.staged
  /\ \A i \in Items : previous[i].present =>
       \/ live[i] = previous[i]
       \/ \E d \in DOMAIN recovery : recovery[d][i] = previous[i]
=============================================================================
