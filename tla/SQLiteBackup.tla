---------------------------- MODULE SQLiteBackup ----------------------------
(***************************************************************************)
(* internal/store/sqlite.go, Backup: a consistent snapshot of a database   *)
(* in use, made beside the destination, verified, and published with a     *)
(* link that fails when the destination exists.                            *)
(*                                                                         *)
(* Several `db backup` commands and other programs work in one directory.  *)
(* The database is abstracted to the number of its last commit, a file to  *)
(* what it holds: nothing, part of a snapshot, the snapshot of a commit or *)
(* something of another program.                                           *)
(***************************************************************************)
EXTENDS Integers, FiniteSets

CONSTANTS
    Command,        \* db backup processes
    Destination,    \* the file they all publish
    Temporary,      \* [Command -> its temporary file]; os.CreateTemp is unique
    MaxCommits      \* bound: commits to the database meanwhile

Absent  == [kind |-> "none", commit |-> 0]
Empty   == [kind |-> "empty", commit |-> 0]
Partial == [kind |-> "partial", commit |-> 0]
Foreign == [kind |-> "foreign", commit |-> 0]
Snapshot(n) == [kind |-> "snapshot", commit |-> n]

Name == {Destination} \cup {Temporary[c] : c \in Command}

ASSUME BackupAssumption ==
    /\ \A c, d \in Command :
          /\ Temporary[c] # Destination
          /\ Temporary[c] = Temporary[d] => c = d
    /\ MaxCommits \in Nat

VARIABLES
    commits,   \* commits of the database
    files,     \* [Name -> content]
    stage,        \* "start", "create", "vacuum", "writing", "verify", "publish",
               \* "remove", "returned", "dead"
    result,    \* "none", "ok", "exists", "failed"
    began      \* history: the last commit when the command began

backupVars == <<commits, files, stage, result, began>>

BackupInit ==
    /\ commits = 0
    /\ files \in {[n \in Name |-> IF n = Destination THEN x ELSE Absent] :
                    x \in {Absent, Foreign}}
    /\ stage = [c \in Command |-> "start"]
    /\ result = [c \in Command |-> "none"]
    /\ began = [c \in Command |-> 0]

Step(c, from, to) == stage[c] = from /\ stage' = [stage EXCEPT ![c] = to]
Return(c, r) == result' = [result EXCEPT ![c] = r]

\* Lstat: an existing destination ends the command before it does anything.
Inspect(c) ==
    /\ began' = [began EXCEPT ![c] = commits]
    /\ \/ /\ files[Destination] # Absent
          /\ Step(c, "start", "returned") /\ Return(c, "exists")
       \/ /\ files[Destination] = Absent
          /\ Step(c, "start", "create") /\ UNCHANGED result
    /\ UNCHANGED <<commits, files>>

CreateTemp(c) ==
    /\ \/ /\ Step(c, "create", "vacuum")
          /\ files' = [files EXCEPT ![Temporary[c]] = Empty]
          /\ UNCHANGED result
       \/ /\ Step(c, "create", "returned") /\ Return(c, "failed")
          /\ UNCHANGED files
    /\ UNCHANGED <<commits, began>>

\* The commits a snapshot may show.  Copying the database file instead would
\* miss what is in the WAL only.
SnapshotOf(c) == began[c]..commits

\* VACUUM INTO reads one snapshot and writes it page by page; the deferred
\* Remove runs on every way out from here on.
BeginVacuum(c) ==
    /\ Step(c, "vacuum", "writing")
    /\ files' = [files EXCEPT ![Temporary[c]] = Partial]
    /\ UNCHANGED <<commits, result, began>>

EndVacuum(c) ==
    /\ \/ /\ Step(c, "writing", "verify")
          /\ \E n \in SnapshotOf(c) :
                files' = [files EXCEPT ![Temporary[c]] = Snapshot(n)]
          /\ UNCHANGED result
       \/ /\ Step(c, "writing", "remove") /\ Return(c, "failed")
          /\ UNCHANGED files
    /\ UNCHANGED <<commits, began>>

\* The snapshot is opened read-only and checked; the disk may have let it down.
Unverified(x) == TRUE                         \* mutant of PassesCheck
PassesCheck(x) == x.kind = "snapshot"

Verify(c) ==
    /\ \/ /\ PassesCheck(files[Temporary[c]])
          /\ Step(c, "verify", "publish") /\ UNCHANGED result
       \/ /\ ~PassesCheck(files[Temporary[c]])
          /\ Step(c, "verify", "remove") /\ Return(c, "failed")
    /\ UNCHANGED <<commits, files, began>>

DiskFault(c) ==
    /\ stage[c] = "verify" /\ PassesCheck(files[Temporary[c]])
    /\ files' = [files EXCEPT ![Temporary[c]] = Partial]
    /\ UNCHANGED <<commits, stage, result, began>>

\* os.Link replaces nothing, as os.Rename would.
Linkable == files[Destination] = Absent

Publish(c) ==
    /\ \/ /\ Linkable
          /\ files' = [files EXCEPT ![Destination] = files[Temporary[c]]]
          /\ Return(c, "ok")
       \/ /\ ~Linkable
          /\ Return(c, "exists")
          /\ UNCHANGED files
       \/ /\ files[Destination] = Absent       \* the file system has no links
          /\ Return(c, "failed")
          /\ UNCHANGED files
    /\ Step(c, "publish", "remove")
    /\ UNCHANGED <<commits, began>>

LeaveTemporary(c) == files                    \* mutant of Removed
Removed(c) == [files EXCEPT ![Temporary[c]] = Absent]

Remove(c) ==
    /\ Step(c, "remove", "returned")
    /\ files' = Removed(c)
    /\ UNCHANGED <<commits, result, began>>

Die(c) ==
    /\ stage[c] \notin {"start", "returned", "dead"}
    /\ stage' = [stage EXCEPT ![c] = "dead"]
    /\ UNCHANGED <<commits, files, result, began>>

\* The service commits; another program creates or removes the destination.
CommitDatabase ==
    /\ commits < MaxCommits
    /\ commits' = commits + 1
    /\ UNCHANGED <<files, stage, result, began>>

ForeignFile ==
    /\ files' = [files EXCEPT ![Destination] = Foreign]
    /\ files[Destination] = Absent
    /\ UNCHANGED <<commits, stage, result, began>>

RemoveDestination ==
    /\ files[Destination] # Absent
    /\ files' = [files EXCEPT ![Destination] = Absent]
    /\ UNCHANGED <<commits, stage, result, began>>

Backup(c) ==
    \/ Inspect(c) \/ CreateTemp(c) \/ BeginVacuum(c) \/ EndVacuum(c)
    \/ Verify(c) \/ Publish(c) \/ Remove(c)

BackupNext ==
    \/ CommitDatabase \/ ForeignFile \/ RemoveDestination
    \/ \E c \in Command : Backup(c) \/ DiskFault(c) \/ Die(c)

BackupSpec == BackupInit /\ [][BackupNext]_backupVars

-----------------------------------------------------------------------------
Content == {Absent, Empty, Partial, Foreign} \cup {Snapshot(n) : n \in 0..MaxCommits}

\* Files and commands keep their types; only a command at work or dead leaves
\* a temporary file behind.
BackupTypeOK ==
    /\ commits \in 0..MaxCommits
    /\ files \in [Name -> Content]
    /\ stage \in [Command -> {"start", "create", "vacuum", "writing", "verify",
                           "publish", "remove", "returned", "dead"}]
    /\ result \in [Command -> {"none", "ok", "exists", "failed"}]
    /\ \A c \in Command :
          stage[c] \in {"start", "returned"} => files[Temporary[c]] = Absent

\* Whatever other commands, other programs and crashes do meanwhile, a backup
\* changes the destination in one step only, from nothing to a verified
\* snapshot of a commit the database had while the command ran: it never shows
\* an empty or partial file and never replaces one that appeared meanwhile.
PublishesRecentSnapshots ==
    [][files'[Destination] = files[Destination]
       \/ files'[Destination] \in {Absent, Foreign}
       \/ \E c \in Command :
             /\ stage[c] = "publish" /\ result'[c] = "ok"
             /\ files[Destination] = Absent
             /\ files'[Destination] \in {Snapshot(n) : n \in began[c]..commits}]_backupVars
=============================================================================
