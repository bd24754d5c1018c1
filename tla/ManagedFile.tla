----------------------------- MODULE ManagedFile -----------------------------
(***************************************************************************)
(* internal/serversetup/atomic.go: the replacement of one managed file,    *)
(* its rollback from the backup and its commit.  A run is one setup        *)
(* transaction with a "replace" change for the file.  Every write goes to  *)
(* a temporary file of the same directory (createDurableTemp), which is    *)
(* renamed over the target before the directory is synced.                 *)
(*                                                                         *)
(* What a reader sees now (dir, file) is kept apart from what the disk may *)
(* hold after a crash (dirs, disk).  Directory operations reach the disk   *)
(* in the order they were issued (a journaled file system); the content    *)
(* and the metadata of a file reach it at any time, and for certain only   *)
(* at an fsync of that file.                                               *)
(***************************************************************************)
EXTENDS Integers

CONSTANT MaxRuns    \* bound on the number of transactions started

ASSUME MaxRunsAssumption == MaxRuns \in Nat \ {0}

Purposes == {"backup", "replacement", "restore"}
TempFiles == Purposes \X (1..MaxRuns)  \* os.CreateTemp: a fresh name every time
Original == <<"original", 0>>          \* the file the first run finds
Absent == <<"absent", 0>>
Files == TempFiles \cup {Original}

Values == [content: {"empty", "old", "new"}, meta: {"temp", "old", "new"}]
Fresh == [content |-> "empty", meta |-> "temp"]    \* also a torn or half-written file
Compiled == [content |-> "new", meta |-> "new"]    \* ManagedFileSpec
Nothing == [content |-> "empty", meta |-> "old"]   \* stands for "no file"

Dirs == [target: Files \cup {Absent}, temps: SUBSET TempFiles]

VARIABLES
    dir,      \* the parent directory: the target's file and the temporary files
    dirs,     \* the directories a crash may leave, dir among them
    file,     \* the value of every file, as read now
    disk,     \* the values a crash may leave each file with
    pc,       \* the stage of the run
    purpose,  \* the temporary file being written
    backup,   \* fileBackup: had an original (and so a backup path), installed
    outcome,  \* how the last run ended
    tx        \* the run's number and history: what it found, whether it got to
              \* its commit, which temporary files could not be removed

vars == <<dir, dirs, file, disk, pc, purpose, backup, outcome, tx>>

Temp == <<purpose, tx.run>>
Backup == <<"backup", tx.run>>
NoBackup == [hadOriginal |-> FALSE, replacementInstalled |-> FALSE]

\* What a reader of the target sees.
Seen == IF dir.target = Absent THEN Nothing ELSE file[dir.target]

\* The directory, the files and the transaction hold what the code can put there.
TypeOK ==
    /\ dir \in Dirs /\ dirs \subseteq Dirs /\ dir \in dirs
    /\ file \in [Files -> Values]
    /\ disk \in [Files -> SUBSET Values]
    /\ pc \in {"idle", "inspect", "create", "write", "sync", "metadata", "rename",
               "syncdir", "installed", "rollback", "commit", "commitSync"}
    /\ purpose \in Purposes
    /\ backup \in [hadOriginal: BOOLEAN, replacementInstalled: BOOLEAN]
    /\ outcome \in {"none", "committed", "untouched", "restored", "unrestored"}
    /\ tx \in [run: 0..MaxRuns, begin: Values, committing: BOOLEAN, stuck: SUBSET TempFiles]

Init ==
    /\ dir \in [target: {Original, Absent}, temps: {{}}] /\ dirs = {dir}
    /\ file = [f \in Files |-> IF f = Original THEN [content |-> "old", meta |-> "old"]
                                               ELSE Fresh]
    /\ disk = [f \in Files |-> {file[f]}]
    /\ pc = "idle" /\ purpose = "backup" /\ backup = NoBackup /\ outcome = "none"
    /\ tx = [run |-> 0, begin |-> Nothing, committing |-> FALSE, stuck |-> {}]

-----------------------------------------------------------------------------
SetDir(d) == dir' = d /\ dirs' = dirs \cup {d}

\* fsync of the directory: nothing older can come back.
SyncDirectory_Skipped == dir' = dir /\ dirs' = dirs    \* mutant: no fsync
SyncDirectory == dir' = dir /\ dirs' = {dir}

KeepDir == UNCHANGED <<dir, dirs>>
KeepFiles == UNCHANGED <<file, disk>>
Goto(p) == pc' = p /\ UNCHANGED outcome
End(o) == pc' = "idle" /\ outcome' = o

HasUndo == backup.hadOriginal \/ backup.replacementInstalled

Fail_NamesStage == End(pc)    \* mutant: the stage itself is the outcome

\* The error returns.  The transaction has an undo to run, and runs it, if a
\* backup was made or the replacement installed; an error while restoring is
\* the error of the rollback.
Fail ==
    \/ purpose = "restore" /\ End("unrestored")
    \/ purpose # "restore" /\ HasUndo /\ Goto("rollback")
    \/ purpose # "restore" /\ ~HasUndo /\ End("untouched")

-----------------------------------------------------------------------------
(* ReplaceManagedFile. *)

\* A transaction plans "replace" only for a file that does not conform.
StartRun ==
    /\ pc = "idle" /\ tx.run < MaxRuns /\ Seen # Compiled
    /\ tx' = [run |-> tx.run + 1, begin |-> Seen, committing |-> FALSE, stuck |-> {}]
    /\ backup' = NoBackup /\ outcome' = "none" /\ pc' = "inspect" /\ purpose' = "backup"
    /\ KeepDir /\ KeepFiles

\* The confinement check, Lstat and ReadFile of the target.
Inspect ==
    /\ pc = "inspect"
    /\ \/ /\ purpose' = IF dir.target = Absent THEN "replacement" ELSE "backup"
          /\ Goto("create")
       \/ Fail /\ UNCHANGED purpose
    /\ KeepDir /\ KeepFiles /\ UNCHANGED <<backup, tx>>

\* What createDurableTemp is asked to write: a copy of the target, the
\* compiled file, or a copy of the backup.
Wanted_CompiledMeta ==    \* mutant: a restored file gets the compiled mode and owner
    CASE purpose = "backup"      -> file[dir.target]
      [] purpose = "replacement" -> Compiled
      [] purpose = "restore"     -> [file[Backup] EXCEPT !.meta = Compiled.meta]

Wanted ==
    CASE purpose = "backup"      -> file[dir.target]
      [] purpose = "replacement" -> Compiled
      [] purpose = "restore"     -> file[Backup]

CreateTemp ==
    /\ pc = "create"
    /\ \/ SetDir([dir EXCEPT !.temps = @ \cup {Temp}]) /\ Goto("write")
       \/ Fail /\ KeepDir
    /\ KeepFiles /\ UNCHANGED <<purpose, backup, tx>>

WriteTemp ==
    /\ pc = "write"
    /\ file' = [file EXCEPT ![Temp].content = Wanted.content]
    /\ disk' = [disk EXCEPT ![Temp] = @ \cup {file'[Temp]}]
    /\ Goto("sync")
    /\ KeepDir /\ UNCHANGED <<purpose, backup, tx>>

SyncTemp_Skipped ==    \* mutant: no fsync before the rename
    pc = "sync" /\ Goto("metadata") /\ KeepDir /\ KeepFiles /\ UNCHANGED <<purpose, backup, tx>>

SyncTemp ==
    /\ pc = "sync"
    /\ disk' = [disk EXCEPT ![Temp] = {file[Temp]}]
    /\ Goto("metadata")
    /\ KeepDir /\ UNCHANGED <<file, purpose, backup, tx>>

\* Chmod and chown, after the fsync; then close, and createDurableTemp returns.
SetMetadata ==
    /\ pc = "metadata"
    /\ file' = [file EXCEPT ![Temp].meta = Wanted.meta]
    /\ disk' = [disk EXCEPT ![Temp] = @ \cup {file'[Temp]}]
    /\ IF purpose = "backup"
       THEN /\ backup' = [backup EXCEPT !.hadOriginal = TRUE]
            /\ purpose' = "replacement" /\ Goto("create")
       ELSE Goto("rename") /\ UNCHANGED <<backup, purpose>>
    /\ KeepDir /\ UNCHANGED tx

\* Any stage after the creation may fail: the temporary file is removed, and
\* an error of that removal is ignored.
StageFails_LeavesTemp ==    \* mutant: no clean-up when the rename fails
    /\ pc \in {"write", "sync", "metadata", "rename"} /\ Fail
    /\ IF pc = "rename" THEN KeepDir ELSE SetDir([dir EXCEPT !.temps = @ \ {Temp}])
    /\ KeepFiles /\ UNCHANGED <<purpose, backup, tx>>

StageFails ==
    /\ pc \in {"write", "sync", "metadata", "rename"}
    /\ Fail
    /\ \/ SetDir([dir EXCEPT !.temps = @ \ {Temp}]) /\ UNCHANGED tx
       \/ tx' = [tx EXCEPT !.stuck = @ \cup {Temp}] /\ KeepDir
    /\ KeepFiles /\ UNCHANGED <<purpose, backup>>

Rename_DropsBackup ==    \* mutant: the backup goes as soon as the file is replaced
    /\ pc = "rename" /\ Goto("syncdir")
    /\ SetDir([target |-> Temp, temps |-> dir.temps \ {Temp, Backup}])
    /\ KeepFiles /\ UNCHANGED <<purpose, backup, tx>>

Rename ==
    /\ pc = "rename"
    /\ SetDir([target |-> Temp, temps |-> dir.temps \ {Temp}])
    /\ backup' = [backup EXCEPT !.replacementInstalled = @ \/ purpose = "replacement"]
    /\ Goto("syncdir")
    /\ KeepFiles /\ UNCHANGED <<purpose, tx>>

SyncDir ==
    /\ pc = "syncdir"
    /\ \/ /\ SyncDirectory
          /\ IF purpose = "restore" THEN End("restored") ELSE Goto("installed")
       \/ Fail /\ KeepDir
    /\ KeepFiles /\ UNCHANGED <<purpose, backup, tx>>

-----------------------------------------------------------------------------
(* The transaction commits after every change verified, and rolls back       *)
(* after a failure of another change or of the verification.                 *)

Decide ==
    /\ pc = "installed"
    /\ \E p \in {"commit", "rollback"} :
          Goto(p) /\ tx' = [tx EXCEPT !.committing = (p = "commit")]
    /\ KeepDir /\ KeepFiles /\ UNCHANGED <<purpose, backup>>

\* CommitManagedFile, first half: remove the backup, if the run has one.
CommitRemove ==
    /\ pc = "commit"
    /\ \/ ~backup.hadOriginal /\ End("committed") /\ KeepDir
       \/ /\ backup.hadOriginal
          /\ \/ SetDir([dir EXCEPT !.temps = @ \ {Backup}]) /\ Goto("commitSync")
             \/ KeepDir /\ Goto("rollback")
    /\ KeepFiles /\ UNCHANGED <<purpose, backup, tx>>

\* CommitManagedFile, second half; an error makes executeMutation roll back.
CommitSync ==
    /\ pc = "commitSync"
    /\ \/ SyncDirectory /\ End("committed")
       \/ KeepDir /\ Goto("rollback")
    /\ KeepFiles /\ UNCHANGED <<purpose, backup, tx>>

\* RollbackManagedFile: without an original remove the target, otherwise read
\* the backup and write it to a durable temporary file.
Rollback ==
    /\ pc = "rollback"
    /\ purpose' = "restore"
    /\ \/ /\ ~backup.hadOriginal
          /\ SetDir([dir EXCEPT !.target = Absent]) /\ Goto("syncdir")
       \/ /\ backup.hadOriginal /\ Backup \in dir.temps
          /\ KeepDir /\ Goto("create")
       \/ KeepDir /\ End("unrestored")
    /\ KeepFiles /\ UNCHANGED <<backup, tx>>

\* The machine or the process dies: the run is over and the disk decides.  No
\* run reads a temporary file of another, so only the target's value is kept.
Crash ==
    /\ pc # "idle"
    /\ \E d \in dirs :
          /\ dir' = d /\ dirs' = {d}
          /\ \E v \in IF d.target = Absent THEN {Fresh} ELSE disk[d.target] :
                file' = [n \in Files |-> IF n = d.target THEN v ELSE Fresh]
    /\ disk' = [n \in Files |-> {file'[n]}]
    /\ End("none")
    /\ UNCHANGED <<purpose, backup, tx>>

Next ==
    \/ StartRun \/ Inspect \/ CreateTemp \/ WriteTemp \/ SyncTemp \/ SetMetadata
    \/ StageFails \/ Rename \/ SyncDir \/ Decide \/ CommitRemove \/ CommitSync
    \/ Rollback \/ Crash

Spec == Init /\ [][Next]_vars

-----------------------------------------------------------------------------
Linked(d) == {d.target} \cup d.temps

\* Whatever the moment of a crash, the target is never a torn, empty or
\* half-written file, and a target that existed never disappears: the renames
\* of ReplaceManagedFile and RollbackManagedFile come only after the fsync.
TargetWhole ==
    \A d \in dirs :
        /\ d.target # Absent => \A v \in disk[d.target] : v.content # "empty"
        /\ d.target = Absent => tx.begin = Nothing

\* Until the commit begins, every crash leaves a complete copy of what the
\* target held when the run began, in the target or in a temporary file: the
\* backup is durable before the rename and nothing else removes it.  Once it
\* has begun there is none: CommitManagedFile removes the backup before it can
\* still fail (atomic.go:188-191).
OriginalRecoverable ==
    pc # "idle" /\ tx.begin # Nothing /\ ~tx.committing =>
        \A d \in dirs : \E f \in Linked(d) : \A v \in disk[f] : v.content = tx.begin.content

\* A rollback that reports success has put back the content, the mode and the
\* owner the run found (or the absence of the file), and no crash after it
\* brings another content back.
RestoredIsOriginal ==
    outcome = "restored" =>
        /\ Seen = tx.begin
        /\ \A d \in dirs : IF d.target = Absent THEN tx.begin = Nothing
                           ELSE \A v \in disk[d.target] : v.content = tx.begin.content

\* A commit that reports success survives any crash: the directory was synced
\* after the rename, and the backup is gone.  That is said of the content: mode
\* and owner are set after the fsync (atomic.go:226-242).
CommittedIsDurable ==
    outcome = "committed" =>
        \A d \in dirs : /\ d.target = <<"replacement", tx.run>>
                        /\ \A v \in disk[d.target] : v.content = Compiled.content
                        /\ Backup \notin d.temps

\* A run that ended, in whatever way but a crash, leaves no write or restore
\* file behind, and no backup of a target it did not touch, unless the
\* removal itself failed.
NoOrphans ==
    pc = "idle" /\ outcome # "none" =>
        \A p \in Purposes :
            /\ <<p, tx.run>> \in dir.temps
            /\ p = "backup" => outcome = "untouched"
            => <<p, tx.run>> \in tx.stuck
=============================================================================
