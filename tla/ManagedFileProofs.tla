-------------------------- MODULE ManagedFileProofs --------------------------
(***************************************************************************)
(* The properties of ManagedFile, for any number of transactions, each of  *)
(* which may fail at any stage, or die there with the machine.             *)
(***************************************************************************)
EXTENDS ManagedFile, TLAPS

\* The file that this run writes for a purpose; a file is being made.
Own(p) == <<p, tx.run>>
Stage == pc \in {"create", "write", "sync", "metadata", "rename"}
Open == pc \in {"write", "sync", "metadata", "rename"}

\* No crash changes the content of the file, and there is one.
Durable(f) == file[f].content # "empty" /\ \A v \in disk[f] : v.content = file[f].content

\* The files of a directory that no run is writing: its target, the backups of
\* earlier runs, and that of this run once it is complete.
Kept(d) ==
  {d.target} \cup {f \in d.temps : f[1] = "backup" /\ (f[2] < tx.run \/ backup.hadOriginal)}

\* Whatever directory a crash leaves, it has the content of b.
Recover(b) ==
  b # Nothing => \A d \in dirs :
    d.target # Absent /\ \E f \in Kept(d) : \A v \in disk[f] : v.content = b.content

\* The names of a run are its own, and no target is a backup.
NamesInv ==
  \A d \in dirs :
    /\ d.target[2] <= tx.run /\ d.target[1] # "backup"
    /\ \A f \in d.temps : f[2] <= tx.run
    /\ pc # "idle" /\ d.target = Own("replacement") => backup.replacementInstalled
    /\ pc # "idle" /\ d.target = Own("restore") => pc = "syncdir" /\ purpose = "restore"

\* No crash tears a target, or removes one that was there.
WholeInv ==
  \A d \in dirs : /\ d.target # Absent => Durable(d.target)
                  /\ d.target = Absent => tx.begin = Nothing

\* What a transaction found is no torn file.
BeginInv == tx.begin # Nothing => tx.begin.content # "empty"

\* Until something is renamed, the target is what the transaction found.
BeforeInv ==
  pc = "inspect" \/ (Stage /\ purpose # "restore") =>
    /\ Seen = tx.begin /\ ~backup.replacementInstalled /\ ~tx.committing
    /\ pc = "inspect" => purpose = "backup" /\ ~backup.hadOriginal
    /\ purpose = "backup" /\ Stage => dir.target # Absent /\ ~backup.hadOriginal
    /\ purpose = "replacement" => backup.hadOriginal \/ dir.target = Absent

\* A backup is complete, and is there until it is committed.
BackupInv ==
  pc # "idle" /\ backup.hadOriginal =>
    /\ tx.begin # Nothing /\ file[Backup] = tx.begin /\ Durable(Backup)
    /\ ~tx.committing => Backup \in dir.temps

\* What is being written.
Goal == IF purpose = "replacement" THEN Compiled ELSE tx.begin

\* How far it has come: written, synced, with its metadata.
WrittenInv ==
  /\ Open => Temp \in dir.temps
  /\ pc = "sync" => file[Temp].content = Goal.content
  /\ pc = "metadata" => file[Temp].content = Goal.content /\ disk[Temp] = {file[Temp]}
  /\ pc = "rename" => file[Temp] = Goal /\ Durable(Temp) /\ purpose # "backup"

Replaced == dir.target = Own("replacement") /\ backup.replacementInstalled

\* What was replaced, committed, or is to be restored.
AfterInv ==
  /\ pc # "idle" /\ backup.replacementInstalled => file[Own("replacement")] = Compiled
  /\ pc = "syncdir" /\ purpose # "restore" => Replaced /\ purpose = "replacement"
  /\ pc = "rollback" => purpose = "replacement"
  /\ pc \in {"commit", "commitSync"} => tx.committing
  /\ pc \in {"installed", "commit", "commitSync"} =>
        /\ purpose = "replacement" /\ backup.replacementInstalled
        /\ \A d \in dirs : d.target = Own("replacement")
  /\ pc \in {"installed", "commit"} => dirs = {dir}
  /\ pc = "commitSync" => backup.hadOriginal /\ Backup \notin dir.temps
  /\ pc = "rollback" \/ (Stage /\ purpose = "restore") =>
        Replaced \/ (Seen = tx.begin /\ ~tx.committing)
  /\ Stage /\ purpose = "restore" => backup.hadOriginal /\ Backup \in dir.temps
  /\ pc = "syncdir" /\ purpose = "restore" =>
        IF backup.hadOriginal
        THEN dir.target = Own("restore") /\ file[dir.target] = tx.begin /\ Backup \in dir.temps
        ELSE dir.target = Absent
  /\ pc \in {"syncdir", "installed", "commit", "rollback"} /\ ~backup.hadOriginal =>
        tx.begin = Nothing
  /\ pc \notin {"idle", "commit", "commitSync", "rollback"} /\ purpose # "restore" =>
        ~tx.committing

\* Every crash leaves what was found, until its backup is removed.
RecoverInv ==
  /\ pc = "idle" /\ Seen # Compiled => Recover(Seen)
  /\ pc # "idle" /\ (~tx.committing \/ ~backup.hadOriginal \/ Backup \in dir.temps) =>
        Recover(tx.begin)

\* Which files of its own a run may have left in any directory.
LinkInv ==
  pc # "idle" => \A d \in dirs :
    /\ pc = "inspect" => Own("backup") \notin d.temps
    /\ Own("restore") \in d.temps => purpose = "restore"
    /\ Own("backup") \in d.temps => purpose = "backup" \/ backup.hadOriginal

\* Such a file is being written, or its removal failed, or it is the backup.
OrphanInv ==
  pc # "idle" => \A p \in Purposes :
    Own(p) \in dir.temps /\ (p = "backup" => ~backup.hadOriginal) =>
      Own(p) \in tx.stuck \/ (purpose = p /\ Open)

\* A transaction that is over, and one that is not.
EndInv == pc = "idle" => RestoredIsOriginal /\ CommittedIsDurable /\ NoOrphans
MidInv == pc # "idle" => outcome = "none" /\ tx.run # 0

IInv ==
  /\ TypeOK /\ NamesInv /\ WholeInv /\ BeginInv
  /\ BeforeInv /\ BackupInv /\ WrittenInv /\ AfterInv
  /\ RecoverInv /\ LinkInv /\ OrphanInv
  /\ EndInv /\ MidInv

USE DEF Open

-----------------------------------------------------------------------------
(* Names. *)

\* The names of the files of this run are files, and differ.
LEMMA OwnNames ==
  ASSUME TypeOK, tx.run # 0
  PROVE  /\ \A p \in Purposes : Own(p) \in TempFiles /\ Own(p) \in Files
         /\ \A p \in Purposes : Own(p) # Original /\ Own(p) # Absent
         /\ \A p \in Purposes : Own(p)[1] = p /\ Own(p)[2] = tx.run
         /\ Temp = Own(purpose) /\ Backup = Own("backup") /\ purpose \in Purposes
<1>1. tx.run \in 1..MaxRuns /\ purpose \in Purposes
  BY MaxRunsAssumption DEF TypeOK
<1> QED
  BY <1>1 DEF Own, TempFiles, Files, Purposes, Original, Absent, Temp, Backup

\* A transaction that is not over has a number.
LEMMA Running == ASSUME IInv, pc # "idle" PROVE tx.run # 0 /\ TypeOK
  BY DEF IInv, MidInv

\* A file that is being written is no target and no backup to count on.
LEMMA TempUnused ==
  ASSUME IInv, Stage
  PROVE  /\ \A d \in dirs : d.target # Temp /\ Temp \notin Kept(d)
         /\ backup.hadOriginal => Temp # Backup
         /\ backup.replacementInstalled => Temp # Own("replacement")
         /\ Temp \in TempFiles /\ Temp \in Files /\ Temp # Absent
<1>1. pc # "idle" /\ pc # "syncdir"
  BY DEF Stage
<1>2. tx.run # 0 /\ TypeOK
  BY <1>1, Running
<1>3. Temp = Own(purpose) /\ purpose \in Purposes /\ Backup = Own("backup")
  BY <1>2, OwnNames
<1>4. purpose = "backup" => ~backup.hadOriginal
  BY DEF IInv, BeforeInv, Stage
<1>5. backup.replacementInstalled => purpose = "restore"
  BY DEF IInv, BeforeInv, Stage
<1>6. \A d \in dirs : d.target # Temp
  BY <1>1, <1>2, <1>3, <1>5, OwnNames DEF IInv, NamesInv, Purposes, Own
<1>7. \A d \in dirs : Temp \notin Kept(d)
  BY <1>2, <1>3, <1>4, <1>6, OwnNames DEF Kept, Purposes, TypeOK
<1>8. purpose # "backup" => Temp # Backup
  BY <1>2, <1>3 DEF Own
<1>9. purpose # "replacement" => Temp # Own("replacement")
  BY <1>3 DEF Own
<1> QED
  BY <1>2, <1>3, <1>4, <1>5, <1>6, <1>7, <1>8, <1>9, OwnNames

\* What a crash may leave is made of files, but for the absent target.
LEMMA KeptAreFiles ==
  ASSUME TypeOK, NEW d \in dirs, NEW f \in Kept(d), f # Absent
  PROVE  f \in Files
  BY DEF TypeOK, Kept, Dirs, Files

\* What the code writes is what the transaction wants.
LEMMA WantedIsGoal ==
  ASSUME IInv, Stage
  PROVE  Wanted = Goal /\ Wanted \in Values /\ Wanted.content # "empty"
<1>1. CASE purpose = "backup"
  BY <1>1 DEF IInv, BeforeInv, BeginInv, TypeOK, Wanted, Goal, Seen, Nothing, Values,
        WholeInv, Durable
<1>2. CASE purpose = "replacement"
  BY <1>2 DEF Wanted, Goal, Compiled, Values
<1>3. CASE purpose = "restore"
  BY <1>3 DEF IInv, AfterInv, BackupInv, BeginInv, TypeOK, Wanted, Goal, Stage
<1> QED
  BY <1>1, <1>2, <1>3 DEF IInv, TypeOK, Purposes

-----------------------------------------------------------------------------
(* The stages that write. *)

\* What such a stage may touch.
WritesTemp ==
  /\ UNCHANGED <<dir, dirs, outcome, tx>>
  /\ \A f \in Files : f # Temp => file'[f] = file[f] /\ disk'[f] = disk[f]

\* A stage that writes begins in a state that can be recovered.
LEMMA StageRecovers == ASSUME IInv, Stage PROVE Recover(tx.begin)
<1>1. pc # "idle" /\ (~tx.committing \/ Backup \in dir.temps)
  BY DEF IInv, BeforeInv, AfterInv, Stage
<1> QED
  BY <1>1 DEF IInv, RecoverInv

\* A step that keeps the files, and what is kept of every directory.
LEMMA RecoverKept ==
  ASSUME NEW b, Recover(b), disk' = disk,
         \A d \in dirs' : \E e \in dirs : d.target = e.target /\ Kept(e) \subseteq Kept(d)'
  PROVE  Recover(b)'
<1> SUFFICES ASSUME b # Nothing, NEW d \in dirs'
             PROVE  d.target # Absent /\
                      \E f \in Kept(d)' : \A v \in disk'[f] : v.content = b.content
  BY DEF Recover
<1>1. PICK e \in dirs : d.target = e.target /\ Kept(e) \subseteq Kept(d)'
  OBVIOUS
<1>2. e.target # Absent /\ \E f \in Kept(e) : \A v \in disk[f] : v.content = b.content
  BY DEF Recover
<1> QED
  BY <1>1, <1>2

\* Writing another file does not change the target.
LEMMA SeenSame == ASSUME IInv, Stage, WritesTemp PROVE Seen' = Seen
<1>1. dir \in dirs /\ dir.target # Temp /\ (dir.target # Absent => dir.target \in Files)
  BY TempUnused DEF IInv, TypeOK, Dirs
<1> QED
  BY <1>1 DEF WritesTemp, Seen

\* Nor does it tear a target.
LEMMA WriteKeepsWhole == ASSUME IInv, Stage, WritesTemp PROVE WholeInv'
<1>1. ASSUME NEW d \in dirs, d.target # Absent PROVE Durable(d.target)'
  <2>1. d.target \in Files /\ d.target # Temp
    BY <1>1, TempUnused DEF IInv, TypeOK, Dirs
  <2>2. file'[d.target] = file[d.target] /\ disk'[d.target] = disk[d.target]
    BY <2>1 DEF WritesTemp
  <2>3. Durable(d.target)
    BY <1>1 DEF IInv, WholeInv
  <2> QED
    BY <2>2, <2>3 DEF Durable
<1>2. dirs' = dirs /\ tx' = tx
  BY DEF WritesTemp
<1> QED
  BY <1>1, <1>2 DEF WholeInv, IInv

\* Nor does it lose what was found.
LEMMA WriteKeepsRecover ==
  ASSUME IInv, Stage, WritesTemp, pc' # "idle", backup.hadOriginal => backup'.hadOriginal,
         backup'.hadOriginal /\ ~backup.hadOriginal => Backup = Temp
  PROVE  RecoverInv'
<1>1. pc # "idle" /\ TypeOK
  BY DEF Stage, IInv
<1>2. dirs' = dirs /\ dir' = dir /\ tx' = tx /\ Backup' = Backup
  BY DEF WritesTemp, Backup
<1>3. ASSUME Recover(tx.begin) PROVE Recover(tx.begin)'
  <2>1. ASSUME NEW d \in dirs, tx.begin # Nothing
        PROVE  d.target # Absent /\
                 \E f \in Kept(d)' : \A v \in disk'[f] : v.content = tx.begin.content
    <3>1. PICK f \in Kept(d) : \A v \in disk[f] : v.content = tx.begin.content
      BY <1>3, <2>1 DEF Recover
    <3>2. d.target # Absent
      BY <1>3, <2>1 DEF Recover
    <3>3. f \in Files /\ f # Temp
      BY <1>1, <3>2, TempUnused DEF Kept, TypeOK, Dirs, Files
    <3>4. f \in Kept(d)'
      BY <1>2, <3>1 DEF Kept
    <3> QED
      BY <3>1, <3>2, <3>3, <3>4 DEF WritesTemp
  <2> QED
    BY <1>2, <2>1 DEF Recover
<1>4. ~tx.committing
      \/ Backup \in dir.temps \/ ~backup.hadOriginal => Recover(tx.begin)
  BY <1>1 DEF IInv, RecoverInv
<1>5. ~backup.hadOriginal /\ backup'.hadOriginal => ~tx.committing
  BY TempUnused DEF IInv, BeforeInv, AfterInv, Stage
<1>6. ~tx'.committing \/ ~backup'.hadOriginal \/ Backup' \in dir'.temps => Recover(tx.begin)
  BY <1>1, <1>2, <1>4, <1>5 DEF IInv, RecoverInv
<1> QED
  BY <1>2, <1>3, <1>6 DEF RecoverInv

-----------------------------------------------------------------------------
(* The steps. *)

\* Before the first transaction there is a whole target, or none.
LEMMA InitHolds == Init => IInv
<1> SUFFICES ASSUME Init PROVE IInv
  OBVIOUS
<1>1. TypeOK
  <2>1. dir \in Dirs /\ dirs \subseteq Dirs /\ dir \in dirs
    BY DEF Init, Dirs, Files
  <2>2. file \in [Files -> Values]
    BY DEF Init, Values, Fresh
  <2>3. disk \in [Files -> SUBSET Values]
    BY <2>2 DEF Init
  <2>4. tx \in [run: 0..MaxRuns, begin: Values, committing: BOOLEAN, stuck: SUBSET TempFiles]
    BY MaxRunsAssumption DEF Init, Values, Nothing
  <2> QED
    BY <2>1, <2>2, <2>3, <2>4 DEF Init, TypeOK, Purposes, NoBackup
<1>2. NamesInv
  <2>1. dirs = {dir} /\ dir.target \in {Original, Absent} /\ dir.temps = {} /\ tx.run = 0 /\
          pc = "idle"
    BY DEF Init
  <2>2. dir.target[1] # "backup" /\ dir.target[2] = 0
    BY <2>1 DEF Original, Absent
  <2> QED
    BY <2>1, <2>2 DEF NamesInv
<1>3. WholeInv
  BY DEF Init, WholeInv, Durable, Fresh, Nothing, Absent, Original, Files, TempFiles
<1>4. BeginInv
  BY DEF Init, BeginInv, Fresh, Nothing
<1>5. BeforeInv
  BY DEF Init, BeforeInv, Stage
<1>6. BackupInv
  BY DEF Init, BackupInv
<1>7. WrittenInv
  BY DEF Init, WrittenInv
<1>8. AfterInv
  BY DEF Init, AfterInv, Stage
<1>9. RecoverInv
  BY DEF Init, RecoverInv, Recover, Kept, Seen, Fresh, Nothing, Absent, Original, Files,
        TempFiles
<1>10. LinkInv
  BY DEF Init, LinkInv
<1>11. OrphanInv
  BY DEF Init, OrphanInv
<1>12. EndInv
  BY DEF Init, EndInv, RestoredIsOriginal, CommittedIsDurable, NoOrphans
<1>13. MidInv
  BY DEF Init, MidInv
<1> QED
  BY <1>1, <1>2, <1>3, <1>4, <1>5, <1>6, <1>7, <1>8, <1>9, <1>10, <1>11, <1>12, <1>13
        DEF IInv

\* A transaction begins, on whatever the last one left.
LEMMA StartRunKeeps == ASSUME IInv, StartRun PROVE IInv'
<1>1. TypeOK'
  BY MaxRunsAssumption DEF IInv, StartRun, KeepDir, KeepFiles, TypeOK, Dirs, Purposes,
        Original, Absent, Values, Seen, Nothing, NoBackup
<1>2. NamesInv'
  BY DEF IInv, StartRun, KeepDir, KeepFiles, TypeOK, NamesInv, Own, Original, Absent, Files,
        TempFiles, Dirs
<1>3. WholeInv'
  BY DEF IInv, StartRun, KeepDir, KeepFiles, WholeInv, AfterInv, RecoverInv, Durable,
        Recover
<1>4. BeginInv'
  BY DEF IInv, StartRun, TypeOK, WholeInv, BeginInv, Durable, Seen
<1>5. BeforeInv'
  BY DEF IInv, StartRun, KeepDir, KeepFiles, BeforeInv, Stage, Seen, Absent, Nothing,
        NoBackup, TypeOK
<1>6. BackupInv'
  BY DEF IInv, StartRun, KeepFiles, BackupInv, Nothing, Absent, NoBackup, TypeOK
<1>7. WrittenInv'
  BY DEF IInv, StartRun, KeepFiles, WrittenInv
<1>8. AfterInv'
  BY DEF IInv, StartRun, KeepFiles, AfterInv, Absent, Nothing, NoBackup, TypeOK
<1>9. RecoverInv'
  BY DEF IInv, StartRun, KeepDir, KeepFiles, TypeOK, NamesInv, RecoverInv, Kept, Recover,
        TempFiles, Dirs
<1>10. LinkInv'
  BY DEF IInv, StartRun, KeepDir, KeepFiles, TypeOK, NamesInv, LinkInv, Own
<1>11. OrphanInv'
  BY DEF IInv, StartRun, KeepDir, KeepFiles, TypeOK, NamesInv, OrphanInv, Own, Purposes
<1>12. EndInv'
  BY DEF IInv, StartRun, KeepFiles, EndInv, Absent, Nothing, CommittedIsDurable, NoOrphans
<1>13. MidInv'
  BY DEF IInv, StartRun, KeepFiles, MidInv, Absent, Nothing, TypeOK
<1> QED
  BY <1>1, <1>2, <1>3, <1>4, <1>5, <1>6, <1>7, <1>8, <1>9, <1>10, <1>11, <1>12, <1>13
        DEF IInv

\* It looks at the target.
LEMMA InspectKeeps == ASSUME IInv, Inspect PROVE IInv'
<1>1. TypeOK'
  BY DEF IInv, Inspect, Goto, Fail, End, KeepDir, KeepFiles, TypeOK, Purposes, Original,
        Absent
<1>2. NamesInv'
  BY DEF IInv, Inspect, Goto, KeepDir, KeepFiles, NamesInv, Own
<1>3. WholeInv'
  BY DEF IInv, Inspect, Goto, KeepDir, KeepFiles, WholeInv, Absent, Durable, Nothing
<1>4. BeginInv'
  BY DEF IInv, Inspect, Goto, KeepFiles, BeginInv, Nothing
<1>5. BeforeInv'
  BY DEF IInv, Inspect, Goto, Fail, End, KeepDir, KeepFiles, BeforeInv, Stage, Seen, Absent,
        Nothing
<1>6. BackupInv'
  BY DEF IInv, Inspect, Goto, KeepDir, KeepFiles, BackupInv, Nothing, Backup, Durable
<1>7. WrittenInv'
  BY DEF IInv, Inspect, Goto, Fail, End, KeepFiles, WrittenInv
<1>8. AfterInv'
  BY DEF IInv, Inspect, Goto, Fail, End, HasUndo, KeepFiles, AfterInv, Absent, Nothing,
        TypeOK, BeforeInv
<1>9. RecoverInv'
  BY DEF IInv, Inspect, KeepDir, KeepFiles, RecoverInv, Seen, Recover, Kept, TypeOK,
        BeforeInv
<1>10. LinkInv'
  BY DEF IInv, Inspect, Goto, KeepDir, KeepFiles, LinkInv, Own, Absent, TypeOK, BeforeInv,
        AfterInv, Nothing
<1>11. OrphanInv'
  BY DEF IInv, Inspect, Goto, KeepDir, KeepFiles, OrphanInv, Own, Purposes
<1>12. EndInv'
  BY DEF IInv, Inspect, KeepDir, KeepFiles, Goto, End, Fail, HasUndo, OrphanInv, EndInv,
        Own, Purposes, RestoredIsOriginal, CommittedIsDurable, NoOrphans
<1>13. MidInv'
  BY DEF IInv, Inspect, Goto, Fail, End, KeepFiles, MidInv
<1> QED
  BY <1>1, <1>2, <1>3, <1>4, <1>5, <1>6, <1>7, <1>8, <1>9, <1>10, <1>11, <1>12, <1>13
        DEF IInv

\* It makes a file, linked but empty.
LEMMA CreateTempKeeps == ASSUME IInv, CreateTemp PROVE IInv'
<1>1. TypeOK'
  BY DEF IInv, CreateTemp, SetDir, Goto, Fail, End, KeepDir, KeepFiles, TypeOK, Dirs,
        TempFiles, Temp, MidInv
<1>2. NamesInv'
  BY DEF IInv, CreateTemp, SetDir, KeepDir, KeepFiles, TypeOK, NamesInv, Own, Temp, Dirs
<1>3. WholeInv'
  BY DEF IInv, CreateTemp, SetDir, KeepDir, KeepFiles, TypeOK, WholeInv, Durable, Dirs
<1>4. BeginInv'
  BY DEF IInv, CreateTemp, SetDir, Goto, KeepFiles, BeginInv, Nothing
<1>5. BeforeInv'
  BY DEF IInv, CreateTemp, SetDir, KeepFiles, Goto, End, Fail, TypeOK, BeforeInv, Stage,
        Seen, Dirs
<1>6. BackupInv'
  BY DEF IInv, CreateTemp, SetDir, KeepDir, KeepFiles, TypeOK, BackupInv, Durable, Backup,
        Dirs
<1>7. WrittenInv'
  BY DEF IInv, CreateTemp, SetDir, Goto, End, Fail, TypeOK, WrittenInv, Temp, Dirs
<1>8. AfterInv'
  BY DEF IInv, CreateTemp, SetDir, KeepDir, KeepFiles, Goto, End, Fail, HasUndo, TypeOK,
        BeforeInv, AfterInv, Own, Stage, Replaced, Backup, Seen, Purposes, Dirs
<1>9. RecoverInv'
  BY DEF IInv, CreateTemp, SetDir, KeepDir, KeepFiles, TypeOK, BeforeInv, AfterInv,
        RecoverInv, LinkInv, OrphanInv, Stage, Kept, Recover, Replaced, Seen, Nothing, Dirs
<1>10. LinkInv'
  BY DEF IInv, CreateTemp, SetDir, KeepDir, KeepFiles, Goto, End, Fail, TypeOK, LinkInv,
        Own, Temp, Dirs
<1>11. OrphanInv'
  BY DEF IInv, CreateTemp, SetDir, KeepDir, KeepFiles, Goto, TypeOK, OrphanInv, Own, Temp,
        Dirs, Purposes
<1>12. EndInv'
  BY DEF IInv, CreateTemp, KeepDir, KeepFiles, Goto, End, Fail, HasUndo, OrphanInv, EndInv,
        Own, Purposes, RestoredIsOriginal, CommittedIsDurable, NoOrphans
<1>13. MidInv'
  BY DEF IInv, CreateTemp, SetDir, Goto, Fail, End, KeepFiles, MidInv
<1> QED
  BY <1>1, <1>2, <1>3, <1>4, <1>5, <1>6, <1>7, <1>8, <1>9, <1>10, <1>11, <1>12, <1>13
        DEF IInv

\* It writes the content, which a crash may tear.
LEMMA WriteTempKeeps == ASSUME IInv, WriteTemp PROVE IInv'
<1>a. Stage /\ TypeOK /\ Temp \in Files /\ Temp' = Temp
  BY TempUnused DEF WriteTemp, IInv, Stage, Temp
<1>b. file' = [file EXCEPT ![Temp].content = Wanted.content] /\ file'[Temp] \in Values
  BY <1>a, WantedIsGoal DEF WriteTemp, TypeOK, Values
<1>1. TypeOK'
  <2>1. file' \in [Files -> Values]
    BY <1>a, <1>b DEF TypeOK
  <2>2. disk' \in [Files -> SUBSET Values]
    BY <1>a, <1>b DEF WriteTemp, TypeOK
  <2> QED
    BY <1>a, <2>1, <2>2 DEF WriteTemp, TypeOK, KeepDir, Goto
<1>2. NamesInv'
  BY DEF IInv, WriteTemp, Goto, KeepDir, NamesInv, Own
<1>3. WholeInv'
  BY DEF IInv, WriteTemp, KeepDir, KeepFiles, TypeOK, NamesInv, WholeInv, BeforeInv, Own,
        Stage, Durable, Temp, Purposes
<1>4. BeginInv'
  BY DEF IInv, WriteTemp, Goto, BeginInv, Nothing
<1>5. BeforeInv'
  BY DEF IInv, WriteTemp, KeepDir, KeepFiles, Goto, TypeOK, NamesInv, BeforeInv, Own, Stage,
        Temp, Seen, Purposes
<1>6. BackupInv'
  BY DEF IInv, WriteTemp, Goto, KeepDir, BackupInv, Nothing, Backup, Durable, Temp, TypeOK,
        BeforeInv, AfterInv, Stage, Absent
<1>7. WrittenInv'
  <2>1. pc' = "sync" /\ Goal' = Goal
    BY DEF WriteTemp, Goto, Goal
  <2>2. file'[Temp].content = Goal.content
    BY <1>a, <1>b, WantedIsGoal DEF TypeOK, Values
  <2>3. Temp \in dir.temps /\ dir' = dir
    BY DEF IInv, WrittenInv, WriteTemp, KeepDir
  <2> QED
    BY <1>a, <2>1, <2>2, <2>3 DEF WrittenInv
<1>8. AfterInv'
  BY WantedIsGoal DEF IInv, WriteTemp, KeepDir, KeepFiles, Goto, AfterInv, Own, Stage, Goal,
        Replaced, Temp, Backup, Seen, Values
<1>9. RecoverInv'
  BY DEF IInv, WriteTemp, KeepDir, KeepFiles, Goto, TypeOK, NamesInv, BeforeInv, RecoverInv,
        Own, Stage, Kept, Recover, Temp, Backup, Purposes
<1>10. LinkInv'
  BY DEF IInv, WriteTemp, Goto, KeepDir, LinkInv, Own
<1>11. OrphanInv'
  BY DEF IInv, WriteTemp, Goto, KeepDir, OrphanInv, Own, Purposes
<1>12. EndInv'
  BY DEF IInv, WriteTemp, Goto, EndInv, Absent, Nothing, CommittedIsDurable, NoOrphans
<1>13. MidInv'
  BY DEF IInv, WriteTemp, Goto, MidInv
<1> QED
  BY <1>1, <1>2, <1>3, <1>4, <1>5, <1>6, <1>7, <1>8, <1>9, <1>10, <1>11, <1>12, <1>13
        DEF IInv

\* It syncs the content.
LEMMA SyncTempKeeps == ASSUME IInv, SyncTemp PROVE IInv'
<1>1. TypeOK'
  BY DEF IInv, SyncTemp, Goto, KeepDir, TypeOK, Files, TempFiles, Original, Absent, Temp,
        AfterInv, MidInv, Nothing
<1>2. NamesInv'
  BY DEF IInv, SyncTemp, Goto, KeepDir, NamesInv, Own
<1>3. WholeInv'
  BY DEF IInv, SyncTemp, Goto, KeepDir, WholeInv, Absent, Durable, Nothing
<1>4. BeginInv'
  BY DEF IInv, SyncTemp, Goto, BeginInv, Nothing
<1>5. BeforeInv'
  BY DEF IInv, SyncTemp, Goto, KeepDir, BeforeInv, Stage, Seen, Absent, Nothing
<1>6. BackupInv'
  BY DEF IInv, SyncTemp, Goto, KeepDir, BackupInv, Nothing, Backup, Durable
<1>7. WrittenInv'
  BY DEF IInv, SyncTemp, KeepDir, KeepFiles, Goto, TypeOK, WrittenInv, Goal, Temp, Files,
        Dirs
<1>8. AfterInv'
  BY DEF IInv, SyncTemp, Goto, KeepDir, AfterInv, Own, Replaced, Backup, Stage, Seen,
        Absent, Nothing
<1>9. RecoverInv'
  BY DEF IInv, SyncTemp, KeepDir, KeepFiles, Goto, TypeOK, NamesInv, BeforeInv, RecoverInv,
        Own, Stage, Kept, Recover, Temp, Backup, Purposes
<1>10. LinkInv'
  BY DEF IInv, SyncTemp, Goto, KeepDir, LinkInv, Own
<1>11. OrphanInv'
  BY DEF IInv, SyncTemp, Goto, KeepDir, OrphanInv, Own, Purposes
<1>12. EndInv'
  BY DEF IInv, SyncTemp, Goto, EndInv, Absent, Nothing, CommittedIsDurable, NoOrphans
<1>13. MidInv'
  BY DEF IInv, SyncTemp, Goto, MidInv
<1> QED
  BY <1>1, <1>2, <1>3, <1>4, <1>5, <1>6, <1>7, <1>8, <1>9, <1>10, <1>11, <1>12, <1>13
        DEF IInv

\* It sets the mode and the owner; a backup is then complete.
LEMMA SetMetadataKeeps == ASSUME IInv, SetMetadata PROVE IInv'
<1>a. Stage /\ TypeOK /\ Temp \in Files /\ Temp # Absent /\ pc = "metadata"
  BY TempUnused DEF SetMetadata, IInv, Stage
<1>b. file' = [file EXCEPT ![Temp].meta = Wanted.meta] /\ file'[Temp] \in Values
  BY <1>a, WantedIsGoal DEF SetMetadata, TypeOK, Values
<1>c. disk' = [disk EXCEPT ![Temp] = @ \cup {file'[Temp]}]
  BY DEF SetMetadata
<1>d. file[Temp].content = Goal.content /\ disk[Temp] = {file[Temp]}
  BY <1>a DEF IInv, WrittenInv
<1>e. file'[Temp] = Goal /\ disk'[Temp] = {file[Temp], file'[Temp]}
  BY <1>a, <1>b, <1>c, <1>d, WantedIsGoal DEF TypeOK, Values
<1>f. Goal.content # "empty" /\ \A v \in disk'[Temp] : v.content = Goal.content
  BY <1>a, <1>b, <1>d, <1>e, WantedIsGoal
<1>g. WritesTemp /\ pc' # "idle"
  BY <1>a, <1>b, <1>c DEF WritesTemp, SetMetadata, Goto, KeepDir, TypeOK
<1>h. IF purpose = "backup" THEN backup'.hadOriginal /\ purpose' = "replacement" /\
           pc' = "create"
      ELSE backup' = backup /\ purpose' = purpose /\ pc' = "rename"
  BY <1>a DEF SetMetadata, Goto, TypeOK
<1>i. Temp \in dir.temps /\ dir' = dir
  BY <1>a, <1>g DEF IInv, WrittenInv, WritesTemp
<1>1. TypeOK'
  <2>1. file' \in [Files -> Values]
    BY <1>a, <1>b DEF TypeOK
  <2>2. disk' \in [Files -> SUBSET Values]
    BY <1>a, <1>b, <1>c DEF TypeOK
  <2>3. backup' \in [hadOriginal: BOOLEAN, replacementInstalled: BOOLEAN]
    BY <1>a DEF SetMetadata, TypeOK
  <2> QED
    BY <1>a, <2>1, <2>2, <2>3, <1>h DEF SetMetadata, TypeOK, KeepDir, Goto, Purposes
<1>2. NamesInv'
  BY DEF IInv, SetMetadata, Goto, KeepDir, NamesInv, Own, TypeOK
<1>3. WholeInv'
  BY <1>a, <1>g, WriteKeepsWhole
<1>4. BeginInv'
  BY DEF IInv, SetMetadata, Goto, BeginInv, Nothing
<1>5. BeforeInv'
  BY DEF IInv, SetMetadata, KeepDir, KeepFiles, Goto, TypeOK, NamesInv, BeforeInv, Own,
        Stage, Temp, Seen, Purposes
<1>6. BackupInv'
  <2>1. Backup' = Backup /\ tx' = tx /\ dir' = dir
    BY <1>g DEF WritesTemp, Backup
  <2>2. CASE purpose = "backup"
    <3>1. Temp = Backup /\ Goal = tx.begin /\ dir.target # Absent /\ Seen = tx.begin
      BY <1>a, <2>2 DEF Temp, Backup, Goal, IInv, BeforeInv, Stage
    <3>2. file'[Backup] = tx.begin /\ Durable(Backup)'
      BY <2>1, <3>1, <1>e, <1>f DEF Durable
    <3>3. tx.begin # Nothing
      BY <3>1, <1>a, <1>f DEF Nothing
    <3>4. Backup \in dir.temps
      BY <1>a, <2>2, <3>1 DEF IInv, WrittenInv, Stage
    <3> QED
      BY <2>1, <3>2, <3>3, <3>4 DEF BackupInv
  <2>3. CASE purpose # "backup" /\ backup.hadOriginal
    <3>1. Backup # Temp /\ Backup \in Files
      BY <1>a, <2>3, TempUnused, OwnNames, Running DEF Purposes, Stage
    <3>2. file'[Backup] = file[Backup] /\ disk'[Backup] = disk[Backup]
      BY <3>1, <1>g DEF WritesTemp
    <3>3. tx.begin # Nothing /\ file[Backup] = tx.begin /\ Durable(Backup) /\
            (~tx.committing => Backup \in dir.temps)
      BY <1>a, <2>3 DEF IInv, BackupInv
    <3> QED
      BY <2>1, <3>2, <3>3 DEF BackupInv, Durable
  <2>4. CASE purpose # "backup" /\ ~backup.hadOriginal
    BY <2>4, <1>h DEF BackupInv
  <2> QED
    BY <2>2, <2>3, <2>4
<1>7. WrittenInv'
  <2>1. CASE purpose = "backup"
    BY <2>1, <1>h DEF WrittenInv
  <2>2. CASE purpose # "backup"
    <3>1. Temp' = Temp /\ Goal' = Goal /\ pc' = "rename" /\ purpose' = purpose
      BY <2>2, <1>h, <1>g DEF WritesTemp, Temp, Goal
    <3>2. file'[Temp] = Goal /\ Durable(Temp)'
      BY <3>1, <1>e, <1>f DEF Durable
    <3> QED
      BY <2>2, <3>1, <3>2, <1>i DEF WrittenInv
  <2> QED
    BY <2>1, <2>2
<1>8. AfterInv'
  BY DEF IInv, SetMetadata, KeepDir, KeepFiles, Goto, TypeOK, NamesInv, BeforeInv, AfterInv,
        Own, Stage, Replaced, Temp, Backup, Seen
<1>9. RecoverInv'
  <2>1. backup'.hadOriginal /\ ~backup.hadOriginal => Backup = Temp
    BY <1>h DEF Backup, Temp
  <2>2. backup.hadOriginal => backup'.hadOriginal
    BY <1>h
  <2> QED
    BY <1>a, <1>g, <2>1, <2>2, WriteKeepsRecover
<1>10. LinkInv'
  BY DEF IInv, SetMetadata, Goto, KeepDir, LinkInv, Own, TypeOK
<1>11. OrphanInv'
  BY DEF IInv, SetMetadata, Goto, KeepDir, OrphanInv, Own, TypeOK, Purposes
<1>12. EndInv'
  BY DEF IInv, SetMetadata, Goto, EndInv, Absent, Nothing, CommittedIsDurable, NoOrphans
<1>13. MidInv'
  BY DEF IInv, SetMetadata, Goto, MidInv
<1> QED
  BY <1>1, <1>2, <1>3, <1>4, <1>5, <1>6, <1>7, <1>8, <1>9, <1>10, <1>11, <1>12, <1>13
        DEF IInv

\* A stage fails, and its file is removed or not.
LEMMA StageFailsKeeps == ASSUME IInv, StageFails PROVE IInv'
<1>a. Stage /\ TypeOK /\ pc # "create" /\ pc # "idle" /\ tx.run # 0 /\ dir \in dirs
  BY Running DEF StageFails, IInv, Stage, TypeOK
<1>b. /\ Temp = Own(purpose) /\ purpose \in Purposes
      /\ \A p \in Purposes : Own(p) = Temp => p = purpose
  BY <1>a, OwnNames DEF Own
<1>c. /\ tx'.run = tx.run /\ tx'.begin = tx.begin /\ tx'.committing = tx.committing
      /\ tx.stuck \subseteq tx'.stuck
      /\ dir'.target = dir.target /\ dir'.temps \subseteq dir.temps /\
           dir.temps \ {Temp} \subseteq dir'.temps
      /\ dirs' \subseteq dirs \cup {dir'}
      /\ Temp \in dir'.temps => Temp \in tx'.stuck
      /\ UNCHANGED <<file, disk, purpose, backup>>
  <2>1. UNCHANGED <<file, disk, purpose, backup>>
    BY DEF StageFails, KeepFiles
  <2>2. CASE SetDir([dir EXCEPT !.temps = @ \ {Temp}]) /\ UNCHANGED tx
    BY <1>a, <2>1, <2>2 DEF SetDir, TypeOK, Dirs
  <2>3. CASE tx' = [tx EXCEPT !.stuck = @ \cup {Temp}] /\ KeepDir
    BY <1>a, <2>1, <2>3 DEF KeepDir, TypeOK
  <2> QED
    BY <2>2, <2>3 DEF StageFails
<1>d. \/ purpose = "restore" /\ pc' = "idle" /\ outcome' = "unrestored"
      \/ purpose # "restore" /\ HasUndo /\ pc' = "rollback"
      \/ purpose # "restore" /\ ~HasUndo /\ pc' = "idle" /\ outcome' = "untouched"
  BY DEF StageFails, Fail, End, Goto
<1>1. TypeOK'
  <2>1. dir' \in Dirs /\ dirs' \subseteq Dirs /\ dir' \in dirs'
    BY <1>a DEF StageFails, SetDir, KeepDir, TypeOK, Dirs
  <2>2. tx' \in [run: 0..MaxRuns, begin: Values, committing: BOOLEAN, stuck: SUBSET TempFiles]
    BY <1>a, TempUnused DEF StageFails, TypeOK
  <2> QED
    BY <1>a, <1>c, <1>d, <2>1, <2>2 DEF TypeOK, StageFails, Fail, Goto
<1>2. NamesInv'
  BY DEF IInv, StageFails, SetDir, KeepDir, KeepFiles, TypeOK, NamesInv, Own, Dirs
<1>3. WholeInv'
  BY DEF IInv, StageFails, SetDir, KeepDir, KeepFiles, TypeOK, WholeInv, Durable, Dirs
<1>4. BeginInv'
  BY DEF IInv, StageFails, Goto, SetDir, KeepFiles, BeginInv, Nothing, TypeOK
<1>5. BeforeInv'
  BY DEF IInv, StageFails, Fail, End, Goto, SetDir, KeepFiles, BeforeInv, Stage, Absent,
        Nothing
<1>6. BackupInv'
  BY DEF IInv, StageFails, SetDir, KeepDir, KeepFiles, TypeOK, BeforeInv, BackupInv, Stage,
        Durable, Temp, Backup, Dirs
<1>7. WrittenInv'
  BY DEF IInv, StageFails, Fail, End, Goto, SetDir, KeepFiles, WrittenInv
<1>8. AfterInv'
  BY DEF IInv, StageFails, SetDir, KeepDir, KeepFiles, Goto, End, Fail, HasUndo, TypeOK,
        BeforeInv, AfterInv, Stage, Seen, Purposes, Dirs
<1>9. RecoverInv'
  <2>1. Temp \notin Kept(dir)
    BY <1>a, TempUnused
  <2>2. \A d \in dirs' : \E e \in dirs : d.target = e.target /\ Kept(e) \subseteq Kept(d)'
    BY <1>a, <1>c, <2>1 DEF Kept
  <2>3. Recover(tx.begin)'
    BY <1>a, <1>c, <2>2, StageRecovers, RecoverKept DEF Recover
  <2>4. Seen' = Seen /\ (Seen = Compiled \/ Seen = tx.begin)
    BY <1>a, <1>c DEF Seen, IInv, BeforeInv, AfterInv, Replaced, Own, Absent
  <2>5. pc' = "idle" /\ Seen' # Compiled => Recover(Seen)'
    BY <2>3, <2>4, <1>c DEF Recover
  <2> QED
    BY <2>3, <2>5 DEF RecoverInv
<1>10. LinkInv'
  <2>1. \A d \in dirs' : \E e \in dirs : d.temps \subseteq e.temps
    BY <1>a, <1>c
  <2>2. pc' # "inspect"
    BY <1>d
  <2> QED
    BY <1>a, <1>c, <2>1, <2>2 DEF IInv, LinkInv, Own
<1>11. OrphanInv'
  <2>1. CASE pc' = "idle"
    BY <2>1 DEF OrphanInv
  <2>2. CASE pc' # "idle"
    <3>1. \A p \in Purposes : Own(p)' = Own(p)
      BY <1>c DEF Own
    <3>2. \A p \in Purposes : Own(p) \in dir'.temps /\
            (p = "backup" => ~backup.hadOriginal) => Own(p) \in tx'.stuck
      BY <1>a, <1>b, <1>c DEF IInv, OrphanInv, Purposes
    <3> QED
      BY <2>2, <3>1, <3>2, <1>c DEF OrphanInv, Purposes
  <2> QED
    BY <2>1, <2>2
<1>12. EndInv'
  <2>1. CASE pc' = "idle"
    <3>1. \A p \in Purposes : Own(p) \in dir'.temps /\
            (p = "backup" => ~backup.hadOriginal) => Own(p) \in tx'.stuck
      BY <1>a, <1>b, <1>c DEF IInv, OrphanInv, Purposes
    <3>2. outcome' = "untouched" => ~backup.hadOriginal
      BY <1>d, <2>1 DEF HasUndo
    <3>3. NoOrphans'
      BY <3>1, <3>2, <1>c DEF NoOrphans, Own
    <3> QED
      BY <3>3, <1>d, <2>1 DEF EndInv, RestoredIsOriginal, CommittedIsDurable
  <2>2. CASE pc' # "idle"
    BY <2>2 DEF EndInv
  <2> QED
    BY <2>1, <2>2
<1>13. MidInv'
  BY DEF IInv, StageFails, Fail, End, Goto, SetDir, KeepFiles, MidInv, TypeOK
<1> QED
  BY <1>1, <1>2, <1>3, <1>4, <1>5, <1>6, <1>7, <1>8, <1>9, <1>10, <1>11, <1>12, <1>13
        DEF IInv

\* It renames the file over the target.
LEMMA RenameKeeps == ASSUME IInv, Rename PROVE IInv'
<1>a. Stage /\ TypeOK /\ pc = "rename" /\ pc' = "syncdir" /\ tx.run # 0 /\
        purpose' = purpose /\ tx' = tx
  BY Running DEF Rename, IInv, Stage, Goto
<1>b. Temp = Own(purpose) /\ purpose \in {"replacement", "restore"} /\ Temp \in TempFiles
  BY <1>a, OwnNames, TempUnused DEF IInv, WrittenInv, Purposes
<1>c. /\ dir' = [target |-> Temp, temps |-> dir.temps \ {Temp}] /\ dirs' = dirs \cup {dir'}
      /\ backup'.hadOriginal = backup.hadOriginal
      /\ backup'.replacementInstalled = (backup.replacementInstalled \/ purpose = "replacement")
  BY <1>a DEF Rename, SetDir, TypeOK
<1>d. dir \in dirs /\ dir' \in dirs'
  BY <1>a, <1>c DEF TypeOK
<1>e. file[Temp] = Goal /\ Durable(Temp) /\ UNCHANGED <<file, disk>>
  BY <1>a DEF Rename, KeepFiles, IInv, WrittenInv
<1>1. TypeOK'
  <2>1. dir' \in Dirs
    BY <1>a, <1>b, <1>c DEF TypeOK, Dirs, Files
  <2>2. backup' \in [hadOriginal: BOOLEAN, replacementInstalled: BOOLEAN]
    BY <1>a DEF Rename, TypeOK
  <2> QED
    BY <1>a, <1>c, <2>1, <2>2 DEF Rename, TypeOK, Goto, KeepFiles
<1>2. NamesInv'
  <2>1. \A d \in dirs : d.target[2] <= tx.run /\ d.target[1] # "backup" /\
          \A f \in d.temps : f[2] <= tx.run
    BY DEF IInv, NamesInv
  <2>2. Temp[1] = purpose /\ Temp[2] = tx.run
    BY DEF Temp
  <2>3. \A d \in dirs : d.target = Own("replacement") => backup.replacementInstalled
    BY <1>a DEF IInv, NamesInv
  <2>4. \A d \in dirs : d.target # Own("restore")
    BY <1>a DEF IInv, NamesInv
  <2>5. Own("replacement")' = Own("replacement") /\ Own("restore")' = Own("restore") /\
          tx'.run = tx.run
    BY <1>a DEF Own
  <2>6. tx.run \in Nat
    BY <1>a DEF TypeOK
  <2>7. Temp = Own("restore") => purpose = "restore"
    BY <1>b DEF Own
  <2>8. Temp = Own("replacement") => purpose = "replacement"
    BY <1>b DEF Own
  <2>9. ASSUME NEW d \in dirs'
        PROVE  /\ d.target[2] <= tx.run /\ d.target[1] # "backup" /\
                    \A f \in d.temps : f[2] <= tx.run
               /\ d.target = Own("replacement") => backup'.replacementInstalled
               /\ d.target = Own("restore") => purpose = "restore"
    <3>1. CASE d \in dirs
      BY <3>1, <2>1, <2>3, <2>4, <1>c
    <3>2. CASE d = dir'
      <4>1. d.target = Temp /\ d.temps \subseteq dir.temps
        BY <3>2, <1>c
      <4>2. d.target[2] <= tx.run /\ d.target[1] # "backup"
        BY <4>1, <2>2, <2>6, <1>b
      <4> QED
        BY <4>1, <4>2, <2>1, <2>7, <2>8, <1>c, <1>d
    <3> QED
      BY <3>1, <3>2, <1>c
  <2> QED
    BY <1>a, <2>5, <2>9 DEF NamesInv
<1>3. WholeInv'
  <2>1. \A d \in dirs : (d.target # Absent => Durable(d.target)) /\
          (d.target = Absent => tx.begin = Nothing)
    BY DEF IInv, WholeInv
  <2>2. Temp # Absent
    BY <1>a, TempUnused
  <2> QED
    BY <1>a, <1>c, <1>e, <2>1, <2>2 DEF WholeInv, Durable
<1>4. BeginInv'
  BY DEF IInv, Rename, SetDir, Goto, KeepFiles, BeginInv, Nothing
<1>5. BeforeInv'
  BY DEF IInv, Rename, SetDir, Goto, KeepFiles, BeforeInv, Stage, Absent, Nothing
<1>6. BackupInv'
  BY DEF IInv, Rename, SetDir, Goto, KeepFiles, BackupInv, Nothing, Backup, Durable, Temp,
        TypeOK, BeforeInv, AfterInv, Stage, Absent
<1>7. WrittenInv'
  BY DEF IInv, Rename, SetDir, Goto, KeepFiles, WrittenInv
<1>8. AfterInv'
  BY MaxRunsAssumption DEF IInv, Rename, SetDir, SyncDirectory, KeepDir, KeepFiles, Goto,
        End, Fail, HasUndo, TypeOK, NamesInv, WholeInv, BeginInv, BeforeInv, BackupInv,
        WrittenInv, AfterInv, RecoverInv, LinkInv, OrphanInv, EndInv, MidInv, Own, Stage,
        Durable, Kept, Recover, Goal, Replaced, Temp, Backup, NoBackup, Seen, Fresh,
        Compiled, Nothing, Original, Absent, Files, TempFiles, Purposes, Values, Dirs,
        RestoredIsOriginal, CommittedIsDurable, NoOrphans
<1>9. RecoverInv'
  <2>1. Recover(tx.begin)
    BY <1>a, StageRecovers
  <2>2. Temp # Absent /\ Temp \notin Kept(dir)
    BY <1>a, <1>d, TempUnused
  <2>3. ASSUME tx.begin # Nothing, NEW d \in dirs'
        PROVE  d.target # Absent /\
                 \E f \in Kept(d)' : \A v \in disk'[f] : v.content = tx.begin.content
    <3>1. CASE d \in dirs
      BY <3>1, <2>1, <2>3, <1>a, <1>c, <1>e DEF Recover, Kept
    <3>2. CASE d = dir' /\ purpose = "restore"
      <4>1. \A v \in disk'[Temp] : v.content = tx.begin.content
        BY <3>2, <1>e DEF Durable, Goal
      <4> QED
        BY <3>2, <4>1, <2>2, <1>c DEF Kept
    <3>3. CASE d = dir' /\ purpose = "replacement"
      <4>1. backup.hadOriginal
        BY <3>3, <2>3, <1>a, <1>d DEF IInv, BeforeInv, WholeInv
      <4>2. Backup \in dir.temps /\ Backup # Temp /\ Durable(Backup) /\ file[Backup] = tx.begin
        BY <4>1, <3>3, <1>a DEF IInv, BackupInv, BeforeInv, Stage, Backup, Temp
      <4>3. Backup \in Kept(d)'
        BY <3>3, <4>1, <4>2, <1>c DEF Kept, Backup
      <4>4. \A v \in disk'[Backup] : v.content = tx.begin.content
        BY <4>2, <1>e DEF Durable
      <4> QED
        BY <3>3, <4>3, <4>4, <2>2, <1>c
    <3> QED
      BY <3>1, <3>2, <3>3, <1>b, <1>c
  <2> QED
    BY <1>a, <2>3 DEF RecoverInv, Recover
<1>10. LinkInv'
  <2>1. \A d \in dirs' : \E e \in dirs : d.temps \subseteq e.temps
    BY <1>c, <1>d
  <2> QED
    BY <1>a, <1>c, <2>1 DEF IInv, LinkInv, Own
<1>11. OrphanInv'
  BY DEF IInv, Rename, SetDir, Goto, KeepFiles, OrphanInv, Own, Temp, TypeOK, Purposes
<1>12. EndInv'
  BY DEF IInv, Rename, SetDir, Goto, KeepFiles, EndInv, Absent, Nothing, CommittedIsDurable,
        NoOrphans
<1>13. MidInv'
  BY DEF IInv, Rename, SetDir, Goto, KeepFiles, MidInv
<1> QED
  BY <1>1, <1>2, <1>3, <1>4, <1>5, <1>6, <1>7, <1>8, <1>9, <1>10, <1>11, <1>12, <1>13
        DEF IInv

\* It syncs the directory.
LEMMA SyncDirKeeps == ASSUME IInv, SyncDir PROVE IInv'
<1>a. TypeOK /\ pc = "syncdir" /\ tx.run # 0 /\ dir \in dirs
  BY Running DEF SyncDir, IInv, TypeOK
<1>b. UNCHANGED <<dir, file, disk, purpose, backup, tx>> /\ dir \in dirs' /\
        dirs' \subseteq dirs
  BY <1>a DEF SyncDir, SyncDirectory, KeepDir, KeepFiles
<1>c. \/ purpose = "restore" /\ pc' = "idle"
      \/ purpose # "restore" /\ HasUndo /\ pc' = "rollback"
      \/ purpose # "restore" /\ dirs' = {dir} /\ pc' = "installed"
      \/ purpose # "restore" /\ ~HasUndo /\ pc' = "idle"
  BY DEF SyncDir, Fail, End, Goto, SyncDirectory
<1>d. purpose # "restore" => Replaced /\ purpose = "replacement" /\ HasUndo
  BY <1>a DEF IInv, AfterInv, Replaced, HasUndo
<1>e. Own("replacement") # Own("restore")
  BY DEF Own
<1>1. TypeOK'
  BY DEF IInv, SyncDir, SyncDirectory, End, Goto, Fail, KeepDir, KeepFiles, TypeOK,
        Original, Absent
<1>2. NamesInv'
  <2>1. \A d \in dirs : d.target # Own("restore") \/ purpose = "restore"
    BY <1>a DEF IInv, NamesInv
  <2>2. \A d \in dirs : d.target = Own("replacement") => backup.replacementInstalled
    BY <1>a DEF IInv, NamesInv
  <2>3. \A d \in dirs : d.target[2] <= tx.run /\ d.target[1] # "backup" /\
          \A f \in d.temps : f[2] <= tx.run
    BY DEF IInv, NamesInv
  <2> QED
    BY <1>b, <1>c, <2>1, <2>2, <2>3 DEF NamesInv, Own
<1>3. WholeInv'
  BY DEF IInv, SyncDir, SyncDirectory, Goto, KeepDir, KeepFiles, WholeInv, Absent, Durable,
        Nothing, TypeOK
<1>4. BeginInv'
  BY DEF IInv, SyncDir, Goto, KeepFiles, BeginInv, Nothing
<1>5. BeforeInv'
  BY DEF IInv, SyncDir, End, Goto, Fail, KeepFiles, BeforeInv, Stage, Absent, Nothing
<1>6. BackupInv'
  BY DEF IInv, SyncDir, SyncDirectory, Goto, KeepDir, KeepFiles, BackupInv, Nothing, Backup,
        Durable
<1>7. WrittenInv'
  BY DEF IInv, SyncDir, End, Goto, Fail, KeepFiles, WrittenInv
<1>8. AfterInv'
  <2>1. backup.replacementInstalled => file[Own("replacement")] = Compiled
    BY <1>a DEF IInv, AfterInv
  <2>2. ~backup.hadOriginal => tx.begin = Nothing
    BY <1>a DEF IInv, AfterInv
  <2>3. purpose # "restore" => ~tx.committing
    BY <1>a DEF IInv, AfterInv
  <2>4. pc' \in {"idle", "rollback", "installed"} /\
          (pc' = "installed" => dirs' = {dir} /\ purpose # "restore")
        /\ (pc' = "rollback" => purpose # "restore")
    BY <1>c
  <2> QED
    BY <1>b, <1>d, <2>1, <2>2, <2>3, <2>4 DEF AfterInv, Own, Stage, Replaced
<1>9. RecoverInv'
  BY DEF IInv, SyncDir, SyncDirectory, Goto, KeepDir, KeepFiles, RecoverInv, Seen, Recover,
        Kept, TypeOK, AfterInv, Replaced
<1>10. LinkInv'
  BY <1>a, <1>b, <1>c DEF IInv, LinkInv, Own
<1>11. OrphanInv'
  BY DEF IInv, SyncDir, SyncDirectory, Goto, KeepDir, KeepFiles, OrphanInv, Own, Purposes
<1>12. EndInv'
  BY DEF IInv, SyncDir, SetDir, SyncDirectory, KeepDir, KeepFiles, Goto, End, Fail, HasUndo,
        TypeOK, WholeInv, AfterInv, OrphanInv, EndInv, Own, Durable, Seen, Purposes,
        RestoredIsOriginal, CommittedIsDurable, NoOrphans
<1>13. MidInv'
  BY DEF IInv, SyncDir, End, Goto, Fail, KeepFiles, MidInv
<1> QED
  BY <1>1, <1>2, <1>3, <1>4, <1>5, <1>6, <1>7, <1>8, <1>9, <1>10, <1>11, <1>12, <1>13
        DEF IInv

\* The rest of the transaction succeeds or fails.
LEMMA DecideKeeps == ASSUME IInv, Decide PROVE IInv'
<1>1. TypeOK'
  <2>1. PICK p \in {"commit", "rollback"} :
          /\ pc' = p /\ tx' = [tx EXCEPT !.committing = (p = "commit")]
    BY DEF Decide, Goto
  <2>2. UNCHANGED <<dir, dirs, file, disk, purpose, backup, outcome>>
    BY DEF Decide, Goto, KeepDir, KeepFiles
  <2> QED
    BY <2>1, <2>2 DEF IInv, TypeOK
<1>2. NamesInv'
  BY DEF IInv, Decide, Goto, KeepDir, KeepFiles, NamesInv, Own
<1>3. WholeInv'
  BY DEF IInv, Decide, Goto, KeepDir, KeepFiles, WholeInv, Absent, Durable, Nothing
<1>4. BeginInv'
  BY DEF IInv, Decide, Goto, KeepFiles, BeginInv, Nothing
<1>5. BeforeInv'
  BY DEF IInv, Decide, Goto, KeepFiles, BeforeInv, Stage, Absent, Nothing
<1>6. BackupInv'
  BY DEF IInv, Decide, Goto, KeepDir, KeepFiles, BackupInv, Nothing, Backup, Durable,
        TypeOK, AfterInv, Absent
<1>7. WrittenInv'
  BY DEF IInv, Decide, Goto, KeepFiles, WrittenInv
<1>8. AfterInv'
  BY DEF IInv, Decide, Goto, KeepDir, KeepFiles, AfterInv, Own, Replaced, Absent, Nothing,
        TypeOK
<1>9. RecoverInv'
  BY DEF IInv, Decide, Goto, KeepDir, KeepFiles, RecoverInv, Absent, Nothing, Recover, Kept,
        TypeOK, AfterInv
<1>10. LinkInv'
  BY DEF IInv, Decide, Goto, KeepDir, KeepFiles, LinkInv, Own
<1>11. OrphanInv'
  BY DEF IInv, Decide, Goto, KeepDir, KeepFiles, OrphanInv, Own, Purposes
<1>12. EndInv'
  BY DEF IInv, Decide, Goto, KeepFiles, EndInv, Absent, Nothing, CommittedIsDurable,
        NoOrphans
<1>13. MidInv'
  BY DEF IInv, Decide, Goto, KeepFiles, MidInv
<1> QED
  BY <1>1, <1>2, <1>3, <1>4, <1>5, <1>6, <1>7, <1>8, <1>9, <1>10, <1>11, <1>12, <1>13
        DEF IInv

\* The commit removes the backup.
LEMMA CommitRemoveKeeps == ASSUME IInv, CommitRemove PROVE IInv'
<1>a. TypeOK /\ pc = "commit" /\ tx.run # 0 /\ dir \in dirs /\ tx.committing
  BY Running DEF CommitRemove, IInv, TypeOK, AfterInv
<1>b. UNCHANGED <<file, disk, purpose, backup, tx>>
  BY DEF CommitRemove, KeepFiles
<1>c. \/ ~backup.hadOriginal /\ pc' = "idle" /\ dir' = dir /\ dirs' = dirs
      \/ backup.hadOriginal /\ pc' = "commitSync" /\ dir' = [dir EXCEPT !.temps = @ \ {Backup}]
      \/ backup.hadOriginal /\ pc' = "rollback" /\ dir' = dir /\ dirs' = dirs
  BY DEF CommitRemove, SetDir, KeepDir, Goto, End
<1>1. TypeOK'
  BY DEF IInv, CommitRemove, End, KeepDir, SetDir, Goto, KeepFiles, TypeOK, Dirs, Original,
        Absent
<1>2. NamesInv'
  BY DEF IInv, CommitRemove, SetDir, KeepDir, KeepFiles, TypeOK, NamesInv, Own, Dirs
<1>3. WholeInv'
  BY DEF IInv, CommitRemove, SetDir, KeepDir, KeepFiles, TypeOK, WholeInv, Durable, Dirs
<1>4. BeginInv'
  BY DEF IInv, CommitRemove, SetDir, Goto, KeepFiles, BeginInv, Nothing
<1>5. BeforeInv'
  BY DEF IInv, CommitRemove, End, SetDir, Goto, KeepFiles, BeforeInv, Stage, Absent, Nothing
<1>6. BackupInv'
  <2>1. backup.hadOriginal => tx.begin # Nothing /\ file[Backup] = tx.begin /\ Durable(Backup)
    BY <1>a DEF IInv, BackupInv
  <2> QED
    BY <1>a, <1>b, <2>1 DEF BackupInv, Backup, Durable
<1>7. WrittenInv'
  BY DEF IInv, CommitRemove, End, SetDir, Goto, KeepFiles, WrittenInv
<1>8. AfterInv'
  BY DEF IInv, CommitRemove, SetDir, KeepDir, KeepFiles, Goto, End, TypeOK, AfterInv, Own,
        Replaced, Backup, Dirs
<1>9. RecoverInv'
  <2>1. CASE pc' = "idle"
    <3>1. dir.target = Own("replacement") /\ file[Own("replacement")] = Compiled
      BY <1>a DEF IInv, AfterInv
    <3>2. Seen' = Compiled
      BY <3>1, <2>1, <1>b, <1>c DEF Seen, Own, Absent
    <3> QED
      BY <2>1, <3>2 DEF RecoverInv
  <2>2. CASE pc' = "commitSync"
    <3>1. Backup' \notin dir'.temps /\ backup'.hadOriginal /\ tx'.committing
      BY <2>2, <1>a, <1>b, <1>c DEF Backup, TypeOK, Dirs
    <3> QED
      BY <2>2, <3>1 DEF RecoverInv
  <2>3. CASE pc' = "rollback"
    <3>1. ~tx'.committing \/ ~backup'.hadOriginal \/ Backup' \in dir'.temps =>
            Recover(tx.begin)
      BY <2>3, <1>a, <1>b, <1>c DEF IInv, RecoverInv, Backup
    <3>2. Recover(tx.begin) => Recover(tx.begin)'
      BY <2>3, <1>b, <1>c DEF Recover, Kept
    <3> QED
      BY <2>3, <3>1, <3>2 DEF RecoverInv
  <2> QED
    BY <2>1, <2>2, <2>3, <1>c
<1>10. LinkInv'
  BY DEF IInv, CommitRemove, SetDir, KeepDir, KeepFiles, Goto, End, TypeOK, LinkInv, Own,
        Dirs
<1>11. OrphanInv'
  BY DEF IInv, CommitRemove, SetDir, KeepDir, KeepFiles, TypeOK, OrphanInv, Own, Dirs,
        Purposes
<1>12. EndInv'
  BY DEF IInv, CommitRemove, KeepDir, KeepFiles, Goto, End, WholeInv, AfterInv, RecoverInv,
        LinkInv, OrphanInv, EndInv, Own, Durable, Backup, Original, Absent, Purposes,
        RestoredIsOriginal, CommittedIsDurable, NoOrphans
<1>13. MidInv'
  BY DEF IInv, CommitRemove, End, SetDir, Goto, KeepFiles, MidInv
<1> QED
  BY <1>1, <1>2, <1>3, <1>4, <1>5, <1>6, <1>7, <1>8, <1>9, <1>10, <1>11, <1>12, <1>13
        DEF IInv

\* It syncs the directory.
LEMMA CommitSyncKeeps == ASSUME IInv, CommitSync PROVE IInv'
<1>1. TypeOK'
  BY DEF IInv, CommitSync, SyncDirectory, End, KeepDir, Goto, KeepFiles, TypeOK, Original,
        Absent
<1>2. NamesInv'
  BY DEF IInv, CommitSync, SyncDirectory, KeepDir, Goto, KeepFiles, NamesInv, Own, TypeOK
<1>3. WholeInv'
  BY DEF IInv, CommitSync, SyncDirectory, KeepDir, Goto, KeepFiles, WholeInv, Absent,
        Durable, Nothing, TypeOK
<1>4. BeginInv'
  BY DEF IInv, CommitSync, Goto, KeepFiles, BeginInv, Nothing
<1>5. BeforeInv'
  BY DEF IInv, CommitSync, End, Goto, KeepFiles, BeforeInv, Stage, Absent, Nothing
<1>6. BackupInv'
  BY DEF IInv, CommitSync, End, KeepDir, Goto, KeepFiles, BackupInv, Nothing, Backup,
        Durable
<1>7. WrittenInv'
  BY DEF IInv, CommitSync, End, Goto, KeepFiles, WrittenInv
<1>8. AfterInv'
  BY DEF IInv, CommitSync, End, KeepDir, Goto, KeepFiles, AfterInv, Own, Replaced, Absent,
        Nothing, TypeOK
<1>9. RecoverInv'
  BY DEF IInv, CommitSync, SyncDirectory, KeepDir, Goto, KeepFiles, RecoverInv, Seen,
        Recover, Backup, TypeOK, AfterInv
<1>10. LinkInv'
  BY DEF IInv, CommitSync, End, KeepDir, Goto, KeepFiles, LinkInv, Own
<1>11. OrphanInv'
  BY DEF IInv, CommitSync, End, KeepDir, Goto, KeepFiles, OrphanInv, Own, Purposes
<1>12. EndInv'
  BY DEF IInv, CommitSync, SetDir, SyncDirectory, KeepFiles, Goto, End, TypeOK, WholeInv,
        AfterInv, OrphanInv, EndInv, Own, Durable, Backup, Original, Absent, Purposes,
        RestoredIsOriginal, CommittedIsDurable, NoOrphans
<1>13. MidInv'
  BY DEF IInv, CommitSync, End, Goto, KeepFiles, MidInv
<1> QED
  BY <1>1, <1>2, <1>3, <1>4, <1>5, <1>6, <1>7, <1>8, <1>9, <1>10, <1>11, <1>12, <1>13
        DEF IInv

\* The rollback removes what was created, or begins a restore.
LEMMA RollbackKeeps == ASSUME IInv, Rollback PROVE IInv'
<1>a. TypeOK /\ pc = "rollback" /\ tx.run # 0 /\ dir \in dirs
  BY Running DEF Rollback, IInv, TypeOK
<1>b. UNCHANGED <<file, disk, backup, tx>> /\ purpose' = "restore"
  BY DEF Rollback, KeepFiles
<1>c. \/ ~backup.hadOriginal /\ pc' = "syncdir" /\ dir' = [dir EXCEPT !.target = Absent] /\
           dirs' = dirs \cup {dir'}
      \/ backup.hadOriginal /\ pc' = "create" /\ dir' = dir /\ dirs' = dirs
      \/ pc' = "idle" /\ dir' = dir /\ dirs' = dirs
  BY DEF Rollback, SetDir, KeepDir, Goto, End
<1>d. ~backup.hadOriginal => tx.begin = Nothing
  BY <1>a DEF IInv, AfterInv
<1>1. TypeOK'
  BY DEF IInv, Rollback, SetDir, Goto, KeepDir, End, KeepFiles, TypeOK, Dirs, Purposes,
        Original, Absent
<1>2. NamesInv'
  BY DEF IInv, Rollback, SetDir, KeepDir, KeepFiles, TypeOK, NamesInv, Own, Original,
        Absent, Dirs
<1>3. WholeInv'
  BY DEF IInv, Rollback, SetDir, KeepDir, KeepFiles, TypeOK, WholeInv, AfterInv, RecoverInv,
        Durable, Dirs
<1>4. BeginInv'
  BY DEF IInv, Rollback, SetDir, Goto, KeepFiles, BeginInv, Nothing
<1>5. BeforeInv'
  BY DEF IInv, Rollback, SetDir, Goto, End, KeepFiles, BeforeInv, Absent, Nothing
<1>6. BackupInv'
  BY DEF IInv, Rollback, SetDir, Goto, KeepDir, KeepFiles, BackupInv, Nothing, Backup,
        Durable
<1>7. WrittenInv'
  BY DEF IInv, Rollback, SetDir, Goto, End, KeepFiles, WrittenInv
<1>8. AfterInv'
  BY DEF IInv, Rollback, SetDir, KeepDir, KeepFiles, Goto, End, TypeOK, AfterInv, Own,
        Stage, Replaced, Backup, Seen, Dirs
<1>9. RecoverInv'
  <2>1. CASE ~backup.hadOriginal /\ pc' = "syncdir"
    BY <2>1, <1>b, <1>d DEF RecoverInv, Recover
  <2>2. CASE dir' = dir /\ dirs' = dirs
    <3>1. \A d \in dirs' : Kept(d)' = Kept(d)
      BY <1>b DEF Kept
    <3>2. Recover(tx.begin) => Recover(tx.begin)'
      BY <2>2, <1>b, <3>1 DEF Recover
    <3>3. Seen' = Seen /\ (Seen = Compiled \/ (Seen = tx.begin /\ ~tx.committing))
      BY <2>2, <1>a, <1>b DEF Seen, IInv, AfterInv, Replaced, Own, Absent
    <3>4. ~tx.committing \/ ~backup.hadOriginal \/ Backup \in dir.temps => Recover(tx.begin)
      BY <1>a DEF IInv, RecoverInv
    <3>5. Seen' # Compiled => Recover(Seen)'
      BY <3>2, <3>3, <3>4, <1>b DEF Recover
    <3> QED
      BY <2>2, <1>b, <3>2, <3>4, <3>5 DEF RecoverInv, Backup
  <2> QED
    BY <2>1, <2>2, <1>c
<1>10. LinkInv'
  <2>1. \A d \in dirs : Own("backup") \in d.temps => backup.hadOriginal
    BY <1>a DEF IInv, LinkInv, AfterInv
  <2>2. \A d \in dirs' : \E e \in dirs : d.temps = e.temps
    BY <1>a, <1>c DEF TypeOK, Dirs
  <2> QED
    BY <1>b, <1>c, <2>1, <2>2 DEF LinkInv, Own
<1>11. OrphanInv'
  BY DEF IInv, Rollback, SetDir, KeepDir, KeepFiles, TypeOK, OrphanInv, Own, Dirs, Purposes
<1>12. EndInv'
  BY DEF IInv, Rollback, KeepDir, KeepFiles, Goto, End, OrphanInv, EndInv, Own, Purposes,
        RestoredIsOriginal, CommittedIsDurable, NoOrphans
<1>13. MidInv'
  BY DEF IInv, Rollback, SetDir, Goto, End, KeepFiles, MidInv
<1> QED
  BY <1>1, <1>2, <1>3, <1>4, <1>5, <1>6, <1>7, <1>8, <1>9, <1>10, <1>11, <1>12, <1>13
        DEF IInv

\* The machine dies: a directory and files the disk may hold are what there is.
LEMMA CrashKeeps == ASSUME IInv, Crash PROVE IInv'
<1>a. TypeOK /\ pc' = "idle" /\ outcome' = "none" /\ UNCHANGED <<purpose, backup, tx>>
  BY DEF Crash, IInv, End
<1>b. PICK d \in dirs :
        /\ dir' = d /\ dirs' = {d}
        /\ \E v \in IF d.target = Absent THEN {Fresh} ELSE disk[d.target] :
              file' = [n \in Files |-> IF n = d.target THEN v ELSE Fresh]
  BY DEF Crash
<1>c. PICK v \in IF d.target = Absent THEN {Fresh} ELSE disk[d.target] :
        file' = [n \in Files |-> IF n = d.target THEN v ELSE Fresh]
  BY <1>b
<1>d. disk' = [n \in Files |-> {file'[n]}]
  BY DEF Crash
<1>e. d.target # Absent =>
        d.target \in Files /\ file'[d.target] = v /\ disk'[d.target] = {v} /\ v \in disk[d.target]
  BY <1>a, <1>c, <1>d DEF TypeOK, Dirs
<1>1. TypeOK'
  BY DEF IInv, Crash, End, TypeOK, Original, Absent, Values, Fresh
<1>2. NamesInv'
  BY DEF IInv, Crash, End, NamesInv
<1>3. WholeInv'
  <2>1. d.target # Absent => v.content # "empty"
    BY <1>b, <1>e DEF IInv, WholeInv, Durable
  <2>2. d.target = Absent => tx.begin = Nothing
    BY <1>b DEF IInv, WholeInv
  <2> QED
    BY <1>a, <1>b, <1>e, <2>1, <2>2 DEF WholeInv, Durable
<1>4. BeginInv'
  BY DEF IInv, Crash, BeginInv, Nothing
<1>5. BeforeInv'
  BY DEF IInv, Crash, End, BeforeInv, Stage, Absent, Nothing
<1>6. BackupInv'
  BY DEF IInv, Crash, End, BackupInv, Nothing
<1>7. WrittenInv'
  BY DEF IInv, Crash, End, WrittenInv
<1>8. AfterInv'
  BY DEF IInv, Crash, End, AfterInv, Stage, Absent, Nothing
<1>9. RecoverInv'
  <2>1. CASE d.target = Absent
    BY <2>1, <1>a, <1>b DEF RecoverInv, Recover, Seen
  <2>2. CASE d.target # Absent
    <3>1. Seen' = v
      BY <2>2, <1>b, <1>e DEF Seen
    <3>2. d.target \in Kept(d)'
      BY DEF Kept
    <3>3. \A w \in disk'[d.target] : w.content = v.content
      BY <2>2, <1>e
    <3>4. Recover(Seen)'
      BY <2>2, <1>b, <3>1, <3>2, <3>3 DEF Recover
    <3> QED
      BY <1>a, <3>4 DEF RecoverInv
  <2> QED
    BY <2>1, <2>2
<1>10. LinkInv'
  BY DEF IInv, Crash, End, LinkInv
<1>11. OrphanInv'
  BY DEF IInv, Crash, End, OrphanInv, Purposes
<1>12. EndInv'
  BY DEF IInv, Crash, End, EndInv, RestoredIsOriginal, Absent, Nothing, CommittedIsDurable,
        NoOrphans
<1>13. MidInv'
  BY DEF IInv, Crash, End, MidInv
<1> QED
  BY <1>1, <1>2, <1>3, <1>4, <1>5, <1>6, <1>7, <1>8, <1>9, <1>10, <1>11, <1>12, <1>13
        DEF IInv

-----------------------------------------------------------------------------
(* The theorems. *)

\* A step that changes nothing keeps the invariant.
LEMMA StutterKeeps == ASSUME IInv, UNCHANGED vars PROVE IInv'
<1> USE DEF vars, Own, Stage, Temp, Backup, Seen, Durable, Kept, Recover, Goal, Replaced
<1>1. TypeOK' /\ NamesInv' /\ WholeInv' /\ BeginInv' /\ MidInv'
  BY DEF IInv, TypeOK, NamesInv, WholeInv, BeginInv, MidInv
<1>2. BeforeInv' /\ BackupInv' /\ WrittenInv'
  BY DEF IInv, BeforeInv, BackupInv, WrittenInv
<1>3. AfterInv'
  BY DEF IInv, AfterInv
<1>4. RecoverInv' /\ LinkInv' /\ OrphanInv'
  BY DEF IInv, RecoverInv, LinkInv, OrphanInv
<1>5. EndInv'
  BY DEF IInv, EndInv, RestoredIsOriginal, CommittedIsDurable, NoOrphans
<1> QED
  BY <1>1, <1>2, <1>3, <1>4, <1>5 DEF IInv

\* Every step does.
LEMMA StepKeeps == IInv /\ [Next]_vars => IInv'
<1> SUFFICES ASSUME IInv, [Next]_vars PROVE IInv'
  OBVIOUS
<1>1. CASE StartRun \/ Inspect \/ CreateTemp \/ WriteTemp \/ SyncTemp
  BY <1>1, StartRunKeeps, InspectKeeps, CreateTempKeeps, WriteTempKeeps, SyncTempKeeps
<1>2. CASE SetMetadata \/ StageFails \/ Rename \/ SyncDir
  BY <1>2, SetMetadataKeeps, StageFailsKeeps, RenameKeeps, SyncDirKeeps
<1>3. CASE Decide \/ CommitRemove \/ CommitSync \/ Rollback \/ Crash
  BY <1>3, DecideKeeps, CommitRemoveKeeps, CommitSyncKeeps, RollbackKeeps, CrashKeeps
<1>4. CASE UNCHANGED vars
  BY <1>4, StutterKeeps
<1> QED
  BY <1>1, <1>2, <1>3, <1>4 DEF Next

\* The invariant holds throughout.
LEMMA InvariantHolds == Spec => []IInv
  BY InitHolds, StepKeeps, PTL DEF Spec

\* The directory, the files and the transaction hold what the code can put
\* there, whatever fails and whenever the machine dies.
THEOREM TypeCorrect == Spec => []TypeOK
<1>1. IInv => TypeOK
  BY DEF IInv
<1> QED
  BY <1>1, InvariantHolds, PTL

\* After any number of transactions, the target is never torn, empty or half
\* written, and one that existed does not disappear (atomic.go:87-147, 194-248).
THEOREM AlwaysWhole == Spec => []TargetWhole
<1>1. IInv => TargetWhole
  BY DEF IInv, WholeInv, TargetWhole, Durable
<1> QED
  BY <1>1, InvariantHolds, PTL

\* Until its commit begins, every crash of a transaction leaves a complete copy
\* of what it found (atomic.go:87-147, 184-192).
THEOREM AlwaysRecoverable == Spec => []OriginalRecoverable
<1>1. ASSUME IInv, pc # "idle", tx.begin # Nothing, ~tx.committing, NEW d \in dirs
      PROVE  \E f \in Linked(d) : \A v \in disk[f] : v.content = tx.begin.content
  <2>1. PICK f \in Kept(d) : \A v \in disk[f] : v.content = tx.begin.content
    BY <1>1 DEF IInv, RecoverInv, Recover
  <2> QED
    BY <2>1 DEF Kept, Linked
<1>2. IInv => OriginalRecoverable
  BY <1>1 DEF OriginalRecoverable
<1> QED
  BY <1>2, InvariantHolds, PTL

\* A rollback that reports success has put back what the transaction found
\* (atomic.go:149-182).
THEOREM RestoresOriginal == Spec => []RestoredIsOriginal
<1>1. IInv => RestoredIsOriginal
  BY DEF IInv, EndInv, MidInv, RestoredIsOriginal
<1> QED
  BY <1>1, InvariantHolds, PTL

\* A commit that reports success survives any crash (atomic.go:184-192).
THEOREM CommitsDurably == Spec => []CommittedIsDurable
<1>1. IInv => CommittedIsDurable
  BY DEF IInv, EndInv, MidInv, CommittedIsDurable
<1> QED
  BY <1>1, InvariantHolds, PTL

\* A transaction that ends leaves no file behind but those whose removal
\* failed, and the backup of a target it could not restore.
THEOREM LeavesNoOrphans == Spec => []NoOrphans
<1>1. IInv => NoOrphans
  BY DEF IInv, EndInv, NoOrphans
<1> QED
  BY <1>1, InvariantHolds, PTL
=============================================================================
