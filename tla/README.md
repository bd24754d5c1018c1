# A verification project for ohtools-plugins

The repository holds 18 plugins for the `ohtools` host. Each plugin is a process that serves one request of
the host (`manifest`, `plan` or `execute`) and exits. Sixteen of them only read; two change the system:

* **server-setup-base** applies a compiled profile (packages, a group, a user, directories, a managed file,
  sysctls, a unit) as a transaction with undo, verification and commit;
* **systemd-base** restarts a unit and verifies that it becomes active.

The project models the two that write and what they stand on (the runner of external commands, the replacement of
a file), the protocol that all of them serve, and every command of the sixteen that read. TLC checks small
instances; TLAPS proves the main invariants of the parts that write, and of the protocol, for every value of the
constants.

## Inventory

| Part (`src/internal/...`) | State | Operations | Interacts with | What is hard |
|---|---|---|---|---|
| `protocol` | none; one request per process | `Serve`, `PlanDigest`, `ReadOnlyPlan`, validation | host over stdin/stdout; the `Definition` of a plugin | deadline becomes a context; error to exit code; arguments bound by position; a plan approved in one process is executed in another |
| `serversetup` plan | none | `Checker.Run`, `BuildSetupPlan`, upgrade probe, config and profile | `probe`, `execx`, host state | checks are no snapshot; the digest binds an approval to a state that may change |
| `serversetup` transaction | undo list, backups | `Apply`, `Commit`, `Rollback` of `localSetupTransaction`; `executeMutation` | `execx` (apt-get, groupadd, useradd, sysctl, systemctl), the file system | effects with errors, deadlines, order of undos, failing undos, interference |
| `serversetup` files | the file, its backup, temporary files | `ReplaceManagedFile`, `RollbackManagedFile`, `CommitManagedFile`, `EnsureDirectory` | the file system | crash at any step; fsync and rename order; leftovers |
| `execx` | one process group, two buffers | `Resolver.Resolve`, `OSRunner.Run` | the kernel; every plugin that runs a program | deadline against completion, descendants, pipes, output limits |
| `systemd` | none of its own; the unit | `Status`, `Logs`, `RestartPlan`, `ExecuteRestart` | `execx` (systemctl, journalctl) | a unit that flaps, a job that outlives its command, two runs at once, verification timeout |
| `probe`, `config`, the loaders of runbooks and certificates | none | one read of one file, confined or trusted | file system | the file opened is not the one inspected, or grows while it is read |
| `platform` | none | `Detect` | `os-release` under a root | a link, a file that changes, values that are quoted or empty |
| `resultbuilder`, `redact` | none | `Build`, classification of checks and errors | every plugin | aggregation that depends on order |
| `docker`, `storage`, `java`, `backup`, `postgres`, `kafka`, `k8s`, `gitlabrunner`, `monitoring`, `baseline`, `security`, `network`, `apt`, `system`, `incident`, `runbook` | none | collect, parse, classify | `probe`, `execx`, configuration | several reads that belong together (docker's listings, java's pids, kafka's directories), truncated output, partial failure, deadlines between reads, status rules |
| `cmd`, `tools`, `documentation` | none | main packages; checks at build time | `protocol` | nothing a model would show |

What makes each part correct: a transaction ends applied and verified, or as it began, or says that it is
neither; a managed file is whole at every moment and its original survives until the commit; `Run` returns
complete output, leaves no process of its group and honors its context; an approved restart happens once for
what was approved, a pass means a new start, and verification ends; a request that is served names one command
and gives it what it requires; a reading loses nothing silently, reports nothing that was not there, and passes
only if it read what it speaks of. `PROJECT.json` lists the hazards, each at its line, with the properties that
watch it.

Some things are as hard as these but are no failure of a property here: the undo of an enable is a disable, whatever
the unit was before (`commands.go:145`); there is no journal, so that a crash leaves backups nobody looks for
(`atomic.go:112`); the package check passes for any version (`check.go:147`); two overlapping sessions may both
install a package and the rollback of one removes it (`commands.go:48`); an account that exists but does not match
is planned as a creation, which can only fail (`plan.go:76`); `userdel` may remove the primary group before the
`groupdel` of the rollback (`commands.go:103`).

## Modules

| Module | Role |
|---|---|
| `SetupTransaction` | `executeMutation` after the digest is accepted: loop, verification, commit, rollback |
| `AtomicApply` | what a transaction promises its caller; `SetupTransaction` implements it (`PromiseKept`) |
| `SetupPlan` | what a check says of each kind of object, and `BuildSetupPlan`: operators only |
| `SetupSession` | several sessions of `setup check`, `apply` and `upgrade` on one host, from plan to result; extends `SetupPlan` |
| `ManagedFile` | one managed file, with what the disk may hold after a crash |
| `Exec` | `OSRunner.Run` and the processes of a command |
| `ServiceRestart` | several runs of `service restart` on one unit |
| `Serve` | one process: arguments, manifest, document, context, plan or execution, output and exit code |
| `ResultStatus` | `resultbuilder`: the status of a set of checks and errors; operators only |
| `Collector` | what a run of a command that reads consists of: the host, the deadline, the reply |
| `Apt`, `Backup`, `Baseline`, `Docker`, `GitlabRunner`, `Incident`, `Java`, `Kafka`, `Kubernetes`, `Monitoring`, `Network`, `Postgres`, `Runbook`, `Security`, `Storage`, `SystemInfo` | the sixteen plugins that read, a module each; each extends `Collector` |
| `ServiceInfo` | `service status` and `service logs` |
| `LocalFile` | the four ways to read one local file |
| `Platform` | `platform.Detect` |
| `Collectors` | all of the readers: one is chosen at the start; the properties of each under common names |
| `...Proofs` | the theorems about the module of that name; `SetupTransactionProofs` has the refinement of `AtomicApply` as well |
| `CollectorsProofs` | what the answers of the readers invent, show and weigh, and their types; the `<plugin>Reports` of `Security`, `ServiceInfo`, `Storage` and `SystemInfo` |
| `CollectorsReplyProofs` | what they lose, and when they pass; extends `CollectorsProofs` |
| `MC...` | instances for TLC (`ManagedFile` needs none: its only constant is a number) |

Operators named `X_Y` with a comment beginning "mutant" are altered forms of `X`. No action uses them: each is
a plausible bug in the code `X` stands for, put in its place to see that a property notices it.

### SetupTransaction

The host is one value per planned object: absent, as found (`old`), as compiled (`new`), or something else
(`foreign`). `pc`, `i`, `k` are the position in `executeMutation`, its loop, and the loop of `Commit` or
`Rollback`. `undo` is `localSetupTransaction.undo`; `saved` is what the closures captured; `stored` the backups
on disk. An operation has two halves, because the code reads before it writes: `Capture` (`dpkg-query`,
`sysctl -n`, `is-enabled`, the backup) and one of `ApplySucceeds`, `ApplySilent` (exit 0 without effect),
`ApplyFails`, `ApplyFailsLate` (an error after the effect) and `ApplyInterrupted` (killed at the deadline, with
or without effect). Only `ReplaceManagedFile` registers an undo together with an error, as in
`transaction.go:156-163`. `Drift` is anybody else on the host.

`Needs` says what cannot be made without what (a user without its group, a directory owned by the user), and
`Pins` what cannot be removed under what (a group in use, a directory that is not empty); they are the facts of
the operating system that make the order of undos matter. `NeedsAssumption` says of them what the code arranges:
the plan is sorted so that what an object needs comes before it (`changePriority`, `plan.go:117-130`, `151-172`), and
nothing needs a unit, which comes last.

`blind`, `lost` and `drift` are history: objects changed by an operation that returned an error, objects whose
undo failed, objects that somebody else changed. The properties are stated up to these, because that is all the
code can promise:

* `Accounted`: until a success is reported, every difference from the initial host is in the undo list, or is
  blind, lost or drift.
* `RestoredUnlessReported`: a failure without "rollback failed" means the host is restored, up to blind and drift.
* `AppliedIsVerified`: an applied transaction left every object passing its check.
* `RollbackUnobstructed`: the order of the undos alone never makes one fail.
* `NeedsHold`: nothing the transaction made stands without what it needs.
* `FaultFreeApplies`: without faults, deadline and drift an approved plan is applied.
* `Advances`: every step brings the end nearer (`Variant`), and nobody else puts it off; so nothing is tried twice.
* `PromiseKept`: the refinement of `AtomicApply`. `Terminates`: every transaction ends.

Abstractions: a package has no version beyond old and new; special mode bits are not part of a value; `userdel`
is not taken to remove a primary group; a unit is outside `IsExact`, because `systemctl disable` does not bring
a static or linked unit back. Transactions that were interrupted promise nothing: their rollback's error is
discarded.

`Init` starts from every host a plan may have been made for, with objects that the plan cannot change (an account
that exists but does not match is planned as a creation, `check.go:227`, `plan.go:65-80`; a sysctl key that is
not there is planned as a setting). `Feasible` tells these plans apart where a property needs them to work.

### SetupPlan and SetupSession

`SetupSession` is the layer above: each session has a `pc` through the plan verb (`plan`, `shown`), the execute
verb (`execute`, `apply`, `verify`, `undo`) or `setup check` (`check`), all over one `host`. `Read` is one
iteration of `Checker.Run`: the packages, the groups and the users are read together (`ReadTogether`: one
`dpkg-query`, one file), every other object by itself, in the order of the profile, so that a reading may mix two
states of the host. What cannot be read is `skipped`. `known` is the `accountDatabase` of the reading: a user or
an owner is recognised only if its group was found by the same reading. `Verdict` is what a check says;
`BuildSetupPlan` makes the plan of `seen`, and refuses (`Complete`) a reading with a skipped check. The digest
covers mode, checks and changes, so that `SameDigest` is equality of plans; collisions are left out. The operator
is `Execute`: it may come at any time, and again after the digest was executed, up to `MaxRuns`. A transaction is
coarse here: a change is one step that succeeds (`Apply`) or fails with or without its effect (`ApplyFails`), and
`Undo` writes what `Saved` says; its inner steps are `SetupTransaction`'s. The undo of a unit disables it, unless it was
enabled before (`Restored`); the instance has no unit, the proofs do. A host without a compiled profile is an error
for the plan verb and a critical result for `setup check` (`ReadingFails`).

The history variables are `made` (what the execution changed), `touched` (others changed the host since this
session began to execute), `base` (whose success stood then) and `wins`.

* `SuccessMeansConverged`: a check that passes and an apply that reports success tell of a host that conforms in
  every object of the profile, although only planned objects are verified and all are read one by one.
* `ApprovedChangesOnly`: an execution changes nothing the operator has not approved.
* `AppliedOnce`: a digest executed again is not applied again.
* `LaterKeepsEarlier`: a session that begins after another one succeeded cannot take back what that one made.
* `NoDoubleCreation`: of two overlapping sessions, one at most creates an account and is applied.

The overlap is otherwise not protected: nothing locks the host, and a session that rolls back may remove a
package that another one, already successful, found missing and installed too (`commands.go:48`). That is why
the first property excepts hosts that others have touched.

### ManagedFile

The directory and the files exist twice: as a reader sees them (`dir`, `file`) and as the sets of values a crash
may leave (`dirs`, `disk`). Directory operations reach the disk in the order they were issued, as a journaled
file system does, and `dirs` holds the states since the last sync of the directory; content and metadata reach
the disk at any time and are certain only after an fsync. `createDurableTemp` is `CreateTemp`, `WriteTemp`,
`SyncTemp`, `SetMetadata`, with `StageFails` for the failure of any stage, and serves the backup, the
replacement and the restore, told apart by `purpose`. `Decide` stands for the rest of the transaction. A torn or
half-written file has the content `empty`.

### Exec

`pc` is the goroutine of `Run`; `WaitEnds` and `Copy` are the goroutines of `os/exec`. The select between the
end of the wait and the end of the context is `Finished` or `Kill`, either when both are ready. Descendants
fork, leave the group, write, close and exit as they like. Only stdout is modelled (stderr is the same buffer
and the same wait); no caller passes stdin.

### ServiceRestart

The unit is its state and the number of the start of its main process, which stands for `MainPID` and
`ExecMainStartTimestamp`. `Execute` is the execute verb up to the comparison of the digests; `CommandFails` is
every way in which a command returns an error that the code passes on. A killed `systemctl restart` leaves its
job queued (`job`), and systemd merges the jobs of several runs. The property list other than state and start
is assumed not to change. A unit without a main process (a target, a service whose main process systemd does not know)
is not modelled: the code could not tell a new start of it from none. A zero exit of `systemctl restart` is taken for a
start that happened; afterwards the unit may be down, as a oneshot unit or one that crashes is. The verification
context is a child of the invocation's: the deadline of the invocation ends the verification as its own timeout does, and the diagnostic queries that follow (`Diagnose`) then run under
a context that is already done.

### Serve

`definition` is the plugin (a manifest, whether it plans, whether it executes), `argv` and `document` are what the
host gave the process. The order of the actions is that of `protocol.Serve`: `Usage`, `BadManifest`,
`WriteManifest` or `UnknownVerb`, `Reject` or `Decode`, then `Unsupported`, `TooLate`, `Invalid` or
`ReadOnlyPlan`, and at last `WritePlan`, `WriteResult` or `writeFailure`. `invocationContext` ends the context at any
moment after the decoding if the document has a deadline. `Encode` may fail with part of the output written.

A document is the sequence of its members, each in its object, with its key, its case and its value, for what is
delicate in its decoding is which member wins: `strictjson` compares keys as they are written, and `encoding/json`
finds a field without regard to case.

* `RequiredAreBound`: what is planned or executed gives a value to every argument required by any command its path
  names. Values are bound by position and only counted, for the first command that fits; it is `validateArguments` and
  the uniqueness of paths, checked in another function on another input, that make the count mean what it should.
* `OutputIffOK`: standard output holds one whole document exactly if the exit code is 0.

Nothing is claimed of a field that is given twice: members of one spelling are refused, and of two that differ in case
the later one wins (see below).

`ReadOnlyPlan` is what the plugins that only read call at the start of both verbs. `docker`, `storage`, `systemd` and
`server-setup` validate their arguments themselves, so that what `RequiredAreBound` says is not said of these four.

### The collectors

A run of a plugin that reads is `cmd` (the command), `ctx` (live, until the deadline of the invocation passes,
at any step), `host` (what there is to read), `pc` and `got` (what was read so far), and `reply`. Each read
is a step of its own, in the order of the code: `Change` lets others change the host between any two of them,
up to `MaxChanges` times, and `Deadline` may come between any two of them. `hist` records what a property needs to
know of the past: what was there all the time, what was there at some time. `Pids` are the process ids of the host
and `MaxFileLines` the length of the longest configuration of GitLab Runner.

A value of the host is what the code tells apart: a file is absent, refused (a link, too large, unsafe), malformed
or has rows; a program is absent, exits with an error, prints too much or prints rows; a row is an identity, with
those attributes a rule looks at. The modules name the classes at their heads. Bytes, numbers in full and the
patterns of the parsers are left out.

`Collectors` puts the properties together under five names. What each means for a plugin is stated in its module:

* `NothingLost`: what is there all the time, and can be read, is in the reply, and so are the errors that each module
  demands for what cannot be read. It looks for readings that end at the first failure and for output cut at a limit.
  What the code passes over without an error is named at `NothingLost` in `Collectors` and in the modules: the optional
  sources of `postgres status` (as its document says), a process of `kafka` or `monitoring` whose name cannot be read,
  one of two socket tables of `network`, the sshd_config of `security` beside drop-ins that can be read, and the rows
  of shadow and group that are skipped. For the process of `monitoring` and the row of a group a document says
  otherwise (see below).
* `NothingInvented`: what is reported was there at some time, together if the reply says so (a java
  process with its own arguments, a kafka directory with its own count, a file whose content was inspected). One
  exception is stated: a backup tool that answers its probe badly may be reported as present with an error that says
  so, although the document does not count it as present (see below).
* `PassIsEarned`: a run that passes has read what it speaks of, in time, and found it in order. Of the manifests of
  `k8s` it says that no link was among them and that each was named and read.
* `StatusIsWorst`: no finding hides behind one that weighs less, in whatever order they came.
* `SecretsMasked`: no secret that a plugin can meet is in its reply.

## Runs

| Run | What it shows | Bounds |
|---|---|---|
| `managed_file` | the safety properties of `ManagedFile` | 2 transactions: the second starts from whatever the first or its crash left. No run reads the temporary files of another, so a third meets nothing new; the theorems hold for any number |
| `setup_apply` | the invariants of `SetupTransaction`, and that each step brings its end nearer, on a plan of six objects, one of each kind that can be applied | 2 faults (one to start a rollback, one inside it), 1 change by others |
| `setup_upgrade` | refinement and termination on the plan of an upgrade | 2 faults, no drift (the promise is about a host nobody else changes) |
| `setup_unit` | violated: a disabled unit is never enabled | a group and a unit |
| `exec` | safety and the return of `Run` | 2 descendants (a child and a grandchild, one in and one out of the group), limit 2, up to 4 units written: below, at and above the limit, and a chunk across it |
| `exec_deadline` | violated: a descendant outside the group keeps `Run` waiting | as above |
| `service_restart` | use of approvals, the meaning of a pass, and that a restart ends without any deadline | 2 runs, 2 starts: one by each run, or by the unit |
| `setup_session` | the invariants of `SetupSession` | a package, a group and the user in it (the three kinds that are read together and the dependency of one check on another); session 1 applies and may execute its digest twice, session 2 is any command and executes once; one change by others when session 2 only checks |
| `serve` | the properties of `Serve` | manifests of one command with every list of two arguments at most, or of two commands with a flag of each kind of trouble, or refused for each reason there is; documents of the three needed members and at most two more, for each way a member may be doubled, misplaced or malformed; 0 to 3 arguments |
| `collectors` | the five properties of all readers, and the shape of their replies | 2 changes: one after the first reading and one after the second, enough for an object to go and come back between two reads that belong together; each list has two elements or one at, one above and one below its limit; hosts differ from a healthy one in a field or two; 3 process ids, configurations of at most 4 lines |
| `gitlab_runner_table` | violated: a malformed configuration makes the process panic | the plugin on its own, 1 change by others |
| `backup_missing_unit` | violated: a unit that is not there is an error | the plugin on its own, 1 change by others |

`CHECK_DEADLOCK FALSE` is used everywhere because every behaviour ends: the transaction, the command, the run or
the process is done and the bounds on the environment are used up.

### Where code and documents disagree

With a run:

1. `setup_unit`: `Unit` takes the nonzero exit of `systemctl is-enabled` for an error (`commands.go:137`), so a
   plan that enables a unit is rolled back. server-setup-base.md: apply may "enable `systemd-timesyncd.service`".
2. `exec_deadline`: there is no limit to the wait for the pipes after the kill (`execx.go:143`). SECURITY.md
   promises a context deadline and process-group cleanup.
3. `gitlab_runner_table`: the header `[runners]` makes the section that of a runner without adding one, and the next
   assignment indexes the list with -1 (`config.go:175`): the process panics. gitlab-runner-base.md: "unsafe or
   malformed strict TOML uses the configuration mapping".
4. `backup_missing_unit`: `inspectUnit` accepts a missing unit only if `LoadState` is all that is printed, and
   `systemctl show` prints the three properties asked for (`status.go:124`). backup-base.md: "A missing conventional
   unit is informational".

Seen while modelling, without a run:

* `inspectVersion` of `backup` answers with an error and "found" at once for a program that exits with an error, prints
  to stderr or prints no valid version (`inventory.go:174-181`), and the tool is reported as present. backup-base.md:
  "Product presence is derived from a valid executable probe or present config."
* `parseBorgRepository` ends at the first path, also if that is empty (`inventory.go:217`). backup-base.md: "Borg
  accepts the first nonempty `path:` repository field".
* `readGroups` of `security` drops a row without a name or with a malformed gid without an error (`accounts.go:161-163`).
  security-base.md: "Malformed identity rows are skipped with structured errors."
* `monitoringProcesses` swallows the error of reading the name of a process (`inventory.go:332-335`), and what it runs
  may be reported as missing. monitoring-base.md: "Optional source failures create dependency or configuration errors".
* `CommitManagedFile` can fail after it removed the backup (`atomic.go:188-191`), and the rollback that follows cannot
  restore. The release plan: "Inject failures after every transaction stage. Verify preserved backups".
* `createDurableTemp` syncs before chmod and chown (`atomic.go:226-242`). The release plan: "mode/owner validation,
  fsync, rename".
* Keys that differ in case are no duplicates for `strictjson` (`strictjson.go:55`) and one field for the decoder, where
  the later one wins. development.md: "Unknown or duplicate keys and trailing documents are rejected."
* On an interruption the rollback's error is assigned to `_` (`apply.go:61`, `72`, `80`). server-setup-base.md: "A
  rollback failure is redacted and reported together with the primary transaction failure."
* In the upgrade mode `BuildSetupPlan` replaces only the rule for packages and goes on to plan every group, user,
  directory, file, sysctl and unit that does not conform (`plan.go:65-118`). server-setup-base.md of the upgrade:
  "Only approved packages reported by that local simulation enter the plan".
* `selectStorageConfig` of `kafka` turns an error of the context into one of a dependency (kafka-base.md:127).

What the code does and no document denies: a mount hidden by a later one is given the counters of what hides it
(`storage`); `apt updates` does not look at whether its output was cut; `network listeners` drops the errors of
unreadable tables if one can be read; `monitoring` reads the configurations twice for `status`; `system health` shows
the load as information even if it was not read. The properties are stated so that these count as what they are.

## Fairness

A plugin is a sequential Go program; its goroutines go on as long as they can. So `FairSpec` has weak fairness of
the program's own steps: `Step` of the transaction; `Run`, `Copy` and `WaitEnds` of a command, separately, for
they are different goroutines; `Step(r)` of a restart, with its timer. Nothing in the environment is fair
(deadlines, drift, descendants, the unit, the operator), with one exception: systemd ends a restart job, and
`systemctl restart`, which waits for it, returns. That is an assumption about the unit: its jobs have a timeout by
default, but the start of a oneshot unit has none unless its file sets one. Termination of the
transaction assumes that each command returns, which `Exec` shows unless a process outside the group keeps the pipe for ever.
`Serve` and the collectors state no fairness: their steps are finite in number, and nothing is claimed of when they
come.

## Proofs

`SetupTransactionProofs` proves `TypeOK`, `Accounted`, `RestoredUnlessReported` and `AppliedIsVerified` for every
set of objects, every plan and every bound, from `PlanAssumption` (the objects of a plan are distinct),
`BoundAssumption` and `NeedsAssumption`. None of them is inductive alone. The inductive invariant adds

* `PhaseInv`: what `pc` implies about `i`, `k`, `exit`, `blind`, `lost` and `reported`;
* `OrderInv`: every undo that is registered belongs to a change before the current one, so that the current change
  has none yet and its object is as it was found (or drifted);
* `SavedInv`: an undo of an exact object writes what the transaction found, unless somebody else changed it before
  it was read; the undo of a creation writes "absent", which is what was found because creating an account that
  exists fails. This makes an undo remove its object from the differences.

`IInv` is `TypeOK`, these three and `Accounted`. `VerifiedInv` (from the verification to the end every planned
object passes or has drifted) is a second invariant that rests on `IInv`. The step lemma has one case per action.

Three theorems of the same module are about the order of changes and undos. `NeedsHold` is a property of two
objects at once, which `IInv` does not know enough for. `ListInv`: the list is as long as the changes made, without
repetition. `BeginInv`, `FoundInv`: an object is as it was found, new, or removed, and those still to come are as
found. `HeldInv`: while nothing was lost or blind, what is new has its undo pending. `UndoneFirst`, the heart of it:
of two new objects one of which needs the other, the undo of the one that needs comes later in the list, and so is run
first. It follows from the order of the plan when an undo is registered (`RegisterNeeds`) and is kept by taking undos
from the end. With them `NeedsHold` is inductive. `RollbackUnobstructed` (`UndosSucceed`) adds `UndoableInv`: every
pending undo has something to undo, and a file whose undo writes the original still has its backup. `FaultFreeApplies`
(`PlansAreApplied`) adds `GoodInv`: on a feasible plan without faults all changes before the current one are new, and
the rollback is not reached. It has two hypotheses, that all objects are planned and that none is a unit: a unit is
never enabled, which is the finding of `setup_unit`. `StepsAreBounded` proves `Advances` for every plan, from
`ListInv`: the rollback is never longer than the list of what was applied (`ShortRollback`). It is the safety half of
`Terminates`: a transaction of n changes takes at most 4n + 5 steps, whatever fails.

`ExecProofs` proves `TypeOK`, `GroupIsGone` and `OutputIsComplete` for
every number of descendants, every limit and every amount of output; the invariant says what each stage owes the
next (nothing runs before the start, the group stays empty after the kill, nobody can write after the wait, the
buffer holds what was copied cut at the limit).

`SetupSessionProofs` proves `TypeOK`, `ApprovedChangesOnly` and `SuccessMeansConverged` for every profile, any
number of sessions, of executions and of changes by others, from `ProfileAssumption` and `SessionAssumption`. The
invariant is stated of one session at a time: `LifeInv` (what `pc` implies about the rest), `ApprovalInv` (what is
to be made and what was made is approved), `ReadingInv` (what the current reading found in order is in order, if
nobody else wrote), `PlannedInv` (what the plan leaves alone was in order and stays so), `GoodNews`. `Frame` says
what a step of one session leaves of another one: everything of its own, and the host unless it is marked as
touched; `FrameKeeps` shows once that this keeps the invariant, so that each action is examined only for the
session that takes it.

`ServiceRestartProofs` proves `TypeOK`, `ApprovalIsSpent` and `PassMeansRestarted` for any number of runs and of starts.
Again the invariant is stated of one run at a time: the start of the unit never goes back behind what the run knows
of it (`KnownInv`); until its job is queued, and while it is, the run has no exit code and no effect (`QueueInv`);
from then on what it saw is what was approved (`DigestInv`), an effect is newer than what it saw (`EffectInv`), and
only an exit code of zero leads to a verification (`ExitInv`). That two runs do not spend one approval follows from
this alone. `FrameKeeps` and `LaterStart` say what the steps of the others, and other starts of the unit, leave alone.

`ServeProofs` proves the three invariants of `Serve` for every set of manifests and documents in which the lists of
arguments are lists and the number of arguments is a number (`ManifestAssumption`, `DocumentAssumption`). The
invariant carries what was accepted at the start to where it is used (`DecodedInv`, `ServedInv`).
`RequiredReached` is the argument behind `RequiredAreBound`: if required arguments come first, the last of them
stands at the position which is their number.

`ManagedFileProofs` proves `TypeOK`, `TargetWhole`, `OriginalRecoverable`, `RestoredIsOriginal`,
`CommittedIsDurable` and `NoOrphans` for any number of transactions, each of which may fail or crash anywhere, from
`MaxRunsAssumption` alone. The invariant says of every directory a crash may leave what the code says of the one it
sees. `NamesInv`: the names of a run are its own, and no target is a backup. `WholeInv`: a target is `Durable`, that
is, no crash changes its content. `BeforeInv`, `BackupInv`, `WrittenInv` and `AfterInv`: what the stage that is being
written, the backup, the temporary file and the target hold at each `pc`. `RecoverInv`: among the files that no run
is writing (`Kept`) one has the content the transaction found; this is stronger than `OriginalRecoverable`, which
looks at every file there is, and is what makes it inductive. `LinkInv` and `OrphanInv`: which files of its own a run
may have left. `EndInv`: the three properties of a transaction that is over. `TempUnused` (a file that is being
written is nobody's target or backup) is behind the lemmas about the stages, and every action has a lemma of its own.

`SetupTransactionProofs` also proves `PromiseKept`, `Spec => Promise!Spec`, for every plan that covers the objects
(`Planned = Objects`) on a host nobody else changes (`MaxDrift = 0`), which is where the promise is made. The abstract
host is what the concrete one has changed (`Changed`), the abstract phase a function of `pc` and `exit` (`Phase`).
Each action of the code is one of five steps: it changes an object, takes one back, decides for success, ends, or
shows nothing; `IInv` and `VerifiedInv` give the guards of the abstract actions.

The last part of `SetupSessionProofs` proves `AppliedOnce`, `LaterKeepsEarlier` and `NoDoubleCreation`. An object is `Standing` if it is as compiled and the accounts its check looks up exist. A
reading that nobody else disturbs finds a standing object in order, or has skipped something and is refused
(`FoundInv`), so that no plan contains it. `OnceInv` keeps what a session made standing, so that a second execution
has another digest; `LaterInv` says that a session which begins after the success of another one plans, makes and
undoes nothing of what that one made (`Leaves`), nor an account it needs. `CreationInv` and `HolderInv` say that an
account that exists has at most one session that created it, and one that is missing none. The argument needs that
the groups and users which a check looks up are read, and changed, before the object itself, which is part of
`ProfileAssumption` (`changePriority` in `plan.go` and the order of `Checker.Run`).

`CollectorsProofs` proves `NothingIsInvented`, that is `Spec => []NothingInvented` for all readers that promise it:
whatever others do to the host between two reads, and whenever the deadline passes, a reply speaks only of what was
there. It holds for any number of changes, every set of process ids with 1 in it (`PidsAssumption`) and
configurations of any length (`LinesAssumption`). Each reader has an invariant of its own, `<plugin>Inv`, with a
lemma for its start, its steps and what it says at the end; `CollectorsInv` chooses among them. They are alike in
three ways. What is there now is in the history (`hist`). What has been read, and is still on its way through the
stages (`got`, the list that waits, the item in hand), was there when it was read. Where a reading has several steps,
the invariant says what the first of them has fixed for the later ones: the start of the process that was listed
first, the directory that was opened, the mount table. The configuration of GitLab Runner is read
line by line by a recursive function over files. What it accepts is shown for files of any length by an induction over the
set of lengths (`Induct`, from the least element of a set of numbers), since the theorems of the library take an
operator: no runner is reported that has no section (`GAccepted`).

Two more promises follow there, from `CollectorsInv` and an invariant for each.
`SecretsAreMasked`: whatever is kept on the way to an answer (`<plugin>Masked`) may be shown. Which arguments of a
process are masked is a recursion over its arguments, of any number (`JMasksNext`, `JRedacts`). `WorstStatusWins`: the
status is the worst of the findings. For `baseline` the invariant says that the check of unsafe account files is still
to be made or was critical (`BlPending`); for `disk usage` that the loop over the filesystems, which weighs them one by
one, has after k of them the worst of the first k, in any order (`StFolded`). That such a recursion has a solution at
all has to be shown first, since a recursive function is a `CHOOSE` to the provers: `Iterates` does so for every
recursion whose step is a function, and `Induct` is the induction.

`TypeCorrect` proves `TypeOK` for all readers and every number of changes (`ChangesAssumption`). Every step of a
program is shown to go on without an answer or to give one of the right form (`Moves`), every other step to leave
answer and place alone (`Meanwhile`); that these two keep the types is shown once (`MovesTyped`). A reader that
collects checks on its way keeps their statuses in `<plugin>Types`; the status of `disk usage` is a recursion, and
its type follows from `StFolded`.

`CollectorsReplyProofs` proves the other half of what a reader owes, `NothingIsLost` and `PassesAreEarned`, for all
readers that promise it. The first says no more than its modules do, and has the exceptions named above. Neither is
inductive: both speak of the answer only. The invariant of a reader, `<plugin>Reports`, says of each stage what an answer will need, and rests on `<plugin>Inv` where it needs to know what
was read. For `NothingLost` it says that what is there all the time is still to be looked at, or was found, or has an
error; "all the time" is a part of the history, so that the invariant also relates the history to the host. For
`PassIsEarned` it says that what is at fault is still to be looked at or was told, and that what was looked at in time
and in full has no error. A row of a section is kept, or is one of those the rules of its parser leave out, for lists
of any length; a limit that was reached left its mark. `RepliesReport` chooses the invariant of the reader that runs;
`RepliesReportNext` and `RepliesReportSafe` put the lemmas of the readers together. Those of `Security`,
`ServiceInfo`, `Storage` and `SystemInfo` stand in `CollectorsProofs`: the provers take about as long for each of the
two modules.

An `INSTANCE` copies whatever the module it names extends, and the provers carry all of it with every obligation. The
modules of the readers therefore extend `FiniteSetsExt` or `Functions`, and not all of `SequencesExt`.

Model-checked only: liveness (`Terminates`, `HonorsContext`), which is outside the prover's reach. Every other property
that a passing run checks is proved.

## Plan

Done: 1. `SetupTransaction`, `AtomicApply`, their proofs and the refinement; 2. `ManagedFile` and its proofs; 3. `Exec` and its
proofs; 4. `ServiceRestart` and its proofs; 5. `SetupPlan`; 6. `SetupSession` and its proofs; 7. `Serve` and its
proofs, `ResultStatus`; 8. `LocalFile` and `Platform`; 9. the sixteen plugins that read, `ServiceInfo`, and
`Collectors`; 10. the refinement, the order of undos and the termination argument in `SetupTransactionProofs`,
`CollectorsProofs` and `CollectorsReplyProofs`.

Left, in this order: a transaction of `SetupSession` whose steps are those of `SetupTransaction`; the Windows variants
of `execx`.

## Not modelled

* `redact`: patterns over strings and a walk by reflection, without state. That each plugin sends what it publishes
  through a mask is `SecretsMasked`.
* The bytes of JSON, YAML and TOML documents, the grammar of names and paths, and the trust checks of executables:
  functions without state. Where they can fail, the failure is an outcome of the step that calls them.
* `cmd` is one call of `Serve` for each plugin. `tools` and `documentation` run before a release and touch no host.
* The Windows variants of `execx` are not what the plugins are released for.

`PROJECT.json` gives the status of every part.
