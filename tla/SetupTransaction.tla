-------------------------- MODULE SetupTransaction --------------------------
(***************************************************************************)
(* internal/serversetup: the transaction that applies an approved plan     *)
(* (executeMutation in apply.go, localSetupTransaction in transaction.go,  *)
(* and the operations of commands.go and atomic.go it calls).  Changes are *)
(* applied one by one, each successful one registering an undo; then every *)
(* planned object is checked again and the transaction commits.  An error  *)
(* on the way runs the undos in reverse order, within five seconds.        *)
(*                                                                         *)
(* The host is one value per planned object.  Operations may fail with or  *)
(* without having had their effect, the invocation deadline may pass at    *)
(* any moment, and somebody else may change an object meanwhile.           *)
(***************************************************************************)
EXTENDS Integers, Sequences, FiniteSets

CONSTANTS
    Objects,    \* the objects of the plan's changes
    Action,     \* Change.Action of each
    Plan,       \* plan.Changes, as the sequence of their objects
    Needs,      \* <<o, p>>: o cannot be made while p is absent
    Pins,       \* <<o, p>>: p cannot be removed while o exists
    MaxFaults,  \* bound on the failures of commands, files and checks
    MaxDrift    \* bound on the changes made by somebody else

Actions == {"install-cached", "upgrade-cached", "create", "ensure", "replace", "set", "enable"}
Values == {"absent", "old", "new", "foreign"}   \* "new": as the compiled profile says

ASSUME PlanAssumption ==
    /\ Action \in [Objects -> Actions]
    /\ Plan \in Seq(Objects)
    /\ \A m, n \in 1..Len(Plan) : Plan[m] = Plan[n] => m = n

ASSUME BoundAssumption == MaxFaults \in Nat /\ MaxDrift \in Nat

\* Nothing hangs on a unit, and changePriority sorts what an object needs before it.
ASSUME NeedsAssumption ==
    /\ Needs \subseteq Objects \X Objects /\ Pins \subseteq Needs
    /\ \A d \in Needs : Action[d[2]] # "enable"
    /\ \A d \in Needs, m, n \in 1..Len(Plan) : Plan[m] = d[2] /\ Plan[n] = d[1] => m < n

Planned == {Plan[m] : m \in 1..Len(Plan)}

\* Run as a command under the context; the others ignore the context.
IsCommand(o) == Action[o] \notin {"ensure", "replace"}

\* `systemctl disable` undoes every enable, whatever the unit was before.
IsExact(o) == Action[o] # "enable"

VARIABLES
    host,       \* the value of every object
    pc,         \* where executeMutation is
    i,          \* the change being applied
    undo,       \* localSetupTransaction.undo, as the objects to be undone
    k,          \* the loop index of Commit or Rollback
    saved,      \* what the undo of each object will write
    stored,     \* the managed files whose backup is on disk
    expired,    \* the invocation context is done
    rbExpired,  \* the rollback context is done
    exit,       \* how executeMutation returns: an interrupted run returns its
                \* error as it is, a failed one adds the error of the rollback
    reported,   \* the returned error says that the rollback failed
    faults,     \* failures left
    begin,      \* history: the host when the transaction began
    blind,      \* history: objects changed by an operation that returned an error
    lost,       \* history: objects whose undo returned an error
    drift       \* history: objects somebody else changed

progress == <<pc, i, undo, k, saved, stored, exit, reported>>
history == <<begin, blind, lost, drift>>
vars == <<host, progress, expired, rbExpired, faults, history>>

\* A transaction changes each object at most once, registers an undo for it at most
\* once, and ends with one of its outcomes.
TypeOK ==
    /\ host \in [Objects -> Values]
    /\ pc \in {"loop", "apply", "verify", "commit", "rollback", "done"}
    /\ i \in 1..(Len(Plan) + 1)
    /\ undo \in Seq(Planned)
    /\ k \in 0..(Len(undo) + 1)
    /\ saved \in [Objects -> Values]
    /\ stored \subseteq Planned
    /\ expired \in BOOLEAN /\ rbExpired \in BOOLEAN /\ reported \in BOOLEAN
    /\ exit \in {"none", "applied", "failed", "interrupted"}
    /\ faults \in 0..MaxFaults
    /\ begin \in [Objects -> Values]
    /\ blind \subseteq Planned /\ lost \subseteq Planned /\ drift \subseteq Objects

\* What a planned object can be when the plan is made: it does not conform,
\* and what it hangs on exists if it exists.  A group, a user or a key may be
\* planned although nothing can be done for it (see Applicable).
Init ==
    /\ begin \in [Objects -> {"absent", "old"}]
    /\ \A o \in Objects :
          /\ Action[o] = "install-cached" => begin[o] = "absent"
          /\ Action[o] = "upgrade-cached" => begin[o] = "old"
    /\ \A d \in Pins : begin[d[1]] = "old" => begin[d[2]] = "old"
    /\ host = begin /\ saved = begin
    /\ pc = "loop" /\ i = 1 /\ undo = <<>> /\ k = 0 /\ stored = {}
    /\ expired = FALSE /\ rbExpired = FALSE
    /\ exit = "none" /\ reported = FALSE /\ faults = MaxFaults
    /\ blind = {} /\ lost = {} /\ drift = {}
-----------------------------------------------------------------------------
Fault == faults > 0 /\ faults' = faults - 1
NoFault == UNCHANGED faults

\* A fault is spent when the operation could have succeeded.
FailsUnless(able) == IF able THEN Fault ELSE NoFault

InTime(o) == IsCommand(o) => ~expired

StartRollback_Forgetful(e) ==    \* mutant: the undo registered with the error is not run
    pc' = "rollback" /\ exit' = e /\ k' = Len(undo)
StartRollback(e) == pc' = "rollback" /\ exit' = e /\ k' = Len(undo')

Current == Plan[i]
Change(v) == [host EXCEPT ![Current] = v]
Register == undo' = Append(undo, Current)

-----------------------------------------------------------------------------
(* The loop of executeMutation and the operations behind Apply.             *)

\* ctx.Err() before each change.
LoopInterrupted ==
    /\ pc = "loop" /\ i <= Len(Plan) /\ expired
    /\ UNCHANGED undo /\ StartRollback("interrupted")
    /\ UNCHANGED <<host, i, saved, stored, reported, expired, rbExpired, faults, history>>

LoopEnds ==
    /\ pc = "loop" /\ i > Len(Plan)
    /\ pc' = "verify"
    /\ UNCHANGED <<host, i, undo, k, saved, stored, exit, reported,
                   expired, rbExpired, faults, history>>

\* What an operation reads first: dpkg-query of a missing package, `sysctl -n`
\* of a missing key and `systemctl is-enabled` of a unit that is not enabled
\* exit with an error.
Readable_ExistingFile(o) ==    \* mutant: a managed file must exist to be replaced
    Action[o] \in {"upgrade-cached", "set", "replace"} => host[o] # "absent"

Readable(o) ==
    CASE Action[o] \in {"upgrade-cached", "set"} -> host[o] # "absent"
      [] Action[o] = "enable" -> host[o] \in {"old", "new"}
      [] OTHER -> TRUE

\* The first half of an operation: read what its undo will write.  The undo of
\* an installation or a creation is compiled in: remove it.  ReplaceManagedFile
\* makes its backup here.
Capture ==
    /\ pc = "loop" /\ i <= Len(Plan) /\ ~expired
    /\ Readable(Current)
    /\ saved' = [saved EXCEPT ![Current] =
                   IF Action[Current] \in {"install-cached", "create"} THEN "absent"
                   ELSE host[Current]]
    /\ stored' = IF Action[Current] = "replace" /\ host[Current] # "absent"
                 THEN stored \cup {Current} ELSE stored
    /\ pc' = "apply"
    /\ UNCHANGED <<host, i, undo, k, exit, reported, expired, rbExpired, faults, history>>

\* It fails, or the deadline passes meanwhile: nothing is registered.
CaptureFails ==
    /\ pc = "loop" /\ i <= Len(Plan) /\ ~expired
    /\ \/ FailsUnless(Readable(Current)) /\ UNCHANGED expired
       \/ IsCommand(Current) /\ expired' = TRUE /\ NoFault
    /\ UNCHANGED undo /\ StartRollback("failed")
    /\ UNCHANGED <<host, i, saved, stored, reported, rbExpired, history>>

\* groupadd and useradd refuse an existing name, mkdir and chmod a path that
\* appeared or vanished since Lstat, and systemctl a masked unit; and nothing
\* can be made without what it needs.
Applicable(o) ==
    /\ \A d \in Needs : d[1] = o => host[d[2]] # "absent"
    /\ Action[o] = "create" => host[o] = "absent"
    /\ Action[o] = "ensure" => (host[o] = "absent" <=> saved[o] = "absent")
    /\ Action[o] = "set" => host[o] # "absent"
    /\ Action[o] = "enable" => host[o] # "foreign"

\* `apt-get --only-upgrade install` passes over a package that is not installed.
Effect == IF Action[Current] = "upgrade-cached" /\ host[Current] = "absent"
          THEN host ELSE Change("new")

ApplySucceeds_Twice ==    \* mutant: the loop advances over a change
    /\ pc = "apply" /\ Applicable(Current) /\ InTime(Current)
    /\ host' = Effect /\ Register /\ i' = i + 2 /\ pc' = "loop"
    /\ UNCHANGED <<k, saved, stored, exit, reported, expired, rbExpired, faults, history>>

ApplySucceeds ==
    /\ pc = "apply" /\ Applicable(Current) /\ InTime(Current)
    /\ host' = Effect
    /\ Register
    /\ i' = i + 1 /\ pc' = "loop"
    /\ UNCHANGED <<k, saved, stored, exit, reported, expired, rbExpired, faults, history>>

\* A command that could have done its work exits with 0 without it.
ApplySilent ==
    /\ pc = "apply" /\ IsCommand(Current) /\ Applicable(Current) /\ ~expired
    /\ Fault
    /\ Register
    /\ i' = i + 1 /\ pc' = "loop"
    /\ UNCHANGED <<host, k, saved, stored, exit, reported, expired, rbExpired, history>>

\* An error that left the object alone.  Only ReplaceManagedFile registers an
\* undo with an error, when it has made a backup.
ApplyFails ==
    /\ pc = "apply"
    /\ FailsUnless(Applicable(Current) /\ InTime(Current))
    /\ IF Current \in stored THEN Register ELSE UNCHANGED undo
    /\ StartRollback("failed")
    /\ UNCHANGED <<host, i, saved, stored, reported, expired, rbExpired, history>>

\* An error after the effect: a command that exits with an error, a directory
\* that could not be cleaned up, or a file that was renamed but whose directory
\* was not synced, the only case with an undo.
ApplyFailsLate_Unregistered ==    \* mutant: an error returns before the undo is kept
    /\ pc = "apply" /\ Applicable(Current) /\ InTime(Current)
    /\ Fault
    /\ host' = Effect
    /\ blind' = IF Action[Current] = "replace" THEN blind ELSE blind \cup {Current}
    /\ UNCHANGED undo /\ StartRollback("failed")
    /\ UNCHANGED <<i, saved, stored, reported, expired, rbExpired, begin, lost, drift>>

ApplyFailsLate ==
    /\ pc = "apply" /\ Applicable(Current) /\ InTime(Current)
    /\ Fault
    /\ host' = Effect
    /\ IF Action[Current] = "replace"
       THEN Register /\ UNCHANGED blind
       ELSE UNCHANGED undo /\ blind' = blind \cup {Current}
    /\ StartRollback("failed")
    /\ UNCHANGED <<i, saved, stored, reported, expired, rbExpired, begin, lost, drift>>

\* The deadline passes while the command runs: OSRunner kills it and returns
\* the context's error, whether or not the command had its effect.
ApplyInterrupted ==
    /\ pc = "apply" /\ IsCommand(Current) /\ ~expired
    /\ expired' = TRUE
    /\ \/ Applicable(Current) /\ host' = Effect /\ blind' = blind \cup {Current}
       \/ UNCHANGED <<host, blind>>
    /\ UNCHANGED undo /\ StartRollback("failed")
    /\ UNCHANGED <<i, saved, stored, reported, rbExpired, faults, begin, lost, drift>>

-----------------------------------------------------------------------------
(* Verification and commit.                                                 *)

\* The check of an object: a package passes when it is installed, whatever its
\* version.
Passes(o) == IF Action[o] = "upgrade-cached" THEN host[o] # "absent" ELSE host[o] = "new"

Verified_Unchecked ==    \* mutant: the second run of the checks is not compared with the plan
    /\ pc = "verify" /\ ~expired
    /\ pc' = "commit" /\ k' = 1
    /\ UNCHANGED <<host, i, undo, saved, stored, exit, reported,
                   expired, rbExpired, faults, history>>

Verified ==
    /\ pc = "verify" /\ ~expired
    /\ \A o \in Planned : Passes(o)
    /\ pc' = "commit" /\ k' = 1
    /\ UNCHANGED <<host, i, undo, saved, stored, exit, reported,
                   expired, rbExpired, faults, history>>

\* verifyPlannedChanges: some planned object does not pass, or its check was
\* skipped.
VerifyFails ==
    /\ pc = "verify" /\ ~expired
    /\ FailsUnless(\A o \in Planned : Passes(o))
    /\ UNCHANGED undo /\ StartRollback("failed")
    /\ UNCHANGED <<host, i, saved, stored, reported, expired, rbExpired, history>>

\* loadSetupState fails, or the context ends the checks.
VerifyInterrupted ==
    /\ pc = "verify"
    /\ FailsUnless(~expired)
    /\ UNCHANGED undo /\ StartRollback("interrupted")
    /\ UNCHANGED <<host, i, saved, stored, reported, expired, rbExpired, history>>

\* Commit: CommitManagedFile for every backup, in order.
CommitNext ==
    /\ pc = "commit" /\ k <= Len(undo)
    /\ stored' = stored \ {undo[k]}
    /\ k' = k + 1
    /\ UNCHANGED <<host, pc, i, undo, saved, exit, reported,
                   expired, rbExpired, faults, history>>

\* The backup could not be removed, or was and the directory not synced.
CommitFails ==
    /\ pc = "commit" /\ k <= Len(undo) /\ undo[k] \in stored
    /\ Fault
    /\ stored' \in {stored, stored \ {undo[k]}}
    /\ UNCHANGED undo /\ StartRollback("failed")
    /\ UNCHANGED <<host, i, saved, reported, expired, rbExpired, history>>

CommitEnds ==
    /\ pc = "commit" /\ k > Len(undo)
    /\ pc' = "done" /\ exit' = "applied" /\ undo' = <<>> /\ k' = 0
    /\ UNCHANGED <<host, i, saved, stored, reported, expired, rbExpired, faults, history>>

-----------------------------------------------------------------------------
(* Rollback: every undo, last first, whatever the others returned.           *)

Last_FirstFirst == undo[Len(undo) - k + 1]    \* mutant: the undos run in order
Last == undo[k]

Restored_KeepsDirectory(o) ==    \* mutant: the undo of a created directory leaves it
    IF Action[o] = "ensure" /\ saved[o] = "absent" THEN host[o] ELSE saved[o]

\* What the undo of o leaves.
Restored(o) ==
    CASE Action[o] = "enable" -> IF saved[o] = "new" THEN host[o] ELSE "absent"
      [] OTHER -> saved[o]

\* A removal needs nothing to hang on the object; groupdel and userdel need the
\* object, chmod the directory; and RollbackManagedFile reads the backup.
Undoable(o) ==
    /\ saved[o] = "absent" => \A d \in Pins : d[2] = o => host[d[1]] = "absent"
    /\ Action[o] = "create" => host[o] # "absent"
    /\ Action[o] = "ensure" => (host[o] = "absent" => saved[o] = "absent")
    /\ Action[o] = "replace" => (saved[o] = "absent" \/ o \in stored)
    /\ Action[o] = "set" => host[o] # "absent"
    /\ IsCommand(o) => ~rbExpired

UndoSucceeds ==
    /\ pc = "rollback" /\ k > 0 /\ Undoable(Last)
    /\ host' = [host EXCEPT ![Last] = Restored(Last)]
    /\ k' = k - 1
    /\ UNCHANGED <<pc, i, undo, saved, stored, exit, reported,
                   expired, rbExpired, faults, history>>

\* An undo that returns an error, possibly after its effect.
UndoFails_Retries ==    \* mutant: a failed undo is tried again
    /\ pc = "rollback" /\ k > 0
    /\ FailsUnless(Undoable(Last))
    /\ lost' = lost \cup {Last}
    /\ UNCHANGED <<host, progress, expired, rbExpired, begin, blind, drift>>

UndoFails ==
    /\ pc = "rollback" /\ k > 0
    /\ FailsUnless(Undoable(Last))
    /\ \/ UNCHANGED host
       \/ Undoable(Last) /\ host' = [host EXCEPT ![Last] = Restored(Last)]
    /\ lost' = lost \cup {Last}
    /\ k' = k - 1
    /\ UNCHANGED <<pc, i, undo, saved, stored, exit, reported,
                   expired, rbExpired, begin, blind, drift>>

\* setupTransactionFailure adds the rollback's errors to the message; the
\* returns of an interrupted transaction discard them.
RollbackEnds_Silent ==    \* mutant: the rollback's error never reaches the message
    /\ pc = "rollback" /\ k = 0
    /\ pc' = "done" /\ reported' = FALSE
    /\ UNCHANGED <<host, i, undo, k, saved, stored, exit,
                   expired, rbExpired, faults, history>>

RollbackEnds ==
    /\ pc = "rollback" /\ k = 0
    /\ pc' = "done"
    /\ reported' = (exit = "failed" /\ lost # {})
    /\ UNCHANGED <<host, i, undo, k, saved, stored, exit,
                   expired, rbExpired, faults, history>>

-----------------------------------------------------------------------------
(* The environment. *)

\* The invocation deadline passes.
Deadline ==
    /\ pc # "done" /\ ~expired /\ expired' = TRUE
    /\ UNCHANGED <<host, progress, rbExpired, faults, history>>

\* The five seconds of rollbackSetupTransaction are over.
RollbackDeadline ==
    /\ pc = "rollback" /\ ~rbExpired /\ rbExpired' = TRUE
    /\ UNCHANGED <<host, progress, expired, faults, history>>

\* Somebody else changes an object.
Drift ==
    /\ pc # "done" /\ Cardinality(drift) < MaxDrift
    /\ \E o \in Objects, v \in Values :
          v # host[o] /\ host' = [host EXCEPT ![o] = v] /\ drift' = drift \cup {o}
    /\ UNCHANGED <<progress, expired, rbExpired, faults, begin, blind, lost>>

Step ==
    \/ LoopInterrupted \/ LoopEnds \/ Capture \/ CaptureFails
    \/ ApplySucceeds \/ ApplySilent \/ ApplyFails \/ ApplyFailsLate \/ ApplyInterrupted
    \/ Verified \/ VerifyFails \/ VerifyInterrupted
    \/ CommitNext \/ CommitFails \/ CommitEnds
    \/ UndoSucceeds \/ UndoFails \/ RollbackEnds

Next == Step \/ Deadline \/ RollbackDeadline \/ Drift

Spec == Init /\ [][Next]_vars
FairSpec == Spec /\ WF_vars(Step)

-----------------------------------------------------------------------------
(* The promise of AtomicApply, kept when nobody else changes the host.       *)

Changed == {o \in Objects : IsExact(o) /\ host[o] # begin[o] /\ o \notin blind}

Phase ==
    IF pc = "rollback" THEN "undoing"
    ELSE IF pc # "done" THEN "changing"
    ELSE IF exit = "applied" THEN "applied"
    ELSE IF exit = "interrupted" \/ reported THEN "unknown" ELSE "undone"

Promise == INSTANCE AtomicApply WITH
    Checked <- {o \in Objects : Action[o] \notin {"upgrade-cached", "enable"}},
    changed <- Changed, phase <- Phase

\* The transaction implements AtomicApply: changes are only made before any is
\* taken back, success means that all of them stand, and an error that does not
\* speak of the rollback means that none does.
PromiseKept == Promise!Spec

-----------------------------------------------------------------------------
\* A result that says applied means that every planned object was seen to
\* conform after the last change (verifyPlannedChanges), unless somebody else
\* changed it since.
AppliedIsVerified == exit = "applied" => \A o \in Planned : Passes(o) \/ o \in drift

\* The undos Rollback has still to run.
Pending == {undo[n] : n \in 1..(IF pc \in {"rollback", "done"} THEN k ELSE Len(undo))}

\* Every difference from the host the transaction found is accounted for: an
\* undo is pending or failed, an operation failed after its effect (which
\* registers no undo), or somebody else made it.
Accounted ==
    exit # "applied" =>
        \A o \in Objects :
            IsExact(o) /\ host[o] # begin[o] => o \in Pending \cup blind \cup lost \cup drift

\* An error without "rollback failed" from a failed transaction means that the
\* host is as it was, but for the objects of operations that failed after their
\* effect and of somebody else.  An interrupted transaction promises nothing.
RestoredUnlessReported ==
    pc = "done" /\ exit = "failed" /\ ~reported =>
        \A o \in Objects : IsExact(o) => host[o] = begin[o] \/ o \in blind \cup drift

\* The rollback of a transaction nobody disturbs cannot fail by its own order:
\* every removal comes after the removal of what hangs on the object.
RollbackUnobstructed ==
    lost # {} => faults < MaxFaults \/ blind # {} \/ drift # {} \/ rbExpired

\* Nothing the transaction made stands without what it needs, at any moment of
\* the application or of the rollback, unless an operation or an undo failed
\* half-way.
NeedsHold ==
    blind \cup lost \cup drift = {} =>
        \A d \in Needs : host[d[1]] = "new" => host[d[2]] # "absent"

\* Without a failure, a deadline or somebody else, an approved plan is applied,
\* unless it creates what exists (with the wrong attributes) or sets a key that
\* the kernel does not have.
Feasible ==
    \A o \in Objects : /\ Action[o] = "create" => begin[o] = "absent"
                       /\ Action[o] = "set" => begin[o] # "absent"
FaultFreeApplies ==
    pc = "done" /\ faults = MaxFaults /\ drift = {} /\ ~expired /\ Feasible => exit = "applied"

\* The steps a transaction has still to take, at most.
Variant ==
    CASE pc = "loop" -> 2 * Len(Plan) + 5 + 2 * (Len(Plan) + 1 - i)
      [] pc = "apply" -> 2 * Len(Plan) + 4 + 2 * (Len(Plan) + 1 - i)
      [] pc = "verify" -> 2 * Len(Plan) + 4
      [] pc = "commit" -> Len(Plan) + 3 + (Len(undo) + 1 - k)
      [] pc = "rollback" -> k + 1
      [] pc = "done" -> 0

\* Every step of the code brings the end nearer, and neither a deadline nor
\* somebody else puts it off: a transaction of n changes takes at most 4n + 5
\* steps, since nothing is tried twice and the rollback runs each undo once.
Advances == [][IF Step THEN Variant' \in 0..(Variant - 1) ELSE Variant' = Variant]_vars

\* Every transaction ends, whatever fails and whoever interferes: no operation
\* is retried and a failing undo does not stop the rollback.
Terminates == <>(pc = "done")

\* Claimed by docs/plugins/en/server-setup-base.md: apply may "enable
\* systemd-timesyncd.service".  Without a failure, a deadline or somebody else,
\* every unit the plan enables is enabled when the transaction ends.
UnitsGetEnabled ==
    pc = "done" /\ faults = MaxFaults /\ drift = {} /\ ~expired /\ Feasible =>
        \A o \in Planned : Action[o] = "enable" => host[o] = "new"
=============================================================================
