---------------------------- MODULE SetupSession ----------------------------
(***************************************************************************)
(* internal/serversetup: `setup check`, `setup apply` and `setup upgrade`  *)
(* from the plan shown to an operator to the result of its execution.      *)
(* Planning and executing are processes of their own: the second reads the *)
(* host again, object by object, and goes on only if it makes the plan     *)
(* whose digest was approved.  Nothing locks the host: several sessions    *)
(* may overlap in any way, and somebody else may change it too.            *)
(*                                                                         *)
(* SetupTransaction has the details of a transaction (what a command may   *)
(* do before it fails, backups, deadlines); here a change is one step.     *)
(***************************************************************************)
EXTENDS SetupPlan

CONSTANTS
    Sessions,    \* the sessions
    Modes,       \* the commands they may be sessions of
    Needs,       \* <<o, p>>: o cannot be made while p is absent
    Pins,        \* <<o, p>>: p cannot be removed while o exists
    MaxRuns,     \* bound on the executions of each session, of the same digest
    MaxDrift     \* bound on the changes made by somebody else, for each Modes

ASSUME SessionAssumption ==
    /\ Modes \subseteq [Sessions -> {"check", "apply", "upgrade"}]
    /\ Needs \subseteq Objects \X Objects /\ Pins \subseteq Needs
    /\ MaxRuns \in [Sessions -> Nat] /\ MaxDrift \in [Modes -> Nat]

VARIABLES
    mode,        \* the command of each session
    host,        \* the value of every object
    pc,          \* where each session is
    unread,      \* Checker.Run: the objects it has still to read
    seen,        \* the checks of the current reading
    known,       \* accountDatabase: the accounts it has found
    approved,    \* the plan whose digest the operator approved
    todo,        \* the changes still to be made
    undo,        \* localSetupTransaction.undo: what each undo writes
    exit,        \* why the rollback runs
    outcome,     \* what the last verb returned
    runs,        \* executions left
    drift,       \* changes by somebody else left
    made,        \* history: the objects the last execution changed
    touched,     \* history: others changed the host since the first execution
    base,        \* history: the sessions whose result stood when it began
    wins         \* history: how often the session was applied

reading == <<unread, seen, known>>
history == <<made, touched, base, wins>>
vars == <<mode, host, pc, reading, approved, todo, undo, exit, outcome, runs, drift, history>>

Unread == [o \in Objects |-> "skipped"]
NoPlan == BuildSetupPlan("none", Unread, {})
Readings == {"plan", "execute", "verify", "check"}
Outcomes == {"none", "error", "rejected", "nothing", "applied", "failed", "interrupted",
             "rollback failed", "pass", "warning", "partial", "critical"}

Plans == [mode : {"none", "apply", "upgrade"}, checks : [Objects -> Verdicts],
          changes : SUBSET Objects]

\* Sessions plan, change and undo objects of the profile only, and return one of
\* the outcomes the protocol knows.
TypeOK ==
    /\ mode \in Modes
    /\ host \in [Objects -> Values]
    /\ pc \in [Sessions -> Readings \cup {"idle", "shown", "apply", "undo", "done"}]
    /\ unread \in [Sessions -> SUBSET Objects]
    /\ seen \in [Sessions -> [Objects -> Verdicts]]
    /\ known \in [Sessions -> SUBSET Objects]
    /\ approved \in [Sessions -> Plans]
    /\ todo \in [Sessions -> SUBSET Objects]
    /\ undo \in [Sessions -> Seq(Objects \X Values)]
    /\ exit \in [Sessions -> Outcomes] /\ outcome \in [Sessions -> Outcomes]
    /\ runs \in [Sessions -> Nat] /\ wins \in [Sessions -> Nat] /\ drift \in Nat
    /\ made \in [Sessions -> SUBSET Objects]
    /\ touched \in [Sessions -> BOOLEAN]
    /\ base \in [Sessions -> SUBSET Sessions]

Init ==
    /\ mode \in Modes
    /\ host \in [Objects -> Values]
    /\ \A o \in Objects : Kind[o] = "sysctl" => host[o] # "absent"
    /\ \A d \in Pins : host[d[1]] # "absent" => host[d[2]] # "absent"
    /\ pc = [s \in Sessions |-> "idle"] /\ unread = [s \in Sessions |-> {}]
    /\ seen = [s \in Sessions |-> Unread] /\ known = [s \in Sessions |-> {}]
    /\ approved = [s \in Sessions |-> NoPlan]
    /\ todo = [s \in Sessions |-> {}] /\ undo = [s \in Sessions |-> <<>>]
    /\ exit = [s \in Sessions |-> "none"] /\ outcome = [s \in Sessions |-> "none"]
    /\ runs = MaxRuns /\ drift = MaxDrift[mode]
    /\ made = [s \in Sessions |-> {}] /\ touched = [s \in Sessions |-> FALSE]
    /\ base = [s \in Sessions |-> {}] /\ wins = [s \in Sessions |-> 0]
-----------------------------------------------------------------------------
Goto(s, p) == pc' = [pc EXCEPT ![s] = p]
Return(s, o) == Goto(s, "done") /\ outcome' = [outcome EXCEPT ![s] = o]

StartReading(s, p) ==
    /\ Goto(s, p)
    /\ unread' = [unread EXCEPT ![s] = Objects]
    /\ seen' = [seen EXCEPT ![s] = Unread] /\ known' = [known EXCEPT ![s] = {}]

Forget(s) ==    \* the process ends
    /\ unread' = [unread EXCEPT ![s] = {}]
    /\ seen' = [seen EXCEPT ![s] = Unread] /\ known' = [known EXCEPT ![s] = {}]

ReadAll(s) == unread[s] = {}

\* Whoever writes touches the host of every session that has executed.
Write(s, h) ==
    /\ host' = h
    /\ touched' = [q \in Sessions |->
                     touched[q] \/ (q # s /\ runs[q] < MaxRuns[q] /\ h # host)]

-----------------------------------------------------------------------------
(* The verbs of the plugin. *)

\* The plan verb.
Plan(s) ==
    /\ pc[s] = "idle" /\ mode[s] # "check"
    /\ StartReading(s, "plan")
    /\ UNCHANGED <<host, approved, todo, undo, exit, outcome, runs, drift, history>>

\* Checker.Run reads what it has not read; what cannot be read is skipped.
Read(s) ==
    /\ pc[s] \in Readings
    /\ \E p \in Objects :
          /\ First(unread[s], p)
          /\ unread' = [unread EXCEPT ![s] = @ \ ReadTogether(p)]
          /\ \/ /\ seen' = [seen EXCEPT ![s] = [o \in Objects |->
                              IF o \in ReadTogether(p) THEN Verdict(host, known[s], o)
                              ELSE seen[s][o]]]
                /\ known' = [known EXCEPT ![s] = @ \cup AccountsRead(host, ReadTogether(p))]
             \/ UNCHANGED <<seen, known>>
    /\ UNCHANGED <<host, pc, approved, todo, undo, exit, outcome, runs, drift, history>>

\* The configuration cannot be loaded, the upgrade probe fails, or the context
\* ends.  No profile fits the platform: `setup check` answers before it has read
\* anything, with a critical check; a plan ends with an error.
ReadingFails(s) ==
    /\ pc[s] \in {"plan", "execute", "check"}
    /\ \/ Return(s, "error")
       \/ pc[s] = "check" /\ unread[s] = Objects /\ Return(s, "critical")
    /\ Forget(s)
    /\ UNCHANGED <<host, approved, todo, undo, exit, runs, drift, history>>

CurrentPlan_Remembered(s) ==    \* mutant: the execution trusts the plan that was approved
    IF pc[s] = "execute" THEN approved[s]
    ELSE BuildSetupPlan(mode[s], seen[s], CachedUpgrades(host))

\* buildCurrentPlan, after the checks.
CurrentPlan(s) == BuildSetupPlan(mode[s], seen[s], CachedUpgrades(host))

Show(s) ==
    /\ pc[s] = "plan" /\ ReadAll(s)
    /\ IF Complete(seen[s])
       THEN Goto(s, "shown") /\ approved' = [approved EXCEPT ![s] = CurrentPlan(s)]
            /\ UNCHANGED outcome
       ELSE Return(s, "error") /\ UNCHANGED approved
    /\ Forget(s)
    /\ UNCHANGED <<host, todo, undo, exit, runs, drift, history>>

\* The execute verb, with the digest of the plan that was shown; the host may
\* execute it again after it has been executed.
Execute(s) ==
    /\ runs[s] > 0 /\ runs' = [runs EXCEPT ![s] = @ - 1]
    /\ \/ mode[s] = "check" /\ pc[s] = "idle" /\ StartReading(s, "check")
       \/ mode[s] # "check" /\ approved[s] # NoPlan /\ pc[s] \in {"shown", "done"}
          /\ StartReading(s, "execute")
    /\ outcome' = [outcome EXCEPT ![s] = "none"]
    /\ made' = [made EXCEPT ![s] = {}]
    /\ base' = [base EXCEPT ![s] = {q \in Sessions : outcome[q] = "applied" /\ ~touched[q]}]
    /\ UNCHANGED <<host, approved, todo, undo, exit, drift, touched, wins>>

\* `setup check` returns its checks.
Report(s) ==
    /\ pc[s] = "check" /\ ReadAll(s)
    /\ Return(s, classify(seen[s])) /\ Forget(s)
    /\ UNCHANGED <<host, approved, todo, undo, exit, runs, drift, history>>

SameDigest_ModeOnly(p, q) == p.mode = q.mode    \* mutant: the digest of the command alone
SameDigest(p, q) == p = q

\* executeMutation up to the transaction: the digests are compared, and an
\* empty plan is a success at once.
Decide(s) ==
    /\ pc[s] = "execute" /\ ReadAll(s)
    /\ LET p == CurrentPlan(s)
       IN \/ ~Complete(seen[s]) /\ Return(s, "error") /\ UNCHANGED todo
          \/ Complete(seen[s]) /\ ~SameDigest(p, approved[s])
             /\ Return(s, "rejected") /\ UNCHANGED todo
          \/ Complete(seen[s]) /\ SameDigest(p, approved[s]) /\ p.changes = {}
             /\ Return(s, "nothing") /\ UNCHANGED todo
          \/ Complete(seen[s]) /\ SameDigest(p, approved[s]) /\ p.changes # {}
             /\ Goto(s, "apply") /\ todo' = [todo EXCEPT ![s] = p.changes]
             /\ UNCHANGED outcome
    /\ Forget(s)
    /\ UNCHANGED <<host, approved, undo, exit, runs, drift, history>>

-----------------------------------------------------------------------------
(* The transaction. *)

Applicable_Idempotent(s, o) ==    \* mutant: creating an account that exists succeeds
    \A d \in Needs : d[1] = o => host[d[2]] # "absent"

Applicable(s, o) ==
    /\ \A d \in Needs : d[1] = o => host[d[2]] # "absent"
    /\ Action(mode[s], o) = "create" => host[o] = "absent"
    /\ Action(mode[s], o) \in {"upgrade-cached", "set", "enable"} => host[o] # "absent"

\* What the undo of o writes; a unit that was not enabled is disabled, whatever
\* it was before.
Saved(s, o) ==
    CASE Action(mode[s], o) \in {"install-cached", "create"} -> "absent"
      [] Action(mode[s], o) = "enable" /\ host[o] # "new" -> "absent"
      [] OTHER -> host[o]

Apply(s) ==
    /\ pc[s] = "apply"
    /\ \E o \in Objects :
          /\ First(todo[s], o) /\ Applicable(s, o)
          /\ Write(s, [host EXCEPT ![o] = "new"])
          /\ undo' = [undo EXCEPT ![s] = Append(@, <<o, Saved(s, o)>>)]
          /\ todo' = [todo EXCEPT ![s] = @ \ {o}]
          /\ made' = [made EXCEPT ![s] = @ \cup {o}]
    /\ UNCHANGED <<pc, reading, approved, exit, outcome, runs, drift, base, wins>>

StartRollback(s, e) ==
    /\ Goto(s, "undo") /\ exit' = [exit EXCEPT ![s] = e]
    /\ todo' = [todo EXCEPT ![s] = {}]
    /\ UNCHANGED <<outcome, approved, runs, drift>>

\* A change fails, with or without its effect, or the context ends.
ApplyFails(s) ==
    /\ pc[s] = "apply" /\ todo[s] # {}
    /\ \/ UNCHANGED <<host, touched, made>>
       \/ \E o \in Objects :
             /\ First(todo[s], o) /\ Applicable(s, o)
             /\ Write(s, [host EXCEPT ![o] = "new"])
             /\ made' = [made EXCEPT ![s] = @ \cup {o}]
    /\ \E e \in {"failed", "interrupted"} : StartRollback(s, e)
    /\ UNCHANGED <<reading, undo, base, wins>>

ChangesMade(s) ==
    /\ pc[s] = "apply" /\ todo[s] = {}
    /\ StartReading(s, "verify")
    /\ UNCHANGED <<host, approved, todo, undo, exit, outcome, runs, drift, history>>

\* verifyPlannedChanges and Commit.
Commit(s) ==
    /\ pc[s] = "verify" /\ ReadAll(s)
    /\ \A o \in approved[s].changes : seen[s][o] = "pass"
    /\ Return(s, "applied") /\ wins' = [wins EXCEPT ![s] = @ + 1]
    /\ undo' = [undo EXCEPT ![s] = <<>>] /\ Forget(s)
    /\ UNCHANGED <<host, approved, todo, exit, runs, drift, made, touched, base>>

\* A planned object does not pass, a backup cannot be removed, or the checks
\* end with an error.
VerifyFails(s) ==
    /\ pc[s] = "verify"
    /\ \E e \in {"failed", "interrupted"} : StartRollback(s, e)
    /\ Forget(s)
    /\ UNCHANGED <<host, undo, history>>

Last(s) == undo[s][Len(undo[s])]
DropLast(s) == undo' = [undo EXCEPT ![s] = SubSeq(@, 1, Len(@) - 1)]

Undoable(d) ==
    /\ d[2] = "absent" => \A p \in Pins : p[2] = d[1] => host[p[1]] = "absent"
    /\ Kind[d[1]] \in {"group", "user", "sysctl"} => host[d[1]] # "absent"

\* What the undo of d leaves: that of a unit that was enabled does nothing.
Restored(d) == IF Kind[d[1]] = "unit" /\ d[2] = "new" THEN host[d[1]] ELSE d[2]

Undo(s) ==
    /\ pc[s] = "undo" /\ undo[s] # <<>> /\ Undoable(Last(s))
    /\ Write(s, [host EXCEPT ![Last(s)[1]] = Restored(Last(s))])
    /\ DropLast(s)
    /\ UNCHANGED <<pc, reading, approved, todo, exit, outcome, runs, drift, made, base, wins>>

UndoFails(s) ==
    /\ pc[s] = "undo" /\ undo[s] # <<>>
    /\ DropLast(s)
    /\ exit' = [exit EXCEPT ![s] = IF @ = "interrupted" THEN @ ELSE "rollback failed"]
    /\ UNCHANGED <<host, pc, reading, approved, todo, outcome, runs, drift, history>>

RolledBack(s) ==
    /\ pc[s] = "undo" /\ undo[s] = <<>>
    /\ Return(s, exit[s])
    /\ exit' = [exit EXCEPT ![s] = "none"]
    /\ UNCHANGED <<host, reading, approved, todo, undo, runs, drift, history>>

-----------------------------------------------------------------------------
\* Somebody else changes an object.
Drift ==
    /\ drift > 0 /\ drift' = drift - 1
    /\ \E o \in Objects, v \in Values :
          /\ host' = [host EXCEPT ![o] = v]
          /\ touched' = [s \in Sessions |->
                           touched[s] \/ (runs[s] < MaxRuns[s] /\ v # host[o])]
    /\ UNCHANGED <<pc, reading, approved, todo, undo, exit, outcome, runs, made, base, wins>>

Session(s) ==
    \/ Plan(s) \/ Read(s) \/ ReadingFails(s) \/ Show(s) \/ Execute(s) \/ Report(s) \/ Decide(s)
    \/ Apply(s) \/ ApplyFails(s) \/ ChangesMade(s) \/ Commit(s) \/ VerifyFails(s)
    \/ Undo(s) \/ UndoFails(s) \/ RolledBack(s)

Next == ((\E s \in Sessions : Session(s)) \/ Drift) /\ UNCHANGED mode

Spec == Init /\ [][Next]_vars

-----------------------------------------------------------------------------
Conforms(o) == IF Kind[o] = "package" THEN host[o] # "absent" ELSE host[o] = "new"

\* Good news is true: an apply that made its changes or found nothing to do, and
\* a check that passed, left or found every object of the profile conforming,
\* not only those of the plan, if nobody else changed the host meanwhile.  The
\* objects were read one by one and some not since before the changes.
SuccessMeansConverged ==
    \A s \in Sessions :
        /\ ~touched[s]
        /\ outcome[s] = "pass" \/ (mode[s] = "apply" /\ outcome[s] \in {"applied", "nothing"})
        => \A o \in Objects : Conforms(o)

\* An execution changes what the operator has approved and nothing else, though
\* it makes its own plan from its own reading of a host that may have changed.
ApprovedChangesOnly ==
    \A s \in Sessions : made[s] \subseteq approved[s].changes

\* A digest that is executed again after it was applied is not applied again,
\* unless somebody else changed the host back.
AppliedOnce == \A s \in Sessions : wins[s] > 1 => touched[s]

\* A session that begins to execute when the result of another stands does not
\* change, and so cannot take back, what that one made.
LaterKeepsEarlier ==
    \A q \in Sessions : \A s \in base[q] \ {q} :
        outcome[s] = "applied" /\ ~touched[q] => made[q] \cap made[s] = {}

\* Two sessions whose executions overlap cannot both be applied and both have
\* created the same account: one of them is refused and rolls back.
NoDoubleCreation ==
    drift = MaxDrift[mode] =>
        \A s, q \in Sessions : \A o \in Objects :
            s # q /\ Kind[o] \in {"group", "user"} /\ o \in made[s] \cap made[q] =>
                ~(outcome[s] = "applied" /\ outcome[q] = "applied")
=============================================================================
