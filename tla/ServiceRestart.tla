--------------------------- MODULE ServiceRestart ---------------------------
(***************************************************************************)
(* internal/systemd: `service restart`.  A run is a plan shown to an       *)
(* operator and, later, the execution of what was approved: the plan is    *)
(* built again and must have the approved digest, systemctl queues a       *)
(* restart job and waits for it, and the unit is polled until it is active *)
(* or the verification times out.  Runs are processes of their own: two    *)
(* may execute at the same time, and nothing locks the unit.               *)
(*                                                                         *)
(* systemd and the unit are external.  A unit is what `systemctl show`     *)
(* prints of it: its state, and which start of its main process it is in   *)
(* (MainPID and ExecMainStartTimestamp).  So it is a unit that has a main  *)
(* process: of a target, or of a service whose main process systemd does   *)
(* not know, nothing tells one start from the next, and none is modelled.  *)
(***************************************************************************)
EXTENDS Integers

CONSTANTS
    Runs,        \* the runs of the plugin
    MaxStarts    \* bound on the starts of the unit's main process

ASSUME MaxStartsAssumption == MaxStarts \in Nat

States == {"active", "activating", "down"}    \* "down": inactive or failed
Units == [active: States, start: 0..MaxStarts]
Contexts == {"live", "deadline"}    \* no signal cancels a plugin
NoStart == 0

VARIABLES
    unit,       \* what systemd says of the unit
    job,        \* the runs whose restart job is queued; systemd merges them
    pc,         \* where each run is
    approved,   \* the state its approved plan was built from
    seen,       \* the state its second plan was built from
    ctx,        \* the context of the invocation
    verifyCtx,  \* the context of the verification, a child of ctx
    exit,       \* what its `systemctl restart` exited with
    outcome,    \* what the run returned; "error" carries no result
    effect      \* history: the start that its restart job made, or NoStart

local == <<approved, seen, ctx, verifyCtx, exit, outcome>>
vars == <<unit, job, pc, local, effect>>

\* A run of a restart is in one of its stages and ends with an exit of the protocol.
TypeOK ==
    /\ unit \in Units /\ job \subseteq Runs
    /\ pc \in [Runs -> {"idle", "planned", "restart", "wait", "verify", "polled",
                        "sleep", "diagnose", "done"}]
    /\ approved \in [Runs -> Units] /\ seen \in [Runs -> Units]
    /\ ctx \in [Runs -> Contexts] /\ verifyCtx \in [Runs -> Contexts]
    /\ exit \in [Runs -> {"none", "zero", "nonzero"}]
    /\ outcome \in [Runs -> {"none", "rejected", "error", "pass", "restart_failed",
                             "verify_timeout"}]
    /\ effect \in [Runs -> 0..MaxStarts]

Init ==
    /\ unit \in {u \in Units : u.start = 0}
    /\ job = {} /\ pc = [r \in Runs |-> "idle"]
    /\ approved = [r \in Runs |-> unit] /\ seen = [r \in Runs |-> unit]
    /\ ctx = [r \in Runs |-> "live"] /\ verifyCtx = [r \in Runs |-> "live"]
    /\ exit = [r \in Runs |-> "none"] /\ outcome = [r \in Runs |-> "none"]
    /\ effect = [r \in Runs |-> NoStart]
-----------------------------------------------------------------------------
Goto(r, p) == pc' = [pc EXCEPT ![r] = p] /\ UNCHANGED outcome
Return(r, o) == pc' = [pc EXCEPT ![r] = "done"] /\ outcome' = [outcome EXCEPT ![r] = o]

\* The plan verb: RestartPlan, shown to the operator.
Plan(r) ==
    /\ pc[r] = "idle"
    /\ approved' = [approved EXCEPT ![r] = unit]
    /\ Goto(r, "planned")
    /\ UNCHANGED <<unit, job, seen, ctx, verifyCtx, exit, effect>>

\* The digest covers every property the plan was built from.
SameDigest_StateOnly(u, v) == u.active = v.active    \* mutant: a digest of the summary
SameDigest(u, v) == u = v

\* The execute verb: RestartPlan again, and the comparison of the digests.
Execute(r) ==
    /\ pc[r] = "planned" /\ ctx[r] = "live"
    /\ seen' = [seen EXCEPT ![r] = unit]
    /\ IF SameDigest(unit, approved[r]) THEN Goto(r, "restart") ELSE Return(r, "rejected")
    /\ UNCHANGED <<unit, job, approved, ctx, verifyCtx, exit, effect>>

\* A command that cannot be run: not installed, not started, or interrupted by
\* the context.  The error is returned as it is, whatever the command did; the
\* job of a killed `systemctl restart` stays queued.
CommandFails(r) ==
    /\ pc[r] \in {"planned", "restart", "wait", "verify"}
    /\ pc[r] = "wait" => ctx[r] # "live"
    /\ pc[r] = "verify" => verifyCtx[r] # "deadline"
    /\ Return(r, "error")
    /\ UNCHANGED <<unit, job, approved, seen, ctx, verifyCtx, exit, effect>>

\* systemctl queues the job.
Restart(r) ==
    /\ pc[r] = "restart" /\ ctx[r] = "live"
    /\ job' = job \cup {r}
    /\ Goto(r, "wait")
    /\ UNCHANGED <<unit, local, effect>>

RestartReturns_IgnoresExit(r) ==    \* mutant: the exit code is not looked at
    /\ pc[r] = "wait" /\ exit[r] # "none"
    /\ Goto(r, "verify")
    /\ verifyCtx' = [verifyCtx EXCEPT ![r] = ctx[r]]
    /\ UNCHANGED <<unit, job, approved, seen, ctx, exit, effect>>

\* It returns when the job is done.  The verification then gets a context with
\* a timeout of its own, ended already if that of the invocation is.
RestartReturns(r) ==
    /\ pc[r] = "wait" /\ exit[r] # "none"
    /\ Goto(r, IF exit[r] = "zero" THEN "verify" ELSE "diagnose")
    /\ verifyCtx' = [verifyCtx EXCEPT ![r] = ctx[r]]
    /\ UNCHANGED <<unit, job, approved, seen, ctx, exit, effect>>

\* `systemctl is-active`.  An expired verification is an error of the command
\* that the loop goes on with, to the check of the context.
Poll(r) ==
    /\ pc[r] = "verify"
    /\ \/ verifyCtx[r] = "live" /\ unit.active = "active" /\ Return(r, "pass")
       \/ verifyCtx[r] = "live" /\ unit.active # "active" /\ Goto(r, "polled")
       \/ verifyCtx[r] = "deadline" /\ Goto(r, "polled")
    /\ UNCHANGED <<unit, job, approved, seen, ctx, verifyCtx, exit, effect>>

CheckTimeout_Never(r) ==    \* mutant: the loop does not look at the context
    /\ pc[r] = "polled" /\ Goto(r, "sleep")
    /\ UNCHANGED <<unit, job, approved, seen, ctx, verifyCtx, exit, effect>>

CheckTimeout(r) ==
    /\ pc[r] = "polled"
    /\ Goto(r, IF verifyCtx[r] = "live" THEN "sleep" ELSE "diagnose")
    /\ UNCHANGED <<unit, job, approved, seen, ctx, verifyCtx, exit, effect>>

\* 250 milliseconds pass, or the context ends them.
Wake(r) ==
    /\ pc[r] = "sleep"
    /\ Goto(r, "verify")
    /\ UNCHANGED <<unit, job, approved, seen, ctx, verifyCtx, exit, effect>>

Diagnose_RawExit(r) ==    \* mutant: the failure is not given its code
    /\ pc[r] = "diagnose" /\ Return(r, exit[r])
    /\ UNCHANGED <<unit, job, approved, seen, ctx, verifyCtx, exit, effect>>

\* restartFailure: `systemctl show` and journalctl under the invocation's
\* context, for as much as they give, which is nothing once it is done.
Diagnose(r) ==
    /\ pc[r] = "diagnose"
    /\ Return(r, IF exit[r] = "zero" THEN "verify_timeout" ELSE "restart_failed")
    /\ UNCHANGED <<unit, job, approved, seen, ctx, verifyCtx, exit, effect>>

Step(r) == RestartReturns(r) \/ Poll(r) \/ CheckTimeout(r) \/ Wake(r) \/ Diagnose(r)
           \/ CommandFails(r) \/ Restart(r)

-----------------------------------------------------------------------------
(* systemd, the clock and the host. *)

Verifying(r) == pc[r] \in {"verify", "polled", "sleep"}

VerifyTimeout(r) ==
    /\ Verifying(r) /\ verifyCtx[r] = "live"
    /\ verifyCtx' = [verifyCtx EXCEPT ![r] = "deadline"]
    /\ UNCHANGED <<unit, job, pc, approved, seen, ctx, exit, outcome, effect>>

\* The deadline of the invocation passes, and ends the verification with it.
Interrupt(r) ==
    /\ pc[r] \notin {"idle", "done"} /\ ctx[r] = "live"
    /\ ctx' = [ctx EXCEPT ![r] = "deadline"]
    /\ verifyCtx' = IF Verifying(r) THEN [verifyCtx EXCEPT ![r] = "deadline"] ELSE verifyCtx
    /\ UNCHANGED <<unit, job, pc, approved, seen, exit, outcome, effect>>

\* The job starts the main process again, or fails, with or without a start.
\* An exit code of zero is taken for a start that happened; the main process of
\* a oneshot unit has ended by then, and the unit may be down.
JobDone(e) ==
    /\ exit' = [r \in Runs |-> IF r \in job THEN e ELSE exit[r]]
    /\ job' = {}
    /\ effect' = [r \in Runs |-> IF r \in job /\ unit'.start # unit.start
                                 THEN unit'.start ELSE effect[r]]

JobRuns ==
    /\ job # {}
    /\ \/ /\ unit.start < MaxStarts
          /\ \E s \in States : \E e \in {"zero", "nonzero"} :
                /\ e = "nonzero" => s = "down"
                /\ unit' = [active |-> s, start |-> unit.start + 1]
                /\ JobDone(e)
       \/ /\ \E s \in {"down", unit.active} : unit' = [unit EXCEPT !.active = s]
          /\ JobDone("nonzero")
    /\ UNCHANGED <<pc, approved, seen, ctx, verifyCtx, outcome>>

\* The unit settles, stops or fails, or systemd or somebody else starts it.
UnitChanges ==
    /\ \/ \E s \in States \ {unit.active} : unit' = [unit EXCEPT !.active = s]
       \/ unit.start < MaxStarts
          /\ \E s \in States : unit' = [active |-> s, start |-> unit.start + 1]
    /\ UNCHANGED <<job, pc, local, effect>>

Next ==
    \/ \E r \in Runs : Plan(r) \/ Execute(r) \/ Step(r) \/ VerifyTimeout(r) \/ Interrupt(r)
    \/ JobRuns \/ UnitChanges

Spec == Init /\ [][Next]_vars

\* A run that executes goes on, its timer fires, and systemd ends its jobs: an
\* assumption, for the start of a oneshot unit has no timeout unless its file
\* sets one, and the command then waits as long.  Planning, approving, the
\* invocation's deadline and the unit are not fair.
FairSpec ==
    /\ Spec
    /\ \A r \in Runs : WF_vars(Step(r)) /\ WF_vars(VerifyTimeout(r))
    /\ WF_vars(JobRuns)

-----------------------------------------------------------------------------
\* An approval is spent by its restart: of two runs approved on the same plan,
\* the one that builds its second plan after the other's job started the unit
\* is rejected.  Two runs whose second plans come before both jobs may both
\* restart.
ApprovalIsSpent ==
    \A r, q \in Runs :
        r # q /\ approved[r] = approved[q] /\ effect[r] # NoStart /\ effect[q] # NoStart =>
            seen[q].start < effect[r]

\* A pass means that a job of this run started the unit anew after the state
\* the operator approved, although is-active says nothing of when.
PassMeansRestarted ==
    \A r \in Runs : outcome[r] = "pass" =>
        /\ effect[r] > approved[r].start
        /\ unit.start >= effect[r]

\* An execution ends, even of a unit that never becomes active and without a
\* deadline of the invocation: the verification is bounded by its own timeout.
Terminates == \A r \in Runs : pc[r] \in {"restart", "wait", "verify"} ~> pc[r] = "done"
=============================================================================
