------------------------ MODULE ServiceRestartProofs ------------------------
(***************************************************************************)
(* Theorems about ServiceRestart, for any number of runs and of starts of  *)
(* the unit.  The invariant speaks of one run at a time: until its job is  *)
(* queued it has no exit code and no effect, from then on the plan it      *)
(* executes is the approved one, and an effect comes after what was seen.  *)
(* That two runs do not spend one approval follows from this alone.        *)
(***************************************************************************)
EXTENDS ServiceRestart, TLAPS

\* The start of the unit never goes back behind what a run knows of it.
KnownInv(r) == /\ approved[r].start <= unit.start
               /\ seen[r].start <= unit.start
               /\ effect[r] <= unit.start

\* Before `systemctl restart` is called nothing has happened to the run, and
\* while its job is queued it has no exit code.
QueueInv(r) == /\ pc[r] \in {"idle", "planned", "restart"} => r \notin job
               /\ pc[r] \in {"idle", "planned", "restart"} \/ r \in job =>
                      exit[r] = "none" /\ effect[r] = NoStart

Executing(r) == pc[r] \in {"restart", "wait", "verify", "polled", "sleep", "diagnose"}

\* A run that may restart the unit, or has, compared the digests.
DigestInv(r) == Executing(r) \/ r \in job \/ effect[r] # NoStart => seen[r] = approved[r]

\* A start is newer than the plan that led to it.
EffectInv(r) == effect[r] # NoStart => seen[r].start < effect[r]

\* systemctl exits with 0 only if the job started the unit, and only then is
\* there a verification.
ExitInv(r) == /\ exit[r] = "zero" => effect[r] # NoStart
              /\ Verifying(r) \/ outcome[r] = "pass" => exit[r] = "zero"

RunInv(r) == KnownInv(r) /\ QueueInv(r) /\ DigestInv(r) /\ EffectInv(r) /\ ExitInv(r)

IInv == TypeOK /\ \A r \in Runs : RunInv(r)

-----------------------------------------------------------------------------
(* What a step leaves alone. *)

\* Nothing of the run changes, and the unit is not started.
Frame(q) ==
    /\ unit'.start = unit.start /\ (q \in job') = (q \in job)
    /\ pc'[q] = pc[q] /\ approved'[q] = approved[q] /\ seen'[q] = seen[q]
    /\ exit'[q] = exit[q] /\ outcome'[q] = outcome[q] /\ effect'[q] = effect[q]

\* What is left alone stays true.
LEMMA FrameKeeps == ASSUME NEW q, RunInv(q), Frame(q) PROVE RunInv(q)'
  BY DEF RunInv, KnownInv, QueueInv, DigestInv, EffectInv, ExitInv, Executing, Verifying, Frame

\* A new start of the unit that is not the run's own keeps it as well.
LEMMA LaterStart ==
  ASSUME NEW q, RunInv(q), q \notin job, q \notin job',
         unit.start \in Int, unit'.start \in Int, unit.start <= unit'.start,
         approved[q].start \in Int, seen[q].start \in Int, effect[q] \in Int,
         pc'[q] = pc[q], approved'[q] = approved[q], seen'[q] = seen[q],
         exit'[q] = exit[q], outcome'[q] = outcome[q], effect'[q] = effect[q]
  PROVE  RunInv(q)'
  BY DEF RunInv, KnownInv, QueueInv, DigestInv, EffectInv, ExitInv, Executing, Verifying

\* The starts are numbers, for the provers.
LEMMA Numbers ==
  ASSUME TypeOK, NEW q \in Runs
  PROVE  /\ unit.start \in 0..MaxStarts /\ approved[q].start \in 0..MaxStarts
         /\ seen[q].start \in 0..MaxStarts /\ effect[q] \in 0..MaxStarts
  BY DEF TypeOK, Units

\* The invariant holds before any plan.
LEMMA InitHolds == Init => IInv
<1> SUFFICES ASSUME Init PROVE IInv
  OBVIOUS
<1>1. unit \in Units /\ unit.start = 0
  BY DEF Init
<1>2. TypeOK
  BY <1>1, MaxStartsAssumption DEF Init, TypeOK, Contexts, NoStart
<1>3. ASSUME NEW r \in Runs PROVE RunInv(r)
  BY <1>1 DEF Init, RunInv, KnownInv, QueueInv, DigestInv, EffectInv, ExitInv, Executing,
              Verifying, NoStart
<1> QED
  BY <1>2, <1>3 DEF IInv

-----------------------------------------------------------------------------
\* The steps of one run: what they do to it, and that they leave the others.
LEMMA RunKeepsType ==
  ASSUME TypeOK, NEW r \in Runs,
         Plan(r) \/ Execute(r) \/ Step(r) \/ VerifyTimeout(r) \/ Interrupt(r)
  PROVE  TypeOK'
<1> USE DEF TypeOK, Goto, Return, Contexts
<1>1. CASE Plan(r)
  BY <1>1 DEF Plan
<1>2. CASE Execute(r)
  BY <1>2 DEF Execute
<1>3. CASE RestartReturns(r)
  BY <1>3 DEF RestartReturns
<1>4. CASE Poll(r)
  BY <1>4 DEF Poll
<1>5. CASE CheckTimeout(r)
  BY <1>5 DEF CheckTimeout
<1>6. CASE Wake(r)
  BY <1>6 DEF Wake
<1>7. CASE Diagnose(r)
  BY <1>7 DEF Diagnose
<1>8. CASE CommandFails(r)
  BY <1>8 DEF CommandFails
<1>9. CASE Restart(r)
  BY <1>9 DEF Restart, local
<1>10. CASE VerifyTimeout(r)
  BY <1>10 DEF VerifyTimeout
<1>11. CASE Interrupt(r)
  BY <1>11 DEF Interrupt
<1> QED
  BY <1>1, <1>2, <1>3, <1>4, <1>5, <1>6, <1>7, <1>8, <1>9, <1>10, <1>11 DEF Step

\* A step of one run leaves the others alone, except for the unit.
LEMMA OthersKept ==
  ASSUME TypeOK, NEW r \in Runs, NEW q \in Runs \ {r},
         Plan(r) \/ Execute(r) \/ Step(r) \/ VerifyTimeout(r) \/ Interrupt(r)
  PROVE  Frame(q)
<1> USE DEF TypeOK, Goto, Return, Frame
<1>1. CASE Plan(r)
  BY <1>1 DEF Plan
<1>2. CASE Execute(r)
  BY <1>2 DEF Execute
<1>3. CASE RestartReturns(r)
  BY <1>3 DEF RestartReturns
<1>4. CASE Poll(r)
  BY <1>4 DEF Poll
<1>5. CASE CheckTimeout(r)
  BY <1>5 DEF CheckTimeout
<1>6. CASE Wake(r)
  BY <1>6 DEF Wake
<1>7. CASE Diagnose(r)
  BY <1>7 DEF Diagnose
<1>8. CASE CommandFails(r)
  BY <1>8 DEF CommandFails
<1>9. CASE Restart(r)
  BY <1>9 DEF Restart, local
<1>10. CASE VerifyTimeout(r)
  BY <1>10 DEF VerifyTimeout
<1>11. CASE Interrupt(r)
  BY <1>11 DEF Interrupt
<1> QED
  BY <1>1, <1>2, <1>3, <1>4, <1>5, <1>6, <1>7, <1>8, <1>9, <1>10, <1>11 DEF Step

\* Each step of a run keeps what is said of that run.
LEMMA OwnStepKeeps ==
  ASSUME TypeOK, NEW r \in Runs, RunInv(r),
         Plan(r) \/ Execute(r) \/ Step(r) \/ VerifyTimeout(r) \/ Interrupt(r)
  PROVE  RunInv(r)'
<1>0. /\ unit.start \in Int /\ approved[r].start \in Int /\ seen[r].start \in Int
      /\ effect[r] \in Int
  BY Numbers
<1> USE <1>0 DEF TypeOK, Goto, Return, RunInv, KnownInv, QueueInv, DigestInv, EffectInv,
                 ExitInv, Executing, Verifying
<1>1. CASE Plan(r)
  BY <1>1 DEF Plan
<1>2. CASE Execute(r)
  BY <1>2 DEF Execute, SameDigest
<1>3. CASE RestartReturns(r)
  BY <1>3 DEF RestartReturns
<1>4. CASE Poll(r)
  BY <1>4 DEF Poll
<1>5. CASE CheckTimeout(r)
  BY <1>5 DEF CheckTimeout
<1>6. CASE Wake(r)
  BY <1>6 DEF Wake
<1>7. CASE Diagnose(r)
  BY <1>7 DEF Diagnose
<1>8. CASE CommandFails(r)
  BY <1>8 DEF CommandFails
<1>9. CASE Restart(r)
  BY <1>9 DEF Restart, local
<1>10. CASE VerifyTimeout(r)
  BY <1>10 DEF VerifyTimeout
<1>11. CASE Interrupt(r)
  BY <1>11 DEF Interrupt
<1> QED
  BY <1>1, <1>2, <1>3, <1>4, <1>5, <1>6, <1>7, <1>8, <1>9, <1>10, <1>11 DEF Step

-----------------------------------------------------------------------------
(* systemd. *)

\* Every run whose job was queued gets the exit code; its effect is the new
\* start, if there was one.
LEMMA JobKeeps == ASSUME IInv, JobRuns PROVE IInv'
<1> USE DEF IInv
<1>1. PICK e \in {"zero", "nonzero"}, n \in 0..MaxStarts, s \in States :
        /\ unit' = [active |-> s, start |-> n] /\ unit.start <= n
        /\ e = "zero" => n # unit.start
        /\ JobDone(e)
        /\ UNCHANGED <<pc, approved, seen, ctx, verifyCtx, outcome>>
  <2>1. unit \in Units /\ unit.start \in 0..MaxStarts /\ unit.active \in States
    BY DEF TypeOK, Units
  <2>2. CASE unit.start < MaxStarts /\ \E s \in States : \E e \in {"zero", "nonzero"} :
                /\ unit' = [active |-> s, start |-> unit.start + 1]
                /\ JobDone(e)
    <3>1. PICK s \in States, e \in {"zero", "nonzero"} :
                /\ unit' = [active |-> s, start |-> unit.start + 1]
                /\ JobDone(e)
      BY <2>2
    <3>2. /\ unit.start + 1 \in 0..MaxStarts /\ unit.start <= unit.start + 1
          /\ unit.start + 1 # unit.start
      BY <2>1, <2>2, MaxStartsAssumption
    <3> QED
      BY <3>1, <3>2 DEF JobRuns
  <2>3. CASE (\E s \in {"down", unit.active} : unit' = [unit EXCEPT !.active = s])
             /\ JobDone("nonzero")
    <3>1. PICK s \in {"down", unit.active} : unit' = [unit EXCEPT !.active = s]
      BY <2>3
    <3>2. s \in States /\ unit' = [active |-> s, start |-> unit.start]
      BY <2>1, <3>1 DEF States, Units
    <3>3. /\ unit.start \in 0..MaxStarts /\ unit.start <= unit.start
          /\ "nonzero" = "zero" => unit.start # unit.start
          /\ UNCHANGED <<pc, approved, seen, ctx, verifyCtx, outcome>>
      BY <2>1, MaxStartsAssumption DEF JobRuns
    <3> HIDE DEF IInv
    <3> QED
      BY <2>3, <3>2, <3>3
  <2> QED
    BY <2>2, <2>3 DEF JobRuns
<1>2. unit'.start = n
  BY <1>1
<1>3. TypeOK'
  <2>1. unit' \in Units
    BY <1>1 DEF Units
  <2>2. exit' \in [Runs -> {"none", "zero", "nonzero"}]
    BY <1>1 DEF JobDone, TypeOK
  <2>3. effect' \in [Runs -> 0..MaxStarts]
    BY <1>1, <1>2 DEF JobDone, TypeOK
  <2> QED
    BY <1>1, <2>1, <2>2, <2>3 DEF TypeOK, JobDone
<1>4. ASSUME NEW r \in Runs PROVE RunInv(r)'
  <2>1. /\ unit.start \in Int /\ approved[r].start \in Int /\ seen[r].start \in Int
        /\ effect[r] \in Int /\ n \in Int /\ 0 <= unit.start
    BY Numbers, MaxStartsAssumption
  <2>2. /\ job' = {}
        /\ exit'[r] = IF r \in job THEN e ELSE exit[r]
        /\ effect'[r] = IF r \in job /\ n # unit.start THEN n ELSE effect[r]
    BY <1>1, <1>2 DEF JobDone
  <2>3. CASE r \notin job
    BY <1>1, <1>2, <2>1, <2>2, <2>3, LaterStart
  <2>4. CASE r \in job
    <3>1. exit[r] = "none" /\ effect[r] = NoStart /\ seen[r] = approved[r]
          /\ pc[r] \notin {"idle", "planned", "restart"}
          /\ seen[r].start <= unit.start /\ ~ Verifying(r) /\ outcome[r] # "pass"
      BY <2>4 DEF RunInv, KnownInv, QueueInv, DigestInv, ExitInv
    <3>2. n # unit.start => n # NoStart /\ seen[r].start < n
      BY <1>1, <2>1, <3>1 DEF NoStart
    <3> QED
      BY <1>1, <1>2, <2>1, <2>2, <2>4, <3>1, <3>2
      DEF RunInv, KnownInv, QueueInv, DigestInv, EffectInv, ExitInv, Executing, Verifying
  <2> QED
    BY <2>3, <2>4
<1> QED
  BY <1>3, <1>4

\* So does the unit, when it stops or starts by itself.
LEMMA UnitKeeps == ASSUME IInv, UnitChanges PROVE IInv'
<1> USE DEF IInv
<1>1. /\ unit' \in Units /\ unit.start <= unit'.start /\ unit'.start \in Int
      /\ UNCHANGED <<job, pc, local, effect>>
  BY MaxStartsAssumption DEF UnitChanges, TypeOK, Units
<1>2. TypeOK'
  BY <1>1 DEF TypeOK, local
<1>3. ASSUME NEW r \in Runs PROVE RunInv(r)'
  <2>1. /\ unit.start \in Int /\ approved[r].start \in Int /\ seen[r].start \in Int
        /\ effect[r] \in Int
    BY Numbers
  <2> QED
    BY <1>1, <2>1 DEF RunInv, KnownInv, QueueInv, DigestInv, EffectInv, ExitInv, Executing,
                      Verifying, local
<1> QED
  BY <1>2, <1>3

-----------------------------------------------------------------------------
\* Every step keeps the invariant.
LEMMA StepKeeps == IInv /\ [Next]_vars => IInv'
<1> SUFFICES ASSUME IInv, [Next]_vars PROVE IInv'
  OBVIOUS
<1>1. ASSUME NEW r \in Runs,
             Plan(r) \/ Execute(r) \/ Step(r) \/ VerifyTimeout(r) \/ Interrupt(r)
      PROVE  IInv'
  <2>1. TypeOK'
    BY <1>1, RunKeepsType DEF IInv
  <2>2. ASSUME NEW q \in Runs PROVE RunInv(q)'
    <3>1. CASE q = r
      BY <1>1, <3>1, OwnStepKeeps DEF IInv
    <3>2. CASE q # r
      <4>1. Frame(q)
        BY <1>1, <3>2, OthersKept DEF IInv
      <4> QED
        BY <4>1, FrameKeeps DEF IInv
    <3> QED
      BY <3>1, <3>2
  <2> QED
    BY <2>1, <2>2 DEF IInv
<1>2. CASE JobRuns
  BY <1>2, JobKeeps
<1>3. CASE UnitChanges
  BY <1>3, UnitKeeps
<1>4. CASE UNCHANGED vars
  <2>1. TypeOK'
    BY <1>4 DEF IInv, TypeOK, vars, local
  <2>2. ASSUME NEW q \in Runs PROVE RunInv(q)'
    <3>1. Frame(q)
      BY <1>4 DEF Frame, vars, local
    <3> QED
      BY <3>1, FrameKeeps DEF IInv
  <2> QED
    BY <2>1, <2>2 DEF IInv
<1> QED
  BY <1>1, <1>2, <1>3, <1>4 DEF Next

\* The invariant holds throughout.
LEMMA InvariantHolds == Spec => []IInv
  BY InitHolds, StepKeeps, PTL DEF Spec

-----------------------------------------------------------------------------
\* Every variable of the restarts keeps to its type: each run is in one of its
\* stages and returns one of the outcomes the code has.
THEOREM TypeCorrect == Spec => []TypeOK
<1>1. IInv => TypeOK
  BY DEF IInv
<1> QED
  BY <1>1, InvariantHolds, PTL

\* However many runs there are and however they overlap: the one that builds its
\* second plan after the restart of another, approved on the same plan, is
\* rejected.
THEOREM ApprovalSpent == Spec => []ApprovalIsSpent
<1>1. ASSUME IInv, NEW r \in Runs, NEW q \in Runs, approved[r] = approved[q],
             effect[r] # NoStart, effect[q] # NoStart
      PROVE  seen[q].start < effect[r]
  <2>1. seen[r] = approved[r] /\ seen[q] = approved[q]
    BY <1>1 DEF IInv, RunInv, DigestInv
  <2>2. seen[r].start < effect[r]
    BY <1>1 DEF IInv, RunInv, EffectInv
  <2> QED
    BY <1>1, <2>1, <2>2
<1>2. IInv => ApprovalIsSpent
  BY <1>1 DEF ApprovalIsSpent
<1> QED
  BY <1>2, InvariantHolds, PTL

\* A pass means that a job of this very run started the unit after the state
\* that was approved.
THEOREM PassRestarted == Spec => []PassMeansRestarted
<1>1. ASSUME IInv, NEW r \in Runs, outcome[r] = "pass"
      PROVE  effect[r] > approved[r].start /\ unit.start >= effect[r]
  <2>1. effect[r] # NoStart
    BY <1>1 DEF IInv, RunInv, ExitInv
  <2>2. seen[r] = approved[r] /\ seen[r].start < effect[r] /\ effect[r] <= unit.start
    BY <1>1, <2>1 DEF IInv, RunInv, DigestInv, EffectInv, KnownInv
  <2>3. /\ unit.start \in Int /\ approved[r].start \in Int /\ effect[r] \in Int
    BY <1>1, Numbers DEF IInv
  <2> QED
    BY <2>2, <2>3
<1>2. IInv => PassMeansRestarted
  BY <1>1 DEF PassMeansRestarted
<1> QED
  BY <1>2, InvariantHolds, PTL
=============================================================================
