------------------------- MODULE SetupSessionProofs -------------------------
(***************************************************************************)
(* What SetupSession guarantees for every profile, any number of sessions, *)
(* of executions of the same digest and of changes by somebody else.       *)
(***************************************************************************)
EXTENDS SetupSession, TLAPS

Executing == {"execute", "check", "apply", "verify"}

\* Where a session is tells what it has done and returned.
LifeInv(s) ==
    /\ runs[s] <= MaxRuns[s]
    /\ outcome[s] # "none" => pc[s] = "done"
    /\ pc[s] \in Executing => runs[s] < MaxRuns[s]
    /\ outcome[s] \in {"applied", "nothing", "pass"} => runs[s] < MaxRuns[s]
    /\ pc[s] # "apply" => todo[s] = {}
    /\ pc[s] \in {"idle", "plan"} => made[s] = {}
    /\ pc[s] = "plan" => mode[s] # "check"
    /\ pc[s] = "undo" => exit[s] \in {"failed", "interrupted", "rollback failed"}

\* What is to be changed and what was changed is approved.
ApprovalInv(s) == todo[s] \cup made[s] \subseteq approved[s].changes

\* What a reading found in order still is, unless others changed the host.
ReadingInv(s) ==
    ~touched[s] /\ pc[s] \in {"execute", "check", "verify"} =>
        \A o \in Objects : seen[s][o] = "pass" => Conforms(o)

\* What the plan leaves alone was in order when the execution decided.
PlannedInv(s) ==
    ~touched[s] /\ mode[s] = "apply" /\ pc[s] \in {"apply", "verify"} =>
        \A o \in Objects \ approved[s].changes : Conforms(o)

\* Good news of one session is true.
GoodNews(s) ==
    /\ ~touched[s]
    /\ outcome[s] = "pass" \/ (mode[s] = "apply" /\ outcome[s] \in {"applied", "nothing"})
    => \A o \in Objects : Conforms(o)

SInv(s) == LifeInv(s) /\ ApprovalInv(s) /\ ReadingInv(s) /\ PlannedInv(s) /\ GoodNews(s)

IInv == TypeOK /\ \A s \in Sessions : SInv(s)

-----------------------------------------------------------------------------
\* What a step of one session leaves of another one.
Frame(q) ==
    /\ pc'[q] = pc[q] /\ seen'[q] = seen[q] /\ approved'[q] = approved[q]
    /\ todo'[q] = todo[q] /\ exit'[q] = exit[q] /\ outcome'[q] = outcome[q]
    /\ runs'[q] = runs[q] /\ made'[q] = made[q]
    /\ touched[q] => touched'[q]
    /\ host' = host \/ touched'[q] \/ ~(runs[q] < MaxRuns[q])

\* A check that passes was made of an object that conforms.
LEMMA VerdictFacts ==
    ASSUME TypeOK, NEW K, NEW o \in Objects
    PROVE  /\ Verdict(host, K, o) \in Verdicts
           /\ Verdict(host, K, o) = "pass" => Conforms(o)
<1>1. Kind[o] \in Kinds /\ host[o] \in Values
    BY ProfileAssumption DEF TypeOK
<1> QED
    BY <1>1 DEF Verdict, Verdicts, Conforms, Kinds, Values

\* A complete reading calls for a change of what does not pass.
LEMMA ChangesFacts ==
    ASSUME NEW S \in [Objects -> Verdicts], NEW U, Complete(S), NEW o \in Objects,
           o \notin Changes("apply", S, U)
    PROVE  S[o] = "pass"
BY DEF Changes, Complete, needsChange, Verdicts

\* A plan is one, whatever was read.
LEMMA PlanTypes ==
    ASSUME TypeOK, NEW s \in Sessions, mode[s] # "check"
    PROVE  CurrentPlan(s) \in Plans /\ CurrentPlan(s).changes \subseteq Objects
<1>1. mode[s] \in {"apply", "upgrade"} /\ seen[s] \in [Objects -> Verdicts]
    BY SessionAssumption DEF TypeOK
<1>2. Changes(mode[s], seen[s], CachedUpgrades(host)) \subseteq Objects
    BY DEF Changes
<1> QED
    BY <1>1, <1>2 DEF CurrentPlan, BuildSetupPlan, Plans

\* No set of checks has the status "fail".
LEMMA ClassifyTypes == \A S : classify(S) \in {"warning", "pass", "partial"}
BY DEF classify

\* All checks of a result that passed have passed.
LEMMA ClassifyFacts ==
    ASSUME NEW S \in [Objects -> Verdicts], classify(S) = "pass", NEW o \in Objects
    PROVE  S[o] = "pass"
BY DEF classify, Complete, Verdicts

\* Whoever writes marks the others.
LEMMA WriteFacts ==
    ASSUME TypeOK, NEW s \in Sessions, NEW h \in [Objects -> Values], Write(s, h)
    PROVE  /\ host' \in [Objects -> Values]
           /\ touched' \in [Sessions -> BOOLEAN]
           /\ touched'[s] = touched[s]
           /\ \A q \in Sessions \ {s} :
                 /\ touched[q] => touched'[q]
                 /\ host' = host \/ touched'[q] \/ ~(runs[q] < MaxRuns[q])
<1>1. host' = h /\ touched' = [q \in Sessions |->
                     touched[q] \/ (q # s /\ runs[q] < MaxRuns[q] /\ h # host)]
    BY DEF Write
<1>2. touched \in [Sessions -> BOOLEAN]
    BY DEF TypeOK
<1>3. touched'[s] = touched[s]
    BY <1>1, <1>2
<1>4. touched' \in [Sessions -> BOOLEAN]
    BY <1>1, <1>2
<1>5. \A q \in Sessions \ {s} :
         /\ touched[q] => touched'[q]
         /\ host' = host \/ touched'[q] \/ ~(runs[q] < MaxRuns[q])
    BY <1>1
<1> QED
    BY <1>1, <1>3, <1>4, <1>5

\* A step that frames a session keeps its invariant.
LEMMA FrameKeeps ==
    ASSUME TypeOK, NEW q \in Sessions, SInv(q), Frame(q), mode' = mode
    PROVE  SInv(q)'
<1>1. LifeInv(q)'
    BY DEF SInv, LifeInv, Frame, Executing
<1>2. ApprovalInv(q)'
    BY DEF SInv, ApprovalInv, Frame
<1>3. ReadingInv(q)'
    BY DEF SInv, LifeInv, ReadingInv, Frame, Executing, Conforms
<1>4. PlannedInv(q)'
    BY DEF SInv, LifeInv, PlannedInv, Frame, Executing, Conforms
<1>5. GoodNews(q)'
    BY DEF SInv, LifeInv, GoodNews, Frame, Conforms
<1> QED
    BY <1>1, <1>2, <1>3, <1>4, <1>5 DEF SInv

\* What the transaction writes are values.
LEMMA EffectTypes ==
    ASSUME TypeOK, NEW s \in Sessions, NEW o \in Objects
    PROVE  /\ [host EXCEPT ![o] = "new"] \in [Objects -> Values]
           /\ Saved(s, o) \in Values
BY DEF TypeOK, Saved, Values

\* An undo writes a value, and is removed from a list of undos.
LEMMA UndoTypes ==
    ASSUME TypeOK, NEW s \in Sessions, undo[s] # <<>>
    PROVE  /\ [host EXCEPT ![Last(s)[1]] = Restored(Last(s))] \in [Objects -> Values]
           /\ DropLast(s) => undo' \in [Sessions -> Seq(Objects \X Values)]
<1>1. undo[s] \in Seq(Objects \X Values)
    BY DEF TypeOK
<1>2. Len(undo[s]) \in 1..Len(undo[s])
    BY <1>1
<1>3. Last(s) \in Objects \X Values
    BY <1>1, <1>2 DEF Last
<1>4. SubSeq(undo[s], 1, Len(undo[s]) - 1) \in Seq(Objects \X Values)
    BY <1>1, <1>2
<1>5. ASSUME DropLast(s) PROVE undo' \in [Sessions -> Seq(Objects \X Values)]
    BY <1>4, <1>5 DEF TypeOK, DropLast
<1>6. [host EXCEPT ![Last(s)[1]] = Restored(Last(s))] \in [Objects -> Values]
    BY <1>3 DEF TypeOK, Restored
<1> QED
    BY <1>5, <1>6

\* A step of one session leaves the others what Frame says.
LEMMA SessionFrames ==
    ASSUME TypeOK, NEW s \in Sessions, Session(s), NEW q \in Sessions \ {s}
    PROVE  Frame(q)
<1> USE DEF TypeOK, Frame, Goto, Return, StartReading, Forget, StartRollback, reading, history
<1>1. CASE Plan(s)
    BY <1>1 DEF Plan
<1>2. CASE Read(s)
    BY <1>2 DEF Read
<1>3. CASE ReadingFails(s)
    BY <1>3 DEF ReadingFails
<1>4. CASE Show(s)
    BY <1>4 DEF Show
<1>5. CASE Execute(s)
    BY <1>5 DEF Execute
<1>6. CASE Report(s)
    BY <1>6 DEF Report
<1>7. CASE Decide(s)
    BY <1>7 DEF Decide
<1>8. CASE Apply(s)
  <2>1. PICK o \in Objects : /\ Write(s, [host EXCEPT ![o] = "new"])
                             /\ todo' = [todo EXCEPT ![s] = @ \ {o}]
                             /\ made' = [made EXCEPT ![s] = @ \cup {o}]
      BY <1>8 DEF Apply
  <2>2. /\ touched[q] => touched'[q]
        /\ host' = host \/ touched'[q] \/ ~(runs[q] < MaxRuns[q])
      BY <2>1, WriteFacts, EffectTypes
  <2> QED
      BY <1>8, <2>1, <2>2 DEF Apply
<1>9. CASE ApplyFails(s)
  <2>1. /\ touched[q] => touched'[q]
        /\ host' = host \/ touched'[q] \/ ~(runs[q] < MaxRuns[q])
    <3>1. CASE UNCHANGED <<host, touched, made>>
        BY <3>1
    <3>2. CASE \E o \in Objects : Write(s, [host EXCEPT ![o] = "new"])
        BY <3>2, WriteFacts, EffectTypes
    <3> QED
        BY <1>9, <3>1, <3>2 DEF ApplyFails
  <2>2. made'[q] = made[q]
    <3>1. CASE UNCHANGED made
        BY <3>1
    <3>2. CASE \E o \in Objects : made' = [made EXCEPT ![s] = @ \cup {o}]
        BY <3>2
    <3> QED
        BY <1>9, <3>1, <3>2 DEF ApplyFails
  <2> QED
      BY <1>9, <2>1, <2>2 DEF ApplyFails
<1>10. CASE ChangesMade(s)
    BY <1>10 DEF ChangesMade
<1>11. CASE Commit(s)
    BY <1>11 DEF Commit
<1>12. CASE VerifyFails(s)
    BY <1>12 DEF VerifyFails
<1>13. CASE Undo(s)
  <2>1. /\ touched[q] => touched'[q]
        /\ host' = host \/ touched'[q] \/ ~(runs[q] < MaxRuns[q])
      BY <1>13, WriteFacts, UndoTypes DEF Undo
  <2> QED
      BY <1>13, <2>1 DEF Undo
<1>14. CASE UndoFails(s)
    BY <1>14 DEF UndoFails
<1>15. CASE RolledBack(s)
    BY <1>15 DEF RolledBack
<1> QED
    BY <1>1, <1>2, <1>3, <1>4, <1>5, <1>6, <1>7, <1>8, <1>9, <1>10, <1>11, <1>12,
       <1>13, <1>14, <1>15 DEF Session

\* A reading that starts or ends is forgotten.
LEMMA ReadingTypes ==
    ASSUME TypeOK, NEW s \in Sessions, Forget(s) \/ \E p : StartReading(s, p)
    PROVE  /\ unread' \in [Sessions -> SUBSET Objects]
           /\ seen' \in [Sessions -> [Objects -> Verdicts]]
           /\ known' \in [Sessions -> SUBSET Objects]
<1>1. Unread \in [Objects -> Verdicts]
    BY DEF Unread, Verdicts
<1>2. CASE Forget(s)
    BY <1>1, <1>2 DEF TypeOK, Forget
<1>3. CASE \E p : StartReading(s, p)
    BY <1>1, <1>3 DEF TypeOK, StartReading
<1> QED
    BY <1>2, <1>3

\* A rollback starts with its reason.
LEMMA RollbackTypes ==
    ASSUME TypeOK, NEW s \in Sessions, NEW e \in Outcomes, StartRollback(s, e)
    PROVE  /\ pc' \in [Sessions -> Readings \cup {"idle", "shown", "apply", "undo", "done"}]
           /\ exit' \in [Sessions -> Outcomes] /\ outcome' \in [Sessions -> Outcomes]
           /\ todo' \in [Sessions -> SUBSET Objects] /\ approved' \in [Sessions -> Plans]
           /\ runs' \in [Sessions -> Nat] /\ drift' \in Nat
BY DEF TypeOK, StartRollback, Goto

\* Steps of a session have their types.
LEMMA SessionTypes ==
    ASSUME TypeOK, NEW s \in Sessions, SInv(s), Session(s), mode' = mode
    PROVE  TypeOK'
<1> USE DEF Goto, Return, reading, history, Readings, Outcomes
<1>1. CASE Plan(s)
    BY <1>1, ReadingTypes DEF Plan, StartReading, TypeOK
<1>2. CASE Read(s)
  <2>1. PICK p \in Objects :
          /\ unread' = [unread EXCEPT ![s] = @ \ ReadTogether(p)]
          /\ \/ /\ seen' = [seen EXCEPT ![s] = [o \in Objects |->
                              IF o \in ReadTogether(p) THEN Verdict(host, known[s], o)
                              ELSE seen[s][o]]]
                /\ known' = [known EXCEPT ![s] = @ \cup AccountsRead(host, ReadTogether(p))]
             \/ UNCHANGED <<seen, known>>
      BY <1>2 DEF Read
  <2>2. ReadTogether(p) \subseteq Objects
      BY <2>1 DEF ReadTogether
  <2>3. AccountsRead(host, ReadTogether(p)) \subseteq Objects
      BY <2>2 DEF AccountsRead
  <2>4. [o \in Objects |-> IF o \in ReadTogether(p) THEN Verdict(host, known[s], o)
                           ELSE seen[s][o]] \in [Objects -> Verdicts]
    <3>1. seen[s] \in [Objects -> Verdicts]
        BY DEF TypeOK
    <3>2. \A o \in Objects : Verdict(host, known[s], o) \in Verdicts
        BY VerdictFacts DEF TypeOK
    <3> QED
        BY <3>1, <3>2
  <2>5. seen' \in [Sessions -> [Objects -> Verdicts]]
      BY <2>1, <2>4 DEF TypeOK
  <2>6. unread' \in [Sessions -> SUBSET Objects]
      BY <2>1 DEF TypeOK
  <2>7. known' \in [Sessions -> SUBSET Objects]
    <3>1. CASE UNCHANGED known
        BY <3>1 DEF TypeOK
    <3>2. CASE known' = [known EXCEPT ![s] = @ \cup AccountsRead(host, ReadTogether(p))]
      <4>1. known[s] \cup AccountsRead(host, ReadTogether(p)) \in SUBSET Objects
          BY <2>3 DEF TypeOK
      <4> QED
          BY <3>2, <4>1 DEF TypeOK
    <3> QED
        BY <2>1, <3>1, <3>2
  <2> QED
      BY <1>2, <2>5, <2>6, <2>7 DEF Read, TypeOK
<1>3. CASE ReadingFails(s)
  <2>1. PICK o \in {"error", "critical"} :
          pc' = [pc EXCEPT ![s] = "done"] /\ outcome' = [outcome EXCEPT ![s] = o]
      BY <1>3 DEF ReadingFails
  <2>2. /\ pc' \in [Sessions -> Readings \cup {"idle", "shown", "apply", "undo", "done"}]
        /\ outcome' \in [Sessions -> Outcomes]
    <3>1. pc \in [Sessions -> Readings \cup {"idle", "shown", "apply", "undo", "done"}]
          /\ outcome \in [Sessions -> Outcomes]
        BY DEF TypeOK
    <3>2. o \in Outcomes
        OBVIOUS
    <3> QED
        BY <2>1, <3>1, <3>2
  <2>3. /\ unread' \in [Sessions -> SUBSET Objects]
        /\ seen' \in [Sessions -> [Objects -> Verdicts]]
        /\ known' \in [Sessions -> SUBSET Objects]
      BY <1>3, ReadingTypes DEF ReadingFails
  <2>4. UNCHANGED <<host, approved, todo, undo, exit, runs, drift, history>>
      BY <1>3 DEF ReadingFails
  <2> QED
      BY <2>2, <2>3, <2>4 DEF TypeOK
<1>4. CASE Show(s)
  <2>1. approved' \in [Sessions -> Plans]
    <3>1. CurrentPlan(s) \in Plans
        BY <1>4, PlanTypes DEF Show, SInv, LifeInv
    <3>2. approved' = approved \/ approved' = [approved EXCEPT ![s] = CurrentPlan(s)]
        BY <1>4 DEF Show
    <3> QED
        BY <3>1, <3>2 DEF TypeOK
  <2>2. /\ pc' \in [Sessions -> Readings \cup {"idle", "shown", "apply", "undo", "done"}]
        /\ outcome' \in [Sessions -> Outcomes]
      BY <1>4 DEF Show, TypeOK
  <2> QED
      BY <1>4, <2>1, <2>2, ReadingTypes DEF Show, TypeOK
<1>5. CASE Execute(s)
  <2>1. \E p \in Readings : StartReading(s, p)
      BY <1>5 DEF Execute
  <2>2. pc' \in [Sessions -> Readings \cup {"idle", "shown", "apply", "undo", "done"}]
      BY <2>1 DEF StartReading, TypeOK
  <2>3. runs' \in [Sessions -> Nat]
    <3>1. runs[s] - 1 \in Nat
      <4>1. runs[s] \in Nat
          BY DEF TypeOK
      <4>2. runs[s] > 0
          BY <1>5 DEF Execute
      <4> QED
          BY <4>1, <4>2
    <3>2. runs' = [runs EXCEPT ![s] = runs[s] - 1]
        BY <1>5 DEF Execute
    <3> QED
        BY <3>1, <3>2 DEF TypeOK
  <2>4. base' \in [Sessions -> SUBSET Sessions] /\ made' \in [Sessions -> SUBSET Objects]
      BY <1>5 DEF Execute, TypeOK
  <2>5. outcome' \in [Sessions -> Outcomes]
      BY <1>5 DEF Execute, TypeOK
  <2> QED
      BY <1>5, <2>1, <2>2, <2>3, <2>4, <2>5, ReadingTypes DEF Execute, TypeOK
<1>6. CASE Report(s)
    BY <1>6, ClassifyTypes, ReadingTypes DEF Report, TypeOK
<1>7. CASE Decide(s)
  <2>1. todo' \in [Sessions -> SUBSET Objects]
    <3>1. CurrentPlan(s).changes \subseteq Objects
        BY DEF CurrentPlan, BuildSetupPlan, Changes
    <3> QED
        BY <1>7, <3>1 DEF Decide, TypeOK
  <2>2. /\ pc' \in [Sessions -> Readings \cup {"idle", "shown", "apply", "undo", "done"}]
        /\ outcome' \in [Sessions -> Outcomes]
      BY <1>7 DEF Decide, TypeOK
  <2> QED
      BY <1>7, <2>1, <2>2, ReadingTypes DEF Decide, TypeOK
<1>8. CASE Apply(s)
  <2>1. PICK o \in Objects : /\ Write(s, [host EXCEPT ![o] = "new"])
                             /\ undo' = [undo EXCEPT ![s] = Append(@, <<o, Saved(s, o)>>)]
                             /\ todo' = [todo EXCEPT ![s] = @ \ {o}]
                             /\ made' = [made EXCEPT ![s] = @ \cup {o}]
      BY <1>8 DEF Apply
  <2>2. host' \in [Objects -> Values] /\ touched' \in [Sessions -> BOOLEAN]
      BY <2>1, WriteFacts, EffectTypes
  <2>3. undo' \in [Sessions -> Seq(Objects \X Values)]
    <3>1. Append(undo[s], <<o, Saved(s, o)>>) \in Seq(Objects \X Values)
      <4>1. <<o, Saved(s, o)>> \in Objects \X Values /\ undo[s] \in Seq(Objects \X Values)
          BY EffectTypes DEF TypeOK
      <4> QED
          BY <4>1
    <3> QED
        BY <2>1, <3>1 DEF TypeOK
  <2>4. todo' \in [Sessions -> SUBSET Objects] /\ made' \in [Sessions -> SUBSET Objects]
      BY <2>1 DEF TypeOK
  <2> QED
      BY <1>8, <2>2, <2>3, <2>4 DEF Apply, TypeOK
<1>9. CASE ApplyFails(s)
  <2>1. /\ host' \in [Objects -> Values] /\ touched' \in [Sessions -> BOOLEAN]
        /\ made' \in [Sessions -> SUBSET Objects]
    <3>1. CASE UNCHANGED <<host, touched, made>>
        BY <3>1 DEF TypeOK
    <3>2. CASE \E o \in Objects : /\ Write(s, [host EXCEPT ![o] = "new"])
                                  /\ made' = [made EXCEPT ![s] = @ \cup {o}]
      <4>1. PICK o \in Objects : made' = [made EXCEPT ![s] = @ \cup {o}]
          BY <3>2
      <4>2. made' \in [Sessions -> SUBSET Objects]
          BY <4>1 DEF TypeOK
      <4> QED
          BY <3>2, <4>2, WriteFacts, EffectTypes
    <3> QED
        BY <1>9, <3>1, <3>2 DEF ApplyFails
  <2>2. PICK e \in {"failed", "interrupted"} : StartRollback(s, e)
      BY <1>9 DEF ApplyFails
  <2>3. e \in Outcomes
      BY <2>2
  <2>4. UNCHANGED <<unread, seen, known, undo, base, wins>>
      BY <1>9 DEF ApplyFails
  <2> QED
      BY <2>1, <2>2, <2>3, <2>4, RollbackTypes DEF TypeOK
<1>10. CASE ChangesMade(s)
    BY <1>10, ReadingTypes DEF ChangesMade, StartReading, TypeOK
<1>11. CASE Commit(s)
  <2>1. undo' \in [Sessions -> Seq(Objects \X Values)]
    <3>1. <<>> \in Seq(Objects \X Values)
        OBVIOUS
    <3> QED
        BY <1>11, <3>1 DEF Commit, TypeOK
  <2>2. wins' \in [Sessions -> Nat]
    <3>1. wins' = [wins EXCEPT ![s] = wins[s] + 1]
        BY <1>11 DEF Commit
    <3>2. wins \in [Sessions -> Nat]
        BY DEF TypeOK
    <3>3. wins[s] + 1 \in Nat
        BY <3>2
    <3> QED
        BY <3>1, <3>2, <3>3
  <2> QED
      BY <1>11, <2>1, <2>2, ReadingTypes DEF Commit, TypeOK
<1>12. CASE VerifyFails(s)
  <2>1. PICK e \in {"failed", "interrupted"} : StartRollback(s, e)
      BY <1>12 DEF VerifyFails
  <2> QED
      BY <1>12, <2>1, ReadingTypes, RollbackTypes DEF VerifyFails, TypeOK
<1>13. CASE Undo(s)
    BY <1>13, WriteFacts, UndoTypes DEF Undo, TypeOK
<1>14. CASE UndoFails(s)
    BY <1>14, UndoTypes DEF UndoFails, TypeOK
<1>15. CASE RolledBack(s)
    BY <1>15 DEF RolledBack, TypeOK
<1> QED
    BY <1>1, <1>2, <1>3, <1>4, <1>5, <1>6, <1>7, <1>8, <1>9, <1>10, <1>11, <1>12,
       <1>13, <1>14, <1>15 DEF Session

\* What a reading finds in order is in order.
LEMMA ReadFacts ==
    ASSUME TypeOK, NEW s \in Sessions, ReadingInv(s), Read(s)
    PROVE  ReadingInv(s)'
<1> SUFFICES ASSUME ~touched[s], pc[s] \in {"execute", "check", "verify"},
                    NEW o \in Objects, seen'[s][o] = "pass"
             PROVE  Conforms(o)'
    BY DEF ReadingInv, Read, history
<1>1. \/ UNCHANGED seen
      \/ \E p \in Objects :
            seen' = [seen EXCEPT ![s] = [x \in Objects |->
                        IF x \in ReadTogether(p) THEN Verdict(host, known[s], x)
                        ELSE seen[s][x]]]
    BY DEF Read
<1>2. seen[s][o] = "pass" \/ Verdict(host, known[s], o) = "pass"
    BY <1>1 DEF TypeOK
<1>3. Conforms(o)
    BY <1>2, VerdictFacts DEF ReadingInv
<1> QED
    BY <1>3 DEF Read, Conforms

\* Deciding leaves alone what the reading has just found in order.
LEMMA DecideFacts ==
    ASSUME TypeOK, NEW s \in Sessions, SInv(s), Decide(s), ~touched[s], mode[s] = "apply",
           outcome'[s] = "nothing" \/ pc'[s] = "apply"
    PROVE  /\ \A o \in Objects \ CurrentPlan(s).changes : Conforms(o)
           /\ CurrentPlan(s) = approved[s]
           /\ outcome'[s] = "nothing" => CurrentPlan(s).changes = {}
<1>1. /\ Complete(seen[s]) /\ CurrentPlan(s) = approved[s]
      /\ outcome'[s] = "nothing" => CurrentPlan(s).changes = {}
    BY DEF Decide, TypeOK, Goto, Return, SameDigest, SInv, LifeInv
<1>2. CurrentPlan(s).changes = Changes("apply", seen[s], CachedUpgrades(host))
    BY DEF CurrentPlan, BuildSetupPlan
<1>3. pc[s] = "execute" /\ seen[s] \in [Objects -> Verdicts]
    BY DEF Decide, TypeOK
<1>4. \A o \in Objects \ CurrentPlan(s).changes : seen[s][o] = "pass"
    BY <1>1, <1>2, <1>3, ChangesFacts
<1> QED
    BY <1>1, <1>3, <1>4 DEF SInv, ReadingInv

\* A change leaves in order what is.
LEMMA ChangeFacts ==
    ASSUME TypeOK, NEW p \in Objects, host' = [host EXCEPT ![p] = "new"]
    PROVE  \A o \in Objects : Conforms(o) => Conforms(o)'
BY DEF TypeOK, Conforms

\* A step of a session keeps its own invariant.
LEMMA SessionKeeps ==
    ASSUME IInv, NEW s \in Sessions, Session(s), mode' = mode
    PROVE  SInv(s)'
<1> USE DEF IInv, Goto, Return, StartReading, Forget, reading, history
<1>0. TypeOK /\ SInv(s)
    OBVIOUS
<1>1. CASE Plan(s)
    BY <1>0, <1>1 DEF Plan, TypeOK, SInv, LifeInv, ApprovalInv, ReadingInv, PlannedInv,
                      GoodNews, Executing
<1>2. CASE Read(s)
  <2>1. ReadingInv(s)'
      BY <1>0, <1>2, ReadFacts DEF SInv
  <2>2. UNCHANGED <<host, pc, approved, todo, exit, outcome, runs, made, touched>>
      BY <1>2 DEF Read
  <2> QED
      BY <1>0, <2>1, <2>2 DEF SInv, LifeInv, ApprovalInv, PlannedInv, GoodNews, Conforms
<1>3. CASE ReadingFails(s)
    BY <1>0, <1>3 DEF ReadingFails, TypeOK, SInv, LifeInv, ApprovalInv, ReadingInv,
                      PlannedInv, GoodNews, Executing
<1>4. CASE Show(s)
  <2>1. /\ pc[s] = "plan" /\ pc'[s] \in {"shown", "done"} /\ outcome'[s] \in {"none", "error"}
        /\ UNCHANGED <<host, todo, exit, runs, made, touched>>
      BY <1>0, <1>4 DEF Show, TypeOK, SInv, LifeInv
  <2>2. outcome'[s] # "none" => pc'[s] = "done"
      BY <1>0, <1>4 DEF Show, TypeOK, SInv, LifeInv
  <2>3. todo[s] = {} /\ made[s] = {}
      BY <1>0, <2>1 DEF SInv, LifeInv
  <2> QED
      BY <1>0, <2>1, <2>2, <2>3 DEF SInv, LifeInv, ApprovalInv, ReadingInv, PlannedInv,
                                    GoodNews, Executing
<1>5. CASE Execute(s)
  <2>1. runs'[s] = runs[s] - 1 /\ runs[s] \in Nat /\ MaxRuns[s] \in Nat
      BY <1>0, <1>5, SessionAssumption DEF Execute, TypeOK
  <2>2. runs'[s] < MaxRuns[s] /\ runs'[s] <= MaxRuns[s]
    <3>1. runs[s] <= MaxRuns[s]
        BY <1>0 DEF SInv, LifeInv
    <3> QED
        BY <2>1, <3>1
  <2>3. /\ pc'[s] \in {"check", "execute"} /\ pc[s] \in {"idle", "shown", "done"}
        /\ seen'[s] = Unread /\ outcome'[s] = "none" /\ made'[s] = {}
        /\ UNCHANGED <<host, approved, todo, exit, touched>>
      BY <1>5 DEF Execute, TypeOK
  <2>4. todo[s] = {}
      BY <1>0, <2>3 DEF SInv, LifeInv
  <2>5. LifeInv(s)'
      BY <2>2, <2>3, <2>4 DEF LifeInv
  <2>6. ReadingInv(s)'
      BY <2>3 DEF ReadingInv, Unread
  <2> QED
      BY <2>3, <2>4, <2>5, <2>6 DEF SInv, ApprovalInv, PlannedInv, GoodNews
<1>6. CASE Report(s)
  <2>1. outcome'[s] = "pass" /\ ~touched[s] => \A o \in Objects : Conforms(o)
      BY <1>0, <1>6, ClassifyFacts DEF Report, TypeOK, SInv, ReadingInv
  <2>2. /\ pc[s] = "check" /\ pc'[s] = "done" /\ outcome'[s] \in {"warning", "pass", "partial"}
        /\ UNCHANGED <<host, approved, todo, exit, runs, made, touched>>
      BY <1>6, ClassifyTypes DEF Report, TypeOK
  <2> QED
      BY <1>0, <2>1, <2>2 DEF SInv, LifeInv, ApprovalInv, ReadingInv, PlannedInv,
                              GoodNews, Executing, Conforms
<1>7. CASE Decide(s)
  <2>1. /\ pc[s] = "execute" /\ UNCHANGED <<host, approved, exit, runs, made, touched>>
        /\ todo[s] = {}
      BY <1>0, <1>7 DEF Decide, SInv, LifeInv, Executing
  <2>2. CASE /\ pc'[s] = "done" /\ outcome'[s] \in {"error", "rejected", "nothing"}
             /\ UNCHANGED todo
    <3>1. ~touched[s] /\ mode[s] = "apply" /\ outcome'[s] = "nothing" =>
             \A o \in Objects : Conforms(o)
        BY <1>0, <1>7, DecideFacts
    <3>2. runs[s] < MaxRuns[s]
        BY <1>0, <2>1 DEF SInv, LifeInv, Executing
    <3> QED
        BY <1>0, <2>1, <2>2, <3>1, <3>2 DEF SInv, LifeInv, ApprovalInv, ReadingInv, PlannedInv,
                                       GoodNews, Executing, Conforms
  <2>3. CASE /\ pc'[s] = "apply" /\ todo'[s] = CurrentPlan(s).changes /\ UNCHANGED outcome
             /\ CurrentPlan(s) = approved[s]
    <3>1. ~touched[s] /\ mode[s] = "apply" =>
             \A o \in Objects \ approved[s].changes : Conforms(o)
        BY <1>0, <1>7, <2>3, DecideFacts
    <3>2. runs[s] < MaxRuns[s] /\ outcome[s] = "none"
        BY <1>0, <2>1 DEF SInv, LifeInv, Executing
    <3> QED
        BY <1>0, <2>1, <2>3, <3>1, <3>2 DEF SInv, LifeInv, ApprovalInv, ReadingInv,
                                            PlannedInv, GoodNews, Executing, Conforms
  <2> QED
      BY <1>0, <1>7, <2>2, <2>3 DEF Decide, TypeOK, SameDigest
<1>8. CASE Apply(s)
  <2>1. PICK o \in Objects : /\ o \in todo[s]
                             /\ Write(s, [host EXCEPT ![o] = "new"])
                             /\ todo' = [todo EXCEPT ![s] = @ \ {o}]
                             /\ made' = [made EXCEPT ![s] = @ \cup {o}]
      BY <1>8 DEF Apply, First
  <2>2. /\ pc[s] = "apply" /\ touched'[s] = touched[s]
        /\ todo'[s] = todo[s] \ {o} /\ made'[s] = made[s] \cup {o}
        /\ host' = [host EXCEPT ![o] = "new"]
        /\ UNCHANGED <<pc, approved, exit, outcome, runs>>
    <3>1. touched'[s] = touched[s]
        BY <1>0, <2>1, WriteFacts, EffectTypes
    <3>2. todo'[s] = todo[s] \ {o} /\ made'[s] = made[s] \cup {o}
        BY <1>0, <2>1 DEF TypeOK
    <3> QED
        BY <1>8, <2>1, <3>1, <3>2 DEF Apply, Write
  <2>3. \A x \in Objects : Conforms(x) => Conforms(x)'
      BY <1>0, <2>2, ChangeFacts
  <2>4. LifeInv(s)' /\ ApprovalInv(s)'
      BY <1>0, <2>1, <2>2 DEF SInv, LifeInv, ApprovalInv, Executing
  <2>5. ReadingInv(s)' /\ PlannedInv(s)' /\ GoodNews(s)'
      BY <1>0, <2>2, <2>3 DEF SInv, LifeInv, ReadingInv, PlannedInv, GoodNews
  <2> QED
      BY <2>4, <2>5 DEF SInv
<1>9. CASE ApplyFails(s)
  <2>1. PICK e \in {"failed", "interrupted"} : StartRollback(s, e)
      BY <1>9 DEF ApplyFails
  <2>2. /\ pc[s] = "apply" /\ pc'[s] = "undo" /\ exit'[s] = e /\ todo'[s] = {}
        /\ UNCHANGED <<outcome, approved, runs>>
      BY <1>0, <1>9, <2>1 DEF ApplyFails, StartRollback, TypeOK
  <2>3. made'[s] \subseteq approved[s].changes
    <3>1. CASE UNCHANGED made
        BY <1>0, <3>1 DEF SInv, ApprovalInv
    <3>2. CASE \E o \in todo[s] : made' = [made EXCEPT ![s] = @ \cup {o}]
        BY <1>0, <3>2 DEF SInv, ApprovalInv, TypeOK
    <3> QED
        BY <1>9, <3>1, <3>2 DEF ApplyFails, First
  <2>4. outcome[s] = "none"
      BY <1>0, <2>2 DEF SInv, LifeInv
  <2> QED
      BY <1>0, <2>1, <2>2, <2>3, <2>4 DEF SInv, LifeInv, ApprovalInv, ReadingInv, PlannedInv,
                                          GoodNews, Executing
<1>10. CASE ChangesMade(s)
  <2>1. /\ pc[s] = "apply" /\ pc'[s] = "verify" /\ seen'[s] = Unread /\ todo[s] = {}
        /\ UNCHANGED <<host, approved, todo, exit, outcome, runs, made, touched>>
      BY <1>0, <1>10 DEF ChangesMade, TypeOK
  <2> QED
      BY <1>0, <2>1 DEF SInv, LifeInv, ApprovalInv, ReadingInv, PlannedInv, GoodNews,
                        Executing, Conforms, Unread
<1>11. CASE Commit(s)
  <2>1. /\ pc[s] = "verify" /\ pc'[s] = "done" /\ outcome'[s] = "applied"
        /\ UNCHANGED <<host, approved, todo, exit, runs, made, touched>>
        /\ \A o \in approved[s].changes : seen[s][o] = "pass"
      BY <1>0, <1>11 DEF Commit, TypeOK
  <2>2. ~touched[s] /\ mode[s] = "apply" => \A o \in Objects : Conforms(o)
      BY <1>0, <2>1 DEF SInv, ReadingInv, PlannedInv
  <2>3. runs[s] < MaxRuns[s] /\ todo[s] = {}
      BY <1>0, <2>1 DEF SInv, LifeInv, Executing
  <2> QED
      BY <1>0, <2>1, <2>2, <2>3 DEF SInv, LifeInv, ApprovalInv, ReadingInv, PlannedInv,
                                    GoodNews, Executing, Conforms
<1>12. CASE VerifyFails(s)
  <2>1. PICK e \in {"failed", "interrupted"} : StartRollback(s, e)
      BY <1>12 DEF VerifyFails
  <2>2. /\ pc[s] = "verify" /\ pc'[s] = "undo" /\ exit'[s] = e /\ todo'[s] = {}
        /\ UNCHANGED <<outcome, approved, runs, made>>
      BY <1>0, <1>12, <2>1 DEF VerifyFails, StartRollback, TypeOK
  <2>3. outcome[s] = "none"
      BY <1>0, <2>2 DEF SInv, LifeInv
  <2> QED
      BY <1>0, <2>1, <2>2, <2>3 DEF SInv, LifeInv, ApprovalInv, ReadingInv, PlannedInv,
                                    GoodNews, Executing
<1>13. CASE Undo(s)
  <2>1. pc[s] = "undo" /\ UNCHANGED <<pc, approved, todo, exit, outcome, runs, made>>
      BY <1>13 DEF Undo
  <2> QED
      BY <1>0, <2>1 DEF SInv, LifeInv, ApprovalInv, ReadingInv, PlannedInv, GoodNews, Executing
<1>14. CASE UndoFails(s)
  <2>1. /\ pc[s] = "undo" /\ UNCHANGED <<pc, approved, todo, outcome, runs, made>>
        /\ exit'[s] \in {exit[s], "rollback failed"}
      BY <1>0, <1>14 DEF UndoFails, TypeOK
  <2> QED
      BY <1>0, <2>1 DEF SInv, LifeInv, ApprovalInv, ReadingInv, PlannedInv, GoodNews, Executing
<1>15. CASE RolledBack(s)
  <2>1. /\ pc[s] = "undo" /\ pc'[s] = "done" /\ outcome'[s] = exit[s]
        /\ UNCHANGED <<approved, todo, runs, made>>
      BY <1>0, <1>15 DEF RolledBack, TypeOK
  <2>2. outcome'[s] \in {"failed", "interrupted", "rollback failed"}
      BY <1>0, <2>1 DEF SInv, LifeInv
  <2> QED
      BY <1>0, <2>1, <2>2 DEF SInv, LifeInv, ApprovalInv, ReadingInv, PlannedInv, GoodNews,
                              Executing
<1> QED
    BY <1>1, <1>2, <1>3, <1>4, <1>5, <1>6, <1>7, <1>8, <1>9, <1>10, <1>11, <1>12,
       <1>13, <1>14, <1>15 DEF Session

\* Somebody else's change is a step that frames every session.
LEMMA DriftFacts ==
    ASSUME TypeOK, Drift, mode' = mode
    PROVE  TypeOK' /\ \A q \in Sessions : Frame(q)
<1>1. PICK o \in Objects, v \in Values :
          /\ host' = [host EXCEPT ![o] = v]
          /\ touched' = [s \in Sessions |->
                           touched[s] \/ (runs[s] < MaxRuns[s] /\ v # host[o])]
    BY DEF Drift
<1>2. drift' \in Nat
    BY DEF Drift, TypeOK
<1>3. host' \in [Objects -> Values]
    BY <1>1 DEF TypeOK
<1>4. touched' \in [Sessions -> BOOLEAN]
    BY <1>1 DEF TypeOK
<1>5. TypeOK'
    BY <1>2, <1>3, <1>4 DEF Drift, TypeOK, reading
<1>6. ASSUME NEW q \in Sessions
      PROVE  Frame(q)
  <2>1. touched[q] => touched'[q]
      BY <1>1
  <2>2. host' = host \/ touched'[q] \/ ~(runs[q] < MaxRuns[q])
    <3>1. v = host[o] => host' = host
        BY <1>1 DEF TypeOK
    <3> QED
        BY <1>1, <3>1
  <2> QED
      BY <2>1, <2>2 DEF Drift, Frame, reading
<1> QED
    BY <1>5, <1>6

\* Before anything ran.
LEMMA InitInv == Init => IInv
<1> SUFFICES ASSUME Init PROVE IInv
    OBVIOUS
<1>1. TypeOK
  <2>1. Unread \in [Objects -> Verdicts]
      BY DEF Unread, Verdicts
  <2>2. NoPlan \in Plans
      BY <2>1 DEF NoPlan, BuildSetupPlan, Plans, Changes
  <2>3. drift \in Nat /\ runs \in [Sessions -> Nat]
      BY SessionAssumption DEF Init
  <2>4. <<>> \in Seq(Objects \X Values)
      OBVIOUS
  <2> QED
      BY <2>1, <2>2, <2>3, <2>4 DEF Init, TypeOK, Outcomes
<1>2. ASSUME NEW s \in Sessions
      PROVE  SInv(s)
    BY SessionAssumption DEF Init, SInv, LifeInv, ApprovalInv, ReadingInv, PlannedInv,
                             GoodNews, Executing
<1> QED
    BY <1>1, <1>2 DEF IInv

\* Every step keeps the invariant of every session.
LEMMA StepInv == IInv /\ [Next]_vars => IInv'
<1> SUFFICES ASSUME IInv, [Next]_vars PROVE IInv'
    OBVIOUS
<1>1. CASE \E s \in Sessions : Session(s) /\ UNCHANGED mode
  <2>1. PICK s \in Sessions : Session(s) /\ mode' = mode
      BY <1>1
  <2>2. TypeOK'
      BY <2>1, SessionTypes DEF IInv
  <2>3. SInv(s)'
      BY <2>1, SessionKeeps
  <2>4. ASSUME NEW q \in Sessions, q # s
        PROVE  SInv(q)'
      BY <2>1, <2>4, SessionFrames, FrameKeeps DEF IInv
  <2> QED
      BY <2>2, <2>3, <2>4 DEF IInv
<1>2. CASE Drift /\ UNCHANGED mode
    BY <1>2, DriftFacts, FrameKeeps DEF IInv
<1>3. CASE UNCHANGED vars
  <2>1. TypeOK'
      BY <1>3 DEF IInv, TypeOK, vars, reading, history
  <2>2. ASSUME NEW q \in Sessions
        PROVE  SInv(q)'
      BY <1>3, <2>2, FrameKeeps DEF IInv, Frame, vars, reading, history
  <2> QED
      BY <2>1, <2>2 DEF IInv
<1> QED
    BY <1>1, <1>2, <1>3 DEF Next

\* The invariant holds throughout.
LEMMA Inductive == Spec => []IInv
BY InitInv, StepInv, PTL DEF Spec

-----------------------------------------------------------------------------
\* Every variable keeps its type: sessions only plan, change and undo objects
\* of the profile, and return one of the outcomes the protocol knows.
THEOREM TypeCorrect == Spec => []TypeOK
<1>1. IInv => TypeOK
    BY DEF IInv
<1> QED
    BY <1>1, Inductive, PTL

\* However many sessions overlap, however the host changes between a plan and
\* its execution and while it is read, an execution changes only objects of the
\* plan that the operator approved (executeMutation).
THEOREM ApprovedOnly == Spec => []ApprovedChangesOnly
<1>1. IInv => ApprovedChangesOnly
    BY DEF IInv, SInv, ApprovalInv, ApprovedChangesOnly
<1> QED
    BY <1>1, Inductive, PTL

\* A check that passes and an apply that succeeds tell of a host that conforms,
\* in all objects of the profile, unless others changed it since they began.
THEOREM Converged == Spec => []SuccessMeansConverged
<1>1. IInv => SuccessMeansConverged
    BY DEF IInv, SInv, GoodNews, SuccessMeansConverged
<1> QED
    BY <1>1, Inductive, PTL

-----------------------------------------------------------------------------
(* Sessions that overlap, and digests that are executed again. *)

Account(o) == Kind[o] \in {"group", "user"}
LooksUp(o) == Kind[o] \in {"user", "directory", "file", "sysctl"}

\* An object whose check passes in every reading that can be completed.
Standing(o) ==
    host[o] = "new" /\ (LooksUp(o) => \A a \in Accounts[o] : host[a] # "absent")

\* What a reading has found so far of the objects A, which others may not change.
FoundAmong(s, A) ==
    /\ \A p \in unread[s] : ReadTogether(p) \subseteq unread[s] /\ seen[s][p] = "skipped"
    /\ \A o \in A : LooksUp(o) =>
          \A a \in Accounts[o] \ unread[s] :
              host[a] # "absent" => a \in known[s] \/ seen[s][a] = "skipped"
    /\ \A o \in A \ unread[s] :
          Standing(o) => \/ seen[s][o] \in {"pass", "skipped"}
                         \/ \E a \in Objects \ unread[s] : seen[s][a] = "skipped"

\* What passed may be relied on, while nobody changes the host.
FoundInv(s) ==
    /\ FoundAmong(s, Objects)
    /\ \A a \in known[s] : host[a] # "absent"
    /\ \A o \in Objects : seen[s][o] = "pass" /\ LooksUp(o) => Accounts[o] \subseteq known[s]

-----------------------------------------------------------------------------
(* Readings. *)

\* The accounts an object looks up come before everything that is read with it.
LEMMA AccountsFirst ==
    ASSUME NEW S, NEW p \in Objects, First(S, p), NEW o \in ReadTogether(p),
           NEW a \in Accounts[o]
    PROVE  o \in Objects /\ a \in Objects /\ Account(a) /\ a \notin S
<1>1. o \in Objects /\ Kind[o] = Kind[p]
    BY DEF ReadTogether
<1>2. a \in Objects /\ Account(a) /\ changePriority(a) < changePriority(o)
    BY <1>1, ProfileAssumption DEF Account
<1>3. changePriority(o) = changePriority(p)
    BY <1>1 DEF changePriority
<1>4. \A x \in Objects : changePriority(x) \in 0..6
  <2>1. ASSUME NEW x \in Objects PROVE changePriority(x) \in 0..6
    <3>1. Kind[x] \in Kinds
        BY ProfileAssumption
    <3> QED
        BY <3>1 DEF changePriority, Kinds
  <2> QED
      BY <2>1
<1>5. ASSUME NEW x \in Objects
      PROVE  Position(x) \in 1..Len(Profile) /\ Profile[Position(x)] = x
    BY ProfileAssumption DEF Position
<1>6. Position(a) < Position(p)
  <2>1. Position(a) # Position(p)
      BY <1>1, <1>2, <1>3, <1>4, <1>5
  <2>2. ASSUME Position(p) < Position(a) PROVE FALSE
    <3>1. \A m, n \in 1..Len(Profile) :
             m < n => changePriority(Profile[m]) <= changePriority(Profile[n])
        BY ProfileAssumption
    <3>2. changePriority(p) <= changePriority(a)
        BY <1>2, <1>5, <2>2, <3>1
    <3> QED
        BY <1>1, <1>2, <1>3, <1>4, <3>2
  <2> QED
      BY <1>2, <1>5, <2>1, <2>2, ProfileAssumption
<1>7. a \notin S
  <2>1. a \in S => Position(p) <= Position(a)
      BY DEF First
  <2> QED
      BY <1>2, <1>5, <1>6, <2>1, ProfileAssumption
<1> QED
    BY <1>1, <1>2, <1>7

\* Kinds are read whole.
LEMMA TogetherFacts ==
    ASSUME NEW p \in Objects, NEW q \in Objects
    PROVE  /\ p \in ReadTogether(p) /\ ReadTogether(p) \subseteq Objects
           /\ q \in ReadTogether(p) => ReadTogether(q) = ReadTogether(p)
BY DEF ReadTogether

\* A reading starts with nothing found.
LEMMA NothingFound ==
    ASSUME TypeOK, NEW s \in Sessions, NEW p, StartReading(s, p)
    PROVE  FoundInv(s)' /\ \A A \in SUBSET Objects : FoundAmong(s, A)'
<1>1. unread'[s] = Objects /\ seen'[s] = Unread /\ known'[s] = {}
    BY DEF StartReading, TypeOK
<1>2. \A o \in Objects : Unread[o] = "skipped" /\ Accounts[o] \subseteq Objects
    BY ProfileAssumption DEF Unread
<1>3. ASSUME NEW A \in SUBSET Objects PROVE FoundAmong(s, A)'
    BY <1>1, <1>2, TogetherFacts DEF FoundAmong
<1> QED
    BY <1>1, <1>2, <1>3 DEF FoundInv

\* The check of an object that needs others passes with them only.
LEMMA VerdictAccounts ==
    ASSUME TypeOK, NEW K, NEW o \in Objects
    PROVE  /\ Verdict(host, K, o) = "pass" /\ LooksUp(o) => Accounts[o] \subseteq K
           /\ host[o] = "new" /\ (LooksUp(o) => Accounts[o] \subseteq K)
                 => Verdict(host, K, o) = "pass"
<1>1. Kind[o] \in Kinds /\ host[o] \in Values
    BY ProfileAssumption DEF TypeOK
<1> QED
    BY <1>1 DEF Verdict, LooksUp, Kinds, Values

\* A step of a reading: all objects of a kind, or nothing of them.
Reads(s, p, T) ==
    /\ unread'[s] = unread[s] \ T /\ host' = host
    /\ T \subseteq unread[s] /\ T \subseteq Objects
    /\ \A x \in unread[s] \ T : ReadTogether(x) \subseteq unread[s] \ T
    /\ \A o \in T :
          o \in Objects /\ \A a \in Accounts[o] : a \in Objects /\ Account(a) /\ a \notin unread[s]
    /\ \/ seen'[s] = seen[s] /\ known'[s] = known[s]
       \/ /\ \A o \in T : seen'[s][o] = Verdict(host, known[s], o)
          /\ \A o \in Objects \ T : seen'[s][o] = seen[s][o]
          /\ known'[s] = known[s] \cup AccountsRead(host, T)

\* Read is such a step.
LEMMA ReadStep ==
    ASSUME TypeOK, NEW s \in Sessions, Read(s),
           \A p \in unread[s] : ReadTogether(p) \subseteq unread[s]
    PROVE  \E p \in Objects, T \in SUBSET Objects : Reads(s, p, T)
<1>1. PICK p \in Objects :
          /\ First(unread[s], p)
          /\ unread' = [unread EXCEPT ![s] = @ \ ReadTogether(p)]
          /\ \/ /\ seen' = [seen EXCEPT ![s] = [o \in Objects |->
                              IF o \in ReadTogether(p) THEN Verdict(host, known[s], o)
                              ELSE seen[s][o]]]
                /\ known' = [known EXCEPT ![s] = @ \cup AccountsRead(host, ReadTogether(p))]
             \/ UNCHANGED <<seen, known>>
    BY DEF Read
<1> DEFINE T == ReadTogether(p)
<1> HIDE DEF T
<1>2. unread'[s] = unread[s] \ T /\ host' = host
    BY <1>1 DEF Read, TypeOK, T
<1>3. T \subseteq unread[s] /\ T \subseteq Objects
    BY <1>1, TogetherFacts DEF FoundInv, First, T
<1>4. \A x \in unread[s] \ T : ReadTogether(x) \subseteq unread[s] \ T
  <2>1. ASSUME NEW x \in unread[s] \ T
        PROVE  ReadTogether(x) \subseteq unread[s] \ T
    <3>1. x \in Objects /\ ReadTogether(x) \subseteq unread[s]
        BY <2>1 DEF TypeOK
    <3>2. ASSUME NEW y \in ReadTogether(x), y \in T PROVE FALSE
      <4>1. y \in Objects
          BY <3>1, <3>2, TogetherFacts
      <4>2. ReadTogether(y) = ReadTogether(x) /\ ReadTogether(y) = T
          BY <1>1, <3>1, <3>2, <4>1, TogetherFacts DEF T
      <4> QED
          BY <2>1, <3>1, <4>2, TogetherFacts
    <3> QED
        BY <3>1, <3>2
  <2> QED
      BY <2>1
<1>5. ASSUME NEW o \in T
      PROVE  /\ o \in Objects
             /\ \A a \in Accounts[o] : a \in Objects /\ Account(a) /\ a \notin unread[s]
  <2>1. ASSUME NEW a \in Accounts[o] PROVE a \in Objects /\ Account(a) /\ a \notin unread[s]
      BY <1>1, AccountsFirst DEF T
  <2> QED
      BY <1>3, <2>1
<1>6. \/ seen'[s] = seen[s] /\ known'[s] = known[s]
      \/ /\ \A o \in T : seen'[s][o] = Verdict(host, known[s], o)
         /\ \A o \in Objects \ T : seen'[s][o] = seen[s][o]
         /\ known'[s] = known[s] \cup AccountsRead(host, T)
  <2>1. CASE UNCHANGED <<seen, known>>
      BY <2>1
  <2>2. CASE /\ seen' = [seen EXCEPT ![s] = [o \in Objects |->
                              IF o \in T THEN Verdict(host, known[s], o) ELSE seen[s][o]]]
             /\ known' = [known EXCEPT ![s] = @ \cup AccountsRead(host, T)]
      BY <1>3, <2>2 DEF TypeOK
  <2> QED
      BY <1>1, <2>1, <2>2 DEF T
<1> QED
    BY <1>1, <1>2, <1>3, <1>4, <1>5, <1>6 DEF Reads

\* It adds to what was found among any objects.
LEMMA FindsMoreAmong ==
    ASSUME TypeOK, NEW s \in Sessions, NEW A \in SUBSET Objects, FoundAmong(s, A), Read(s)
    PROVE  FoundAmong(s, A)'
<1>1. PICK p \in Objects, T \in SUBSET Objects : Reads(s, p, T)
    BY ReadStep DEF FoundAmong
<1>2. /\ unread'[s] = unread[s] \ T /\ host' = host /\ T \subseteq unread[s]
      /\ \A x \in unread[s] \ T : ReadTogether(x) \subseteq unread[s] \ T
      /\ \A o \in T : \A a \in Accounts[o] : a \in Objects /\ Account(a) /\ a \notin unread[s]
    BY <1>1 DEF Reads
<1>3. CASE seen'[s] = seen[s] /\ known'[s] = known[s]
  <2>1. \A o \in A : LooksUp(o) =>
          \A a \in Accounts[o] \ unread'[s] :
              host'[a] # "absent" => a \in known'[s] \/ seen'[s][a] = "skipped"
      BY <1>2, <1>3 DEF FoundAmong
  <2>2. \A o \in A \ unread'[s] :
          Standing(o) => \/ seen'[s][o] \in {"pass", "skipped"}
                         \/ \E a \in Objects \ unread'[s] : seen'[s][a] = "skipped"
      BY <1>2, <1>3 DEF FoundAmong
  <2>3. \A x \in unread'[s] : ReadTogether(x) \subseteq unread'[s] /\ seen'[s][x] = "skipped"
      BY <1>2, <1>3 DEF FoundAmong
  <2> QED
      BY <1>2, <2>1, <2>2, <2>3 DEF FoundAmong, Standing
<1>4. CASE /\ \A o \in T : seen'[s][o] = Verdict(host, known[s], o)
           /\ \A o \in Objects \ T : seen'[s][o] = seen[s][o]
           /\ known'[s] = known[s] \cup AccountsRead(host, T)
  <2>1. ASSUME NEW o \in A, LooksUp(o), NEW a \in Accounts[o],
               a \notin unread'[s], host[a] # "absent"
        PROVE  a \in known'[s] \/ seen'[s][a] = "skipped"
    <3>1. a \in Objects /\ Account(a)
        BY ProfileAssumption DEF Account
    <3>2. CASE a \in T
        BY <1>4, <2>1, <3>1, <3>2 DEF AccountsRead, Account
    <3>3. CASE a \notin T
        BY <1>2, <1>4, <2>1, <3>1, <3>3 DEF FoundAmong
    <3> QED
        BY <3>2, <3>3
  <2>2. ASSUME NEW o \in A \ unread'[s], Standing(o)
        PROVE  \/ seen'[s][o] \in {"pass", "skipped"}
               \/ \E a \in Objects \ unread'[s] : seen'[s][a] = "skipped"
    <3>1. CASE o \notin T
      <4>1. o \in A \ unread[s]
          BY <1>2, <2>2, <3>1
      <4>2. \A a \in Objects \ unread[s] : a \notin T /\ a \in Objects \ unread'[s]
          BY <1>2
      <4> QED
          BY <1>4, <2>2, <4>1, <4>2 DEF FoundAmong
    <3>2. CASE o \in T /\ (LooksUp(o) => Accounts[o] \subseteq known[s])
      <4>1. host[o] = "new" /\ o \in Objects
          BY <2>2, <3>2 DEF Standing
      <4> QED
          BY <1>4, <3>2, <4>1, VerdictAccounts
    <3>3. CASE o \in T /\ LooksUp(o) /\ ~(Accounts[o] \subseteq known[s])
      <4>1. PICK a \in Accounts[o] : a \notin known[s]
          BY <3>3
      <4>2. a \in Objects /\ Account(a) /\ a \notin unread[s]
          BY <1>2, <3>3
      <4>3. host[a] # "absent"
          BY <2>2, <3>3 DEF Standing
      <4>4. seen[s][a] = "skipped" /\ a \notin T /\ a \notin unread'[s]
          BY <1>2, <3>3, <4>1, <4>2, <4>3 DEF FoundAmong
      <4> QED
          BY <1>4, <4>2, <4>4
    <3> QED
        BY <3>1, <3>2, <3>3
  <2>3. \A x \in unread'[s] : ReadTogether(x) \subseteq unread'[s] /\ seen'[s][x] = "skipped"
      BY <1>2, <1>4 DEF FoundAmong, TypeOK
  <2> QED
      BY <1>2, <2>1, <2>2, <2>3 DEF FoundAmong, Standing
<1> QED
    BY <1>1, <1>3, <1>4 DEF Reads

\* A step of a reading adds to what it has found.
LEMMA FindsMore ==
    ASSUME TypeOK, NEW s \in Sessions, FoundInv(s), Read(s)
    PROVE  FoundInv(s)'
<1>1. FoundAmong(s, Objects)'
    BY FindsMoreAmong DEF FoundInv
<1>2. PICK p \in Objects, T \in SUBSET Objects : Reads(s, p, T)
    BY ReadStep DEF FoundInv, FoundAmong
<1>3. \A a \in known'[s] : host'[a] # "absent"
    BY <1>2 DEF Reads, FoundInv, AccountsRead
<1>4. ASSUME NEW o \in Objects, seen'[s][o] = "pass", LooksUp(o)
      PROVE  Accounts[o] \subseteq known'[s]
  <2>1. known[s] \subseteq known'[s]
      BY <1>2 DEF Reads
  <2>2. seen[s][o] = "pass" \/ Verdict(host, known[s], o) = "pass"
      BY <1>2, <1>4 DEF Reads
  <2>3. Accounts[o] \subseteq known[s]
      BY <1>4, <2>2, VerdictAccounts DEF FoundInv
  <2> QED
      BY <2>1, <2>3
<1> QED
    BY <1>1, <1>3, <1>4 DEF FoundInv

\* A complete reading finds what stands in order, and no plan changes it.
LEMMA StandingIsLeft ==
    ASSUME TypeOK, NEW s \in Sessions, NEW A \in SUBSET Objects, FoundAmong(s, A),
           ReadAll(s), Complete(seen[s]), NEW o \in A, Standing(o)
    PROVE  o \notin CurrentPlan(s).changes
<1>1. seen[s][o] = "pass"
    BY DEF FoundAmong, ReadAll, Complete
<1>2. host[o] = "new"
    BY DEF Standing
<1>3. CurrentPlan(s).changes = Changes(mode[s], seen[s], CachedUpgrades(host))
    BY DEF CurrentPlan, BuildSetupPlan
<1> QED
    BY <1>1, <1>2, <1>3 DEF Changes, CachedUpgrades, needsChange

-----------------------------------------------------------------------------
(* A digest that was applied. *)

\* What a session has made stands while nobody else writes.
OnceInv(s) ==
    /\ wins[s] > 0 => runs[s] < MaxRuns[s]
    /\ outcome[s] = "applied" => wins[s] > 0
    /\ wins[s] > 0 => pc[s] \notin {"idle", "plan", "shown", "check"}
    /\ wins[s] > 0 \/ pc[s] \in {"apply", "verify"} => approved[s].changes # {}
    /\ ~touched[s] =>
          /\ wins[s] <= 1
          /\ wins[s] = 1 => /\ pc[s] \in {"execute", "done"}
                            /\ \A o \in approved[s].changes : o \in Objects /\ Standing(o)
          /\ pc[s] \in {"apply", "verify"} =>
                \A o \in approved[s].changes \ todo[s] : o \in Objects /\ host[o] = "new"
          /\ pc[s] \in {"execute", "verify"} => FoundInv(s)

\* What else a step of one session leaves of another one.
FrameWide(q) ==
    /\ Frame(q)
    /\ unread'[q] = unread[q] /\ known'[q] = known[q] /\ wins'[q] = wins[q]
    /\ base'[q] = base[q] /\ undo'[q] = undo[q]

\* What was found stays found while nothing moves.
LEMMA FoundSame ==
    ASSUME NEW q, FoundInv(q), host' = host, unread'[q] = unread[q], known'[q] = known[q],
           seen'[q] = seen[q]
    PROVE  FoundInv(q)'
BY DEF FoundInv, FoundAmong, Standing

\* A step of one session leaves the others also what FrameWide says.
LEMMA SessionFramesWide ==
    ASSUME TypeOK, NEW s \in Sessions, Session(s), NEW q \in Sessions \ {s}
    PROVE  FrameWide(q)
<1>1. Frame(q)
    BY SessionFrames
<1> USE DEF TypeOK, FrameWide, Goto, Return, StartReading, Forget, StartRollback, DropLast, reading,
            history
<1>2. CASE Plan(s)
    BY <1>1, <1>2 DEF Plan
<1>3. CASE Read(s)
    BY <1>1, <1>3 DEF Read
<1>4. CASE ReadingFails(s)
    BY <1>1, <1>4 DEF ReadingFails
<1>5. CASE Show(s)
    BY <1>1, <1>5 DEF Show
<1>6. CASE Execute(s)
    BY <1>1, <1>6 DEF Execute
<1>7. CASE Report(s)
    BY <1>1, <1>7 DEF Report
<1>8. CASE Decide(s)
    BY <1>1, <1>8 DEF Decide
<1>9. CASE Apply(s)
    BY <1>1, <1>9 DEF Apply
<1>10. CASE ApplyFails(s)
    BY <1>1, <1>10 DEF ApplyFails
<1>11. CASE ChangesMade(s)
    BY <1>1, <1>11 DEF ChangesMade
<1>12. CASE Commit(s)
    BY <1>1, <1>12 DEF Commit
<1>13. CASE VerifyFails(s)
    BY <1>1, <1>13 DEF VerifyFails
<1>14. CASE Undo(s)
    BY <1>1, <1>14 DEF Undo
<1>15. CASE UndoFails(s)
    BY <1>1, <1>15 DEF UndoFails
<1>16. CASE RolledBack(s)
    BY <1>1, <1>16 DEF RolledBack
<1> QED
    BY <1>2, <1>3, <1>4, <1>5, <1>6, <1>7, <1>8, <1>9,
       <1>10, <1>11, <1>12, <1>13, <1>14, <1>15, <1>16 DEF Session

\* So does a change by somebody else.
LEMMA DriftFramesWide ==
    ASSUME TypeOK, Drift, mode' = mode, NEW q \in Sessions
    PROVE  FrameWide(q)
BY DriftFacts DEF FrameWide, Drift, reading, history

\* A step that frames a session keeps what stands of its own.
LEMMA OnceFrames ==
    ASSUME TypeOK, NEW q \in Sessions, LifeInv(q), OnceInv(q), FrameWide(q)
    PROVE  OnceInv(q)'
<1> USE DEF FrameWide, Frame
<1>1. wins'[q] = wins[q] /\ runs'[q] = runs[q] /\ outcome'[q] = outcome[q]
    OBVIOUS
<1>2. ASSUME ~touched'[q], runs[q] < MaxRuns[q]
      PROVE  ~touched[q] /\ host' = host
    BY <1>2
<1>3. ASSUME ~touched'[q], wins[q] = 1
      PROVE  /\ pc'[q] \in {"execute", "done"}
             /\ \A o \in approved'[q].changes : o \in Objects /\ Standing(o)'
    BY <1>2, <1>3 DEF OnceInv, Standing
<1>4. ASSUME ~touched'[q], pc'[q] \in {"apply", "verify"}
      PROVE  \A o \in approved'[q].changes \ todo'[q] : o \in Objects /\ host'[o] = "new"
    BY <1>2, <1>4 DEF OnceInv, LifeInv, Executing
<1>5. ASSUME ~touched'[q], pc'[q] \in {"execute", "verify"}
      PROVE  FoundInv(q)'
  <2>1. ~touched[q] /\ host' = host /\ FoundInv(q)
      BY <1>2, <1>5 DEF OnceInv, LifeInv, Executing
  <2> QED
      BY <2>1, FoundSame
<1> QED
    BY <1>1, <1>3, <1>4, <1>5 DEF OnceInv

\* A step of a session keeps what stands of its own.
LEMMA OnceKeeps ==
    ASSUME TypeOK, NEW s \in Sessions, SInv(s), OnceInv(s), Session(s), mode' = mode
    PROVE  OnceInv(s)'
<1> USE DEF Goto, Return, Forget, reading, history
<1>0. wins[s] \in Nat /\ LifeInv(s)
    BY DEF TypeOK, SInv
<1>1. CASE Plan(s)
  <2>1. /\ pc[s] = "idle" /\ pc'[s] = "plan"
        /\ UNCHANGED <<wins, runs, outcome, touched, approved, todo, host>>
      BY <1>1 DEF Plan, StartReading, TypeOK
  <2> QED
      BY <1>0, <2>1 DEF OnceInv
<1>2. CASE Read(s)
  <2>1. UNCHANGED <<wins, runs, outcome, touched, approved, todo, host, pc>>
      BY <1>2 DEF Read
  <2>2. FoundInv(s) => FoundInv(s)'
      BY <1>2, FindsMore
  <2> QED
      BY <2>1, <2>2 DEF OnceInv, Standing
<1>3. CASE ReadingFails(s)
  <2>1. /\ pc[s] \in {"plan", "execute", "check"} /\ pc'[s] = "done"
        /\ outcome'[s] \in {"error", "critical"}
        /\ UNCHANGED <<wins, runs, touched, approved, todo, host>>
      BY <1>3 DEF ReadingFails, TypeOK
  <2> QED
      BY <1>0, <2>1 DEF OnceInv, Standing
<1>4. CASE Show(s)
  <2>1. /\ pc[s] = "plan" /\ pc'[s] \in {"shown", "done"} /\ outcome'[s] \in {outcome[s], "error"}
        /\ UNCHANGED <<wins, runs, touched, todo, host>>
      BY <1>4 DEF Show, TypeOK
  <2> QED
      BY <1>0, <2>1 DEF OnceInv
<1>5. CASE Execute(s)
  <2>1. /\ pc[s] \in {"idle", "shown", "done"} /\ outcome'[s] = "none" /\ runs'[s] = runs[s] - 1
        /\ UNCHANGED <<wins, touched, approved, todo, host>>
      BY <1>5 DEF Execute, TypeOK
  <2>2. /\ pc'[s] \in {"execute", "check"} /\ (pc'[s] = "check" => pc[s] = "idle")
        /\ FoundInv(s)'
    <3>1. CASE StartReading(s, "check") /\ pc[s] = "idle"
        BY <3>1, NothingFound DEF StartReading, TypeOK
    <3>2. CASE StartReading(s, "execute")
        BY <3>2, NothingFound DEF StartReading, TypeOK
    <3> QED
        BY <1>5, <3>1, <3>2 DEF Execute
  <2>3. runs'[s] < MaxRuns[s]
    <3>1. runs[s] \in Nat /\ MaxRuns[s] \in Nat /\ runs[s] <= MaxRuns[s]
        BY <1>0, SessionAssumption DEF TypeOK, LifeInv
    <3> QED
        BY <2>1, <3>1
  <2> QED
      BY <1>0, <2>1, <2>2, <2>3 DEF OnceInv, Standing
<1>6. CASE Report(s)
  <2>1. /\ pc[s] = "check" /\ pc'[s] = "done" /\ outcome'[s] # "applied"
        /\ UNCHANGED <<wins, runs, touched, approved, todo, host>>
      BY <1>6, ClassifyTypes DEF Report, TypeOK
  <2> QED
      BY <1>0, <2>1 DEF OnceInv
<1>7. CASE Decide(s)
  <2>1. /\ pc[s] = "execute" /\ ReadAll(s) /\ UNCHANGED <<wins, runs, touched, approved, host>>
      BY <1>7 DEF Decide
  <2>2. CASE pc'[s] = "done" /\ outcome'[s] \in {"error", "rejected", "nothing"}
      BY <1>0, <2>1, <2>2 DEF OnceInv, Standing
  <2>3. CASE /\ pc'[s] = "apply" /\ todo'[s] = CurrentPlan(s).changes /\ UNCHANGED outcome
             /\ Complete(seen[s]) /\ CurrentPlan(s) = approved[s] /\ CurrentPlan(s).changes # {}
    <3>1. ~touched[s] => wins[s] = 0
        BY <1>0, <2>1, <2>3, StandingIsLeft DEF OnceInv, FoundInv
    <3> QED
        BY <1>0, <2>1, <2>3, <3>1 DEF OnceInv
  <2> QED
      BY <1>7, <2>2, <2>3 DEF Decide, TypeOK, SameDigest
<1>8. CASE Apply(s)
  <2>1. PICK o \in Objects : /\ o \in todo[s]
                             /\ Write(s, [host EXCEPT ![o] = "new"])
                             /\ todo' = [todo EXCEPT ![s] = @ \ {o}]
      BY <1>8 DEF Apply, First
  <2>2. /\ pc[s] = "apply" /\ touched'[s] = touched[s] /\ todo'[s] = todo[s] \ {o}
        /\ host' = [host EXCEPT ![o] = "new"]
        /\ UNCHANGED <<wins, runs, outcome, approved, pc>>
    <3>1. touched'[s] = touched[s]
        BY <2>1, WriteFacts, EffectTypes
    <3>2. todo'[s] = todo[s] \ {o}
        BY <2>1 DEF TypeOK
    <3>3. host' = [host EXCEPT ![o] = "new"]
        BY <2>1 DEF Write
    <3> QED
        BY <1>8, <3>1, <3>2, <3>3 DEF Apply
  <2>3. ~touched[s] => \A x \in approved[s].changes \ todo'[s] : x \in Objects /\ host'[x] = "new"
    <3>1. \A x \in Objects : x # o => host'[x] = host[x]
        BY <2>2 DEF TypeOK
    <3>2. host'[o] = "new"
        BY <2>2 DEF TypeOK
    <3> QED
        BY <2>2, <3>1, <3>2 DEF OnceInv
  <2> QED
      BY <1>0, <2>2, <2>3 DEF OnceInv
<1>9. CASE ApplyFails(s)
  <2>1. /\ pc[s] = "apply" /\ pc'[s] = "undo" /\ UNCHANGED <<outcome, approved, runs, wins>>
      BY <1>9 DEF ApplyFails, StartRollback, TypeOK
  <2>2. touched'[s] = touched[s]
    <3>1. CASE UNCHANGED touched
        BY <3>1
    <3>2. CASE \E o \in Objects : Write(s, [host EXCEPT ![o] = "new"])
        BY <3>2, WriteFacts, EffectTypes
    <3> QED
        BY <1>9, <3>1, <3>2 DEF ApplyFails
  <2> QED
      BY <1>0, <2>1, <2>2 DEF OnceInv
<1>10. CASE ChangesMade(s)
  <2>1. /\ pc[s] = "apply" /\ pc'[s] = "verify"
        /\ UNCHANGED <<wins, runs, outcome, touched, approved, todo, host>>
      BY <1>10 DEF ChangesMade, StartReading, TypeOK
  <2>2. FoundInv(s)'
      BY <1>10, NothingFound DEF ChangesMade
  <2> QED
      BY <1>0, <2>1, <2>2 DEF OnceInv
<1>11. CASE Commit(s)
  <2>1. /\ pc[s] = "verify" /\ pc'[s] = "done" /\ wins'[s] = wins[s] + 1 /\ todo[s] = {}
        /\ UNCHANGED <<runs, touched, approved, todo, host>>
        /\ \A o \in approved[s].changes : seen[s][o] = "pass"
      BY <1>0, <1>11 DEF Commit, TypeOK, LifeInv
  <2>2. runs[s] < MaxRuns[s]
      BY <1>0, <2>1 DEF LifeInv, Executing
  <2>3. ASSUME ~touched[s], NEW o \in approved[s].changes
        PROVE  o \in Objects /\ Standing(o)
    <3>1. o \in Objects /\ host[o] = "new"
        BY <2>1, <2>3 DEF OnceInv
    <3>2. LooksUp(o) => \A a \in Accounts[o] : host[a] # "absent"
        BY <2>1, <2>3, <3>1 DEF OnceInv, FoundInv
    <3> QED
        BY <3>1, <3>2 DEF Standing
  <2>4. ~touched[s] => wins[s] = 0 /\ approved[s].changes # {}
      BY <1>0, <2>1 DEF OnceInv
  <2> QED
      BY <1>0, <2>1, <2>2, <2>3, <2>4 DEF OnceInv, Standing
<1>12. CASE VerifyFails(s)
  <2>1. /\ pc[s] = "verify" /\ pc'[s] = "undo"
        /\ UNCHANGED <<outcome, approved, runs, wins, touched>>
      BY <1>12 DEF VerifyFails, StartRollback, TypeOK
  <2> QED
      BY <1>0, <2>1 DEF OnceInv
<1>13. CASE Undo(s)
  <2>1. pc[s] = "undo" /\ UNCHANGED <<pc, outcome, approved, runs, wins>>
      BY <1>13 DEF Undo
  <2>2. touched'[s] = touched[s]
      BY <1>13, WriteFacts, UndoTypes DEF Undo
  <2> QED
      BY <1>0, <2>1, <2>2 DEF OnceInv
<1>14. CASE UndoFails(s)
  <2>1. pc[s] = "undo" /\ UNCHANGED <<pc, outcome, approved, runs, wins, touched>>
      BY <1>14 DEF UndoFails
  <2> QED
      BY <1>0, <2>1 DEF OnceInv
<1>15. CASE RolledBack(s)
  <2>1. /\ pc[s] = "undo" /\ pc'[s] = "done" /\ outcome'[s] = exit[s]
        /\ UNCHANGED <<approved, runs, wins, touched>>
      BY <1>15 DEF RolledBack, TypeOK
  <2>2. outcome'[s] # "applied"
      BY <1>0, <2>1 DEF LifeInv
  <2> QED
      BY <1>0, <2>1, <2>2 DEF OnceInv
<1> QED
    BY <1>1, <1>2, <1>3, <1>4, <1>5, <1>6, <1>7, <1>8, <1>9, <1>10, <1>11, <1>12,
       <1>13, <1>14, <1>15 DEF Session

Standings == \A s \in Sessions : OnceInv(s)

\* What was applied stands, and is not applied again.
LEMMA StandingAlways == Spec => [](IInv /\ Standings)
<1>1. Init => IInv /\ Standings
    BY InitInv DEF Init, OnceInv, Standings
<1>2. IInv /\ Standings /\ [Next]_vars => IInv' /\ Standings'
  <2> SUFFICES ASSUME IInv, Standings, [Next]_vars, NEW q \in Sessions
               PROVE  OnceInv(q)'
      BY StepInv DEF Standings
  <2>0. TypeOK /\ SInv(q) /\ OnceInv(q) /\ LifeInv(q)
      BY DEF IInv, SInv, Standings
  <2>1. CASE Session(q) /\ mode' = mode
      BY <2>0, <2>1, OnceKeeps
  <2>2. CASE mode' = mode /\ \E s \in Sessions \ {q} : Session(s)
      BY <2>0, <2>2, SessionFramesWide, OnceFrames
  <2>3. CASE Drift /\ mode' = mode
      BY <2>0, <2>3, DriftFramesWide, OnceFrames
  <2>4. CASE UNCHANGED vars
    <3>1. FrameWide(q)
        BY <2>4 DEF FrameWide, Frame, vars, reading, history
    <3> QED
        BY <2>0, <3>1, OnceFrames
  <2> QED
      BY <2>1, <2>2, <2>3, <2>4 DEF Next
<1> QED
    BY <1>1, <1>2, PTL DEF Spec

\* However often a digest is executed, and whatever other sessions do, it is
\* applied a second time only if somebody else changed the host since the first
\* execution (executeMutation makes its plan from a reading of its own).
THEOREM AppliedOnlyOnce == Spec => []AppliedOnce
<1>1. IInv /\ Standings => AppliedOnce
    BY DEF Standings, OnceInv, AppliedOnce, IInv, TypeOK
<1> QED
    BY <1>1, StandingAlways, PTL

-----------------------------------------------------------------------------
(* A session that finds the result of another one. *)

\* What s was approved to change stands, and q leaves it alone.
Leaves(q, s) ==
    /\ \A o \in approved[s].changes : /\ o \in Objects /\ Standing(o)
                                     /\ o \notin todo[q] /\ o \notin made[q]
    /\ \A n \in 1..Len(undo[q]) : \A o \in approved[s].changes :
          /\ undo[q][n][1] # o
          /\ LooksUp(o) /\ undo[q][n][1] \in Accounts[o] => undo[q][n][2] # "absent"

\* While nobody but q changes the host, since q began to execute and the result
\* of s stood, q leaves what s was approved to change alone, and s finds it in
\* order.
LaterInv(q, s) ==
    s \in base[q] =>
        /\ wins[s] > 0
        /\ ~touched[q] =>
              /\ pc[s] \in {"execute", "done"}
              /\ pc[s] = "execute" => FoundAmong(s, approved[s].changes)
              /\ Leaves(q, s)

\* The undos of a session are those of its transaction.
LogInv(s) ==
    /\ pc[s] \notin {"apply", "verify", "undo"} => undo[s] = <<>>
    /\ base[s] # {} => runs[s] < MaxRuns[s]

\* Nor does it matter what happens to other objects.
LEMMA AmongSame ==
    ASSUME NEW s, NEW A \in SUBSET Objects, FoundAmong(s, A), unread'[s] = unread[s],
           known'[s] = known[s], seen'[s] = seen[s],
           \A o \in A : Standing(o) /\ Standing(o)'
    PROVE  FoundAmong(s, A)'
BY DEF FoundAmong, Standing

\* Every step of a session keeps its undos those of its transaction.
LEMMA LogKeeps ==
    ASSUME TypeOK, NEW s \in Sessions, LifeInv(s), LogInv(s), Session(s), mode' = mode
    PROVE  LogInv(s)'
<1> USE DEF TypeOK, Goto, Return, Forget, StartReading, StartRollback, reading, history
<1>1. CASE Execute(s)
  <2>1. pc[s] \in {"idle", "shown", "done"} /\ undo' = undo
      BY <1>1 DEF Execute
  <2>2. runs[s] \in Nat /\ MaxRuns[s] \in Nat /\ runs[s] <= MaxRuns[s] /\ runs'[s] = runs[s] - 1
      BY <1>1, SessionAssumption DEF Execute, LifeInv
  <2>3. runs'[s] < MaxRuns[s]
      BY <2>2
  <2> QED
      BY <2>1, <2>3 DEF LogInv
<1>2. CASE Apply(s) \/ ApplyFails(s) \/ ChangesMade(s) \/ VerifyFails(s) \/ Undo(s) \/ UndoFails(s)
  <2>1. UNCHANGED <<base, runs>> /\ pc'[s] \in {"apply", "verify", "undo"}
      BY <1>2 DEF Apply, ApplyFails, ChangesMade, VerifyFails, Undo, UndoFails
  <2> QED
      BY <2>1 DEF LogInv
<1>3. CASE Commit(s)
    BY <1>3 DEF Commit, LogInv
<1>4. CASE RolledBack(s)
    BY <1>4 DEF RolledBack, LogInv
<1>5. CASE Plan(s) \/ Read(s) \/ ReadingFails(s) \/ Show(s) \/ Report(s) \/ Decide(s)
  <2>1. UNCHANGED <<base, runs, undo>>
      BY <1>5 DEF Plan, Read, ReadingFails, Show, Report, Decide
  <2>2. undo[s] = <<>> \/ pc'[s] = pc[s]
      BY <1>5 DEF Plan, Read, ReadingFails, Show, Report, Decide, LogInv, Readings
  <2> QED
      BY <2>1, <2>2 DEF LogInv
<1> QED
    BY <1>1, <1>2, <1>3, <1>4, <1>5 DEF Session

Logs == \A s \in Sessions : LogInv(s)

\* What the proofs below rely on.
LEMMA LogAlways == Spec => [](IInv /\ Standings /\ Logs)
<1>1. Init => Logs
    BY DEF Init, Logs, LogInv
<1>2. IInv /\ Logs /\ [Next]_vars => Logs'
  <2> SUFFICES ASSUME IInv, Logs, [Next]_vars, NEW q \in Sessions
               PROVE  LogInv(q)'
      BY DEF Logs
  <2>0. TypeOK /\ LifeInv(q) /\ LogInv(q)
      BY DEF IInv, SInv, Logs
  <2>1. CASE Session(q) /\ mode' = mode
      BY <2>0, <2>1, LogKeeps
  <2>2. CASE FrameWide(q)
      BY <2>0, <2>2 DEF LogInv, FrameWide, Frame
  <2>3. CASE mode' = mode /\ \E s \in Sessions \ {q} : Session(s)
      BY <2>0, <2>2, <2>3, SessionFramesWide
  <2>4. CASE Drift /\ mode' = mode
      BY <2>0, <2>2, <2>4, DriftFramesWide
  <2>5. CASE UNCHANGED vars
      BY <2>2, <2>5 DEF FrameWide, Frame, vars, reading, history
  <2> QED
      BY <2>1, <2>3, <2>4, <2>5 DEF Next
<1> QED
    BY <1>1, <1>2, StandingAlways, PTL DEF Spec

\* A step of neither session.
LEMMA LaterFrames ==
    ASSUME IInv, Logs, NEW q \in Sessions, NEW s \in Sessions, LaterInv(q, s), FrameWide(q), FrameWide(s)
    PROVE  LaterInv(q, s)'
<1> SUFFICES ASSUME s \in base[q], ~touched'[q]
             PROVE  LaterInv(q, s)'
    BY DEF LaterInv, Leaves, FrameWide, Frame
<1>1. runs[q] < MaxRuns[q]
    BY DEF Logs, LogInv
<1>2. host' = host /\ ~touched[q]
    BY <1>1 DEF FrameWide, Frame
<1>3. \A o \in Objects : Standing(o) => Standing(o)'
    BY <1>2 DEF Standing
<1>4. pc[s] = "execute" => FoundAmong(s, approved[s].changes)'
    BY <1>2, <1>3, AmongSame DEF LaterInv, Leaves, FrameWide, Frame
<1> QED
    BY <1>2, <1>3, <1>4 DEF LaterInv, Leaves, FrameWide, Frame

\* A step of the first session: it may execute its digest again, and finds
\* nothing to do.
LEMMA LaterKeepsByFirst ==
    ASSUME IInv, Standings, Logs, NEW q \in Sessions, NEW s \in Sessions \ {q}, LaterInv(q, s),
           Session(s), mode' = mode
    PROVE  LaterInv(q, s)'
<1>0. FrameWide(q) /\ TypeOK /\ wins[s] \in Nat
    BY SessionFramesWide DEF IInv, TypeOK
<1> USE DEF Goto, Return, Forget, reading, history
<1>1. wins'[s] = wins[s] \/ wins'[s] = wins[s] + 1
  <2>1. CASE Commit(s)
      BY <1>0, <2>1 DEF Commit, TypeOK
  <2>2. CASE ~Commit(s)
      BY <2>2 DEF Session, Plan, Read, ReadingFails, Show, Execute, Report, Decide, Apply,
         ApplyFails, ChangesMade, VerifyFails, Undo, UndoFails, RolledBack
  <2> QED
      BY <2>1, <2>2
<1>2. s \in base[q] => wins'[s] > 0
    BY <1>0, <1>1 DEF LaterInv, Leaves
<1> SUFFICES ASSUME s \in base[q], ~touched'[q]
             PROVE  LaterInv(q, s)'
    BY <1>0, <1>2 DEF LaterInv, Leaves, FrameWide, Frame
<1> DEFINE A == approved[s].changes
<1>3. /\ host' = host /\ ~touched[q] /\ runs[q] < MaxRuns[q]
      /\ todo'[q] = todo[q] /\ made'[q] = made[q] /\ undo'[q] = undo[q] /\ base'[q] = base[q]
    BY <1>0 DEF FrameWide, Frame, Logs, LogInv
<1>4. /\ pc[s] \in {"execute", "done"} /\ (pc[s] = "execute" => FoundAmong(s, A))
      /\ A \in SUBSET Objects /\ A # {} /\ \A o \in A : Standing(o)
    BY <1>3 DEF LaterInv, Leaves, Standings, OnceInv
<1>5. /\ pc'[s] \in {"execute", "done"} /\ approved' = approved
      /\ pc'[s] = "execute" => FoundAmong(s, A)'
  <2>1. CASE Read(s)
    <3>1. pc' = pc /\ approved' = approved
        BY <2>1 DEF Read
    <3> QED
        BY <1>0, <1>4, <2>1, <3>1, FindsMoreAmong
  <2>2. CASE ReadingFails(s)
      BY <1>0, <2>2 DEF ReadingFails, TypeOK
  <2>3. CASE Execute(s)
    <3>1. approved' = approved /\ (pc[s] = "idle" \/ StartReading(s, "execute"))
        BY <2>3 DEF Execute
    <3> QED
        BY <1>0, <1>4, <3>1, NothingFound DEF StartReading, TypeOK
  <2>4. CASE Decide(s)
    <3>1. approved' = approved /\ pc[s] = "execute" /\ ReadAll(s)
        BY <2>4 DEF Decide
    <3>2. CASE pc'[s] = "done"
        BY <3>1, <3>2
    <3>3. CASE Complete(seen[s]) /\ CurrentPlan(s) = approved[s]
        BY <1>0, <1>4, <3>1, <3>3, StandingIsLeft
    <3> QED
        BY <1>0, <2>4, <3>2, <3>3 DEF Decide, SameDigest, TypeOK
  <2> QED
      BY <1>4, <2>1, <2>2, <2>3, <2>4 DEF Session, Plan, Show, Report, Apply, ApplyFails,
         ChangesMade, Commit, VerifyFails, Undo, UndoFails, RolledBack
<1>6. \A o \in Objects : Standing(o) => Standing(o)'
    BY <1>3 DEF Standing
<1> QED
    BY <1>2, <1>3, <1>5, <1>6 DEF LaterInv, Leaves

\* A session never forgets that its host was touched.
LEMMA TouchedStays ==
    ASSUME TypeOK, NEW q \in Sessions, Session(q)
    PROVE  touched[q] => touched'[q]
<1>1. CASE Apply(q)
    BY <1>1, WriteFacts, EffectTypes DEF Apply
<1>2. CASE ApplyFails(q)
    BY <1>2, WriteFacts, EffectTypes DEF ApplyFails
<1>3. CASE Undo(q)
    BY <1>3, WriteFacts, UndoTypes DEF Undo
<1>4. CASE ~Apply(q) /\ ~ApplyFails(q) /\ ~Undo(q)
    BY <1>4 DEF Session, Plan, Read, ReadingFails, Show, Execute, Report, Decide, ChangesMade,
       Commit, VerifyFails, UndoFails, RolledBack, history
<1> QED
    BY <1>1, <1>2, <1>3, <1>4

\* A change makes its object new, which leaves what stands.
LEMMA ChangeStands ==
    ASSUME TypeOK, NEW p \in Objects, host' = [host EXCEPT ![p] = "new"]
    PROVE  \A o \in Objects : Standing(o) => Standing(o)'
BY DEF TypeOK, Standing

\* The later session decides, changes and undoes.
LEMMA DecideLeaves ==
    ASSUME TypeOK, NEW q \in Sessions, NEW s \in Sessions, Leaves(q, s), Decide(q),
           FoundInv(q), LogInv(q)
    PROVE  Leaves(q, s)'
<1>1. UNCHANGED <<host, approved, made, undo>> /\ ReadAll(q)
  <2>1. ReadAll(q) /\ UNCHANGED <<host, approved, undo, exit, runs, drift, history>>
      BY DEF Decide
  <2> QED
      BY <2>1 DEF history
<1>2. \A o \in approved[s].changes : o \notin todo'[q]
  <2>1. CASE UNCHANGED todo
      BY <2>1 DEF Leaves
  <2>2. CASE Complete(seen[q]) /\ todo' = [todo EXCEPT ![q] = CurrentPlan(q).changes]
      BY <1>1, <2>2, StandingIsLeft DEF Leaves, FoundInv, TypeOK
  <2> QED
      BY <2>1, <2>2 DEF Decide
<1> QED
    BY <1>1, <1>2 DEF Leaves, Standing

\* A change is one of its plan, and a creation is not of an account that s needs.
LEMMA ApplyLeaves ==
    ASSUME TypeOK, NEW q \in Sessions, NEW s \in Sessions, Leaves(q, s), Apply(q)
    PROVE  Leaves(q, s)'
<1>1. PICK o \in Objects : /\ o \in todo[q] /\ Applicable(q, o)
                           /\ host' = [host EXCEPT ![o] = "new"]
                           /\ undo' = [undo EXCEPT ![q] = Append(@, <<o, Saved(q, o)>>)]
                           /\ todo' = [todo EXCEPT ![q] = @ \ {o}]
                           /\ made' = [made EXCEPT ![q] = @ \cup {o}]
    BY DEF Apply, First, Write
<1>2. approved' = approved /\ undo[q] \in Seq(Objects \X Values)
    BY DEF Apply, TypeOK
<1>3. undo'[q] = Append(undo[q], <<o, Saved(q, o)>>)
    BY <1>1 DEF TypeOK
<1>4. ASSUME NEW x \in approved[s].changes
      PROVE  o # x /\ (LooksUp(x) /\ o \in Accounts[x] => Saved(q, o) # "absent")
  <2>1. o # x /\ x \in Objects /\ Standing(x)
      BY <1>1, <1>4 DEF Leaves
  <2>2. ASSUME LooksUp(x), o \in Accounts[x] PROVE Saved(q, o) # "absent"
    <3>1. host[o] # "absent" /\ Account(o)
        BY <2>1, <2>2, ProfileAssumption DEF Standing, Account
    <3>2. Action(mode[q], o) = "create"
        BY <3>1 DEF Action, Account
    <3> QED
        BY <1>1, <3>1, <3>2 DEF Applicable
  <2> QED
      BY <2>1, <2>2
<1>5. ASSUME NEW n \in 1..Len(undo'[q]), NEW x \in approved[s].changes
      PROVE  /\ undo'[q][n][1] # x
             /\ LooksUp(x) /\ undo'[q][n][1] \in Accounts[x] => undo'[q][n][2] # "absent"
  <2>1. CASE n \in 1..Len(undo[q])
    <3>1. undo'[q][n] = undo[q][n]
        BY <1>2, <1>3, <2>1
    <3> QED
        BY <1>5, <2>1, <3>1 DEF Leaves
  <2>2. CASE n = Len(undo[q]) + 1
    <3>1. undo'[q][n] = <<o, Saved(q, o)>>
        BY <1>2, <1>3, <2>2
    <3> QED
        BY <1>4, <1>5, <3>1
  <2> QED
      BY <1>2, <1>3, <2>1, <2>2
<1>6. todo'[q] = todo[q] \ {o} /\ made'[q] = made[q] \cup {o}
    BY <1>1 DEF TypeOK
<1>7. ASSUME NEW x \in approved[s].changes
      PROVE  x \in Objects /\ Standing(x)' /\ x \notin todo'[q] /\ x \notin made'[q]
    BY <1>1, <1>4, <1>6, ChangeStands DEF Leaves
<1> QED
    BY <1>2, <1>5, <1>7 DEF Leaves

\* So is a change that fails after its effect.
LEMMA ApplyFailsLeaves ==
    ASSUME TypeOK, NEW q \in Sessions, NEW s \in Sessions, Leaves(q, s), ApplyFails(q)
    PROVE  Leaves(q, s)'
<1>1. approved' = approved /\ undo' = undo /\ todo'[q] = {}
    BY DEF ApplyFails, StartRollback, TypeOK
<1>2. CASE UNCHANGED <<host, made>>
    BY <1>1, <1>2 DEF Leaves, Standing
<1>3. CASE \E o \in todo[q] : host' = [host EXCEPT ![o] = "new"]
                             /\ made' = [made EXCEPT ![q] = @ \cup {o}]
  <2>1. PICK o \in todo[q] : host' = [host EXCEPT ![o] = "new"] /\ made'[q] = made[q] \cup {o}
      BY <1>3 DEF TypeOK
  <2>2. o \in Objects
      BY DEF TypeOK
  <2> QED
      BY <1>1, <2>1, <2>2, ChangeStands DEF Leaves
<1> QED
    BY <1>2, <1>3 DEF ApplyFails, First, Write

\* An undo takes back what q made.
LEMMA UndoLeaves ==
    ASSUME TypeOK, NEW q \in Sessions, NEW s \in Sessions, Leaves(q, s),
           undo[q] # <<>>, DropLast(q), UNCHANGED <<approved, todo, made>>,
           host' = host \/ host' = [host EXCEPT ![Last(q)[1]] = Restored(Last(q))]
    PROVE  Leaves(q, s)'
<1>1. undo[q] \in Seq(Objects \X Values) /\ Len(undo[q]) \in 1..Len(undo[q])
    BY DEF TypeOK
<1>2. undo'[q] = SubSeq(undo[q], 1, Len(undo[q]) - 1)
    BY DEF DropLast, TypeOK
<1>3. Len(undo'[q]) = Len(undo[q]) - 1 /\ \A n \in 1..Len(undo'[q]) : undo'[q][n] = undo[q][n]
    BY <1>1, <1>2
<1>4. ASSUME NEW x \in approved[s].changes PROVE Standing(x)'
  <2>1. /\ x \in Objects /\ Standing(x) /\ Last(q)[1] # x
        /\ LooksUp(x) /\ Last(q)[1] \in Accounts[x] => Last(q)[2] # "absent"
      BY <1>1, <1>4 DEF Leaves, Last
  <2>2. CASE host' = host
      BY <2>1, <2>2 DEF Standing
  <2>3. CASE host' = [host EXCEPT ![Last(q)[1]] = Restored(Last(q))]
    <3>1. host'[x] = "new"
        BY <2>1, <2>3 DEF Standing, TypeOK
    <3>2. ASSUME LooksUp(x), NEW a \in Accounts[x] PROVE host'[a] # "absent"
      <4>1. a \in Objects /\ host[a] # "absent"
          BY <2>1, <3>2, ProfileAssumption DEF Standing
      <4> QED
          BY <2>1, <2>3, <3>2, <4>1 DEF TypeOK, Restored
    <3> QED
        BY <3>1, <3>2 DEF Standing
  <2> QED
      BY <2>2, <2>3
<1>5. ASSUME NEW n \in 1..Len(undo'[q])
      PROVE  n \in 1..Len(undo[q]) /\ undo'[q][n] = undo[q][n]
    BY <1>1, <1>3
<1> QED
    BY <1>4, <1>5 DEF Leaves

\* A step of the later session.
LEMMA LaterKeepsByLater ==
    ASSUME IInv, Standings, Logs, NEW q \in Sessions, NEW s \in Sessions \ {q}, LaterInv(q, s),
           Session(q), mode' = mode
    PROVE  LaterInv(q, s)'
<1>0. /\ FrameWide(s) /\ TypeOK /\ LifeInv(q) /\ LogInv(q) /\ OnceInv(q) /\ OnceInv(s)
      /\ wins[s] \in Nat /\ made[s] \subseteq approved[s].changes
    BY SessionFramesWide DEF IInv, TypeOK, SInv, Standings, Logs, ApprovalInv
<1> USE DEF Goto, Return, Forget, reading, history
<1>1. CASE Execute(q)
  <2>1. /\ base'[q] = {x \in Sessions : outcome[x] = "applied" /\ ~touched[x]}
        /\ made'[q] = {} /\ todo'[q] = {} /\ undo'[q] = <<>> /\ host' = host
      BY <1>0, <1>1 DEF Execute, TypeOK, LifeInv, LogInv
  <2> SUFFICES ASSUME outcome[s] = "applied", ~touched[s]
               PROVE  LaterInv(q, s)'
      BY <2>1 DEF LaterInv
  <2>2. wins[s] > 0 /\ wins[s] = 1 /\ pc[s] = "done"
    <3>1. pc[s] = "done"
        BY DEF IInv, SInv, LifeInv
    <3> QED
        BY <1>0, <3>1 DEF OnceInv
  <2>3. \A o \in approved[s].changes : o \in Objects /\ Standing(o)
      BY <1>0, <2>2 DEF OnceInv
  <2>4. /\ approved'[s] = approved[s] /\ pc'[s] = "done" /\ wins'[s] = wins[s]
      BY <1>0, <2>2 DEF FrameWide, Frame
  <2>5. Leaves(q, s)'
      BY <2>1, <2>3, <2>4 DEF Leaves, Standing
  <2> QED
      BY <2>2, <2>4, <2>5 DEF LaterInv
<1>2. CASE ~Execute(q)
  <2>1. base' = base /\ wins'[s] = wins[s]
    <3>1. base' = base
        BY <1>2 DEF Session, Plan, Read, ReadingFails, Show, Report, Decide, Apply, ApplyFails,
           ChangesMade, Commit, VerifyFails, Undo, UndoFails, RolledBack
    <3> QED
        BY <1>0, <3>1 DEF FrameWide
  <2> SUFFICES ASSUME s \in base[q], ~touched'[q]
               PROVE  LaterInv(q, s)'
      BY <2>1 DEF LaterInv
  <2>2. ~touched[q]
      BY <1>0, TouchedStays
  <2>3. /\ wins[s] > 0 /\ pc[s] \in {"execute", "done"} /\ Leaves(q, s)
        /\ pc[s] = "execute" => FoundAmong(s, approved[s].changes)
      BY <2>2 DEF LaterInv
  <2>4. Leaves(q, s)'
    <3>1. CASE Decide(q)
      <4>1. FoundInv(q)
          BY <1>0, <2>2, <3>1 DEF OnceInv, Decide
      <4> QED
          BY <1>0, <2>3, <3>1, <4>1, DecideLeaves
    <3>2. CASE Apply(q)
        BY <1>0, <2>3, <3>2, ApplyLeaves
    <3>3. CASE ApplyFails(q)
        BY <1>0, <2>3, <3>3, ApplyFailsLeaves
    <3>4. CASE Undo(q) \/ UndoFails(q)
        BY <1>0, <2>3, <3>4, UndoLeaves DEF Undo, UndoFails, Write
    <3>5. CASE ~Decide(q) /\ ~Apply(q) /\ ~ApplyFails(q) /\ ~Undo(q) /\ ~UndoFails(q)
      <4>1. host' = host /\ approved'[s] = approved[s] /\ made' = made
          BY <1>0, <1>2, <3>5 DEF Session, Plan, Read, ReadingFails, Show, Report, ChangesMade,
             Commit, VerifyFails, RolledBack, FrameWide, Frame
      <4>2. (todo' = todo \/ todo'[q] = {}) /\ (undo' = undo \/ undo'[q] = <<>>)
          BY <1>0, <1>2, <3>5 DEF Session, Plan, Read, ReadingFails, Show, Report, ChangesMade,
             Commit, VerifyFails, RolledBack, StartRollback, TypeOK
      <4> QED
          BY <2>3, <4>1, <4>2 DEF Leaves, Standing
    <3> QED
        BY <3>1, <3>2, <3>3, <3>4, <3>5
  <2>5. pc[s] = "execute" => FoundAmong(s, approved[s].changes)'
    <3>1. approved[s].changes \in SUBSET Objects /\ approved'[s] = approved[s]
        BY <1>0, <2>3 DEF Leaves, FrameWide, Frame
    <3>2. \A o \in approved[s].changes : Standing(o) /\ Standing(o)'
        BY <2>3, <2>4, <3>1 DEF Leaves
    <3>3. ASSUME pc[s] = "execute"
          PROVE  \A A \in SUBSET Objects : A = approved[s].changes => FoundAmong(s, A)'
        BY <1>0, <2>3, <3>2, <3>3, AmongSame DEF FrameWide, Frame
    <3> QED
        BY <3>1, <3>3
  <2> QED
      BY <1>0, <2>1, <2>3, <2>4, <2>5 DEF LaterInv, FrameWide, Frame
<1> QED
    BY <1>1, <1>2

Laters == \A q \in Sessions : \A s \in Sessions \ {q} : LaterInv(q, s)

\* A session that begins to execute when the result of another one stands does
\* not change what that one made, unless a third one interferes: the plans of
\* its second reading leave alone what is in order (BuildSetupPlan).
THEOREM LaterLeaves == Spec => []LaterKeepsEarlier
<1>1. Init => Laters
    BY DEF Init, Laters, LaterInv
<1>2. (IInv /\ Standings /\ Logs) /\ Laters /\ [Next]_vars => Laters'
  <2> SUFFICES ASSUME IInv, Standings, Logs, Laters, [Next]_vars, NEW q \in Sessions,
                      NEW s \in Sessions \ {q}
               PROVE  LaterInv(q, s)'
      BY DEF Laters
  <2>0. LaterInv(q, s) /\ TypeOK
      BY DEF Laters, IInv
  <2>1. CASE Session(q) /\ mode' = mode
      BY <2>0, <2>1, LaterKeepsByLater
  <2>2. CASE Session(s) /\ mode' = mode
      BY <2>0, <2>2, LaterKeepsByFirst
  <2>3. CASE FrameWide(q) /\ FrameWide(s)
      BY <2>0, <2>3, LaterFrames
  <2>4. CASE mode' = mode /\ \E x \in Sessions \ {q, s} : Session(x)
      BY <2>0, <2>3, <2>4, SessionFramesWide
  <2>5. CASE Drift /\ mode' = mode
      BY <2>0, <2>3, <2>5, DriftFramesWide
  <2>6. CASE UNCHANGED vars
      BY <2>3, <2>6 DEF FrameWide, Frame, vars, reading, history
  <2> QED
      BY <2>1, <2>2, <2>4, <2>5, <2>6 DEF Next
<1>3. IInv /\ Laters => LaterKeepsEarlier
  <2> SUFFICES ASSUME IInv, Laters, NEW q \in Sessions, NEW s \in base[q] \ {q},
                      outcome[s] = "applied", ~touched[q]
               PROVE  made[q] \cap made[s] = {}
      BY DEF LaterKeepsEarlier
  <2>1. s \in Sessions \ {q} /\ made[s] \subseteq approved[s].changes
      BY DEF IInv, TypeOK, SInv, ApprovalInv
  <2> QED
      BY <2>1 DEF Laters, LaterInv, Leaves
<1> QED
    BY <1>1, <1>2, <1>3, LogAlways, PTL DEF Spec

-----------------------------------------------------------------------------
(* Accounts. *)

\* A session has created the account o: its undo is pending, or it is applied.
Holds(s, o) ==
    \/ \E n \in 1..Len(undo[s]) : undo[s][n][1] = o
    \/ outcome[s] = "applied" /\ o \in made[s]

\* The undo of a creation removes the account, once, and the transaction that
\* created it has it.
CreationInv(s) ==
    /\ \A n \in 1..Len(undo[s]) : Account(undo[s][n][1]) => undo[s][n][2] = "absent"
    /\ \A m, n \in 1..Len(undo[s]) :
          Account(undo[s][m][1]) /\ undo[s][m][1] = undo[s][n][1] => m = n
    /\ pc[s] \in {"apply", "verify"} =>
          \A o \in made[s] : \E n \in 1..Len(undo[s]) : undo[s][n][1] = o
    /\ pc[s] = "execute" => made[s] = {}

\* An account that exists has at most one creator, a missing one has none.
HolderInv(o) ==
    Account(o) =>
        /\ host[o] = "absent" => \A s \in Sessions : ~Holds(s, o)
        /\ \A s, q \in Sessions : Holds(s, o) /\ Holds(q, o) => s = q

Creations == (\A s \in Sessions : CreationInv(s)) /\ (\A o \in Objects : HolderInv(o))

\* A step that creates and removes no account, and has no new holder.
LEMMA HoldersShrink ==
    ASSUME NEW o \in Objects, HolderInv(o), host'[o] = "absent" => host[o] = "absent",
           \A x \in Sessions : Holds(x, o)' => Holds(x, o)
    PROVE  HolderInv(o)'
BY DEF HolderInv

\* A step that frames a session keeps what it holds.
LEMMA HoldsSame ==
    ASSUME NEW q \in Sessions, NEW o, FrameWide(q)
    PROVE  Holds(q, o)' <=> Holds(q, o)
BY DEF Holds, FrameWide, Frame

\* And what its undos do.
LEMMA CreationFrames ==
    ASSUME NEW q \in Sessions, CreationInv(q), FrameWide(q)
    PROVE  CreationInv(q)'
BY DEF CreationInv, FrameWide, Frame

\* A change creates an account nobody holds.
LEMMA ApplyCreates ==
    ASSUME TypeOK, NEW s \in Sessions, LifeInv(s), Creations, Apply(s)
    PROVE  Creations'
<1>1. PICK o \in Objects : /\ o \in todo[s] /\ Applicable(s, o)
                           /\ host' = [host EXCEPT ![o] = "new"]
                           /\ undo' = [undo EXCEPT ![s] = Append(@, <<o, Saved(s, o)>>)]
                           /\ made' = [made EXCEPT ![s] = @ \cup {o}]
    BY DEF Apply, First, Write
<1>2. undo[s] \in Seq(Objects \X Values) /\ pc[s] = "apply" /\ pc' = pc /\ outcome' = outcome
    BY DEF Apply, TypeOK
<1>3. undo'[s] = Append(undo[s], <<o, Saved(s, o)>>) /\ made'[s] = made[s] \cup {o}
    BY <1>1 DEF TypeOK
<1>4. /\ Len(undo'[s]) = Len(undo[s]) + 1 /\ Len(undo[s]) \in Nat
      /\ undo'[s][Len(undo[s]) + 1] = <<o, Saved(s, o)>>
      /\ \A n \in 1..Len(undo[s]) : undo'[s][n] = undo[s][n]
    BY <1>2, <1>3
<1>5. /\ outcome[s] = "none"
      /\ Account(o) =>
            host[o] = "absent" /\ Saved(s, o) = "absent" /\ \A x \in Sessions : ~Holds(x, o)
  <2>1. outcome[s] = "none"
      BY <1>2 DEF LifeInv
  <2>2. Account(o) => Action(mode[s], o) = "create"
      BY DEF Account, Action
  <2>3. Account(o) => host[o] = "absent" /\ Saved(s, o) = "absent"
      BY <1>1, <2>2 DEF Applicable, Saved
  <2> QED
      BY <2>1, <2>3 DEF Creations, HolderInv
<1>6. \A q \in Sessions \ {s} : FrameWide(q)
    BY SessionFramesWide DEF Session
<1>7. CreationInv(s)'
  <2>1. \A n \in 1..Len(undo'[s]) : n \in 1..Len(undo[s]) \/ n = Len(undo[s]) + 1
      BY <1>4
  <2>2. \A n \in 1..Len(undo'[s]) : Account(undo'[s][n][1]) => undo'[s][n][2] = "absent"
    <3>1. \A n \in 1..Len(undo[s]) : Account(undo[s][n][1]) => undo[s][n][2] = "absent"
        BY DEF Creations, CreationInv
    <3>2. /\ undo'[s][Len(undo[s]) + 1][1] = o
          /\ undo'[s][Len(undo[s]) + 1][2] = Saved(s, o)
        BY <1>4
    <3> QED
        BY <1>4, <1>5, <2>1, <3>1, <3>2
  <2>3. ASSUME NEW m \in 1..Len(undo'[s]), NEW n \in 1..Len(undo'[s]),
               Account(undo'[s][m][1]), undo'[s][m][1] = undo'[s][n][1]
        PROVE  m = n
    <3>1. CASE m \in 1..Len(undo[s]) /\ n \in 1..Len(undo[s])
        BY <1>4, <2>3, <3>1 DEF Creations, CreationInv
    <3>2. CASE m = Len(undo[s]) + 1 /\ n \in 1..Len(undo[s])
        BY <1>4, <1>5, <2>3, <3>2 DEF Holds
    <3>3. CASE n = Len(undo[s]) + 1 /\ m \in 1..Len(undo[s])
        BY <1>4, <1>5, <2>3, <3>3 DEF Holds
    <3> QED
        BY <2>1, <3>1, <3>2, <3>3
  <2>4. \A x \in made'[s] : \E n \in 1..Len(undo'[s]) : undo'[s][n][1] = x
    <3>1. ASSUME NEW x \in made[s] PROVE \E n \in 1..Len(undo'[s]) : undo'[s][n][1] = x
      <4>1. PICK n \in 1..Len(undo[s]) : undo[s][n][1] = x
          BY <1>2, <3>1 DEF Creations, CreationInv
      <4>2. n \in 1..Len(undo'[s]) /\ undo'[s][n][1] = x
          BY <1>4, <4>1
      <4> QED
          BY <4>2
    <3>2. \E n \in 1..Len(undo'[s]) : undo'[s][n][1] = o
      <4>1. Len(undo[s]) + 1 \in 1..Len(undo'[s])
          BY <1>4
      <4> QED
          BY <1>4, <4>1
    <3> QED
        BY <1>3, <3>1, <3>2
  <2> QED
      BY <1>2, <2>2, <2>3, <2>4 DEF CreationInv
<1>8. ASSUME NEW x \in Objects PROVE HolderInv(x)'
  <2>1. \A q \in Sessions \ {s} : Holds(q, x)' <=> Holds(q, x)
      BY <1>6, HoldsSame
  <2>2. CASE x = o
    <3>1. host'[x] = "new" /\ (Account(x) => \A q \in Sessions \ {s} : ~Holds(q, x)')
        BY <1>1, <1>5, <2>1, <2>2 DEF TypeOK
    <3> QED
        BY <3>1 DEF HolderInv
  <2>3. CASE x # o
    <3>1. Holds(s, x)' => Holds(s, x)
        BY <1>2, <1>4, <1>5, <2>3 DEF Holds
    <3>2. host'[x] = host[x] /\ HolderInv(x)
        BY <1>1, <2>3 DEF Creations, TypeOK
    <3> QED
        BY <2>1, <3>1, <3>2, HoldersShrink
  <2> QED
      BY <2>2, <2>3
<1> QED
    BY <1>6, <1>7, <1>8, CreationFrames DEF Creations

\* An undo removes an account that only its session holds.
LEMMA UndoRemoves ==
    ASSUME TypeOK, Creations, NEW s \in Sessions, LifeInv(s), Undo(s) \/ UndoFails(s)
    PROVE  Creations'
<1>1. undo[s] \in Seq(Objects \X Values) /\ Len(undo[s]) \in 1..Len(undo[s])
  <2>1. undo[s] \in Seq(Objects \X Values)
      BY DEF TypeOK
  <2>2. undo[s] # <<>>
      BY DEF Undo, UndoFails
  <2> QED
      BY <2>1, <2>2
<1>2. /\ undo'[s] = SubSeq(undo[s], 1, Len(undo[s]) - 1) /\ pc[s] = "undo" /\ pc' = pc
      /\ outcome' = outcome /\ outcome[s] = "none" /\ made' = made
    BY DEF Undo, UndoFails, DropLast, TypeOK, LifeInv, history
<1>3. Len(undo'[s]) = Len(undo[s]) - 1 /\ \A n \in 1..Len(undo'[s]) : undo'[s][n] = undo[s][n]
    BY <1>1, <1>2
<1>4. \A n \in 1..Len(undo'[s]) : n \in 1..Len(undo[s]) /\ n # Len(undo[s])
    BY <1>1, <1>3
<1>5. \A q \in Sessions \ {s} : FrameWide(q)
    BY SessionFramesWide DEF Session
<1>6. CreationInv(s)'
  <2>1. CreationInv(s)
      BY DEF Creations
  <2>2. \A n \in 1..Len(undo'[s]) : Account(undo'[s][n][1]) => undo'[s][n][2] = "absent"
      BY <1>3, <1>4, <2>1 DEF CreationInv
  <2>3. \A m, n \in 1..Len(undo'[s]) :
          Account(undo'[s][m][1]) /\ undo'[s][m][1] = undo'[s][n][1] => m = n
      BY <1>3, <1>4, <2>1 DEF CreationInv
  <2> QED
      BY <1>2, <2>2, <2>3 DEF CreationInv
<1>7. ASSUME NEW x \in Objects PROVE HolderInv(x)'
  <2>1. \A q \in Sessions : Holds(q, x)' => Holds(q, x)
    <3>1. Holds(s, x)' => Holds(s, x)
        BY <1>2, <1>3, <1>4 DEF Holds
    <3> QED
        BY <1>5, <3>1, HoldsSame
  <2>2. HolderInv(x)
      BY DEF Creations
  <2>3. CASE host'[x] = "absent" => host[x] = "absent"
      BY <2>1, <2>2, <2>3, HoldersShrink
  <2>4. CASE host'[x] = "absent" /\ host[x] # "absent"
    <3>1. Undo(s) /\ Last(s)[1] = x
        BY <2>4 DEF Undo, UndoFails, Write, TypeOK
    <3>2. Holds(s, x)
        BY <1>1, <3>1 DEF Holds, Last
    <3>3. Account(x) => ~Holds(s, x)'
        BY <1>1, <1>2, <1>3, <1>4, <3>1 DEF Holds, Last, Creations, CreationInv
    <3>4. Account(x) => \A q \in Sessions : ~Holds(q, x)'
        BY <2>1, <2>2, <3>2, <3>3 DEF HolderInv
    <3> QED
        BY <3>4 DEF HolderInv
  <2> QED
      BY <2>3, <2>4
<1> QED
    BY <1>5, <1>6, <1>7, CreationFrames DEF Creations

\* The other steps of a session create nothing that is registered.
LEMMA OthersCreate ==
    ASSUME TypeOK, Creations, NEW s \in Sessions, LifeInv(s), LogInv(s), Session(s),
           ~Apply(s), ~Undo(s), ~UndoFails(s)
    PROVE  Creations'
<1> USE DEF Goto, Return, Forget, StartReading, StartRollback, reading, history
<1>1. \A q \in Sessions \ {s} : FrameWide(q)
    BY SessionFramesWide
<1>2. \A o \in Objects : host'[o] = "absent" => host[o] = "absent"
  <2>1. CASE ApplyFails(s)
      BY <2>1 DEF ApplyFails, Write, TypeOK
  <2>2. CASE ~ApplyFails(s)
      BY <2>2 DEF Session, Plan, Read, ReadingFails, Show, Execute, Report, Decide, ChangesMade,
         Commit, VerifyFails, RolledBack
  <2> QED
      BY <2>1, <2>2
<1>3. CreationInv(s)
    BY DEF Creations
<1>4. CASE Commit(s)
  <2>1. /\ pc[s] = "verify" /\ pc'[s] = "done" /\ undo'[s] = <<>> /\ made' = made
      BY <1>4 DEF Commit, TypeOK
  <2>2. CreationInv(s)'
      BY <2>1 DEF CreationInv
  <2>3. \A o \in Objects : Holds(s, o)' => Holds(s, o)
      BY <1>3, <2>1 DEF CreationInv, Holds
  <2> QED
      BY <1>1, <1>2, <2>2, <2>3, CreationFrames, HoldsSame, HoldersShrink DEF Creations
<1>5. CASE ~Commit(s)
  <2>1. undo' = undo
      BY <1>5 DEF Session, Plan, Read, ReadingFails, Show, Execute, Report, Decide, ApplyFails,
         ChangesMade, VerifyFails, RolledBack
  <2>2. outcome'[s] # "applied" \/ (outcome'[s] = outcome[s] /\ made'[s] = made[s])
    <3>1. CASE ApplyFails(s)
        BY <3>1 DEF ApplyFails, LifeInv
    <3>2. CASE Plan(s) \/ Read(s) \/ ReadingFails(s) \/ Show(s)
        BY <3>2 DEF Plan, Read, ReadingFails, Show, TypeOK
    <3>3. CASE Execute(s)
        BY <3>3 DEF Execute, LifeInv, TypeOK
    <3>4. CASE Report(s)
        BY <3>4, ClassifyTypes DEF Report, TypeOK
    <3>5. CASE Decide(s)
        BY <3>5 DEF Decide, LifeInv, TypeOK
    <3>6. CASE ChangesMade(s) \/ VerifyFails(s) \/ RolledBack(s)
        BY <3>6 DEF ChangesMade, VerifyFails, RolledBack, LifeInv, TypeOK
    <3> QED
        BY <1>5, <3>1, <3>2, <3>3, <3>4, <3>5, <3>6 DEF Session
  <2>3. /\ pc'[s] \in {"apply", "verify"} =>
              made' = made /\ pc[s] \in {"execute", "apply", "verify"}
        /\ pc'[s] = "execute" => made'[s] = {}
    <3>1. CASE Execute(s)
        BY <3>1 DEF Execute, TypeOK
    <3>2. CASE ~Execute(s)
        BY <1>3, <1>5, <3>2 DEF Session, Plan, Read, ReadingFails, Show, Report, Decide, ApplyFails,
           ChangesMade, VerifyFails, RolledBack, TypeOK, CreationInv
    <3> QED
        BY <3>1, <3>2
  <2>4. CreationInv(s)'
      BY <1>3, <2>1, <2>3 DEF CreationInv
  <2>5. \A o \in Objects : Holds(s, o)' => Holds(s, o)
      BY <2>1, <2>2 DEF Holds
  <2> QED
      BY <1>1, <1>2, <2>4, <2>5, CreationFrames, HoldsSame, HoldersShrink DEF Creations
<1> QED
    BY <1>4, <1>5

\* While nobody else changes the host, two sessions cannot both be applied and
\* have created the same account, however many others run: one is refused by
\* groupadd or useradd.
THEOREM NotCreatedTwice == Spec => []NoDoubleCreation
<1> DEFINE Quiet == drift <= MaxDrift[mode] /\ (drift = MaxDrift[mode] => Creations)
<1>1. Init => Quiet
  <2> SUFFICES ASSUME Init PROVE Quiet
      OBVIOUS
  <2>1. drift = MaxDrift[mode] /\ MaxDrift[mode] \in Nat
      BY SessionAssumption DEF Init
  <2>2. Creations
      BY DEF Init, Creations, CreationInv, HolderInv, Holds
  <2> QED
      BY <2>1, <2>2
<1>2. (IInv /\ Standings /\ Logs) /\ Quiet /\ [Next]_vars => Quiet'
  <2> SUFFICES ASSUME IInv, Logs, Quiet, [Next]_vars PROVE Quiet'
      OBVIOUS
  <2>0. TypeOK /\ drift \in Nat /\ MaxDrift[mode] \in Nat /\ mode' = mode
      BY SessionAssumption DEF IInv, TypeOK, Next, vars
  <2>1. CASE Drift
    <3>1. drift' = drift - 1
        BY <2>1 DEF Drift
    <3>2. drift' <= MaxDrift[mode] /\ drift' # MaxDrift[mode]
        BY <2>0, <3>1
    <3> QED
        BY <2>0, <3>2
  <2>2. ASSUME NEW s \in Sessions, Session(s) PROVE Quiet'
    <3>1. LifeInv(s) /\ LogInv(s)
        BY DEF IInv, SInv, Logs
    <3>2. drift' = drift
        BY <2>2 DEF Session, Plan, Read, ReadingFails, Show, Execute, Report, Decide, Apply,
           ApplyFails, ChangesMade, Commit, VerifyFails, Undo, UndoFails, RolledBack, StartRollback
    <3>3. Creations => Creations'
        BY <2>0, <2>2, <3>1, ApplyCreates, UndoRemoves, OthersCreate
    <3> QED
        BY <2>0, <3>2, <3>3
  <2>3. CASE UNCHANGED vars
    <3>1. Creations' <=> Creations
        BY <2>3 DEF vars, reading, history, Creations, CreationInv, HolderInv, Holds
    <3> QED
        BY <2>3, <3>1 DEF vars
  <2> QED
      BY <2>1, <2>2, <2>3 DEF Next
<1>3. Quiet => NoDoubleCreation
    BY DEF NoDoubleCreation, Creations, HolderInv, Holds, Account
<1> QED
    BY <1>1, <1>2, <1>3, LogAlways, PTL DEF Spec
=============================================================================
