----------------------- MODULE SetupTransactionProofs -----------------------
(***************************************************************************)
(* What SetupTransaction guarantees for every plan, every host and any     *)
(* number of failures and of changes by somebody else.                     *)
(***************************************************************************)
EXTENDS SetupTransaction, FiniteSetTheorems, TLAPS

\* Before the rollback nothing failed half-way and no undo was run; a
\* transaction that ended ran all of them and told of the errors.
PhaseInv ==
    /\ pc = "apply" => i <= Len(Plan)
    /\ pc \notin {"rollback", "done"} => blind = {} /\ lost = {} /\ exit = "none"
    /\ pc = "rollback" => k <= Len(undo) /\ exit # "applied"
    /\ pc = "done" => k = 0 /\ (exit = "failed" => (reported <=> lost # {}))

\* Only changes before the current one have an undo.
OrderInv ==
    pc \in {"loop", "apply"} =>
        \A n \in 1..Len(undo) : \E m \in 1..(i - 1) : undo[n] = Plan[m]

\* What an undo will write is what the transaction found.
SavedInv ==
    /\ \A o \in Objects : Action[o] = "install-cached" => begin[o] = "absent"
    /\ \A o \in stored : Action[o] = "replace"
    /\ \A n \in 1..Len(undo) :
          IsExact(undo[n]) => saved[undo[n]] = begin[undo[n]] \/ undo[n] \in drift
    /\ pc = "apply" /\ IsExact(Current) =>
          IF Action[Current] = "create" THEN saved[Current] = "absent"
          ELSE saved[Current] = begin[Current] \/ Current \in drift

\* After the verification every planned object passes its check.
VerifiedInv ==
    pc = "commit" \/ exit = "applied" => \A o \in Planned : Passes(o) \/ o \in drift

IInv == TypeOK /\ PhaseInv /\ OrderInv /\ SavedInv /\ Accounted

-----------------------------------------------------------------------------
\* The current change is one of the plan's, and the plan's are objects.
LEMMA PlanFacts ==
    /\ Len(Plan) \in Nat
    /\ Planned \subseteq Objects
    /\ \A m \in 1..Len(Plan) : Plan[m] \in Planned /\ Plan[m] \in Objects
BY PlanAssumption DEF Planned

\* Every value an operation leaves or an undo writes is a value.
LEMMA ValueFacts ==
    ASSUME TypeOK, i <= Len(Plan)
    PROVE  Current \in Planned /\ Current \in Objects /\ Effect \in [Objects -> Values]
BY PlanFacts DEF TypeOK, Current, Effect, Change, Values

\* An undo writes a value.
LEMMA RestoredFacts ==
    ASSUME TypeOK, NEW o \in Objects
    PROVE  Restored(o) \in Values
BY DEF TypeOK, Restored, Values

\* Undos are those of planned objects.
LEMMA LastFacts ==
    ASSUME TypeOK, k > 0, k <= Len(undo)
    PROVE  Last \in Planned /\ Last \in Objects
BY PlanFacts DEF TypeOK, Last

\* A failure takes one from the budget, at most.
LEMMA FaultFacts ==
    ASSUME TypeOK, Fault \/ NoFault
    PROVE  faults' \in 0..MaxFaults
BY BoundAssumption DEF TypeOK, Fault, NoFault

\* Registering the current change keeps the undo list one of planned objects.
LEMMA RegisterFacts ==
    ASSUME TypeOK, i <= Len(Plan), Register \/ UNCHANGED undo
    PROVE  undo' \in Seq(Planned) /\ Len(undo') \in 0..(Len(undo') + 1)
<1>1. undo \in Seq(Planned) /\ Current \in Planned
    BY ValueFacts DEF TypeOK
<1>2. undo' \in Seq(Planned)
    BY <1>1 DEF Register
<1> QED
    BY <1>2

\* Registering the current change keeps the undo list behind the loop.
LEMMA OrderFacts ==
    ASSUME TypeOK, OrderInv, pc = "apply", Register
    PROVE  \A n \in 1..Len(undo') : \E m \in 1..i : undo'[n] = Plan[m]
<1> SUFFICES ASSUME NEW n \in 1..Len(undo')
             PROVE  \E m \in 1..i : undo'[n] = Plan[m]
    OBVIOUS
<1>1. undo' = Append(undo, Plan[i]) /\ Len(undo') = Len(undo) + 1 /\ i \in 1..i
    BY DEF Register, Current, TypeOK
<1>2. CASE n \in 1..Len(undo)
  <2>1. undo'[n] = undo[n]
      BY <1>1, <1>2 DEF TypeOK
  <2> QED
      BY <1>2, <2>1 DEF OrderInv, TypeOK
<1>3. CASE n = Len(undo) + 1
    BY <1>1, <1>3 DEF TypeOK
<1> QED
    BY <1>1, <1>2, <1>3 DEF TypeOK

\* The current change has no undo yet, so its object is as it was found, or
\* somebody else changed it.
LEMMA FreshFacts ==
    ASSUME IInv, pc \in {"loop", "apply"}, i <= Len(Plan), IsExact(Current)
    PROVE  /\ \A n \in 1..Len(undo) : undo[n] # Current
           /\ host[Current] = begin[Current] \/ Current \in drift
<1>1. \A n \in 1..Len(undo) : undo[n] # Current
  <2> SUFFICES ASSUME NEW n \in 1..Len(undo), undo[n] = Current
               PROVE  FALSE
      OBVIOUS
  <2>1. PICK m \in 1..(i - 1) : undo[n] = Plan[m]
      BY DEF IInv, OrderInv
  <2>2. m \in 1..Len(Plan) /\ i \in 1..Len(Plan) /\ m # i
      BY PlanFacts DEF IInv, TypeOK
  <2> QED
      BY <2>1, <2>2, PlanAssumption DEF Current
<1>2. Current \notin Pending
    BY <1>1 DEF Pending
<1>3. Current \in Objects
    BY ValueFacts DEF IInv
<1> QED
    BY <1>1, <1>2, <1>3 DEF IInv, Accounted, PhaseInv

\* An undo that is registered writes what the transaction found: groupadd and
\* useradd succeed only where nothing is, which the capture alone does not know.
LEMMA RegisteredFacts ==
    ASSUME IInv, pc = "apply", IsExact(Current),
           Action[Current] = "create" => Applicable(Current)
    PROVE  saved[Current] = begin[Current] \/ Current \in drift
<1>1. CASE Action[Current] = "create"
  <2>1. host[Current] = begin[Current] \/ Current \in drift
      BY FreshFacts DEF IInv, PhaseInv
  <2>2. saved[Current] = "absent" /\ host[Current] = "absent"
      BY <1>1 DEF IInv, SavedInv, Applicable
  <2> QED
      BY <2>1, <2>2
<1>2. CASE Action[Current] # "create"
    BY <1>2 DEF IInv, SavedInv
<1> QED
    BY <1>1, <1>2

\* A rollback starts with every undo pending.
LEMMA PendingFacts ==
    ASSUME TypeOK, pc \notin {"rollback", "done"}, UNCHANGED undo,
           pc' \notin {"rollback", "done"} \/ k' = Len(undo')
    PROVE  Pending' = Pending
BY DEF Pending, TypeOK

\* A registered undo is pending.
LEMMA PendingRegister ==
    ASSUME TypeOK, pc = "apply", Register,
           pc' \notin {"rollback", "done"} \/ k' = Len(undo')
    PROVE  Pending' = Pending \cup {Current}
<1>1. /\ Len(undo') = Len(undo) + 1 /\ undo'[Len(undo) + 1] = Current
      /\ \A n \in 1..Len(undo) : undo'[n] = undo[n]
    BY DEF Register, TypeOK
<1>2. Pending' = {undo'[n] : n \in 1..(Len(undo) + 1)}
    BY <1>1 DEF Pending
<1>3. Pending = {undo[n] : n \in 1..Len(undo)}
    BY DEF Pending
<1>4. /\ 1..Len(undo) \subseteq 1..(Len(undo) + 1) /\ Len(undo) + 1 \in 1..(Len(undo) + 1)
      /\ \A n \in 1..(Len(undo) + 1) : n \in 1..Len(undo) \/ n = Len(undo) + 1
    BY DEF TypeOK
<1>5. Pending' \subseteq Pending \cup {Current}
    BY <1>1, <1>2, <1>3, <1>4
<1>6. Pending \cup {Current} \subseteq Pending'
    BY <1>1, <1>2, <1>3, <1>4
<1> QED
    BY <1>5, <1>6

\* Running an undo leaves the others pending.
LEMMA PendingUndo ==
    ASSUME TypeOK, pc = "rollback", k > 0, k <= Len(undo),
           UNCHANGED <<pc, undo>>, k' = k - 1
    PROVE  Pending \subseteq Pending' \cup {Last}
BY DEF Pending, Last, TypeOK

\* The specification starts in the invariant.
LEMMA InitInv == Init => IInv
<1> SUFFICES ASSUME Init PROVE IInv
    OBVIOUS
<1>1. TypeOK
  <2>1. begin \in [Objects -> Values] /\ host = begin /\ saved = begin
      BY DEF Init, Values
  <2>2. i \in 1..(Len(Plan) + 1) /\ faults \in 0..MaxFaults
      BY PlanFacts, BoundAssumption DEF Init
  <2>3. undo \in Seq(Planned) /\ k \in 0..(Len(undo) + 1)
      BY DEF Init
  <2> QED
      BY <2>1, <2>2, <2>3 DEF Init, TypeOK
<1>2. PhaseInv /\ OrderInv
    BY DEF Init, PhaseInv, OrderInv
<1>3. SavedInv /\ Accounted
    BY DEF Init, SavedInv, Accounted
<1> QED
    BY <1>1, <1>2, <1>3 DEF IInv
-----------------------------------------------------------------------------
(* Every step keeps each part of the invariant. *)

\* Types and bounds.
LEMMA TypeStep == IInv /\ [Next]_vars => TypeOK'
<1> SUFFICES ASSUME IInv, [Next]_vars PROVE TypeOK'
    OBVIOUS
<1> USE DEF IInv, progress, history
<1>1. CASE LoopInterrupted
    BY <1>1, PlanFacts DEF TypeOK, PhaseInv, LoopInterrupted, StartRollback
<1>2. CASE LoopEnds
    BY <1>2, PlanFacts DEF TypeOK, PhaseInv, LoopEnds
<1>3. CASE Capture
    BY <1>3, PlanFacts, ValueFacts DEF TypeOK, PhaseInv, Capture, Values
<1>4. CASE CaptureFails
  <2>1. faults' \in 0..MaxFaults
      BY <1>4, FaultFacts DEF CaptureFails, FailsUnless
  <2>2. undo' \in Seq(Planned) /\ k' \in 0..(Len(undo') + 1)
      BY <1>4, RegisterFacts DEF CaptureFails, StartRollback
  <2> QED
      BY <1>4, <2>1, <2>2 DEF TypeOK, CaptureFails, StartRollback
<1>5. CASE ApplySucceeds
    BY <1>5, PlanFacts, ValueFacts DEF TypeOK, PhaseInv, ApplySucceeds, Register
<1>6. CASE ApplySilent
    BY <1>6, PlanFacts, BoundAssumption, ValueFacts DEF TypeOK, PhaseInv, ApplySilent,
       Register, Fault
<1>7. CASE ApplyFails
  <2>1. faults' \in 0..MaxFaults
      BY <1>7, FaultFacts DEF ApplyFails, FailsUnless
  <2>2. undo' \in Seq(Planned) /\ k' \in 0..(Len(undo') + 1)
      BY <1>7, RegisterFacts DEF ApplyFails, PhaseInv, StartRollback
  <2> QED
      BY <1>7, <2>1, <2>2 DEF TypeOK, ApplyFails, StartRollback
<1>8. CASE ApplyFailsLate
  <2>1. faults' \in 0..MaxFaults
      BY <1>8, FaultFacts DEF ApplyFailsLate
  <2>2. undo' \in Seq(Planned) /\ k' \in 0..(Len(undo') + 1)
      BY <1>8, RegisterFacts DEF ApplyFailsLate, PhaseInv, StartRollback
  <2>3. host' \in [Objects -> Values] /\ blind' \subseteq Planned
      BY <1>8, ValueFacts DEF ApplyFailsLate, PhaseInv, TypeOK
  <2> QED
      BY <1>8, <2>1, <2>2, <2>3 DEF TypeOK, ApplyFailsLate, StartRollback
<1>9. CASE ApplyInterrupted
    BY <1>9, PlanFacts, ValueFacts DEF TypeOK, PhaseInv, ApplyInterrupted, StartRollback
<1>10. CASE Verified
    BY <1>10, PlanFacts DEF TypeOK, PhaseInv, Verified
<1>11. CASE VerifyFails
    BY <1>11, PlanFacts, BoundAssumption DEF TypeOK, PhaseInv, VerifyFails,
       StartRollback, FailsUnless, Fault, NoFault
<1>12. CASE VerifyInterrupted
    BY <1>12, PlanFacts, BoundAssumption DEF TypeOK, PhaseInv, VerifyInterrupted,
       StartRollback, FailsUnless, Fault, NoFault
<1>13. CASE CommitNext
    BY <1>13, PlanFacts DEF TypeOK, PhaseInv, CommitNext
<1>14. CASE CommitFails
    BY <1>14, PlanFacts, BoundAssumption DEF TypeOK, PhaseInv, CommitFails,
       StartRollback, Fault
<1>15. CASE CommitEnds
    BY <1>15, PlanFacts DEF TypeOK, PhaseInv, CommitEnds
<1>16. CASE UndoSucceeds
    BY <1>16, PlanFacts, LastFacts, RestoredFacts DEF TypeOK, PhaseInv, UndoSucceeds
<1>17. CASE UndoFails
    BY <1>17, PlanFacts, BoundAssumption, LastFacts, RestoredFacts DEF TypeOK, PhaseInv,
       UndoFails, FailsUnless, Fault, NoFault
<1>18. CASE RollbackEnds
    BY <1>18, PlanFacts DEF TypeOK, PhaseInv, RollbackEnds
<1>19. CASE Deadline
    BY <1>19, PlanFacts DEF TypeOK, PhaseInv, Deadline
<1>20. CASE RollbackDeadline
    BY <1>20, PlanFacts DEF TypeOK, PhaseInv, RollbackDeadline
<1>21. CASE Drift
    BY <1>21, PlanFacts DEF TypeOK, PhaseInv, Drift
<1>22. CASE UNCHANGED vars
    BY <1>22 DEF TypeOK, vars
<1> QED
    BY <1>1, <1>2, <1>3, <1>4, <1>5, <1>6, <1>7, <1>8, <1>9, <1>10, <1>11, <1>12, <1>13,
       <1>14, <1>15, <1>16, <1>17, <1>18, <1>19, <1>20, <1>21, <1>22 DEF Next, Step

\* Nothing is lost before the rollback, and every end tells of it.
LEMMA PhaseStep == IInv /\ [Next]_vars => PhaseInv'
<1> SUFFICES ASSUME IInv, [Next]_vars PROVE PhaseInv'
    OBVIOUS
<1> USE DEF IInv, progress, history
<1>1. CASE LoopInterrupted
    BY <1>1 DEF PhaseInv, TypeOK, LoopInterrupted, StartRollback
<1>2. CASE LoopEnds
    BY <1>2 DEF PhaseInv, TypeOK, LoopEnds
<1>3. CASE Capture
    BY <1>3 DEF PhaseInv, TypeOK, Capture, Values
<1>4. CASE CaptureFails
    BY <1>4 DEF PhaseInv, TypeOK, CaptureFails, StartRollback, FailsUnless, Fault, NoFault
<1>5. CASE ApplySucceeds
    BY <1>5 DEF PhaseInv, TypeOK, ApplySucceeds, Register
<1>6. CASE ApplySilent
    BY <1>6 DEF PhaseInv, TypeOK, ApplySilent, Register, Fault
<1>7. CASE ApplyFails
    BY <1>7 DEF PhaseInv, TypeOK, ApplyFails, StartRollback, FailsUnless, Fault,
       NoFault, Register
<1>8. CASE ApplyFailsLate
    BY <1>8 DEF PhaseInv, TypeOK, ApplyFailsLate, StartRollback, Fault, Register
<1>9. CASE ApplyInterrupted
    BY <1>9 DEF PhaseInv, TypeOK, ApplyInterrupted, StartRollback
<1>10. CASE Verified
    BY <1>10 DEF PhaseInv, TypeOK, Verified
<1>11. CASE VerifyFails
    BY <1>11 DEF PhaseInv, TypeOK, VerifyFails, StartRollback, FailsUnless, Fault, NoFault
<1>12. CASE VerifyInterrupted
    BY <1>12 DEF PhaseInv, TypeOK, VerifyInterrupted, StartRollback, FailsUnless, Fault,
       NoFault
<1>13. CASE CommitNext
    BY <1>13 DEF PhaseInv, TypeOK, CommitNext
<1>14. CASE CommitFails
    BY <1>14 DEF PhaseInv, TypeOK, CommitFails, StartRollback, Fault
<1>15. CASE CommitEnds
    BY <1>15 DEF PhaseInv, TypeOK, CommitEnds
<1>16. CASE UndoSucceeds
    BY <1>16 DEF PhaseInv, TypeOK, UndoSucceeds
<1>17. CASE UndoFails
    BY <1>17 DEF PhaseInv, TypeOK, UndoFails, FailsUnless, Fault, NoFault
<1>18. CASE RollbackEnds
    BY <1>18 DEF PhaseInv, TypeOK, RollbackEnds
<1>19. CASE Deadline
    BY <1>19 DEF PhaseInv, TypeOK, Deadline
<1>20. CASE RollbackDeadline
    BY <1>20 DEF PhaseInv, TypeOK, RollbackDeadline
<1>21. CASE Drift
    BY <1>21 DEF PhaseInv, TypeOK, Drift
<1>22. CASE UNCHANGED vars
    BY <1>22 DEF PhaseInv, vars
<1> QED
    BY <1>1, <1>2, <1>3, <1>4, <1>5, <1>6, <1>7, <1>8, <1>9, <1>10, <1>11, <1>12, <1>13,
       <1>14, <1>15, <1>16, <1>17, <1>18, <1>19, <1>20, <1>21, <1>22 DEF Next, Step

\* The undo list stays behind the loop.
LEMMA OrderStep == IInv /\ [Next]_vars => OrderInv'
<1> SUFFICES ASSUME IInv, [Next]_vars PROVE OrderInv'
    OBVIOUS
<1> USE DEF IInv, progress, history
<1>1. CASE LoopInterrupted
    BY <1>1 DEF OrderInv, LoopInterrupted, StartRollback
<1>2. CASE LoopEnds
    BY <1>2 DEF OrderInv, LoopEnds
<1>3. CASE Capture
    BY <1>3 DEF OrderInv, Capture, Values
<1>4. CASE CaptureFails
    BY <1>4 DEF OrderInv, CaptureFails, StartRollback, FailsUnless, Fault, NoFault
<1>5. CASE ApplySucceeds
  <2>1. i' - 1 = i /\ \A n \in 1..Len(undo') : \E m \in 1..i : undo'[n] = Plan[m]
      BY <1>5, OrderFacts DEF TypeOK, ApplySucceeds
  <2> QED
      BY <2>1 DEF OrderInv
<1>6. CASE ApplySilent
  <2>1. i' - 1 = i /\ \A n \in 1..Len(undo') : \E m \in 1..i : undo'[n] = Plan[m]
      BY <1>6, OrderFacts DEF TypeOK, ApplySilent
  <2> QED
      BY <2>1 DEF OrderInv
<1>7. CASE ApplyFails
    BY <1>7 DEF OrderInv, ApplyFails, StartRollback, FailsUnless, Fault, NoFault, Register
<1>8. CASE ApplyFailsLate
    BY <1>8 DEF OrderInv, ApplyFailsLate, StartRollback, Fault, Register
<1>9. CASE ApplyInterrupted
    BY <1>9 DEF OrderInv, ApplyInterrupted, StartRollback
<1>10. CASE Verified
    BY <1>10 DEF OrderInv, Verified
<1>11. CASE VerifyFails
    BY <1>11 DEF OrderInv, VerifyFails, StartRollback, FailsUnless, Fault, NoFault
<1>12. CASE VerifyInterrupted
    BY <1>12 DEF OrderInv, VerifyInterrupted, StartRollback, FailsUnless, Fault, NoFault
<1>13. CASE CommitNext
    BY <1>13 DEF OrderInv, CommitNext
<1>14. CASE CommitFails
    BY <1>14 DEF OrderInv, CommitFails, StartRollback, Fault
<1>15. CASE CommitEnds
    BY <1>15 DEF OrderInv, CommitEnds
<1>16. CASE UndoSucceeds
    BY <1>16 DEF OrderInv, UndoSucceeds
<1>17. CASE UndoFails
    BY <1>17 DEF OrderInv, UndoFails, FailsUnless, Fault, NoFault
<1>18. CASE RollbackEnds
    BY <1>18 DEF OrderInv, RollbackEnds
<1>19. CASE Deadline
    BY <1>19 DEF OrderInv, Deadline
<1>20. CASE RollbackDeadline
    BY <1>20 DEF OrderInv, RollbackDeadline
<1>21. CASE Drift
    BY <1>21 DEF OrderInv, Drift
<1>22. CASE UNCHANGED vars
    BY <1>22 DEF OrderInv, vars
<1> QED
    BY <1>1, <1>2, <1>3, <1>4, <1>5, <1>6, <1>7, <1>8, <1>9, <1>10, <1>11, <1>12, <1>13,
       <1>14, <1>15, <1>16, <1>17, <1>18, <1>19, <1>20, <1>21, <1>22 DEF Next, Step

\* The undo list is exact: what was captured is what the transaction found, as
\* the current object has not been changed by the transaction before.
LEMMA SavedStep == IInv /\ [Next]_vars => SavedInv'
<1> SUFFICES ASSUME IInv, [Next]_vars PROVE SavedInv'
    OBVIOUS
<1> USE DEF IInv, progress, history
<1>1. CASE LoopInterrupted
    BY <1>1 DEF SavedInv, Current, LoopInterrupted, StartRollback
<1>2. CASE LoopEnds
    BY <1>2 DEF SavedInv, Current, LoopEnds
<1>3. CASE Capture
  <2>1. IsExact(Current) =>
            IF Action[Current] = "create" THEN saved'[Current] = "absent"
            ELSE saved'[Current] = begin[Current] \/ Current \in drift
      BY <1>3, ValueFacts, FreshFacts DEF Capture, SavedInv, TypeOK
  <2>2. \A n \in 1..Len(undo) : undo[n] # Current => saved'[undo[n]] = saved[undo[n]]
      BY <1>3, PlanFacts DEF Capture, TypeOK
  <2>3. UNCHANGED <<undo, begin, drift>> /\ Current' = Current /\ pc' = "apply"
      BY <1>3 DEF Capture, Current
  <2>4. \A o \in stored' : Action[o] = "replace"
      BY <1>3 DEF Capture, SavedInv
  <2>5. ASSUME NEW n \in 1..Len(undo), IsExact(undo[n])
        PROVE  saved'[undo[n]] = begin[undo[n]] \/ undo[n] \in drift
    <3>1. undo[n] # Current
        BY <1>3, <2>5, FreshFacts DEF Capture
    <3> QED
        BY <2>2, <2>5, <3>1 DEF SavedInv
  <2> QED
      BY <2>1, <2>3, <2>4, <2>5 DEF SavedInv
<1>4. CASE CaptureFails
    BY <1>4 DEF SavedInv, Current, CaptureFails, StartRollback
<1>5. CASE ApplySucceeds
  <2>1. Len(undo') = Len(undo) + 1 /\ undo'[Len(undo) + 1] = Current
        /\ \A n \in 1..Len(undo) : undo'[n] = undo[n]
      BY <1>5 DEF ApplySucceeds, Register, TypeOK
  <2>2. UNCHANGED <<saved, stored, begin, drift>> /\ pc' # "apply" /\ pc = "apply"
      BY <1>5 DEF ApplySucceeds
  <2>3. \A n \in 1..Len(undo') : n \in 1..Len(undo) \/ n = Len(undo) + 1
      BY <2>1 DEF TypeOK
  <2>4. IsExact(Current) => saved[Current] = begin[Current] \/ Current \in drift
      BY <1>5, RegisteredFacts DEF ApplySucceeds
  <2> QED
      BY <2>1, <2>2, <2>3, <2>4 DEF SavedInv
<1>6. CASE ApplySilent
  <2>1. Len(undo') = Len(undo) + 1 /\ undo'[Len(undo) + 1] = Current
        /\ \A n \in 1..Len(undo) : undo'[n] = undo[n]
      BY <1>6 DEF ApplySilent, Register, TypeOK
  <2>2. UNCHANGED <<saved, stored, begin, drift>> /\ pc' # "apply" /\ pc = "apply"
      BY <1>6 DEF ApplySilent
  <2>3. \A n \in 1..Len(undo') : n \in 1..Len(undo) \/ n = Len(undo) + 1
      BY <2>1 DEF TypeOK
  <2>4. IsExact(Current) => saved[Current] = begin[Current] \/ Current \in drift
      BY <1>6, RegisteredFacts DEF ApplySilent
  <2> QED
      BY <2>1, <2>2, <2>3, <2>4 DEF SavedInv
<1>7. CASE ApplyFails
  <2>1. CASE Register
    <3>1. Len(undo') = Len(undo) + 1 /\ undo'[Len(undo) + 1] = Current
          /\ \A n \in 1..Len(undo) : undo'[n] = undo[n]
        BY <2>1 DEF Register, TypeOK
    <3>2. UNCHANGED <<saved, stored, begin, drift>> /\ pc' # "apply" /\ pc = "apply"
        BY <1>7 DEF ApplyFails, StartRollback
    <3>3. \A n \in 1..Len(undo') : n \in 1..Len(undo) \/ n = Len(undo) + 1
        BY <3>1 DEF TypeOK
    <3>4. Action[Current] = "replace"
        BY <1>7, <2>1, <3>1 DEF ApplyFails, SavedInv, TypeOK
    <3>5. IsExact(Current) => saved[Current] = begin[Current] \/ Current \in drift
        BY <3>2, <3>4, RegisteredFacts
    <3> QED
        BY <3>1, <3>2, <3>3, <3>5 DEF SavedInv
  <2>2. CASE UNCHANGED undo
      BY <1>7, <2>2 DEF SavedInv, ApplyFails, StartRollback
  <2> QED
      BY <1>7, <2>1, <2>2 DEF ApplyFails
<1>8. CASE ApplyFailsLate
  <2>1. CASE Register
    <3>1. Len(undo') = Len(undo) + 1 /\ undo'[Len(undo) + 1] = Current
          /\ \A n \in 1..Len(undo) : undo'[n] = undo[n]
        BY <2>1 DEF Register, TypeOK
    <3>2. UNCHANGED <<saved, stored, begin, drift>> /\ pc' # "apply" /\ pc = "apply"
        BY <1>8 DEF ApplyFailsLate, StartRollback
    <3>3. \A n \in 1..Len(undo') : n \in 1..Len(undo) \/ n = Len(undo) + 1
        BY <3>1 DEF TypeOK
    <3>4. Action[Current] = "replace"
        BY <1>8, <2>1, <3>1 DEF ApplyFailsLate, SavedInv, TypeOK
    <3>5. IsExact(Current) => saved[Current] = begin[Current] \/ Current \in drift
        BY <3>2, <3>4, RegisteredFacts
    <3> QED
        BY <3>1, <3>2, <3>3, <3>5 DEF SavedInv
  <2>2. CASE UNCHANGED undo
      BY <1>8, <2>2 DEF SavedInv, ApplyFailsLate, StartRollback
  <2> QED
      BY <1>8, <2>1, <2>2 DEF ApplyFailsLate
<1>9. CASE ApplyInterrupted
    BY <1>9 DEF SavedInv, Current, ApplyInterrupted, StartRollback
<1>10. CASE Verified
    BY <1>10 DEF SavedInv, Current, Verified
<1>11. CASE VerifyFails
    BY <1>11 DEF SavedInv, Current, VerifyFails, StartRollback
<1>12. CASE VerifyInterrupted
    BY <1>12 DEF SavedInv, Current, VerifyInterrupted, StartRollback
<1>13. CASE CommitNext
    BY <1>13 DEF SavedInv, Current, CommitNext
<1>14. CASE CommitFails
    BY <1>14 DEF SavedInv, Current, CommitFails, StartRollback, Fault
<1>15. CASE CommitEnds
    BY <1>15 DEF SavedInv, Current, CommitEnds
<1>16. CASE UndoSucceeds
    BY <1>16 DEF SavedInv, Current, UndoSucceeds
<1>17. CASE UndoFails
    BY <1>17 DEF SavedInv, Current, UndoFails, FailsUnless, Fault, NoFault
<1>18. CASE RollbackEnds
    BY <1>18 DEF SavedInv, Current, RollbackEnds
<1>19. CASE Deadline
    BY <1>19 DEF SavedInv, Current, Deadline
<1>20. CASE RollbackDeadline
    BY <1>20 DEF SavedInv, Current, RollbackDeadline
<1>21. CASE Drift
    BY <1>21 DEF SavedInv, Current, Drift
<1>22. CASE UNCHANGED vars
    BY <1>22 DEF SavedInv, Current, vars
<1> QED
    BY <1>1, <1>2, <1>3, <1>4, <1>5, <1>6, <1>7, <1>8, <1>9, <1>10, <1>11, <1>12, <1>13,
       <1>14, <1>15, <1>16, <1>17, <1>18, <1>19, <1>20, <1>21, <1>22 DEF Next, Step

\* No step makes a difference that nothing accounts for.
LEMMA AccountedStep == IInv /\ [Next]_vars => Accounted'
<1> SUFFICES ASSUME IInv, [Next]_vars PROVE Accounted'
    OBVIOUS
<1> USE DEF IInv, progress, history
<1>1. CASE LoopInterrupted
  <2>1. Pending' = Pending /\ UNCHANGED <<host, history>> /\ exit = "none"
      BY <1>1, PendingFacts DEF LoopInterrupted, StartRollback, PhaseInv
  <2> QED
      BY <2>1 DEF Accounted
<1>2. CASE LoopEnds
  <2>1. Pending' = Pending /\ UNCHANGED <<host, exit, history>>
      BY <1>2, PendingFacts DEF LoopEnds
  <2> QED
      BY <2>1 DEF Accounted
<1>3. CASE Capture
  <2>1. Pending' = Pending /\ UNCHANGED <<host, exit, history>>
      BY <1>3, PendingFacts DEF Capture
  <2> QED
      BY <2>1 DEF Accounted
<1>4. CASE CaptureFails
  <2>1. Pending' = Pending /\ UNCHANGED <<host, history>> /\ exit = "none"
      BY <1>4, PendingFacts DEF CaptureFails, StartRollback, PhaseInv
  <2> QED
      BY <2>1 DEF Accounted
<1>5. CASE ApplySucceeds
  <2>1. Pending' = Pending \cup {Current} /\ UNCHANGED <<exit, history>>
      BY <1>5, PendingRegister DEF ApplySucceeds
  <2>2. \A o \in Objects : o # Current => host'[o] = host[o]
      BY <1>5 DEF ApplySucceeds, Effect, Change, TypeOK
  <2> QED
      BY <2>1, <2>2 DEF Accounted
<1>6. CASE ApplySilent
  <2>1. Pending' = Pending \cup {Current} /\ UNCHANGED <<exit, history>>
      BY <1>6, PendingRegister DEF ApplySilent
  <2>2. \A o \in Objects : o # Current => host'[o] = host[o]
      BY <1>6 DEF ApplySilent, Effect, Change, TypeOK
  <2> QED
      BY <2>1, <2>2 DEF Accounted
<1>7. CASE ApplyFails
  <2>1. Pending \subseteq Pending' /\ UNCHANGED <<host, history>> /\ exit = "none"
      BY <1>7, PendingFacts, PendingRegister DEF ApplyFails, StartRollback, PhaseInv
  <2> QED
      BY <2>1 DEF Accounted
<1>8. CASE ApplyFailsLate
  <2>1. /\ Pending \subseteq Pending' /\ blind \subseteq blind'
        /\ Current \in Pending' \cup blind'
      BY <1>8, PendingFacts, PendingRegister DEF ApplyFailsLate, StartRollback
  <2>2. \A o \in Objects : o # Current => host'[o] = host[o]
      BY <1>8 DEF ApplyFailsLate, Effect, Change, TypeOK
  <2>3. UNCHANGED <<begin, lost, drift>> /\ exit = "none"
      BY <1>8 DEF ApplyFailsLate, PhaseInv
  <2> QED
      BY <2>1, <2>2, <2>3 DEF Accounted
<1>9. CASE ApplyInterrupted
  <2>1. Pending' = Pending /\ blind \subseteq blind'
      BY <1>9, PendingFacts DEF ApplyInterrupted, StartRollback
  <2>2. \A o \in Objects : o \in blind' \/ host'[o] = host[o]
      BY <1>9 DEF ApplyInterrupted, Effect, Change, TypeOK
  <2>3. UNCHANGED <<begin, lost, drift>> /\ exit = "none"
      BY <1>9 DEF ApplyInterrupted, PhaseInv
  <2> QED
      BY <2>1, <2>2, <2>3 DEF Accounted
<1>10. CASE Verified
  <2>1. Pending' = Pending /\ UNCHANGED <<host, exit, history>>
      BY <1>10, PendingFacts DEF Verified
  <2> QED
      BY <2>1 DEF Accounted
<1>11. CASE VerifyFails
  <2>1. Pending' = Pending /\ UNCHANGED <<host, history>> /\ exit = "none"
      BY <1>11, PendingFacts DEF VerifyFails, StartRollback, PhaseInv
  <2> QED
      BY <2>1 DEF Accounted
<1>12. CASE VerifyInterrupted
  <2>1. Pending' = Pending /\ UNCHANGED <<host, history>> /\ exit = "none"
      BY <1>12, PendingFacts DEF VerifyInterrupted, StartRollback, PhaseInv
  <2> QED
      BY <2>1 DEF Accounted
<1>13. CASE CommitNext
  <2>1. Pending' = Pending /\ UNCHANGED <<host, exit, history>>
      BY <1>13, PendingFacts DEF CommitNext
  <2> QED
      BY <2>1 DEF Accounted
<1>14. CASE CommitFails
  <2>1. Pending' = Pending /\ UNCHANGED <<host, history>> /\ exit = "none"
      BY <1>14, PendingFacts DEF CommitFails, StartRollback, PhaseInv
  <2> QED
      BY <2>1 DEF Accounted
<1>15. CASE CommitEnds
    BY <1>15 DEF Accounted, Pending, CommitEnds
<1>16. CASE UndoSucceeds
  <2>1. k <= Len(undo) /\ Last \in Objects /\ Pending \subseteq Pending' \cup {Last}
      BY <1>16, LastFacts, PendingUndo DEF UndoSucceeds, PhaseInv
  <2>2. IsExact(Last) => host'[Last] = begin[Last] \/ Last \in drift
      BY <1>16, <2>1 DEF UndoSucceeds, Restored, IsExact, SavedInv, Last, TypeOK
  <2>3. \A o \in Objects : o # Last => host'[o] = host[o]
      BY <1>16 DEF UndoSucceeds, TypeOK
  <2>4. UNCHANGED <<exit, history>>
      BY <1>16 DEF UndoSucceeds
  <2> QED
      BY <2>1, <2>2, <2>3, <2>4 DEF Accounted
<1>17. CASE UndoFails
  <2>1. k <= Len(undo) /\ Pending \subseteq Pending' \cup {Last}
      BY <1>17, PendingUndo DEF UndoFails, PhaseInv
  <2>2. \A o \in Objects : o # Last => host'[o] = host[o]
      BY <1>17 DEF UndoFails, TypeOK
  <2>3. UNCHANGED <<exit, begin, blind, drift>> /\ lost' = lost \cup {Last}
      BY <1>17 DEF UndoFails
  <2> QED
      BY <2>1, <2>2, <2>3 DEF Accounted
<1>18. CASE RollbackEnds
    BY <1>18 DEF Accounted, Pending, RollbackEnds
<1>19. CASE Deadline
    BY <1>19 DEF Accounted, Pending, Deadline
<1>20. CASE RollbackDeadline
    BY <1>20 DEF Accounted, Pending, RollbackDeadline
<1>21. CASE Drift
    BY <1>21 DEF Accounted, Pending, Drift
<1>22. CASE UNCHANGED vars
    BY <1>22 DEF Accounted, Pending, vars
<1> QED
    BY <1>1, <1>2, <1>3, <1>4, <1>5, <1>6, <1>7, <1>8, <1>9, <1>10, <1>11, <1>12, <1>13,
       <1>14, <1>15, <1>16, <1>17, <1>18, <1>19, <1>20, <1>21, <1>22 DEF Next, Step

\* What the verification saw stands until the transaction ends, unless
\* somebody else changes it: the commit touches no object.
LEMMA VerifiedStep == IInv /\ VerifiedInv /\ [Next]_vars => VerifiedInv'
<1> SUFFICES ASSUME IInv, VerifiedInv, [Next]_vars PROVE VerifiedInv'
    OBVIOUS
<1> USE DEF IInv, progress, history
<1>1. CASE LoopInterrupted
    BY <1>1 DEF VerifiedInv, PhaseInv, LoopInterrupted, StartRollback
<1>2. CASE LoopEnds
    BY <1>2 DEF VerifiedInv, PhaseInv, LoopEnds
<1>3. CASE Capture
    BY <1>3 DEF VerifiedInv, PhaseInv, Capture, Values
<1>4. CASE CaptureFails
    BY <1>4 DEF VerifiedInv, PhaseInv, CaptureFails, StartRollback, FailsUnless, Fault,
       NoFault
<1>5. CASE ApplySucceeds
    BY <1>5 DEF VerifiedInv, PhaseInv, ApplySucceeds, Register
<1>6. CASE ApplySilent
    BY <1>6 DEF VerifiedInv, PhaseInv, ApplySilent, Register, Fault
<1>7. CASE ApplyFails
    BY <1>7 DEF VerifiedInv, PhaseInv, ApplyFails, StartRollback, FailsUnless, Fault,
       NoFault, Register
<1>8. CASE ApplyFailsLate
    BY <1>8 DEF VerifiedInv, PhaseInv, ApplyFailsLate, StartRollback, Fault, Register
<1>9. CASE ApplyInterrupted
    BY <1>9 DEF VerifiedInv, PhaseInv, ApplyInterrupted, StartRollback
<1>10. CASE Verified
    BY <1>10 DEF VerifiedInv, Passes, Verified
<1>11. CASE VerifyFails
    BY <1>11 DEF VerifiedInv, PhaseInv, VerifyFails, StartRollback, FailsUnless, Fault,
       NoFault
<1>12. CASE VerifyInterrupted
    BY <1>12 DEF VerifiedInv, PhaseInv, VerifyInterrupted, StartRollback, FailsUnless,
       Fault, NoFault
<1>13. CASE CommitNext
    BY <1>13 DEF VerifiedInv, Passes, CommitNext
<1>14. CASE CommitFails
    BY <1>14 DEF VerifiedInv, PhaseInv, CommitFails, StartRollback, Fault
<1>15. CASE CommitEnds
    BY <1>15 DEF VerifiedInv, Passes, CommitEnds
<1>16. CASE UndoSucceeds
    BY <1>16 DEF VerifiedInv, PhaseInv, UndoSucceeds
<1>17. CASE UndoFails
    BY <1>17 DEF VerifiedInv, PhaseInv, UndoFails
<1>18. CASE RollbackEnds
    BY <1>18 DEF VerifiedInv, PhaseInv, TypeOK, RollbackEnds
<1>19. CASE Deadline
    BY <1>19 DEF VerifiedInv, Passes, Deadline
<1>20. CASE RollbackDeadline
    BY <1>20 DEF VerifiedInv, Passes, RollbackDeadline
<1>21. CASE Drift
  <2>1. \A o \in Objects : o \in drift' \/ (host'[o] = host[o] /\ o \notin drift)
      BY <1>21 DEF Drift, TypeOK
  <2>2. UNCHANGED <<pc, exit>> /\ drift \subseteq drift'
      BY <1>21 DEF Drift
  <2> QED
      BY <2>1, <2>2, PlanFacts DEF VerifiedInv, Passes
<1>22. CASE UNCHANGED vars
    BY <1>22 DEF VerifiedInv, Passes, vars
<1> QED
    BY <1>1, <1>2, <1>3, <1>4, <1>5, <1>6, <1>7, <1>8, <1>9, <1>10, <1>11, <1>12, <1>13,
       <1>14, <1>15, <1>16, <1>17, <1>18, <1>19, <1>20, <1>21, <1>22 DEF Next, Step

-----------------------------------------------------------------------------
\* The invariant is inductive.
LEMMA InductiveInv == Spec => []IInv
<1>1. IInv /\ [Next]_vars => IInv'
    BY TypeStep, PhaseStep, OrderStep, SavedStep, AccountedStep DEF IInv
<1> QED
    BY InitInv, <1>1, PTL DEF Spec

\* Every variable of the transaction keeps its type, whatever the plan: in
\* particular the loop, the undo list and the two uses of the loop index k in
\* Commit and Rollback stay within bounds.
THEOREM TypeCorrect == Spec => []TypeOK
<1>1. IInv => TypeOK
    BY DEF IInv
<1> QED
    BY InductiveInv, <1>1, PTL

\* At every moment of every transaction of the code in transaction.go, each
\* difference from the host it found has a pending or failed undo, or was made
\* by an operation that returned an error or by somebody else.
THEOREM AlwaysAccounted == Spec => []Accounted
<1>1. IInv => Accounted
    BY DEF IInv
<1> QED
    BY InductiveInv, <1>1, PTL

\* A failed transaction of executeMutation whose message does not speak of the
\* rollback leaves the host as it found it, but for the objects of operations
\* that failed after their effect and of somebody else.
THEOREM RestoredOrReported == Spec => []RestoredUnlessReported
<1>1. IInv => RestoredUnlessReported
  <2> SUFFICES ASSUME IInv, pc = "done", exit = "failed", ~reported
               PROVE  \A o \in Objects :
                         IsExact(o) => host[o] = begin[o] \/ o \in blind \cup drift
      BY DEF RestoredUnlessReported
  <2>1. lost = {} /\ k = 0
      BY DEF IInv, PhaseInv
  <2>2. Pending = {}
      BY <2>1 DEF Pending
  <2> QED
      BY <2>1, <2>2 DEF IInv, Accounted
<1> QED
    BY InductiveInv, <1>1, PTL

\* A transaction that says applied had every planned object pass its check
\* after the last change, and every one still does that nobody else touched.
THEOREM AppliedVerified == Spec => []AppliedIsVerified
<1>1. Init => VerifiedInv
    BY DEF Init, VerifiedInv
<1>2. VerifiedInv => AppliedIsVerified
    BY DEF VerifiedInv, AppliedIsVerified
<1> QED
    BY <1>1, <1>2, InductiveInv, VerifiedStep, PTL DEF Spec

-----------------------------------------------------------------------------
(* The order of changes and undos: what is needed stands as long as what     *)
(* needs it, an undo is not in the way of another one, a plan that nothing   *)
(* disturbs is applied, and every transaction takes a bounded number of      *)
(* steps.                                                                    *)

\* Nothing failed after its effect, no undo failed, and nobody else interfered.
Clean == blind \cup lost \cup drift = {}

\* Nothing failed, nobody else interfered and the rollback has time.
Quiet == faults = MaxFaults /\ blind \cup drift = {} /\ ~rbExpired

\* Neither a failure nor a deadline nor somebody else can end the application.
Good == faults = MaxFaults /\ drift = {} /\ ~expired /\ Feasible

\* Each change registers one undo at most.
ListInv ==
    /\ Len(undo) <= (IF pc \in {"loop", "apply"} THEN i - 1 ELSE Len(Plan))
    /\ \A m, n \in 1..Len(undo) : undo[m] = undo[n] => m = n

\* What the transaction found is not what is compiled, and what hangs on
\* something was found with it.
BeginInv ==
    /\ begin \in [Objects -> {"absent", "old"}]
    /\ \A o \in Objects : Action[o] = "upgrade-cached" => begin[o] = "old"
    /\ \A d \in Pins : begin[d[1]] = "old" => begin[d[2]] = "old"

\* While nobody else interferes: no undo makes an object new, an object is as
\* it was found, new or removed, and the changes to come find it as it was.
FoundInv ==
    drift = {} =>
        /\ \A o \in Objects : saved[o] # "new" /\ host[o] \in {begin[o], "new", "absent"}
        /\ pc \in {"loop", "apply"} =>
              \A n \in i..Len(Plan) : host[Plan[n]] = begin[Plan[n]]

\* What is new has its undo pending.
HeldInv == Clean /\ exit # "applied" => \A o \in Objects : host[o] = "new" => o \in Pending

\* The undo of what is new comes before the removal of what it needs.
UndoneFirst ==
    Clean /\ exit # "applied" =>
        \A d \in Needs, m, n \in 1..Len(undo) :
            /\ undo[m] = d[1] /\ host[d[1]] = "new"
            /\ undo[n] = d[2] /\ saved[d[2]] = "absent"
            => n < m

NeedsInv == BeginInv /\ FoundInv /\ HeldInv /\ UndoneFirst /\ NeedsHold

\* Each pending undo has something to undo: the object is new, or the managed
\* file was missing or has its backup.
Ready(o) ==
    IF Action[o] = "replace" THEN saved[o] = "absent" \/ o \in stored
    ELSE host[o] = "new"
UndoableInv ==
    /\ pc = "apply" /\ Action[Current] = "replace" => Ready(Current)
    /\ Quiet => lost = {}
    /\ Quiet /\ pc \notin {"commit", "done"} => \A o \in Pending : Ready(o)

\* The application goes through: what was changed is new.
GoodInv ==
    Good =>
        /\ pc # "rollback" /\ (pc = "done" => exit = "applied")
        /\ pc \in {"loop", "apply"} => \A n \in 1..(i - 1) : host[Plan[n]] = "new"
        /\ pc \in {"verify", "commit"} => \A n \in 1..Len(Plan) : host[Plan[n]] = "new"
        /\ pc = "apply" /\ Action[Current] = "ensure" => saved[Current] = host[Current]

-----------------------------------------------------------------------------
(* The steps by what they do. *)

\* The steps that touch neither the host nor the undo list.
Idles ==
    \/ LoopInterrupted \/ LoopEnds \/ CaptureFails
    \/ Verified \/ VerifyFails \/ VerifyInterrupted \/ CommitNext \/ CommitFails
    \/ RollbackEnds \/ Deadline \/ RollbackDeadline \/ UNCHANGED vars
Applies == ApplySucceeds \/ ApplySilent \/ ApplyFails \/ ApplyFailsLate \/ ApplyInterrupted
Undoes == UndoSucceeds \/ UndoFails

\* Every step is of one of these kinds.
LEMMA Kinds ==
    ASSUME [Next]_vars
    PROVE  Idles \/ Capture \/ Applies \/ CommitEnds \/ Undoes \/ Drift
BY DEF Next, Step, Idles, Applies, Undoes

\* An idle step leaves every undo pending, and goes back to no earlier change.
LEMMA IdleFacts ==
    ASSUME IInv, Idles
    PROVE  /\ UNCHANGED <<host, saved, undo, i, history>> /\ Pending' = Pending
           /\ pc' \in {"loop", "apply"} => pc' = pc /\ stored' = stored
           /\ exit' = "applied" <=> exit = "applied"
<1> USE DEF IInv, history, progress, vars
<1>1. UNCHANGED <<host, saved, undo, i, history>>
    BY DEF Idles, LoopInterrupted, LoopEnds, CaptureFails, Verified, VerifyFails,
           VerifyInterrupted, CommitNext, CommitFails, RollbackEnds, Deadline,
           RollbackDeadline
<1>2. pc' \in {"loop", "apply"} => pc' = pc /\ stored' = stored
    BY DEF Idles, LoopInterrupted, LoopEnds, CaptureFails, Verified, VerifyFails,
           VerifyInterrupted, CommitNext, CommitFails, RollbackEnds, Deadline,
           RollbackDeadline, StartRollback
<1>3. exit' = "applied" <=> exit = "applied"
    BY DEF Idles, LoopInterrupted, LoopEnds, CaptureFails, Verified, VerifyFails,
           VerifyInterrupted, CommitNext, CommitFails, RollbackEnds, Deadline,
           RollbackDeadline, StartRollback, PhaseInv
<1>4. \/ pc \notin {"rollback", "done"} /\ (pc' \notin {"rollback", "done"} \/ k' = Len(undo'))
      \/ pc \in {"rollback", "done"} /\ pc' \in {"rollback", "done"} /\ k' = k
    BY DEF Idles, LoopInterrupted, LoopEnds, CaptureFails, Verified, VerifyFails,
           VerifyInterrupted, CommitNext, CommitFails, RollbackEnds, Deadline,
           RollbackDeadline, StartRollback
<1>5. Pending' = Pending
    BY <1>1, <1>4, PendingFacts DEF Pending
<1> QED
    BY <1>1, <1>2, <1>3, <1>5

\* A step of the application changes the current object at most, and registers
\* its undo unless it reports that it may have failed after its effect.
LEMMA ApplyFacts ==
    ASSUME IInv, Applies
    PROVE  /\ pc = "apply" /\ i \in 1..Len(Plan)
           /\ UNCHANGED <<saved, stored, rbExpired, begin, lost, drift>> /\ blind \subseteq blind'
           /\ host' = host \/ (host' = Effect /\ Applicable(Current))
           /\ \/ Register /\ (Action[Current] = "create" => Applicable(Current))
              \/ UNCHANGED undo /\ (blind' = {} => host' = host)
           /\ \/ pc' = "loop" /\ i' = i + 1
              \/ pc' = "rollback" /\ k' = Len(undo') /\ i' = i
           /\ exit = "none" /\ exit' # "applied"
<1> USE DEF IInv, history, StartRollback
<1>1. pc = "apply" /\ i \in 1..Len(Plan) /\ exit = "none"
    BY DEF Applies, ApplySucceeds, ApplySilent, ApplyFails, ApplyFailsLate,
           ApplyInterrupted, PhaseInv, TypeOK
<1>2. CASE ApplySucceeds
    BY <1>1, <1>2 DEF ApplySucceeds
<1>3. CASE ApplySilent
    BY <1>1, <1>3 DEF ApplySilent
<1>4. CASE ApplyFails
  <2>1. Current \in stored => Action[Current] # "create"
      BY DEF SavedInv
  <2> QED
      BY <1>1, <1>4, <2>1 DEF ApplyFails
<1>5. CASE ApplyFailsLate
    BY <1>1, <1>5 DEF ApplyFailsLate
<1>6. CASE ApplyInterrupted
    BY <1>1, <1>6 DEF ApplyInterrupted
<1> QED
    BY <1>2, <1>3, <1>4, <1>5, <1>6 DEF Applies

\* An undo writes its object at most, and is lost if it returns an error.
LEMMA UndoFacts ==
    ASSUME IInv, Undoes
    PROVE  /\ pc = "rollback" /\ pc' = "rollback" /\ k \in 1..Len(undo) /\ k' = k - 1
           /\ UNCHANGED <<undo, saved, stored, rbExpired, exit, begin, blind, drift>>
           /\ lost \subseteq lost' /\ (lost' = {} => UndoSucceeds)
           /\ host' = host \/ host' = [host EXCEPT ![Last] = Restored(Last)]
           /\ Last \in Objects /\ Pending \subseteq Pending' \cup {Last}
           /\ exit # "applied"
<1> USE DEF IInv, history
<1>1. /\ pc = "rollback" /\ pc' = "rollback" /\ k > 0 /\ k' = k - 1
      /\ UNCHANGED <<undo, saved, stored, rbExpired, exit, begin, blind, drift>>
      /\ lost \subseteq lost' /\ (lost' = {} => UndoSucceeds)
      /\ host' = host \/ host' = [host EXCEPT ![Last] = Restored(Last)]
    BY DEF Undoes, UndoSucceeds, UndoFails
<1>2. k \in 1..Len(undo) /\ exit # "applied"
    BY <1>1 DEF PhaseInv, TypeOK
<1>3. Last \in Objects /\ Pending \subseteq Pending' \cup {Last}
    BY <1>1, <1>2, LastFacts, PendingUndo
<1> QED
    BY <1>1, <1>2, <1>3

\* A change that is registered is the last of the list.
LEMMA AppendFacts ==
    ASSUME TypeOK, Register
    PROVE  /\ Len(undo) \in Nat /\ Len(undo') = Len(undo) + 1
           /\ undo'[Len(undo) + 1] = Current
           /\ \A n \in 1..Len(undo) : undo'[n] = undo[n]
           /\ \A n \in 1..Len(undo') : n \in 1..Len(undo) \/ n = Len(undo) + 1
<1>1. /\ Len(undo) \in Nat /\ Len(undo') = Len(undo) + 1
      /\ undo'[Len(undo) + 1] = Current
      /\ \A n \in 1..Len(undo) : undo'[n] = undo[n]
    BY DEF Register, TypeOK
<1> QED
    BY <1>1

\* The current change is in no undo, and no other change is of its object.
LEMMA NotYet ==
    ASSUME IInv, pc \in {"loop", "apply"}, i \in 1..Len(Plan)
    PROVE  /\ \A n \in 1..Len(undo) : undo[n] # Current
           /\ \A n \in 1..Len(Plan) : Plan[n] = Current => n = i
           /\ Current \in Objects
<1>1. \A n \in 1..Len(Plan) : Plan[n] = Current => n = i
    BY PlanAssumption DEF Current
<1>2. \A n \in 1..Len(undo) : undo[n] # Current
  <2> SUFFICES ASSUME NEW n \in 1..Len(undo), undo[n] = Current
               PROVE  FALSE
      OBVIOUS
  <2>1. PICK m \in 1..(i - 1) : undo[n] = Plan[m]
      BY DEF IInv, OrderInv
  <2>2. m \in 1..Len(Plan) /\ m # i
      BY PlanFacts DEF IInv, TypeOK
  <2> QED
      BY <1>1, <2>1, <2>2
<1> QED
    BY <1>1, <1>2, ValueFacts DEF IInv

\* What an operation leaves in the other objects, and in its own.
LEMMA EffectFacts ==
    ASSUME TypeOK, i \in 1..Len(Plan), host' = host \/ host' = Effect
    PROVE  /\ \A o \in Objects : o # Current => host'[o] = host[o]
           /\ host'[Current] \in {host[Current], "new"}
           /\ host' = Effect /\ host[Current] # "absent" => host'[Current] = "new"
           /\ host' = Effect /\ Action[Current] # "upgrade-cached" => host'[Current] = "new"
<1>1. Current \in Objects
    BY ValueFacts
<1> QED
    BY <1>1 DEF Effect, Change, TypeOK

-----------------------------------------------------------------------------
(* The undo list. *)

\* No step registers an undo twice, or more undos than there are changes.
LEMMA ListStep ==
    ASSUME IInv, ListInv, [Next]_vars
    PROVE  ListInv'
<1>1. CASE Idles \/ Capture \/ Undoes \/ Drift
  <2>1. UNCHANGED undo /\ (pc' \in {"loop", "apply"} => pc \in {"loop", "apply"} /\ i' = i)
      BY <1>1, IdleFacts, UndoFacts DEF Capture, Drift, progress
  <2>2. Len(undo) <= Len(Plan)
      BY PlanFacts DEF IInv, TypeOK, ListInv
  <2> QED
      BY <2>1, <2>2 DEF ListInv
<1>2. CASE Applies
  <2>1. i \in 1..Len(Plan) /\ ((pc' = "loop" /\ i' = i + 1) \/ pc' = "rollback") /\ pc = "apply"
      BY <1>2, ApplyFacts
  <2>2. CASE Register
    <3>1. Len(undo') = Len(undo) + 1 /\ Len(undo) \in Nat /\ Len(undo) <= i - 1
        BY <2>1, <2>2, AppendFacts DEF IInv, ListInv
    <3>2. Len(undo') <= (IF pc' \in {"loop", "apply"} THEN i' - 1 ELSE Len(Plan))
        BY <2>1, <3>1, PlanFacts
    <3>3. ASSUME NEW m \in 1..Len(undo'), NEW n \in 1..Len(undo'), undo'[m] = undo'[n]
          PROVE  m = n
        BY <2>1, <2>2, <3>3, AppendFacts, NotYet DEF IInv, ListInv
    <3> QED
        BY <3>2, <3>3 DEF ListInv
  <2>3. CASE UNCHANGED undo
    <3>1. Len(undo) \in Nat /\ Len(undo) <= i - 1
        BY <2>1 DEF IInv, TypeOK, ListInv
    <3>2. Len(undo) <= (IF pc' \in {"loop", "apply"} THEN i' - 1 ELSE Len(Plan))
        BY <2>1, <3>1, PlanFacts
    <3> QED
        BY <2>3, <3>2 DEF ListInv
  <2> QED
      BY <1>2, <2>2, <2>3, ApplyFacts
<1>3. CASE CommitEnds
    BY <1>3, PlanFacts DEF CommitEnds, ListInv
<1> QED
    BY <1>1, <1>2, <1>3, Kinds

-----------------------------------------------------------------------------
(* What needs and what is needed. *)

\* No step changes what the transaction found.
LEMMA BeginStep ==
    ASSUME IInv, BeginInv, [Next]_vars
    PROVE  BeginInv'
<1>1. begin' = begin
    BY IdleFacts, ApplyFacts, UndoFacts, Kinds DEF Capture, CommitEnds, Drift, history
<1> QED
    BY <1>1 DEF BeginInv

\* An undo makes no object new, while nobody else interferes.
LEMMA RestoredOld ==
    ASSUME IInv, BeginInv, FoundInv, drift = {}, k \in 1..Len(undo)
    PROVE  /\ IsExact(Last) => Restored(Last) = saved[Last] /\ saved[Last] = begin[Last]
           /\ Restored(Last) # "new" /\ Restored(Last) \in {begin[Last], "absent"}
<1>1. Last \in Objects
    BY LastFacts DEF IInv
<1>2. CASE IsExact(Last)
  <2>1. Restored(Last) = saved[Last]
      BY <1>2 DEF Restored, IsExact
  <2>2. saved[Last] = begin[Last]
      BY <1>2 DEF IInv, SavedInv, Last
  <2> QED
      BY <1>1, <2>1, <2>2 DEF BeginInv
<1>3. CASE ~IsExact(Last)
  <2>1. saved[Last] # "new"
      BY <1>1 DEF FoundInv
  <2>2. Restored(Last) = "absent"
      BY <1>3, <2>1 DEF Restored, IsExact
  <2> QED
      BY <1>3, <2>2
<1> QED
    BY <1>2, <1>3

\* While nobody else interferes, every change finds its object as it was.
LEMMA FoundStep ==
    ASSUME IInv, BeginInv, FoundInv, [Next]_vars
    PROVE  FoundInv'
<1>1. CASE Idles
    BY <1>1, IdleFacts DEF FoundInv, history
<1>2. CASE Capture
  <2>1. /\ pc = "loop" /\ i \in 1..Len(Plan) /\ UNCHANGED <<host, i, history>>
        /\ saved' = [saved EXCEPT ![Current] =
                       IF Action[Current] \in {"install-cached", "create"} THEN "absent"
                       ELSE host[Current]]
      BY <1>2, PlanFacts DEF Capture, IInv, TypeOK
  <2> SUFFICES ASSUME drift = {} PROVE FoundInv'
      BY <2>1 DEF FoundInv, history
  <2>2. host[Current] = begin[Current] /\ Current \in Objects
      BY <2>1, NotYet DEF FoundInv, Current
  <2>3. \A o \in Objects : saved'[o] # "new"
      BY <2>1, <2>2 DEF FoundInv, BeginInv, IInv, TypeOK
  <2> QED
      BY <2>1, <2>3 DEF FoundInv, history
<1>3. CASE Applies
  <2>1. /\ i \in 1..Len(Plan) /\ pc = "apply" /\ UNCHANGED <<saved, begin, drift>>
        /\ host' = host \/ host' = Effect
        /\ pc' \in {"loop", "apply"} => i' = i + 1
      BY <1>3, ApplyFacts
  <2> SUFFICES ASSUME drift = {} PROVE FoundInv'
      BY <2>1 DEF FoundInv
  <2>2. /\ \A o \in Objects : o # Current => host'[o] = host[o]
        /\ host'[Current] \in {host[Current], "new"} /\ Current \in Objects
      BY <2>1, EffectFacts, NotYet DEF IInv
  <2>3. \A o \in Objects : host'[o] \in {begin[o], "new", "absent"}
      BY <2>2 DEF FoundInv
  <2>4. ASSUME NEW n \in (i + 1)..Len(Plan)
        PROVE  host'[Plan[n]] = begin[Plan[n]]
    <3>1. n \in 1..Len(Plan) /\ n \in i..Len(Plan) /\ n # i
        BY <2>1, PlanFacts
    <3>2. Plan[n] # Current /\ Plan[n] \in Objects
        BY <2>1, <3>1, NotYet, PlanFacts
    <3> QED
        BY <2>1, <2>2, <3>1, <3>2 DEF FoundInv
  <2> QED
      BY <2>1, <2>3, <2>4 DEF FoundInv
<1>4. CASE CommitEnds
    BY <1>4 DEF FoundInv, CommitEnds, history
<1>5. CASE Undoes
  <2>1. /\ pc' = "rollback" /\ k \in 1..Len(undo) /\ UNCHANGED <<saved, begin, drift>>
        /\ host' = host \/ host' = [host EXCEPT ![Last] = Restored(Last)]
      BY <1>5, UndoFacts
  <2> SUFFICES ASSUME drift = {} PROVE FoundInv'
      BY <2>1 DEF FoundInv
  <2>2. Restored(Last) \in {begin[Last], "absent"}
      BY <2>1, RestoredOld
  <2> QED
      BY <2>1, <2>2 DEF FoundInv, IInv, TypeOK
<1>6. CASE Drift
    BY <1>6 DEF FoundInv, Drift
<1> QED
    BY <1>1, <1>2, <1>3, <1>4, <1>5, <1>6, Kinds

\* Between two clean states nothing failed after its effect and no undo failed.
LEMMA CleanFacts ==
    ASSUME IInv, [Next]_vars, Clean'
    PROVE  /\ Clean /\ drift = {} /\ ~Drift
           /\ blind' = {} /\ (Undoes => UndoSucceeds)
<1>1. blind' = {} /\ lost' = {} /\ drift' = {}
    BY DEF Clean
<1>2. Idles \/ Capture \/ CommitEnds => Clean
    BY <1>1, IdleFacts DEF Clean, Capture, CommitEnds, history
<1>3. Applies => Clean
    BY <1>1, ApplyFacts DEF Clean
<1>4. Undoes => Clean
    BY <1>1, UndoFacts DEF Clean
<1>5. ~Drift
    BY <1>1 DEF Drift
<1>6. Undoes => UndoSucceeds
    BY <1>1, UndoFacts
<1>7. Clean
    BY <1>2, <1>3, <1>4, <1>5, Kinds
<1> QED
    BY <1>1, <1>5, <1>6, <1>7 DEF Clean

\* While all is clean, what is new has its undo pending.
LEMMA HeldStep ==
    ASSUME IInv, BeginInv, FoundInv, HeldInv, [Next]_vars
    PROVE  HeldInv'
<1> SUFFICES ASSUME Clean', exit' # "applied", NEW o \in Objects, host'[o] = "new"
             PROVE  o \in Pending'
    BY DEF HeldInv
<1>1. Clean /\ drift = {} /\ ~Drift
    BY CleanFacts
<1>2. CASE Idles
    BY <1>1, <1>2, IdleFacts DEF HeldInv
<1>3. CASE Capture
  <2>1. Pending' = Pending /\ UNCHANGED <<host, exit>>
      BY <1>3, PendingFacts DEF Capture, IInv
  <2> QED
      BY <1>1, <2>1 DEF HeldInv
<1>4. CASE Applies
  <2>1. /\ pc = "apply" /\ i \in 1..Len(Plan) /\ exit # "applied"
        /\ Register \/ (UNCHANGED undo /\ host' = host)
        /\ host' = host \/ host' = Effect
        /\ pc' \notin {"rollback", "done"} \/ k' = Len(undo')
      BY <1>4, ApplyFacts, CleanFacts
  <2>2. CASE Register
    <3>1. Pending' = Pending \cup {Current}
        BY <2>1, <2>2, PendingRegister DEF IInv
    <3>2. o # Current => host'[o] = host[o]
        BY <2>1, EffectFacts DEF IInv
    <3> QED
        BY <1>1, <2>1, <3>1, <3>2 DEF HeldInv
  <2>3. CASE UNCHANGED undo /\ host' = host
    <3>1. Pending' = Pending
        BY <2>1, <2>3, PendingFacts DEF IInv
    <3> QED
        BY <1>1, <2>1, <2>3, <3>1 DEF HeldInv
  <2> QED
      BY <2>1, <2>2, <2>3
<1>5. CASE CommitEnds
    BY <1>5 DEF CommitEnds
<1>6. CASE Undoes
  <2>1. /\ k \in 1..Len(undo) /\ Pending \subseteq Pending' \cup {Last} /\ exit # "applied"
        /\ host' = [host EXCEPT ![Last] = Restored(Last)]
      BY <1>6, UndoFacts, CleanFacts DEF UndoSucceeds
  <2>2. o # Last /\ host'[o] = host[o]
      BY <1>1, <2>1, RestoredOld DEF IInv, TypeOK
  <2> QED
      BY <1>1, <2>1, <2>2 DEF HeldInv
<1> QED
    BY <1>1, <1>2, <1>3, <1>4, <1>5, <1>6, Kinds

\* What is registered for an object will remove it only if it was missing, and
\* then nothing new needs it.
LEMMA RegisterNeeds ==
    ASSUME IInv, BeginInv, FoundInv, NeedsHold, Clean, drift = {}, pc = "apply",
           Action[Current] = "create" => Applicable(Current), i \in 1..Len(Plan),
           NEW d \in Needs, d[2] = Current, saved[Current] = "absent"
    PROVE  host[d[1]] # "new"
<1>1. IsExact(Current) /\ Current \in Objects
    BY NeedsAssumption, NotYet DEF IsExact
<1>2. saved[Current] = begin[Current]
    BY <1>1, RegisteredFacts
<1>3. host[Current] = begin[Current]
    BY <1>1 DEF FoundInv, Current
<1> QED
    BY <1>2, <1>3 DEF NeedsHold, Clean

\* The undo of what is new comes before the removal of what it needs.
LEMMA UndoneFirstStep ==
    ASSUME IInv, BeginInv, FoundInv, UndoneFirst, NeedsHold, [Next]_vars
    PROVE  UndoneFirst'
<1> SUFFICES ASSUME Clean', exit' # "applied", NEW d \in Needs,
                    NEW m \in 1..Len(undo'), NEW n \in 1..Len(undo'),
                    undo'[m] = d[1], host'[d[1]] = "new",
                    undo'[n] = d[2], saved'[d[2]] = "absent"
             PROVE  n < m
    BY DEF UndoneFirst
<1>1. Clean /\ drift = {} /\ ~Drift
    BY CleanFacts
<1>2. d[1] \in Objects /\ d[2] \in Objects
    BY NeedsAssumption
<1>3. CASE Idles
    BY <1>1, <1>3, IdleFacts DEF UndoneFirst
<1>4. CASE Capture
  <2>1. /\ pc = "loop" /\ i \in 1..Len(Plan) /\ UNCHANGED <<host, undo, exit>>
        /\ \A o \in Objects : o # Current => saved'[o] = saved[o]
      BY <1>4, PlanFacts, ValueFacts DEF Capture, IInv, TypeOK
  <2>2. d[2] # Current
      BY <2>1, NotYet
  <2>3. saved'[d[2]] = saved[d[2]]
      BY <1>2, <2>1, <2>2 DEF IInv, TypeOK
  <2> QED
      BY <1>1, <2>1, <2>3 DEF UndoneFirst
<1>5. CASE Applies
  <2>1. /\ pc = "apply" /\ i \in 1..Len(Plan) /\ exit # "applied"
        /\ (Register /\ (Action[Current] = "create" => Applicable(Current)))
           \/ (UNCHANGED undo /\ host' = host)
        /\ host' = host \/ host' = Effect
        /\ UNCHANGED saved
      BY <1>5, ApplyFacts, CleanFacts
  <2>2. CASE Register /\ (Action[Current] = "create" => Applicable(Current))
    <3>1. CASE m \in 1..Len(undo) /\ n \in 1..Len(undo)
      <4>1. undo[m] = d[1] /\ undo[n] = d[2] /\ d[1] # Current
          BY <2>1, <2>2, <3>1, AppendFacts, NotYet DEF IInv
      <4>2. host[d[1]] = "new"
          BY <1>2, <2>1, <4>1, EffectFacts DEF IInv
      <4> QED
          BY <1>1, <2>1, <3>1, <4>1, <4>2 DEF UndoneFirst
    <3>2. CASE n = Len(undo) + 1
      <4>1. d[2] = Current /\ saved[Current] = "absent"
          BY <2>1, <2>2, <3>2, AppendFacts DEF IInv
      <4>2. host[d[1]] # "new"
          BY <1>1, <2>1, <2>2, <4>1, RegisterNeeds
      <4>3. d[1] = Current
          BY <1>2, <2>1, <4>2, EffectFacts DEF IInv
      <4>4. Plan[i] = d[2] /\ Plan[i] = d[1]
          BY <4>1, <4>3 DEF Current
      <4>5. i < i
          BY <2>1, <4>4, NeedsAssumption
      <4> QED
          BY <2>1, <4>5
    <3>3. CASE m = Len(undo) + 1 /\ n \in 1..Len(undo)
        BY <3>3, <2>2, AppendFacts DEF IInv
    <3> QED
        BY <2>2, <3>1, <3>2, <3>3, AppendFacts DEF IInv
  <2>3. CASE UNCHANGED undo /\ host' = host
      BY <1>1, <2>1, <2>3 DEF UndoneFirst
  <2> QED
      BY <2>1, <2>2, <2>3
<1>6. CASE CommitEnds
    BY <1>6 DEF CommitEnds
<1>7. CASE Undoes
  <2>1. /\ k \in 1..Len(undo) /\ UNCHANGED <<undo, saved>> /\ exit # "applied"
        /\ host' = [host EXCEPT ![Last] = Restored(Last)]
      BY <1>7, UndoFacts, CleanFacts DEF UndoSucceeds
  <2>2. d[1] # Last /\ host'[d[1]] = host[d[1]]
      BY <1>1, <1>2, <2>1, RestoredOld DEF IInv, TypeOK
  <2> QED
      BY <1>1, <2>1, <2>2 DEF UndoneFirst
<1> QED
    BY <1>1, <1>3, <1>4, <1>5, <1>6, <1>7, Kinds

\* No step takes from a new object what it needs.
LEMMA NeedsHoldStep ==
    ASSUME IInv, NeedsInv, [Next]_vars
    PROVE  NeedsHold'
<1> USE DEF NeedsInv
<1> SUFFICES ASSUME Clean', NEW d \in Needs, host'[d[1]] = "new"
             PROVE  host'[d[2]] # "absent"
    BY DEF NeedsHold, Clean
<1>1. Clean /\ drift = {} /\ ~Drift
    BY CleanFacts
<1>2. d[1] \in Objects /\ d[2] \in Objects
    BY NeedsAssumption
<1>3. CASE host' = host
    BY <1>1, <1>3 DEF NeedsHold, Clean
<1>4. CASE Applies /\ host' # host
  <2>1. /\ i \in 1..Len(Plan) /\ host' = Effect /\ Applicable(Current)
      BY <1>4, ApplyFacts
  <2>2. host[d[2]] # "absent"
    <3>1. CASE d[1] = Current
        BY <2>1, <3>1 DEF Applicable
    <3>2. CASE d[1] # Current
      <4>1. host[d[1]] = "new"
          BY <1>2, <2>1, <3>2, EffectFacts DEF IInv
      <4> QED
          BY <1>1, <4>1 DEF NeedsHold, Clean
    <3> QED
        BY <3>1, <3>2
  <2> QED
      BY <1>2, <2>1, <2>2, EffectFacts DEF IInv
<1>5. CASE Undoes /\ host' # host
  <2>1. /\ k \in 1..Len(undo) /\ exit # "applied" /\ pc = "rollback"
        /\ host' = [host EXCEPT ![Last] = Restored(Last)] /\ Last = undo[k]
      BY <1>5, UndoFacts DEF Last
  <2>2. d[1] # Last /\ host[d[1]] = "new"
      BY <1>1, <1>2, <2>1, RestoredOld DEF IInv, TypeOK
  <2>3. CASE d[2] # Last
      BY <1>1, <1>2, <2>1, <2>2, <2>3 DEF NeedsHold, Clean, IInv, TypeOK
  <2>4. CASE d[2] = Last /\ saved[Last] # "absent"
    <3>1. IsExact(Last)
        BY <2>4, NeedsAssumption DEF IsExact
    <3> QED
        BY <1>1, <1>2, <2>1, <2>4, <3>1, RestoredOld DEF IInv, TypeOK
  <2>5. CASE d[2] = Last /\ saved[Last] = "absent"
    <3>1. d[1] \in Pending
        BY <1>1, <1>2, <2>1, <2>2 DEF HeldInv
    <3>2. PICK m \in 1..k : undo[m] = d[1]
        BY <2>1, <3>1 DEF Pending
    <3>3. m \in 1..Len(undo)
        BY <2>1
    <3>4. k < m
        BY <1>1, <2>1, <2>2, <2>5, <3>2, <3>3 DEF UndoneFirst
    <3> QED
        BY <2>1, <3>2, <3>4
  <2> QED
      BY <2>3, <2>4, <2>5
<1> QED
    BY <1>1, <1>3, <1>4, <1>5, IdleFacts, Kinds DEF Capture, CommitEnds

\* The parts keep each other.
LEMMA NeedsStep == IInv /\ NeedsInv /\ [Next]_vars => NeedsInv'
BY BeginStep, FoundStep, HeldStep, UndoneFirstStep, NeedsHoldStep DEF NeedsInv

\* At the start nothing is new.
LEMMA NeedsInit == Init => NeedsInv
<1> SUFFICES ASSUME Init PROVE NeedsInv
    OBVIOUS
<1>1. begin \in [Objects -> {"absent", "old"}] /\ host = begin /\ saved = begin /\ undo = <<>>
    BY DEF Init
<1>2. BeginInv
    BY DEF Init, BeginInv
<1>3. FoundInv
    BY <1>1, PlanFacts DEF FoundInv
<1>4. HeldInv /\ UndoneFirst
    BY <1>1, NeedsAssumption DEF HeldInv, UndoneFirst
<1>5. NeedsHold
    BY <1>1, NeedsAssumption DEF NeedsHold
<1> QED
    BY <1>2, <1>3, <1>4, <1>5 DEF NeedsInv

-----------------------------------------------------------------------------
(* An undo that is not disturbed succeeds. *)

\* A step that leaves every failure to come follows no failure.
LEMMA FaultBack ==
    ASSUME IInv, [Next]_vars, faults' = MaxFaults
    PROVE  faults = MaxFaults /\ NoFault /\ ~Fault
<1> USE DEF IInv, history, progress, vars
<1>1. faults \in 0..MaxFaults /\ MaxFaults \in Nat
    BY BoundAssumption DEF TypeOK
<1>2. Fault \/ NoFault
    BY DEF Next, Step, LoopInterrupted, LoopEnds, Capture, CaptureFails, ApplySucceeds,
           ApplySilent, ApplyFails, ApplyFailsLate, ApplyInterrupted, Verified, VerifyFails,
           VerifyInterrupted, CommitNext, CommitFails, CommitEnds, UndoSucceeds, UndoFails,
           RollbackEnds, Deadline, RollbackDeadline, Drift, FailsUnless, NoFault
<1>3. ~Fault
    BY <1>1 DEF Fault
<1> QED
    BY <1>2, <1>3 DEF NoFault

\* Without a failure, an idle step neither leaves the commit nor loses a backup.
LEMMA QuietIdle ==
    ASSUME IInv, [Next]_vars, Idles, faults' = MaxFaults, pc' \notin {"commit", "done"}
    PROVE  pc \notin {"commit", "done"} /\ stored' = stored
BY FaultBack DEF Idles, LoopInterrupted, LoopEnds, CaptureFails, Verified, VerifyFails,
   VerifyInterrupted, CommitNext, CommitFails, RollbackEnds, Deadline,
   RollbackDeadline, StartRollback, vars, progress

\* What was quiet after a step was quiet before it.
LEMMA QuietBack ==
    ASSUME IInv, [Next]_vars, Quiet'
    PROVE  Quiet /\ ~Drift
<1>1. faults = MaxFaults
    BY FaultBack DEF Quiet
<1>2. ~Drift
    BY DEF Quiet, Drift
<1>3. ~rbExpired
    BY DEF Quiet, Next, Step, LoopInterrupted, LoopEnds, Capture, CaptureFails,
           ApplySucceeds, ApplySilent, ApplyFails, ApplyFailsLate, ApplyInterrupted,
           Verified, VerifyFails, VerifyInterrupted, CommitNext, CommitFails, CommitEnds,
           UndoSucceeds, UndoFails, RollbackEnds, Deadline, RollbackDeadline, Drift, vars
<1>4. blind = {} /\ drift = {}
    BY <1>2, IdleFacts, ApplyFacts, UndoFacts, Kinds
       DEF Quiet, Capture, CommitEnds, history
<1> QED
    BY <1>1, <1>2, <1>3, <1>4 DEF Quiet

\* The undo that is next has its object, its backup and its time, and nothing
\* hangs on what it removes.
LEMMA UndoableFacts ==
    ASSUME IInv, NeedsInv, UndoableInv, Quiet, pc = "rollback", k \in 1..Len(undo)
    PROVE  Undoable(Last)
<1>1. Clean /\ exit # "applied" /\ drift = {} /\ ~rbExpired
    BY DEF UndoableInv, Quiet, Clean, IInv, PhaseInv
<1>2. Last \in Objects /\ Last = undo[k]
    BY LastFacts DEF IInv, Last
<1>3. Ready(Last)
  <2>1. Last \in Pending
      BY DEF Pending, Last
  <2> QED
      BY <2>1 DEF UndoableInv
<1>4. ASSUME NEW d \in Pins, d[2] = Last, saved[Last] = "absent"
      PROVE  host[d[1]] = "absent"
  <2>1. d \in Needs /\ d[1] \in Objects /\ IsExact(Last)
      BY <1>4, NeedsAssumption DEF IsExact
  <2>2. begin[Last] = "absent"
      BY <1>1, <1>4, <2>1, RestoredOld DEF NeedsInv
  <2>3. begin[d[1]] = "absent"
      BY <1>4, <2>1, <2>2 DEF NeedsInv, BeginInv
  <2>4. host[d[1]] # "new"
    <3> SUFFICES ASSUME host[d[1]] = "new" PROVE FALSE
        OBVIOUS
    <3>1. d[1] \in Pending
        BY <1>1, <2>1 DEF NeedsInv, HeldInv
    <3>2. PICK m \in 1..k : undo[m] = d[1]
        BY <3>1 DEF Pending
    <3>3. m \in 1..Len(undo)
        OBVIOUS
    <3>4. k < m
        BY <1>1, <1>2, <1>4, <2>1, <3>2, <3>3 DEF NeedsInv, UndoneFirst
    <3> QED
        BY <3>2, <3>4
  <2> QED
      BY <1>1, <2>1, <2>3, <2>4 DEF NeedsInv, FoundInv
<1> QED
    BY <1>1, <1>3, <1>4 DEF Undoable, Ready

\* No step leaves an undo without what it needs.
LEMMA UndoableStep ==
    ASSUME IInv, ListInv, NeedsInv, UndoableInv, [Next]_vars
    PROVE  UndoableInv'
<1>1. CASE Idles
  <2>1. /\ UNCHANGED <<host, saved, undo, i, history>> /\ Pending' = Pending
        /\ pc' \in {"loop", "apply"} => pc' = pc /\ stored' = stored
      BY <1>1, IdleFacts
  <2>2. pc' = "apply" /\ Action[Current'] = "replace" => Ready(Current)'
      BY <2>1 DEF UndoableInv, Current, Ready
  <2>3. Quiet' => lost' = {}
      BY <2>1, QuietBack DEF UndoableInv, history
  <2>4. Quiet' /\ pc' \notin {"commit", "done"} =>
            pc \notin {"commit", "done"} /\ stored' = stored /\ Quiet
      BY <1>1, QuietIdle, QuietBack DEF Quiet
  <2> QED
      BY <2>1, <2>2, <2>3, <2>4 DEF UndoableInv, Ready
<1>2. CASE Capture
  <2>1. /\ pc = "loop" /\ i \in 1..Len(Plan) /\ UNCHANGED <<host, i, history>>
        /\ Current' = Current /\ Pending' = Pending
      BY <1>2, PlanFacts, PendingFacts DEF Capture, IInv, TypeOK, Current
  <2>2. /\ \A o \in Objects : o # Current => saved'[o] = saved[o]
        /\ stored \subseteq stored'
        /\ Action[Current] = "replace" => saved'[Current] = host[Current]
        /\ Action[Current] = "replace" /\ host[Current] # "absent" => Current \in stored'
      BY <1>2, <2>1, NotYet DEF Capture, IInv, TypeOK
  <2>3. Quiet' => lost' = {}
      BY <2>1, QuietBack DEF UndoableInv, history
  <2>4. ASSUME Quiet', NEW o \in Pending
        PROVE  Ready(o)'
    <3>1. o \in Objects /\ o # Current
      <4>1. PICK n \in 1..Len(undo) : o = undo[n]
          BY <2>1 DEF Pending
      <4> QED
          BY <2>1, <4>1, NotYet, PlanFacts DEF IInv, TypeOK
    <3>2. Ready(o)
        BY <2>1, <2>4, QuietBack DEF UndoableInv
    <3> QED
        BY <2>1, <2>2, <3>1, <3>2 DEF Ready
  <2>5. Action[Current'] = "replace" => Ready(Current)'
      BY <2>1, <2>2 DEF Ready
  <2> QED
      BY <2>1, <2>3, <2>4, <2>5 DEF UndoableInv
<1>3. CASE Applies
  <2>1. /\ pc = "apply" /\ i \in 1..Len(Plan) /\ UNCHANGED <<saved, stored, lost>>
        /\ pc' # "apply" /\ (pc' \notin {"rollback", "done"} \/ k' = Len(undo'))
        /\ host' = host \/ host' = Effect
        /\ Register \/ UNCHANGED undo
      BY <1>3, ApplyFacts
  <2>2. Quiet' => lost' = {}
      BY <2>1, QuietBack DEF UndoableInv
  <2>3. ASSUME Quiet', NEW o \in Pending
        PROVE  Ready(o)'
    <3>1. o \in Objects /\ o # Current
      <4>1. PICK n \in 1..Len(undo) : o = undo[n]
          BY <2>1 DEF Pending
      <4> QED
          BY <2>1, <4>1, NotYet, PlanFacts DEF IInv, TypeOK
    <3>2. Ready(o)
        BY <2>1, <2>3, QuietBack DEF UndoableInv
    <3>3. host'[o] = host[o]
        BY <2>1, <3>1, EffectFacts DEF IInv
    <3> QED
        BY <2>1, <3>2, <3>3 DEF Ready
  <2>4. ASSUME Quiet', Register, NEW o \in {Current}
        PROVE  Ready(o)'
    <3>1. ~Fault /\ drift = {}
        BY <2>4, FaultBack, QuietBack DEF Quiet
    <3>2. undo' # undo
        BY <2>4, AppendFacts DEF IInv
    <3>3. CASE Action[Current] = "replace"
        BY <2>1, <3>3 DEF UndoableInv, Ready
    <3>4. CASE Action[Current] # "replace" /\ ApplySucceeds
      <4>1. host[Current] = begin[Current]
          BY <2>1, <3>1 DEF NeedsInv, FoundInv, Current
      <4>2. Action[Current] = "upgrade-cached" => host[Current] # "absent"
          BY <2>1, <4>1, NotYet DEF NeedsInv, BeginInv
      <4>3. host'[Current] = "new"
          BY <2>1, <3>4, <4>2, EffectFacts DEF ApplySucceeds, IInv
      <4> QED
          BY <3>4, <4>3 DEF Ready
    <3>5. CASE Action[Current] # "replace" /\ ApplyFails
        BY <3>2, <3>5 DEF ApplyFails, IInv, SavedInv
    <3> QED
        BY <1>3, <3>1, <3>2, <3>3, <3>4, <3>5
           DEF Applies, ApplySilent, ApplyFailsLate, ApplyInterrupted
  <2>5. CASE Register
    <3>1. Pending' = Pending \cup {Current}
        BY <2>1, <2>5, PendingRegister DEF IInv
    <3> QED
        BY <2>1, <2>2, <2>3, <2>4, <2>5, <3>1 DEF UndoableInv
  <2>6. CASE UNCHANGED undo
    <3>1. Pending' = Pending
        BY <2>1, <2>6, PendingFacts DEF IInv
    <3> QED
        BY <2>1, <2>2, <2>3, <3>1 DEF UndoableInv
  <2> QED
      BY <2>1, <2>5, <2>6
<1>4. CASE CommitEnds
  <2>1. pc' = "done" /\ lost' = lost
      BY <1>4 DEF CommitEnds, history
  <2> QED
      BY <2>1, QuietBack DEF UndoableInv
<1>5. CASE Undoes
  <2>1. /\ pc = "rollback" /\ pc' = "rollback" /\ k \in 1..Len(undo) /\ k' = k - 1
        /\ UNCHANGED <<undo, saved, stored>>
        /\ host' = host \/ host' = [host EXCEPT ![Last] = Restored(Last)]
      BY <1>5, UndoFacts
  <2> SUFFICES ASSUME Quiet'
               PROVE  lost' = {} /\ \A o \in Pending' : Ready(o)'
      BY <2>1 DEF UndoableInv
  <2>2. Quiet /\ ~Fault
      BY QuietBack, FaultBack DEF Quiet
  <2>3. Undoable(Last)
      BY <2>1, <2>2, UndoableFacts
  <2>4. lost' = {}
      BY <1>5, <2>2, <2>3
         DEF Undoes, UndoSucceeds, UndoFails, FailsUnless, UndoableInv, history
  <2>5. ASSUME NEW o \in Pending'
        PROVE  Ready(o)'
    <3>1. PICK n \in 1..(k - 1) : o = undo[n]
        BY <2>1 DEF Pending
    <3>2. n \in 1..Len(undo) /\ n \in 1..k /\ n # k
        BY <2>1
    <3>3. o # Last
        BY <2>1, <3>1, <3>2 DEF ListInv, Last
    <3>4. o \in Pending /\ o \in Objects
        BY <2>1, <3>1, <3>2, PlanFacts DEF Pending, IInv, TypeOK
    <3>5. Ready(o)
        BY <2>1, <2>2, <3>4 DEF UndoableInv
    <3>6. host'[o] = host[o]
        BY <2>1, <3>3, <3>4 DEF IInv, TypeOK
    <3> QED
        BY <2>1, <3>5, <3>6 DEF Ready
  <2> QED
      BY <2>4, <2>5
<1>6. CASE Drift
  <2>1. ~Quiet' /\ UNCHANGED <<pc, i, saved, stored>>
      BY <1>6, QuietBack DEF Drift, progress
  <2> QED
      BY <2>1 DEF UndoableInv, Ready, Current
<1> QED
    BY <1>1, <1>2, <1>3, <1>4, <1>5, <1>6, Kinds

-----------------------------------------------------------------------------
(* An application that is not disturbed goes through. *)

\* What was good after a step was good before it.
LEMMA GoodBack ==
    ASSUME IInv, [Next]_vars, Good'
    PROVE  Good /\ ~Drift /\ ~Fault /\ ~expired'
<1>1. faults = MaxFaults /\ ~Fault
    BY FaultBack DEF Good
<1>2. ~Drift
    BY DEF Good, Drift
<1>3. ~expired
    BY DEF Good, Next, Step, LoopInterrupted, LoopEnds, Capture, CaptureFails,
           ApplySucceeds, ApplySilent, ApplyFails, ApplyFailsLate, ApplyInterrupted,
           Verified, VerifyFails, VerifyInterrupted, CommitNext, CommitFails, CommitEnds,
           UndoSucceeds, UndoFails, RollbackEnds, Deadline, RollbackDeadline, Drift, vars
<1>4. begin' = begin /\ drift = {}
    BY <1>2, IdleFacts, ApplyFacts, UndoFacts, Kinds
       DEF Good, Capture, CommitEnds, history
<1> QED
    BY <1>1, <1>2, <1>3, <1>4 DEF Good, Feasible

\* The next change can be read, since it is as the transaction found it.
LEMMA GoodReadable ==
    ASSUME IInv, NeedsInv, Good, pc = "loop", i \in 1..Len(Plan), IsExact(Current)
    PROVE  Readable(Current)
<1>1. Current \in Objects /\ host[Current] = begin[Current]
    BY NotYet DEF NeedsInv, FoundInv, Good, Current
<1> QED
    BY <1>1 DEF Readable, IsExact, NeedsInv, BeginInv, Good, Feasible

\* It can be applied, since everything before it is new.
LEMMA GoodApplicable ==
    ASSUME IInv, NeedsInv, GoodInv, Good, Planned = Objects,
           pc = "apply", i \in 1..Len(Plan), IsExact(Current)
    PROVE  Applicable(Current) /\ InTime(Current)
<1>1. Current \in Objects /\ host[Current] = begin[Current]
    BY NotYet DEF NeedsInv, FoundInv, Good, Current
<1>2. ASSUME NEW d \in Needs, d[1] = Current
      PROVE  host[d[2]] # "absent"
  <2>1. PICK m \in 1..Len(Plan) : Plan[m] = d[2]
      BY NeedsAssumption DEF Planned
  <2>2. m < i
      BY <1>2, <2>1, NeedsAssumption DEF Current
  <2>3. host[Plan[m]] = "new"
      BY <2>1, <2>2 DEF GoodInv
  <2> QED
      BY <2>1, <2>3
<1>3. Action[Current] = "ensure" => saved[Current] = host[Current]
    BY DEF GoodInv
<1> QED
    BY <1>1, <1>2, <1>3 DEF Applicable, InTime, IsExact, Good, Feasible

\* No step of the code ends an application that nothing disturbs.
LEMMA GoodStep ==
    ASSUME Planned = Objects, \A o \in Objects : IsExact(o),
           IInv, NeedsInv, GoodInv, [Next]_vars
    PROVE  GoodInv'
<1> SUFFICES ASSUME Good'
             PROVE  /\ pc' # "rollback" /\ (pc' = "done" => exit' = "applied")
                    /\ pc' \in {"loop", "apply"} =>
                          \A n \in 1..(i' - 1) : host'[Plan[n]] = "new"
                    /\ pc' \in {"verify", "commit"} =>
                          \A n \in 1..Len(Plan) : host'[Plan[n]] = "new"
                    /\ pc' = "apply" /\ Action[Current'] = "ensure" =>
                          saved'[Current'] = host'[Current']
    BY DEF GoodInv
<1>1. Good /\ ~Drift /\ ~Fault /\ ~expired /\ ~expired' /\ drift = {}
    BY GoodBack DEF Good
<1>2. pc # "rollback"
    BY <1>1 DEF GoodInv
<1> USE DEF progress, history
<1>3. CASE LoopEnds
  <2>1. \A n \in 1..Len(Plan) : n \in 1..(i - 1)
      BY <1>3 DEF LoopEnds, IInv, TypeOK
  <2> QED
      BY <1>1, <1>3, <2>1 DEF LoopEnds, GoodInv
<1>4. CASE Capture
  <2>1. /\ pc = "loop" /\ pc' = "apply" /\ i \in 1..Len(Plan)
        /\ UNCHANGED <<host, i>> /\ Current' = Current
        /\ Action[Current] = "ensure" => saved'[Current] = host[Current]
      BY <1>4, PlanFacts, ValueFacts DEF Capture, IInv, TypeOK, Current
  <2> QED
      BY <1>1, <2>1 DEF GoodInv
<1>5. CASE CaptureFails
  <2>1. pc = "loop" /\ i \in 1..Len(Plan) /\ IsExact(Current)
      BY <1>5, PlanFacts, ValueFacts DEF CaptureFails, IInv, TypeOK
  <2>2. Readable(Current)
      BY <1>1, <2>1, GoodReadable
  <2> QED
      BY <1>1, <1>5, <2>2 DEF CaptureFails, FailsUnless
<1>6. CASE Applies
  <2>1. /\ pc = "apply" /\ i \in 1..Len(Plan) /\ IsExact(Current) /\ Current \in Objects
        /\ host' = host \/ host' = Effect
      BY <1>6, ApplyFacts, ValueFacts DEF IInv
  <2>2. Applicable(Current) /\ InTime(Current)
      BY <1>1, <2>1, GoodApplicable
  <2>3. ApplySucceeds
      BY <1>1, <1>6, <2>2 DEF Applies, ApplySilent, ApplyFails, ApplyFailsLate,
                              ApplyInterrupted, FailsUnless
  <2>4. host[Current] = begin[Current]
      BY <1>1, <2>1 DEF NeedsInv, FoundInv, Current
  <2>5. Action[Current] = "upgrade-cached" => host[Current] # "absent"
      BY <2>1, <2>4 DEF NeedsInv, BeginInv
  <2>6. host'[Current] = "new"
      BY <2>1, <2>3, <2>5, EffectFacts DEF ApplySucceeds, IInv
  <2>7. pc' = "loop" /\ i' = i + 1
      BY <2>3 DEF ApplySucceeds
  <2>8. ASSUME NEW n \in 1..i
        PROVE  host'[Plan[n]] = "new"
    <3>1. n \in 1..Len(Plan) /\ Plan[n] \in Objects
        BY <2>1, PlanFacts
    <3>2. CASE Plan[n] = Current
        BY <2>6, <3>2
    <3>3. CASE Plan[n] # Current
      <4>1. n \in 1..(i - 1)
          BY <2>1, <3>3 DEF Current
      <4>2. host[Plan[n]] = "new"
          BY <1>1, <2>1, <4>1 DEF GoodInv
      <4> QED
          BY <2>1, <3>1, <3>3, <4>2, EffectFacts DEF IInv
    <3> QED
        BY <3>2, <3>3
  <2> QED
      BY <2>1, <2>7, <2>8
<1>7. CASE Verified
    BY <1>1, <1>7 DEF Verified, GoodInv
<1>8. CASE VerifyFails
  <2>1. \A o \in Planned : Passes(o)
      BY <1>1, <1>8 DEF VerifyFails, GoodInv, Passes, Planned
  <2> QED
      BY <1>1, <1>8, <2>1 DEF VerifyFails, FailsUnless
<1>9. CASE CommitNext
    BY <1>1, <1>9 DEF CommitNext, GoodInv
<1>10. CASE CommitEnds
    BY <1>1, <1>10 DEF CommitEnds
<1>11. CASE UNCHANGED vars
    BY <1>1, <1>11 DEF GoodInv, vars, Current
<1>12. ~LoopInterrupted /\ ~VerifyInterrupted /\ ~CommitFails /\ ~RollbackEnds
       /\ ~Deadline /\ ~RollbackDeadline /\ ~Undoes
    BY <1>1, <1>2, UndoFacts DEF LoopInterrupted, VerifyInterrupted, CommitFails,
       RollbackEnds, Deadline, RollbackDeadline, FailsUnless
<1> QED
    BY <1>1, <1>3, <1>4, <1>5, <1>6, <1>7, <1>8, <1>9, <1>10, <1>11, <1>12, Kinds DEF Idles

-----------------------------------------------------------------------------
(* Every step brings the end nearer. *)

\* The steps that are left, by where the transaction is.
LEMMA VariantFacts ==
    /\ pc = "loop" => Variant = 2 * Len(Plan) + 5 + 2 * (Len(Plan) + 1 - i)
    /\ pc = "apply" => Variant = 2 * Len(Plan) + 4 + 2 * (Len(Plan) + 1 - i)
    /\ pc = "verify" => Variant = 2 * Len(Plan) + 4
    /\ pc = "commit" => Variant = Len(Plan) + 3 + (Len(undo) + 1 - k)
    /\ pc = "rollback" => Variant = k + 1
    /\ pc = "done" => Variant = 0
BY DEF Variant

\* The same after a step.
LEMMA VariantFactsNext ==
    /\ pc' = "loop" => Variant' = 2 * Len(Plan) + 5 + 2 * (Len(Plan) + 1 - i')
    /\ pc' = "apply" => Variant' = 2 * Len(Plan) + 4 + 2 * (Len(Plan) + 1 - i')
    /\ pc' = "verify" => Variant' = 2 * Len(Plan) + 4
    /\ pc' = "commit" => Variant' = Len(Plan) + 3 + (Len(undo') + 1 - k')
    /\ pc' = "rollback" => Variant' = k' + 1
    /\ pc' = "done" => Variant' = 0
BY DEF Variant

\* The steps of the rollback, and of the commit as far as it has come, are
\* bounded by the number of changes.
LEMMA BoundFacts ==
    ASSUME IInv, ListInv
    PROVE  /\ Len(Plan) \in Nat /\ i \in 1..(Len(Plan) + 1) /\ k \in Nat
           /\ Len(undo) \in Nat /\ Len(undo) <= Len(Plan) /\ k <= Len(undo) + 1
           /\ pc \in {"loop", "apply"} => Len(undo) <= i - 1
<1>1. Len(Plan) \in Nat /\ i \in 1..(Len(Plan) + 1) /\ Len(undo) \in Nat
      /\ k \in 0..(Len(undo) + 1)
    BY PlanFacts DEF IInv, TypeOK
<1>2. Len(undo) <= (IF pc \in {"loop", "apply"} THEN i - 1 ELSE Len(Plan))
    BY DEF ListInv
<1> QED
    BY <1>1, <1>2

\* A rollback that begins is shorter than the rest of the transaction.
LEMMA ShortRollback ==
    ASSUME IInv, ListInv, pc \notin {"rollback", "done"},
           pc' = "rollback", k' = Len(undo'), pc = "commit" => k <= Len(undo),
           undo' = undo \/ (pc = "apply" /\ Register)
    PROVE  Variant' \in 0..(Variant - 1)
<1>1. Len(undo') \in Nat /\ Len(undo') <= Len(Plan) + 1
    BY BoundFacts, AppendFacts DEF IInv
<1>2. pc \in {"loop", "apply", "verify", "commit"}
    BY DEF IInv, TypeOK
<1>3. Variant \in Nat /\ Variant >= Len(Plan) + 4
  <2> USE BoundFacts, VariantFacts
  <2>1. CASE pc = "loop"
      BY <2>1
  <2>2. CASE pc = "apply"
      BY <2>2
  <2>3. CASE pc = "verify"
      BY <2>3
  <2>4. CASE pc = "commit"
      BY <2>4
  <2> QED
      BY <1>2, <2>1, <2>2, <2>3, <2>4
<1>4. Variant' = Len(undo') + 1
    BY VariantFactsNext
<1> QED
    BY <1>1, <1>3, <1>4, BoundFacts

\* Each step of the code takes one at least from what is left.
LEMMA StepAdvances ==
    ASSUME IInv, ListInv, Step
    PROVE  Variant' \in 0..(Variant - 1)
<1>1. CASE LoopInterrupted \/ CaptureFails \/ VerifyFails \/ VerifyInterrupted \/ CommitFails
    BY <1>1, ShortRollback DEF LoopInterrupted, CaptureFails, VerifyFails,
       VerifyInterrupted, CommitFails, StartRollback
<1>2. CASE LoopEnds
  <2>1. pc = "loop" /\ pc' = "verify"
      BY <1>2 DEF LoopEnds
  <2> QED
      BY <2>1, BoundFacts, VariantFacts, VariantFactsNext
<1>3. CASE Capture
  <2>1. pc = "loop" /\ pc' = "apply" /\ i' = i
      BY <1>3 DEF Capture
  <2> QED
      BY <2>1, BoundFacts, VariantFacts, VariantFactsNext
<1>4. CASE Applies
  <2>1. /\ pc = "apply" /\ i \in 1..Len(Plan) /\ (Register \/ UNCHANGED undo)
        /\ (pc' = "loop" /\ i' = i + 1) \/ (pc' = "rollback" /\ k' = Len(undo'))
      BY <1>4, ApplyFacts
  <2>2. CASE pc' = "loop" /\ i' = i + 1
      BY <2>1, <2>2, BoundFacts, VariantFacts, VariantFactsNext
  <2>3. CASE pc' = "rollback" /\ k' = Len(undo')
      BY <2>1, <2>3, ShortRollback
  <2> QED
      BY <2>1, <2>2, <2>3
<1>5. CASE Verified
  <2>1. pc = "verify" /\ pc' = "commit" /\ k' = 1 /\ undo' = undo
      BY <1>5 DEF Verified
  <2> QED
      BY <2>1, BoundFacts, VariantFacts, VariantFactsNext
<1>6. CASE CommitNext
  <2>1. pc = "commit" /\ pc' = "commit" /\ k' = k + 1 /\ undo' = undo /\ k <= Len(undo)
      BY <1>6 DEF CommitNext
  <2>2. Len(Plan) \in Nat /\ Len(undo) \in Nat /\ k \in Nat
      BY BoundFacts
  <2>3. Variant = Len(Plan) + 3 + (Len(undo) + 1 - k)
      BY <2>1, VariantFacts
  <2>4. Variant' = Len(Plan) + 3 + (Len(undo) + 1 - (k + 1))
      BY <2>1, VariantFactsNext
  <2> QED
      BY <2>1, <2>2, <2>3, <2>4
<1>7. CASE CommitEnds
  <2>1. pc = "commit" /\ pc' = "done"
      BY <1>7 DEF CommitEnds
  <2> QED
      BY <2>1, BoundFacts, VariantFacts, VariantFactsNext
<1>8. CASE Undoes
  <2>1. pc = "rollback" /\ pc' = "rollback" /\ k \in 1..Len(undo) /\ k' = k - 1
      BY <1>8, UndoFacts
  <2> QED
      BY <2>1, BoundFacts, VariantFacts, VariantFactsNext
<1>9. CASE RollbackEnds
  <2>1. pc = "rollback" /\ pc' = "done"
      BY <1>9 DEF RollbackEnds
  <2> QED
      BY <2>1, BoundFacts, VariantFacts, VariantFactsNext
<1> QED
    BY <1>1, <1>2, <1>3, <1>4, <1>5, <1>6, <1>7, <1>8, <1>9 DEF Step, Applies, Undoes

-----------------------------------------------------------------------------
\* The list of the undos and the relation of needs hold at every moment.
LEMMA AlwaysOrdered == Spec => [](IInv /\ ListInv /\ NeedsInv)
<1>1. Init => ListInv
    BY PlanFacts DEF Init, ListInv
<1>2. IInv /\ ListInv /\ [Next]_vars => ListInv'
    BY ListStep
<1> QED
    BY <1>1, <1>2, NeedsInit, NeedsStep, InductiveInv, PTL DEF Spec

\* Nothing that executeMutation made stands without what it needs: not while
\* the changes are applied in the order of changePriority, and not while
\* Rollback takes them back in reverse, unless something failed half-way.
THEOREM NeedsAlwaysHold == Spec => []NeedsHold
<1>1. NeedsInv => NeedsHold
    BY DEF NeedsInv
<1> QED
    BY <1>1, AlwaysOrdered, PTL

\* The rollback of a transaction that nothing disturbs cannot fail by its own
\* order: each removal comes after the removal of what hangs on the object.
THEOREM UndosSucceed == Spec => []RollbackUnobstructed
<1>1. Init => UndoableInv
    BY DEF Init, UndoableInv, Pending
<1>2. IInv /\ ListInv /\ NeedsInv /\ UndoableInv /\ [Next]_vars => UndoableInv'
    BY UndoableStep
<1>3. UndoableInv /\ IInv => RollbackUnobstructed
  <2> SUFFICES ASSUME UndoableInv, IInv, lost # {}
               PROVE  faults < MaxFaults \/ blind # {} \/ drift # {} \/ rbExpired
      BY DEF RollbackUnobstructed
  <2>1. faults < MaxFaults \/ faults = MaxFaults
      BY BoundAssumption DEF IInv, TypeOK
  <2> QED
      BY <2>1 DEF UndoableInv, Quiet
<1> QED
    BY <1>1, <1>2, <1>3, AlwaysOrdered, PTL DEF Spec

\* A plan of files, accounts, packages and kernel parameters is applied, if no
\* operation fails, no deadline passes and nobody else interferes: no check, no
\* guard and no order of its own makes executeMutation give it up.
THEOREM PlansAreApplied ==
    ASSUME Planned = Objects, \A o \in Objects : IsExact(o)
    PROVE  Spec => []FaultFreeApplies
<1>1. Init => GoodInv
    BY DEF Init, GoodInv
<1>2. IInv /\ NeedsInv /\ GoodInv /\ [Next]_vars => GoodInv'
    BY GoodStep
<1>3. GoodInv => FaultFreeApplies
    BY DEF GoodInv, Good, FaultFreeApplies
<1> QED
    BY <1>1, <1>2, <1>3, AlwaysOrdered, PTL DEF Spec

\* A transaction of n changes takes at most 4n + 5 steps of executeMutation,
\* Commit and Rollback, whatever fails and whoever interferes.
THEOREM StepsAreBounded == Spec => Advances
<1>1. IInv /\ ListInv /\ [Next]_vars =>
          [IF Step THEN Variant' \in 0..(Variant - 1) ELSE Variant' = Variant]_vars
  <2> SUFFICES ASSUME IInv, ListInv, [Next]_vars, ~Step
               PROVE  Variant' = Variant
      BY StepAdvances
  <2>1. UNCHANGED <<pc, i, undo, k>>
      BY DEF Next, Deadline, RollbackDeadline, Drift, vars, progress
  <2> QED
      BY <2>1 DEF Variant
<1> QED
    BY <1>1, AlwaysOrdered, PTL DEF Spec, Advances

-----------------------------------------------------------------------------
(* SetupTransaction implements AtomicApply, as long as nobody else changes   *)
(* the host and every object is planned: the step simulation.                *)

\* Nobody else changed the host; what was found is not what is compiled; a
\* rollback has a reason and an end an outcome.
QuietInv ==
    /\ drift = {}
    /\ begin \in [Objects -> {"absent", "old"}]
    /\ pc = "rollback" => exit \in {"failed", "interrupted"}
    /\ pc = "done" => exit \in {"applied", "failed", "interrupted"}

Inv == IInv /\ VerifiedInv /\ QuietInv

-----------------------------------------------------------------------------
(* The two variables of the promise. *)

\* What a transaction is doing, told from where it is and what it returned.
LEMMA PhaseFacts ==
    /\ pc = "rollback" => Phase = "undoing"
    /\ pc \notin {"rollback", "done"} => Phase = "changing"
    /\ pc = "done" /\ exit = "applied" => Phase = "applied"
    /\ pc = "done" /\ exit = "failed" /\ ~reported => Phase = "undone"
    /\ pc = "done" /\ (exit = "interrupted" \/ (exit = "failed" /\ reported))
          => Phase = "unknown"
BY DEF Phase

\* The same after a step.
LEMMA PhaseFactsNext ==
    /\ pc' = "rollback" => Phase' = "undoing"
    /\ pc' \notin {"rollback", "done"} => Phase' = "changing"
    /\ pc' = "done" /\ exit' = "applied" => Phase' = "applied"
    /\ pc' = "done" /\ exit' = "failed" /\ ~reported' => Phase' = "undone"
    /\ pc' = "done" /\ (exit' = "interrupted" \/ (exit' = "failed" /\ reported'))
          => Phase' = "unknown"
BY DEF Phase

\* Only the host and its history say what is changed.
LEMMA ChangedSame ==
    ASSUME UNCHANGED <<host, begin, blind>>
    PROVE  Changed' = Changed
BY DEF Changed

\* A change that is applied, wholly or not, adds its object at most.
LEMMA ChangedByApply ==
    ASSUME Inv, pc = "apply", host' = host \/ host' = Effect, begin' = begin,
           blind' = blind \/ blind' = blind \cup {Current}
    PROVE  Changed' = Changed \/ \E o \in Objects : Changed' = Changed \cup {o}
<1>1. i <= Len(Plan) /\ TypeOK
    BY DEF Inv, IInv, PhaseInv
<1>2. Current \in Objects
    BY <1>1, ValueFacts
<1>3. Current \notin Changed
  <2>1. IsExact(Current) => host[Current] = begin[Current]
      BY <1>1, FreshFacts DEF Inv, QuietInv
  <2> QED
      BY <2>1 DEF Changed
<1>4. \A o \in Objects : o # Current => host'[o] = host[o] /\ (o \in blind' <=> o \in blind)
    BY <1>1 DEF Effect, Change, TypeOK
<1>5. \A o \in Objects : o # Current => (o \in Changed' <=> o \in Changed)
    BY <1>4 DEF Changed
<1>6. Changed \subseteq Objects /\ Changed' \subseteq Objects
    BY DEF Changed
<1>7. CASE Current \in Changed'
    BY <1>2, <1>3, <1>5, <1>6, <1>7
<1>8. CASE Current \notin Changed'
    BY <1>2, <1>3, <1>5, <1>6, <1>8
<1> QED
    BY <1>7, <1>8

\* An undo takes its object back at most, and no undo adds one.
LEMMA ChangedByUndo ==
    ASSUME Inv, pc = "rollback", k > 0, UNCHANGED <<begin, blind>>,
           host' = host \/ host' = [host EXCEPT ![Last] = Restored(Last)]
    PROVE  Changed' = Changed \/ \E o \in Changed : Changed' = Changed \ {o}
<1>1. TypeOK /\ k <= Len(undo)
    BY DEF Inv, IInv, PhaseInv
<1>2. Last \in Objects /\ k \in 1..Len(undo)
    BY <1>1, LastFacts DEF TypeOK
<1>3. IsExact(Last) => Restored(Last) = begin[Last]
  <2>1. IsExact(Last) => saved[Last] = begin[Last]
      BY <1>2 DEF Inv, IInv, SavedInv, QuietInv, Last
  <2> QED
      BY <2>1 DEF Restored, IsExact
<1>4. \A o \in Objects : o # Last => host'[o] = host[o]
    BY <1>1 DEF TypeOK
<1>5. \A o \in Objects : o # Last => (o \in Changed' <=> o \in Changed)
    BY <1>4 DEF Changed
<1>6. CASE host' = host
    BY <1>6, ChangedSame
<1>7. CASE host' = [host EXCEPT ![Last] = Restored(Last)]
  <2>1. Last \notin Changed'
      BY <1>1, <1>2, <1>3, <1>7 DEF Changed, TypeOK
  <2>2. Changed \subseteq Objects /\ Changed' \subseteq Objects
      BY DEF Changed
  <2>3. Changed' = Changed \ {Last}
      BY <2>1, <2>2, <1>5
  <2> QED
      BY <2>3
<1> QED
    BY <1>6, <1>7

-----------------------------------------------------------------------------
(* The steps of the promise. *)

\* A rollback that begins gives up, after a last change perhaps.
LEMMA Gives ==
    ASSUME pc \notin {"rollback", "done"}, pc' = "rollback",
           Changed' = Changed \/ \E o \in Objects : Changed' = Changed \cup {o}
    PROVE  Promise!Next
BY PhaseFacts, PhaseFactsNext DEF Promise!Next, Promise!GiveUp

\* A step that touches neither the host nor the phase is a stutter.
LEMMA Stutters ==
    ASSUME UNCHANGED <<host, begin, blind>>, Phase' = Phase
    PROVE  UNCHANGED Promise!vars
BY ChangedSame DEF Promise!vars

\* A step of the application or of the verification changes one object at most.
LEMMA Changes ==
    ASSUME pc \notin {"rollback", "done"}, pc' \notin {"rollback", "done"},
           Changed' = Changed \/ \E o \in Objects : Changed' = Changed \cup {o}
    PROVE  [Promise!Next]_(Promise!vars)
BY PhaseFacts, PhaseFactsNext DEF Promise!Next, Promise!Change, Promise!vars

\* A step of the rollback takes one object back at most.
LEMMA TakesBack ==
    ASSUME pc = "rollback", pc' = "rollback",
           Changed' = Changed \/ \E o \in Changed : Changed' = Changed \ {o}
    PROVE  [Promise!Next]_(Promise!vars)
BY PhaseFacts, PhaseFactsNext DEF Promise!Next, Promise!TakeBack, Promise!vars

\* Success comes only after every planned object passed its check.
LEMMA Succeeds ==
    ASSUME Inv, Planned = Objects, CommitEnds
    PROVE  Promise!Next
<1>1. pc = "commit" /\ blind = {} /\ drift = {} /\ begin \in [Objects -> {"absent", "old"}]
    BY DEF CommitEnds, Inv, IInv, PhaseInv, QuietInv
<1>2. ASSUME NEW o \in Objects, Action[o] \notin {"upgrade-cached", "enable"}
      PROVE  o \in Changed
  <2>1. host[o] = "new"
      BY <1>1, <1>2 DEF Inv, VerifiedInv, Passes
  <2>2. begin[o] # "new"
      BY <1>1
  <2> QED
      BY <1>1, <1>2, <2>1, <2>2 DEF Changed, IsExact
<1>3. Changed' = Changed
    BY ChangedSame DEF CommitEnds, history
<1>4. Phase = "changing" /\ Phase' = "applied"
    BY PhaseFacts, PhaseFactsNext, <1>1 DEF CommitEnds
<1> QED
    BY <1>2, <1>3, <1>4 DEF Promise!Next, Promise!Succeed

\* A rollback that does not speak of a failure has taken everything back.
LEMMA Ends ==
    ASSUME Inv, RollbackEnds
    PROVE  Promise!Next
<1>1. pc = "rollback" /\ k = 0 /\ pc' = "done" /\ exit' = exit /\ drift = {}
      /\ reported' = (exit = "failed" /\ lost # {}) /\ exit \in {"failed", "interrupted"}
    BY DEF RollbackEnds, Inv, QuietInv
<1>2. Changed' = Changed
    BY ChangedSame DEF RollbackEnds, history
<1>3. CASE exit = "failed" /\ lost = {}
  <2>1. Pending = {}
      BY <1>1 DEF Pending
  <2>2. Changed = {}
      BY <1>1, <1>3, <2>1 DEF Inv, IInv, Accounted, Changed
  <2>3. Phase = "undoing" /\ Phase' = "undone"
      BY <1>1, <1>3, PhaseFacts, PhaseFactsNext
  <2> QED
      BY <1>2, <2>2, <2>3 DEF Promise!Next, Promise!EndUndone
<1>4. CASE ~(exit = "failed" /\ lost = {})
  <2>1. Phase = "undoing" /\ Phase' = "unknown"
      BY <1>1, <1>4, PhaseFacts, PhaseFactsNext
  <2> QED
      BY <1>2, <2>1 DEF Promise!Next, Promise!EndUnknown
<1> QED
    BY <1>3, <1>4

-----------------------------------------------------------------------------
\* Every step of the transaction is one of the promise or none.
LEMMA Simulates ==
    ASSUME MaxDrift = 0, Planned = Objects, Inv, [Next]_vars
    PROVE  [Promise!Next]_(Promise!vars)
<1> USE DEF progress, history
<1>1. CASE LoopInterrupted
    BY <1>1, ChangedSame, Gives DEF LoopInterrupted, StartRollback
<1>2. CASE LoopEnds
    BY <1>2, ChangedSame, Changes DEF LoopEnds
<1>3. CASE Capture
    BY <1>3, ChangedSame, Changes DEF Capture
<1>4. CASE CaptureFails
    BY <1>4, ChangedSame, Gives DEF CaptureFails, StartRollback
<1>5. CASE ApplySucceeds
    BY <1>5, ChangedByApply, Changes DEF ApplySucceeds
<1>6. CASE ApplySilent
    BY <1>6, ChangedSame, Changes DEF ApplySilent
<1>7. CASE ApplyFails
    BY <1>7, ChangedSame, Gives DEF ApplyFails, StartRollback
<1>8. CASE ApplyFailsLate
    BY <1>8, ChangedByApply, Gives DEF ApplyFailsLate, StartRollback
<1>9. CASE ApplyInterrupted
    BY <1>9, ChangedByApply, Gives DEF ApplyInterrupted, StartRollback
<1>10. CASE Verified
    BY <1>10, ChangedSame, Changes DEF Verified
<1>11. CASE VerifyFails
    BY <1>11, ChangedSame, Gives DEF VerifyFails, StartRollback
<1>12. CASE VerifyInterrupted
    BY <1>12, ChangedSame, Gives DEF VerifyInterrupted, StartRollback
<1>13. CASE CommitNext
    BY <1>13, ChangedSame, Changes DEF CommitNext
<1>14. CASE CommitFails
    BY <1>14, ChangedSame, Gives DEF CommitFails, StartRollback
<1>15. CASE CommitEnds
    BY <1>15, Succeeds
<1>16. CASE UndoSucceeds
    BY <1>16, ChangedByUndo, TakesBack DEF UndoSucceeds
<1>17. CASE UndoFails
    BY <1>17, ChangedByUndo, TakesBack DEF UndoFails
<1>18. CASE RollbackEnds
    BY <1>18, Ends
<1>19. CASE Deadline \/ RollbackDeadline \/ UNCHANGED vars
  <2>1. UNCHANGED <<host, begin, blind, pc, exit, reported>>
      BY <1>19 DEF Deadline, RollbackDeadline, vars
  <2>2. Phase' = Phase
      BY <2>1 DEF Phase
  <2> QED
      BY <2>1, <2>2, Stutters
<1>20. CASE Drift
  <2>1. Cardinality(drift) = 0
      BY FS_EmptySet DEF Inv, QuietInv
  <2> QED
      BY <1>20, <2>1 DEF Drift
<1> QED
    BY <1>1, <1>2, <1>3, <1>4, <1>5, <1>6, <1>7, <1>8, <1>9, <1>10, <1>11, <1>12, <1>13,
       <1>14, <1>15, <1>16, <1>17, <1>18, <1>19, <1>20 DEF Next, Step

\* Every step keeps what the simulation adds to the invariant.
LEMMA QuietStep ==
    ASSUME MaxDrift = 0, Inv, [Next]_vars
    PROVE  QuietInv'
<1> USE DEF progress, history, Inv, QuietInv
<1>1. ~ Drift
    BY FS_EmptySet DEF Drift
<1>2. drift' = drift /\ begin' = begin
    BY <1>1 DEF Next, Step, LoopInterrupted, LoopEnds, Capture, CaptureFails, ApplySucceeds,
           ApplySilent, ApplyFails, ApplyFailsLate, ApplyInterrupted, Verified, VerifyFails,
           VerifyInterrupted, CommitNext, CommitFails, CommitEnds, UndoSucceeds, UndoFails,
           RollbackEnds, Deadline, RollbackDeadline, vars
<1>3. pc' = "rollback" => exit' \in {"failed", "interrupted"}
    BY <1>1 DEF Next, Step, StartRollback, LoopInterrupted, LoopEnds, Capture,
           CaptureFails, ApplySucceeds, ApplySilent, ApplyFails, ApplyFailsLate,
           ApplyInterrupted, Verified, VerifyFails, VerifyInterrupted, CommitNext,
           CommitFails, CommitEnds, UndoSucceeds, UndoFails, RollbackEnds, Deadline,
           RollbackDeadline, vars
<1>4. pc' = "done" => exit' \in {"applied", "failed", "interrupted"}
    BY <1>1 DEF Next, Step, StartRollback, LoopInterrupted, LoopEnds, Capture,
           CaptureFails, ApplySucceeds, ApplySilent, ApplyFails, ApplyFailsLate,
           ApplyInterrupted, Verified, VerifyFails, VerifyInterrupted, CommitNext,
           CommitFails, CommitEnds, UndoSucceeds, UndoFails, RollbackEnds, Deadline,
           RollbackDeadline, vars
<1> QED
    BY <1>2, <1>3, <1>4

\* The transaction of apply.go and transaction.go keeps the promise of
\* AtomicApply: it changes objects before it takes any back, says "applied" only
\* if every change stands that a check can see, and returns an error that does
\* not speak of the rollback only if every change is taken back.
THEOREM KeepsPromise ==
    ASSUME MaxDrift = 0, Planned = Objects
    PROVE  Spec => PromiseKept
<1>1. Init => Inv
  <2>1. Init => VerifiedInv /\ QuietInv
      BY DEF Init, VerifiedInv, QuietInv
  <2> QED
      BY <2>1, InitInv DEF Inv
<1>2. Inv /\ [Next]_vars => Inv'
  <2>1. IInv /\ [Next]_vars => IInv'
      BY TypeStep, PhaseStep, OrderStep, SavedStep, AccountedStep DEF IInv
  <2> QED
      BY <2>1, VerifiedStep, QuietStep DEF Inv
<1>3. Init => Promise!Init
    BY PhaseFacts DEF Init, Changed, Promise!Init
<1>4. Inv /\ [Next]_vars => [Promise!Next]_(Promise!vars)
    BY Simulates
<1> QED
    BY <1>1, <1>2, <1>3, <1>4, PTL DEF Spec, PromiseKept, Promise!Spec
=============================================================================
