----------------------------- MODULE ExecProofs -----------------------------
(***************************************************************************)
(* Theorems about Exec, for every set of descendants, every limit and      *)
(* every amount of output.  The inductive invariant says what each stage   *)
(* of Run owes the next: nothing runs before the start, the group is empty *)
(* from the kill on, the pipe is dry from the end of the wait on, and the  *)
(* buffer always holds what was copied, up to the limit.                   *)
(***************************************************************************)
EXTENDS Exec, TLAPS

\* Before the start there are no processes and no output.
StartInv == pc = "start" => running = {} /\ writers = {} /\ written = 0 /\ ~waited

\* Run returns exactly when it has something to return.
ExitInv == exit = "none" <=> pc # "returned"

\* From the kill on nothing of the group is alive, and nothing enters it.
KillInv == pc = "killed" \/ exit = "context" => running \cap group = {}

\* Once Wait has returned nobody can write any more.
WaitInv == waited => writers = {} /\ pipe = 0

\* A return comes after the wait, or without a start.
ReturnInv == pc = "returned" => writers = {} /\ pipe = 0

\* The buffer holds what was copied, cut at the limit.
BufferInv ==
    /\ kept = (IF written - pipe > Limit THEN Limit ELSE written - pipe)
    /\ truncated <=> written - pipe > Limit

IInv == TypeOK /\ StartInv /\ ExitInv /\ KillInv /\ WaitInv /\ ReturnInv /\ BufferInv

-----------------------------------------------------------------------------
\* The invariant holds before the command starts.
LEMMA InitHolds == Init => IInv
<1> SUFFICES ASSUME Init PROVE IInv
  OBVIOUS
<1>1. TypeOK
  <2>1. ctx \in BOOLEAN /\ truncated \in BOOLEAN /\ waited \in BOOLEAN
    BY Zenon DEF Init
  <2>2. /\ pc \in {"start", "select", "killed", "returned"}
        /\ exit \in {"none", "not_started", "context", "finished"}
        /\ running \subseteq Processes /\ group \subseteq Processes
        /\ writers \subseteq running
    BY DEF Init
  <2>3. written \in 0..MaxWritten /\ pipe \in 0..written /\ kept \in 0..Limit
    BY LimitAssumption, SMT DEF Init
  <2> QED
    BY <2>1, <2>2, <2>3 DEF TypeOK
<1>2. StartInv /\ ExitInv /\ KillInv /\ WaitInv /\ ReturnInv
  BY DEF Init, StartInv, ExitInv, KillInv, WaitInv, ReturnInv
<1>3. BufferInv
  BY LimitAssumption DEF Init, BufferInv
<1> QED
  BY <1>1, <1>2, <1>3 DEF IInv

\* Every action keeps the invariant, stage by stage.
LEMMA StepKeeps == IInv /\ [Next]_vars => IInv'
<1> SUFFICES ASSUME IInv, [Next]_vars PROVE IInv'
  OBVIOUS
<1> USE DEF IInv, TypeOK, StartInv, ExitInv, KillInv, WaitInv, ReturnInv, BufferInv, output
<1>1. CASE NotStarted
  BY <1>1, LimitAssumption DEF NotStarted, Return
<1>2. CASE Start
  BY <1>2, LimitAssumption DEF Start, Processes
<1>3. CASE Finished
  BY <1>3, LimitAssumption DEF Finished, Return
<1>4. CASE Kill
  BY <1>4, LimitAssumption DEF Kill
<1>5. CASE Drain
  BY <1>5, LimitAssumption DEF Drain, Return
<1>6. CASE Copy
  <2>1. PICK n \in 1..pipe : /\ pipe' = pipe - n
                             /\ kept' = Kept(n) /\ truncated' = Truncated(n)
                             /\ UNCHANGED <<pc, ctx, running, group, writers, waited,
                                            exit, written>>
    BY <1>6 DEF Copy
  <2>2. n \in Nat /\ n > 0 /\ n <= pipe /\ pipe \in Nat /\ written \in Nat /\ pipe <= written
    BY <2>1
  <2>3. pipe' \in 0..written' /\ pipe' \in Nat
    BY <2>1, <2>2
  <2>4. kept' \in 0..Limit /\ truncated' \in BOOLEAN
    BY <2>1, <2>2, LimitAssumption DEF Kept, Truncated
  <2>5. kept' = (IF written' - pipe' > Limit THEN Limit ELSE written' - pipe')
    BY <2>1, <2>2, LimitAssumption DEF Kept
  <2>6. truncated' <=> written' - pipe' > Limit
    <3>1. written' - pipe' > Limit <=> (written - pipe > Limit \/ kept + n > Limit)
      BY <2>1, <2>2, LimitAssumption
    <3>2. truncated <=> written - pipe > Limit
      BY Zenon
    <3>3. truncated' = (truncated \/ kept + n > Limit)
      BY <2>1 DEF Truncated
    <3> HIDE DEF IInv
    <3> QED
      BY <3>1, <3>2, <3>3, Zenon
  <2> QED
    BY <2>1, <2>2, <2>3, <2>4, <2>5, <2>6
<1>7. CASE WaitEnds
  BY <1>7, LimitAssumption DEF WaitEnds
<1>8. CASE ContextDone
  BY <1>8, LimitAssumption DEF ContextDone
<1>9. CASE Fork
  <2>1. PICK p \in running, d \in Descendants \ (running \cup group) :
          /\ running' = running \cup {d}
          /\ group' = IF p \in group THEN group \cup {d} ELSE group
          /\ writers' = IF p \in writers THEN writers \cup {d} ELSE writers
    BY <1>9 DEF Fork
  <2>2. UNCHANGED <<pc, ctx, pipe, kept, truncated, written, waited, exit>>
    BY <1>9 DEF Fork
  <2>3. TypeOK'
    BY <2>1, <2>2 DEF Processes
  <2>4. KillInv'
    BY <2>1, <2>2
  <2> QED
    BY <2>1, <2>2, <2>3, <2>4
<1>10. CASE Leave
  BY <1>10, LimitAssumption DEF Leave
<1>11. CASE Write
  <2>1. written' = written + 1 /\ pipe' = pipe + 1 /\ written < MaxWritten /\ writers # {}
    BY <1>11 DEF Write
  <2>2. UNCHANGED <<pc, ctx, running, group, writers, kept, truncated, waited, exit>>
    BY <1>11 DEF Write
  <2>3. written' - pipe' = written - pipe
    BY <2>1
  <2>4. written' \in 0..MaxWritten /\ pipe' \in 0..written'
    BY <2>1, LimitAssumption
  <2>5. /\ kept' = (IF written' - pipe' > Limit THEN Limit ELSE written' - pipe')
        /\ truncated' <=> written' - pipe' > Limit
    <3>1. /\ kept = (IF written - pipe > Limit THEN Limit ELSE written - pipe)
          /\ truncated <=> written - pipe > Limit
      OBVIOUS
    <3>2. kept' = kept /\ truncated' = truncated
      BY <2>2
    <3> HIDE DEF IInv
    <3> QED
      BY <3>1, <3>2, <2>3
  <2> QED
    BY <2>1, <2>2, <2>4, <2>5
<1>12. CASE CloseOutput
  BY <1>12, LimitAssumption DEF CloseOutput
<1>13. CASE Exit
  BY <1>13, LimitAssumption DEF Exit
<1>14. CASE UNCHANGED vars
  BY <1>14, LimitAssumption DEF vars
<1> QED
  BY <1>1, <1>2, <1>3, <1>4, <1>5, <1>6, <1>7, <1>8, <1>9, <1>10, <1>11, <1>12, <1>13,
     <1>14 DEF Next, Run

\* The invariant holds throughout.
LEMMA InvariantHolds == Spec => []IInv
  BY InitHolds, StepKeeps, PTL DEF Spec

-----------------------------------------------------------------------------
\* Every variable of Run keeps to its type; the buffer never exceeds its limit.
THEOREM TypeCorrect == Spec => []TypeOK
<1>1. IInv => TypeOK
  BY DEF IInv
<1> QED
  BY <1>1, InvariantHolds, PTL

\* No process of the group survives a command interrupted by its context.
THEOREM GroupGone == Spec => []GroupIsGone
<1>1. IInv => GroupIsGone
  BY DEF IInv, KillInv, GroupIsGone
<1> QED
  BY <1>1, InvariantHolds, PTL

\* The output Run returns is all that was written, up to the limit.
THEOREM OutputComplete == Spec => []OutputIsComplete
<1>1. IInv => OutputIsComplete
  BY LimitAssumption DEF IInv, TypeOK, ReturnInv, BufferInv, OutputIsComplete
<1> QED
  BY <1>1, InvariantHolds, PTL
=============================================================================
