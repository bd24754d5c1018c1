-------------------------------- MODULE Exec --------------------------------
(***************************************************************************)
(* internal/execx: OSRunner.Run, one command with bounded output under a   *)
(* context.  The command leads a process group of its own.  A goroutine    *)
(* waits for it, which ends only when the command is dead and nobody holds *)
(* the writing end of its output any more; Run itself selects between the  *)
(* end of that wait and the end of the context, upon which it kills the    *)
(* group, and waits for the goroutine all the same.                        *)
(*                                                                         *)
(* The command and its descendants are external: they fork, write, close   *)
(* their output, leave the group (setsid) and exit as they like.           *)
(***************************************************************************)
EXTENDS Integers

CONSTANTS
    Leader,         \* the process of the command
    Descendants,    \* the processes it may fork, directly or not
    Limit,          \* Spec.StdoutLimit, in units of data
    MaxWritten      \* bound on the data written to the pipe

ASSUME LimitAssumption == Limit \in Nat \ {0} /\ MaxWritten \in Nat
ASSUME ProcessAssumption == Leader \notin Descendants

Processes == {Leader} \cup Descendants

VARIABLES
    pc,         \* where Run is
    ctx,        \* the context is done
    running,    \* the processes alive
    group,      \* the processes of the leader's group, alive or not
    writers,    \* the processes that hold the pipe of stdout
    pipe,       \* data written and not copied yet
    kept,       \* the data in limitedBuffer
    truncated,  \* limitedBuffer.truncated
    waited,     \* the channel done has the result of Wait
    exit,       \* how Run returned
    written     \* history: all the data written

output == <<pipe, kept, truncated, written>>
vars == <<pc, ctx, running, group, writers, output, waited, exit>>

\* Run keeps at most Limit of the output, reads nothing that was not written and
\* returns once, in one of four ways.
TypeOK ==
    /\ pc \in {"start", "select", "killed", "returned"}
    /\ ctx \in BOOLEAN /\ truncated \in BOOLEAN /\ waited \in BOOLEAN
    /\ running \subseteq Processes /\ group \subseteq Processes
    /\ writers \subseteq running
    /\ written \in 0..MaxWritten /\ pipe \in 0..written /\ kept \in 0..Limit
    /\ exit \in {"none", "not_started", "context", "finished"}

Init ==
    /\ pc = "start" /\ ctx \in BOOLEAN
    /\ running = {} /\ group = {} /\ writers = {}
    /\ pipe = 0 /\ kept = 0 /\ truncated = FALSE /\ written = 0
    /\ waited = FALSE /\ exit = "none"
-----------------------------------------------------------------------------
Return(e) == pc' = "returned" /\ exit' = e

\* A context that is done starts nothing; a program may not be found or start.
NotStarted ==
    /\ pc = "start"
    /\ Return(IF ctx THEN "context" ELSE "not_started")
    /\ UNCHANGED <<ctx, running, group, writers, output, waited>>

Start ==
    /\ pc = "start" /\ ~ctx
    /\ running' = {Leader} /\ group' = {Leader} /\ writers' = {Leader}
    /\ pc' = "select"
    /\ UNCHANGED <<ctx, output, waited, exit>>

\* The first case of the select, whether or not the context is done as well.
Finished ==
    /\ pc = "select" /\ waited
    /\ Return("finished")
    /\ UNCHANGED <<ctx, running, group, writers, output, waited>>

\* The second case: SIGKILL for the group.
Kill_LeaderOnly ==    \* mutant: the signal goes to the process, not to its group
    /\ pc = "select" /\ ctx /\ pc' = "killed"
    /\ running' = running \ {Leader} /\ writers' = writers \ {Leader}
    /\ UNCHANGED <<ctx, group, output, waited, exit>>

Kill ==
    /\ pc = "select" /\ ctx
    /\ running' = running \ group /\ writers' = writers \ group
    /\ pc' = "killed"
    /\ UNCHANGED <<ctx, group, output, waited, exit>>

\* Then it waits for the goroutine.
Drain ==
    /\ pc = "killed" /\ waited
    /\ Return("context")
    /\ UNCHANGED <<ctx, running, group, writers, output, waited>>

\* exec.Cmd copies the pipe into limitedBuffer, in chunks of any size.
Kept_Whole(n) == IF kept < Limit THEN kept + n ELSE kept   \* mutant: the chunk is not cut
Kept(n) == IF kept + n > Limit THEN Limit ELSE kept + n

Truncated(n) == truncated \/ kept + n > Limit

Copy_Quiet ==    \* mutant: a full buffer takes nothing more and says nothing
    \E n \in 1..pipe :
        /\ pipe' = pipe - n /\ kept' = Kept(n)
        /\ truncated' = (truncated \/ (kept < Limit /\ kept + n > Limit))
        /\ UNCHANGED <<pc, ctx, running, group, writers, waited, exit, written>>

Copy ==
    \E n \in 1..pipe :
        /\ pipe' = pipe - n
        /\ kept' = Kept(n) /\ truncated' = Truncated(n)
        /\ UNCHANGED <<pc, ctx, running, group, writers, waited, exit, written>>

\* Wait returns: the leader is reaped and the pipe has come to its end.
WaitEnds ==
    /\ pc \in {"select", "killed"} /\ ~waited
    /\ Leader \notin running /\ writers = {} /\ pipe = 0
    /\ waited' = TRUE
    /\ UNCHANGED <<pc, ctx, running, group, writers, output, exit>>

Run == NotStarted \/ Start \/ Finished \/ Kill \/ Drain

-----------------------------------------------------------------------------
(* The context and the processes. *)

ContextDone ==
    /\ pc # "returned" /\ ~ctx /\ ctx' = TRUE
    /\ UNCHANGED <<pc, running, group, writers, output, waited, exit>>

\* A child inherits the group and the pipe of its parent.
Fork ==
    /\ \E p \in running, d \in Descendants \ (running \cup group) :
          /\ running' = running \cup {d}
          /\ group' = IF p \in group THEN group \cup {d} ELSE group
          /\ writers' = IF p \in writers THEN writers \cup {d} ELSE writers
    /\ UNCHANGED <<pc, ctx, output, waited, exit>>

Leave ==
    /\ \E d \in (running \cap group) \ {Leader} : group' = group \ {d}
    /\ UNCHANGED <<pc, ctx, running, writers, output, waited, exit>>

Write ==
    /\ writers # {} /\ written < MaxWritten
    /\ written' = written + 1 /\ pipe' = pipe + 1
    /\ UNCHANGED <<pc, ctx, running, group, writers, kept, truncated, waited, exit>>

CloseOutput ==
    /\ \E p \in writers : writers' = writers \ {p}
    /\ UNCHANGED <<pc, ctx, running, group, output, waited, exit>>

Exit ==
    /\ \E p \in running : running' = running \ {p} /\ writers' = writers \ {p}
    /\ UNCHANGED <<pc, ctx, group, output, waited, exit>>

Next == Run \/ Copy \/ WaitEnds \/ ContextDone \/ Fork \/ Leave \/ Write \/ CloseOutput \/ Exit

Spec == Init /\ [][Next]_vars

\* The goroutine of Run, the one that copies and the one that waits all go on;
\* the processes owe nothing.
FairSpec == Spec /\ WF_vars(Run) /\ WF_vars(Copy) /\ WF_vars(WaitEnds)

-----------------------------------------------------------------------------
\* A command interrupted by its context leaves no process of its group behind,
\* not even one that had closed its output and that the wait does not see.
GroupIsGone == exit = "context" => running \cap group = {}

\* What Run returns is complete: nothing written is missing from it, up to the
\* limit, nobody can still write, and "truncated" says exactly whether the
\* limit cut something off.
OutputIsComplete ==
    pc = "returned" =>
        /\ writers = {} /\ pipe = 0
        /\ kept = (IF written > Limit THEN Limit ELSE written)
        /\ truncated <=> written > Limit

\* Run returns once its context is done, whatever the processes do, unless one
\* that has left the group holds the pipe for ever.
HonorsContext == <>[](writers \ group # {}) \/ (ctx ~> pc = "returned")

\* Claimed by SECURITY.md ("a context deadline, and process-group cleanup") and
\* docs/development.md ("honor the invocation deadline") of every command.
HonorsDeadline == ctx ~> pc = "returned"
=============================================================================
