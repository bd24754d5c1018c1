---------------------------- MODULE ResultStatus ----------------------------
(***************************************************************************)
(* What every plugin that only reads builds its answer with: the status    *)
(* of a result (package resultbuilder).  Operators only.                   *)
(*                                                                         *)
(* A check is its identifier and its status; an error is its code.         *)
(***************************************************************************)
EXTENDS Naturals, Sequences, FiniteSets

Statuses == {"pass", "info", "warning", "critical", "skipped", "partial", "error"}

Chk(id, status) == [id |-> id, status |-> status]

----------------------------------------------------------------------------
(* resultbuilder *)

\* The loop returns at the first critical check; the other statuses are
\* weighed when it ends.
classify(checks, errors) ==
  LET has(s) == \E c \in checks : c.status = s
      other  == \E c \in checks :
                   c.status \notin {"critical", "warning", "pass", "info"}
  IN CASE has("critical")            -> "critical"
       [] ~ has("critical") /\ has("warning") -> "warning"
       [] ~ has("critical") /\ ~ has("warning") /\ (other \/ errors # {}) -> "partial"
       [] OTHER                      -> "pass"

\* Checks come out in the order of their identifiers, whatever the order
\* they were made in: a set of them says as much.
Build(checks, data, errors) ==
  [status |-> classify(checks, errors), checks |-> checks, data |-> data, errors |-> errors]

=============================================================================
