------------------------------ MODULE Collector ------------------------------
(***************************************************************************)
(* What the modules of the plugins that only read have in common: one run  *)
(* of `execute` after its request was decoded (Serve), a host that others  *)
(* change while it is read, and one reply.                                 *)
(*                                                                         *)
(* `host` is what there is to read and `got` what was read, both as the    *)
(* plugin's module says; `hist` is history, for the properties only.       *)
(***************************************************************************)
EXTENDS ResultStatus

CONSTANTS
  MaxChanges,   \* how often others may change the host during one run
  Pids,         \* the process ids a process may have
  MaxFileLines  \* how many lines a file that is parsed line by line may have

ASSUME ChangesAssumption == MaxChanges \in Nat
\* Process 1 is always there.
ASSUME PidsAssumption == Pids \subseteq Nat /\ 1 \in Pids
ASSUME LinesAssumption == MaxFileLines \in Nat

VARIABLES
  cmd,      \* the command of the plugin
  ctx,      \* "live", or "done" once the deadline of the invocation passed
  host, hist, changes,
  pc, got,
  reply     \* NoReply, or what the process answered

vars == <<cmd, ctx, host, hist, changes, pc, got, reply>>

NoData == "no data"

\* exit "ok" means that a Result v1 was written, whatever its status.
NoReply == [exit |-> "running", status |-> "none", checks |-> {}, data |-> NoData, errors |-> {}]

Failure(code) == [NoReply EXCEPT !.exit = code]

\* A plugin that does not use resultbuilder sets the status itself.
Result(status, checks, data, errors) ==
  [exit |-> "ok", status |-> status, checks |-> checks, data |-> data, errors |-> errors]

Built(checks, data, errors) ==
  LET b == Build(checks, data, errors) IN Result(b.status, b.checks, b.data, b.errors)

Done == pc = "done"
Answer(r) == pc' = "done" /\ reply' = r
GoTo(next) == pc' = next /\ UNCHANGED reply

\* What a step of the program leaves alone.
Others == UNCHANGED <<cmd, ctx, host, hist, changes>>

Live == ctx = "live"

Starts(cmds, hosts, histOf(_), got0) ==
  /\ cmd \in cmds /\ host \in hosts /\ hist = histOf(host)
  /\ ctx = "live" /\ changes = 0 /\ pc = "start" /\ got = got0 /\ reply = NoReply

\* The hosts that differ from some of `hosts` in one field at most, whose
\* other values are those of `values`.
Varied(hosts, values) ==
  hosts \cup UNION {{[h EXCEPT ![f] = v] : v \in values[f]} : h \in hosts, f \in DOMAIN values}

Deadline ==
  /\ Live /\ ~ Done
  /\ ctx' = "done" /\ UNCHANGED <<cmd, host, hist, changes, pc, got, reply>>

\* Others write `newHost`; the history follows.
Changes(newHost, newHist) ==
  /\ ~ Done /\ changes < MaxChanges
  /\ changes' = changes + 1 /\ host' = newHost /\ hist' = newHist
  /\ UNCHANGED <<cmd, ctx, pc, got, reply>>

ReplyOK ==
  /\ reply.exit \in {"running", "ok", "general", "arguments", "privilege", "dependency",
                     "timeout", "configuration", "crash"}
  /\ reply.status \in Statuses \cup {"none"}
  /\ (pc = "done") = (reply.exit # "running")
  /\ \A c \in reply.checks : c.status \in Statuses
=============================================================================
