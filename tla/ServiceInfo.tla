----------------------------- MODULE ServiceInfo -----------------------------
(***************************************************************************)
(* The commands of the systemd plugin that only read: `service status` and *)
(* `service logs`.  The configuration is read first, whatever the command. *)
(* (ServiceRestart has the restart.)                                       *)
(***************************************************************************)
EXTENDS Collector, Functions

\* A duration or a number: the zero, one in its range, its limit, one above.
MaxLogLines == 100000
Counts == {0, 1, MaxLogLines, MaxLogLines + 1}
Config == [since : {0, 1}, lines : Counts, timeout : {0, 1}] \cup [invalid : {TRUE}]
NoFlag == -1

\* A program; lines of the journal are plain or have a secret in them.
Programs == {"absent", "fails", "exits", "works"}

Init ==
  \/ Starts({"status", "logs"},
            [config : Config, unit : {"valid"}, flags : {[since |-> NoFlag, lines |-> NoFlag]},
             program : {"works"}, lines : {<<"plain">>}],
            LAMBDA h : [late |-> FALSE], [since |-> 1, lines |-> 1])
  \/ Starts({"status", "logs"},
            [config : {[since |-> 1, lines |-> 1, timeout |-> 1]}, unit : {"valid", "invalid", "option"},
             flags : [since : {NoFlag, 0, 1}, lines : Counts \cup {NoFlag}], program : Programs,
             lines : {<<>>, <<"plain", "secret">>}],
            LAMBDA h : [late |-> FALSE], [since |-> 1, lines |-> 1])

managerFor ==
  /\ pc = "start"
  /\ LET c == host.config
     IN IF "invalid" \in DOMAIN c \/ ~ (c.since > 0 /\ c.timeout > 0 /\ c.lines \in 1..MaxLogLines)
        THEN Answer(Failure("configuration")) /\ UNCHANGED got
        ELSE got' = [since |-> c.since, lines |-> c.lines] /\ GoTo("validate")
  /\ Others

ValidateUnit(unit) == unit = "valid"

\* A flag that is given replaces the value of the configuration.
logRange ==
  LET flag(f, v) == IF f = NoFlag THEN v ELSE f
  IN [since |-> flag(host.flags.since, got.since), lines |-> flag(host.flags.lines, got.lines)]

Validate ==
  /\ pc = "validate"
  /\ LET valid == cmd = "status" \/ (logRange.since > 0 /\ logRange.lines \in 1..MaxLogLines)
     IN IF ValidateUnit(host.unit) /\ valid
        THEN got' = (IF cmd = "logs" THEN logRange ELSE got) /\ GoTo("run")
        ELSE Answer(Failure("arguments")) /\ UNCHANGED got
  /\ Others

\* failure: a Result as well, "skipped" when the program is not found.
failure(code) == Result(IF code = "absent" THEN "skipped" ELSE "error", {}, <<>>, {code})

\* The line goes through the patterns of package redact.
Redacted(lines) == [i \in DOMAIN lines |-> IF lines[i] = "secret" THEN "masked" ELSE lines[i]]

Finished(how) == IF how = "works" THEN Result("pass", {}, Redacted(host.lines), {}) ELSE failure(how)

Status == pc = "run" /\ cmd = "status" /\ Answer(Finished(IF Live THEN host.program ELSE "fails")) /\ UNCHANGED got /\ Others
Logs   == pc = "run" /\ cmd = "logs"   /\ Answer(Finished(IF Live THEN host.program ELSE "fails")) /\ UNCHANGED got /\ Others

Step == managerFor \/ Validate \/ Status \/ Logs
Next == Step \/ Deadline

----------------------------------------------------------------------------
\* A pass is of a program that worked, of a valid unit and within the limits
\* of the configuration and the flags together (plugin.go:113-211).
PassIsEarned ==
  reply.status = "pass" =>
    /\ host.program = "works" /\ host.unit = "valid"
    /\ cmd = "logs" => got.since > 0 /\ got.lines \in 1..MaxLogLines

\* No line of the journal is published with its secret.
SecretsMasked == reply.exit = "ok" => "secret" \notin Range(reply.data)
=============================================================================
