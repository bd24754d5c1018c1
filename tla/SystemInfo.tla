----------------------------- MODULE SystemInfo -----------------------------
(***************************************************************************)
(* The system plugin: `system info` and `system health`.  A snapshot of    *)
(* files and commands is taken, each of which may fail on its own, and     *)
(* `health` adds checks of it.                                             *)
(*                                                                         *)
(* host says of every source what reading it gives: "unread" when it is    *)
(* not there or cannot be parsed, and otherwise a value.                   *)
(***************************************************************************)
EXTENDS Collector

\* used percents: of memory and of the two filesystems
Usual == [config |-> "valid", os_release |-> "debian", kernel |-> "read", hostname |-> "read",
          uptime |-> "read", cpu |-> "read", memory |-> 10, load |-> "read",
          cgroup |-> "none", virt |-> "none", sync |-> "yes", reboot |-> FALSE,
          units |-> "none", oom |-> "none", root |-> 10, data |-> 10, mounts |-> "read"]

Unread == 999
Percents == {84, 85, 94, 95, 100, Unread}

Hosts == LET values == [config |-> {"invalid"}, os_release |-> {"ubuntu", "unread"}, kernel |-> {"unread"},
                        hostname |-> {"unread"}, uptime |-> {"unread"}, cpu |-> {"unread"},
                        memory |-> Percents, load |-> {"unread"},
                        cgroup |-> {"docker"}, virt |-> {"kvm", "unread"},
                        sync |-> {"no", "junk", "exits", "absent"}, reboot |-> {TRUE},
                        units |-> {"failed", "exits", "absent"}, oom |-> {"killed", "exits", "absent"},
                        root |-> {79, 80, 90, Unread}, data |-> {80, 90, Unread}, mounts |-> {"unread"}]
         IN Varied(Varied({Usual}, values), values)

NothingRead == [errors |-> {}, virt |-> "unknown", sync |-> "unread", usage |-> {}, checks |-> {}]

Init == Starts({"info", "health"}, Hosts, LAMBDA h : [late |-> FALSE], NothingRead)

Fields == {"os_release", "kernel", "hostname", "uptime", "cpu", "load"}

\* The error of a program: not found, or anything else.
commandError(program, outcome) ==
  [code |-> program, kind |-> IF outcome = "absent" THEN "dependency" ELSE "general"]
structuredFailure(code) == [code |-> code, kind |-> "general"]

\* A program that is started after the deadline fails; what it would print.
Outcome(value) == IF Live THEN value ELSE "killed at the deadline"

validThresholds == host.config = "valid"

\* execute: only `health` has a configuration, and asks for the filesystems,
\* all of which become one entry with an error when the table cannot be read.
Dispatch ==
  /\ pc = "start"
  /\ \/ Answer(Failure("arguments")) /\ UNCHANGED got
     \/ cmd = "health" /\ ~ validThresholds /\ Answer(Failure("configuration")) /\ UNCHANGED got
     \/ /\ cmd = "info" \/ validThresholds
        /\ got' = [got EXCEPT !.usage =
             IF cmd = "info" THEN {}
             ELSE IF host.mounts = "unread" THEN {[point |-> "", used |-> Unread]}
             ELSE {[point |-> "/", used |-> host.root], [point |-> "/data", used |-> host.data]}]
        /\ GoTo("files")
  /\ Others

\* Collect, up to the first program.
ReadFiles ==
  /\ pc = "files"
  /\ got' = [got EXCEPT
       !.errors = {structuredFailure(f) : f \in {x \in Fields : host[x] = "unread"}}
                  \cup (IF host.memory = Unread THEN {structuredFailure("memory")} ELSE {}),
       !.virt = IF host.cgroup = "none" THEN "unknown" ELSE host.cgroup]
  /\ GoTo("virt") /\ Others

\* systemd-detect-virt exits with 1 when it finds none; that it fails is not
\* reported.
DetectVirt ==
  /\ pc = "virt"
  /\ LET said == IF Live THEN host.virt ELSE "unread"
     IN got' = [got EXCEPT !.virt = IF said = "unread" THEN @ ELSE said]
  /\ GoTo("sync") /\ Others

timeSynchronized ==
  /\ pc = "sync"
  /\ LET said == Outcome(host.sync)
     IN got' = IF said \in {"yes", "no"} THEN [got EXCEPT !.sync = said]
               ELSE [got EXCEPT !.errors = @ \cup {commandError("timedatectl", said)}]
  /\ GoTo(IF cmd = "info" THEN "report" ELSE "checks") /\ Others

InfoResult ==
  /\ pc = "report" /\ cmd = "info"
  /\ Answer(Result(IF got.errors = {} THEN "pass" ELSE "partial", {}, got, got.errors))
  /\ UNCHANGED got /\ Others

----------------------------------------------------------------------------
Limit(used, warning, critical) ==
  CASE used >= critical -> "critical"
    [] used < critical /\ used >= warning -> "warning"
    [] OTHER -> "pass"

osCheck == IF host.os_release = "debian" THEN "pass" ELSE "critical"
memoryCheck == IF host.memory = Unread THEN "skipped" ELSE Limit(host.memory, 85, 95)
filesystemCheck(u) == IF u.used = Unread THEN "skipped" ELSE Limit(u.used, 80, 90)
timeCheck == [yes |-> "pass", no |-> "warning", unread |-> "skipped"][got.sync]

SnapshotChecks ==
  /\ pc = "checks"
  /\ got' = [got EXCEPT
       !.checks = {Chk("os", osCheck), Chk("memory", memoryCheck), Chk("load", "info"),
                   Chk("time-sync", timeCheck), Chk("reboot", IF host.reboot THEN "warning" ELSE "pass")}
                  \cup {Chk(u.point, filesystemCheck(u)) : u \in got.usage},
       !.errors = @ \cup {structuredFailure(u.point) : u \in {x \in got.usage : x.used = Unread}}]
  /\ GoTo("units") /\ Others

\* A check that runs a program: its lines are what is wrong.
Checked(id, program, said, bad) ==
  got' = [got EXCEPT
    !.checks = @ \cup {Chk(id, CASE said = "none" -> "pass"
                                 [] said \in {"failed", "killed"} -> bad
                                 [] OTHER -> "skipped")},
    !.errors = @ \cup (IF said \in {"none", "failed", "killed"} THEN {} ELSE {commandError(program, said)})]

failedUnits ==
  /\ pc = "units" /\ Checked("failed-units", "systemctl", Outcome(host.units), "warning")
  /\ GoTo("oom") /\ Others

oomEvents ==
  /\ pc = "oom" /\ Checked("oom", "journalctl", Outcome(host.oom), "critical")
  /\ GoTo("report") /\ Others

\* mutant: only the checks count, and a skipped one is not counted
aggregateStatus_ChecksOnly(checks, errors) ==
  LET has(s) == \E c \in checks : c.status = s
  IN IF has("critical") THEN "critical" ELSE IF has("warning") THEN "warning" ELSE "pass"

\* Unlike classify of ResultStatus, what is missing weighs more than a warning.
aggregateStatus(checks, errors) ==
  LET has(s) == \E c \in checks : c.status = s
  IN IF has("critical") THEN "critical"
     ELSE IF errors # {} \/ has("skipped") \/ has("error") THEN "partial"
     ELSE IF has("warning") THEN "warning" ELSE "pass"

HealthResult ==
  /\ pc = "report" /\ cmd = "health"
  /\ Answer(Result(aggregateStatus(got.checks, got.errors), got.checks, got, got.errors))
  /\ UNCHANGED got /\ Others

Expire ==
  /\ Live /\ pc \in {"files", "virt", "sync", "units", "oom"}
  /\ ctx' = "done" /\ hist' = [late |-> TRUE]
  /\ UNCHANGED <<cmd, host, changes, pc, got, reply>>

Step == Dispatch \/ ReadFiles \/ DetectVirt \/ timeSynchronized \/ InfoResult
        \/ SnapshotChecks \/ failedUnits \/ oomEvents \/ HealthResult
Next == Step \/ Expire

----------------------------------------------------------------------------
\* Every source that could not be read is told of, except the detection of
\* virtualization, and a result of a run whose deadline passed before its
\* last program is no pass (collector.go:84-177, 253-298).
NothingLost ==
  reply.exit = "ok" =>
    /\ \A f \in Fields : host[f] = "unread" => structuredFailure(f) \in reply.errors
    /\ reply.errors # {} => reply.status \in {"partial", "critical"}
    /\ hist.late /\ cmd = "health" => reply.status # "pass"

\* A healthy system is one whose every source was read and is in order
\* (collector.go:234-278).
PassIsEarned ==
  reply.status = "pass" /\ cmd = "health" =>
    /\ host.os_release = "debian" /\ host.memory < 85 /\ host.root < 80 /\ host.data < 80
    /\ host.sync = "yes" /\ ~ host.reboot /\ host.units = "none" /\ host.oom = "none"

\* A warning hides nothing that is missing, and nothing that is missing a
\* critical check (collector.go:486-505).
StatusIsWorst ==
  reply.exit = "ok" =>
    /\ reply.status = "critical" <=> \E c \in reply.checks : c.status = "critical"
    /\ reply.status = "warning" => reply.errors = {} /\ \A c \in reply.checks : c.status # "skipped"
=============================================================================
