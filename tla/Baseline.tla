------------------------------ MODULE Baseline ------------------------------
(***************************************************************************)
(* The baseline plugin: `baseline check` evaluates the checks that the     *)
(* configuration selects, in the order they are compiled in, and `baseline *)
(* profile` shows which they are.  The configuration of the two lists of   *)
(* checks is looked at in full, and so are the outcomes of each check.     *)
(***************************************************************************)
EXTENDS Collector, FiniteSetsExt, Functions

compiledCheckIDs == <<"supported-os", "time-sync", "filesystem-ownership", "kernel-controls",
                      "ssh-posture", "package-state", "required-services">>
Compiled == Range(compiledCheckIDs)

\* A list of the configuration has at most two entries here.
Lists == {<<>>} \cup {<<c>> : c \in Compiled \cup {"unknown"}}
           \cup {<<"time-sync", c>> : c \in {"time-sync", "ssh-posture"}}

Settings == {[profile |-> "default", enabled |-> e, disabled |-> d, maximum |-> 0] : e \in Lists, d \in Lists}
              \cup {[profile |-> p, enabled |-> <<>>, disabled |-> <<>>, maximum |-> m] :
                      p \in {"default", "other"}, m \in {-1, 0, 1, 100000, 100001}}

\* controls: of every file under proc/sys; pending: records of packages that
\* are not installed; account files and services in the order they are read.
Usual == [config |-> [profile |-> "default", enabled |-> <<>>, disabled |-> <<>>, maximum |-> 1],
          platform |-> "supported", sync |-> "yes", passwd |-> "trusted", shadow |-> "trusted",
          aslr |-> "equal", rp |-> "equal", sshd |-> "secure", pending |-> 0, ssh |-> "active", cron |-> "active"]
Unread == 99
Machines ==
  LET program == {"absent", "exits", "fails"}
      values == [platform |-> {"unsupported", "unread"}, sync |-> {"no"} \cup program,
                 passwd |-> {"absent", "unsafe"}, shadow |-> {"absent", "unsafe"},
                 aslr |-> {"mismatch", "unread"}, rp |-> {"mismatch", "unread"},
                 sshd |-> {"lax"} \cup program, pending |-> {1, 2, Unread},
                 ssh |-> {"inactive", "absent"}, cron |-> {"inactive", "absent"}]
  IN Varied(Varied({Usual}, values), values)

Hosts == {[Usual EXCEPT !.config = s] : s \in Settings} \cup Machines

Init == Starts({"check", "profile"}, Hosts, LAMBDA h : [late |-> FALSE],
               [todo |-> {}, service |-> "ssh", checks |-> {}, errors |-> {}])

----------------------------------------------------------------------------
(* profile.go *)

validateCheckIDs(values) == Range(values) \subseteq Compiled /\ IsInjective(values)

validSettings(settings) ==
  /\ settings.profile = "default" /\ settings.maximum \in 0..100000
  /\ validateCheckIDs(settings.enabled) /\ validateCheckIDs(settings.disabled)

\* The checks that are made, by their positions; none when the configuration is refused.
selectedChecks(settings) ==
  LET candidates == IF settings.enabled = <<>> THEN Compiled ELSE Range(settings.enabled)
  IN IF validSettings(settings)
     THEN {n \in DOMAIN compiledCheckIDs : compiledCheckIDs[n] \in candidates \ Range(settings.disabled)}
     ELSE {}

----------------------------------------------------------------------------
(* execute, and runChecks of check.go *)

Configure ==
  /\ pc = "start"
  /\ LET checkIDs == selectedChecks(host.config)
     IN \/ Answer(Failure("arguments")) /\ UNCHANGED got
        \/ checkIDs = {} /\ Answer(Failure("configuration")) /\ UNCHANGED got
        \/ checkIDs # {} /\ got' = [got EXCEPT !.todo = checkIDs] /\ GoTo("platform")
  /\ Others

Detect ==
  /\ pc = "platform"
  /\ IF host.platform # "supported" THEN Answer(Failure("dependency"))
     ELSE IF cmd = "profile" THEN Answer(Built({Chk("profile", "pass")}, {compiledCheckIDs[n] : n \in got.todo}, {}))
     ELSE GoTo("checks")
  /\ UNCHANGED got /\ Others

Current == compiledCheckIDs[Min(got.todo)]
Now(check) == pc = "checks" /\ got.todo # {} /\ Current = check

\* The check ends with a status, and maybe with an error.
Ended(status, errors) ==
  /\ got' = [got EXCEPT !.todo = @ \ {Min(@)}, !.checks = @ \cup {Chk(Current, status)},
                        !.errors = @ \cup {[check |-> Current, code |-> e] : e \in errors}]
  /\ GoTo("checks") /\ Others

TimedOut == Answer(Failure("timeout")) /\ UNCHANGED got /\ Others

\* A program was started: the deadline is fatal, everything else skips.
unavailableCheck(outcome) ==
  Ended("skipped", {IF outcome = "absent" THEN "missing_dependency" ELSE "baseline_probe_failed"})
localInspectionError == Ended("skipped", {"local_probe_failed"})

supportedOSCheck == Now("supported-os") /\ Ended("pass", {})

timeSyncCheck ==
  /\ Now("time-sync")
  /\ \/ ~ Live /\ TimedOut
     \/ Live /\ host.sync \in {"yes", "no"} /\ Ended(IF host.sync = "yes" THEN "pass" ELSE "warning", {})
     \/ Live /\ host.sync \notin {"yes", "no"} /\ unavailableCheck(host.sync)

\* The files are looked at in their order; the first that is not right ends it.
filesystemOwnershipCheck ==
  /\ Now("filesystem-ownership")
  /\ LET first == IF host.passwd # "trusted" THEN host.passwd ELSE host.shadow
     IN \/ first = "absent"  /\ localInspectionError
        \/ first = "unsafe"  /\ Ended("critical", {})
        \/ first = "trusted" /\ Ended("pass", {})

kernelControlsCheck ==
  /\ Now("kernel-controls")
  /\ LET read == {host.aslr, host.rp}
     IN Ended(CASE "mismatch" \in read -> "warning"
                [] "mismatch" \notin read /\ "unread" \in read -> "skipped"
                [] OTHER -> "pass",
              IF "unread" \in read THEN {"local_probe_failed"} ELSE {})

sshPostureCheck ==
  /\ Now("ssh-posture")
  /\ \/ ~ Live /\ TimedOut
     \/ Live /\ host.sshd \in {"secure", "lax"} /\ Ended(IF host.sshd = "secure" THEN "pass" ELSE "warning", {})
     \/ Live /\ host.sshd \notin {"secure", "lax"} /\ unavailableCheck(host.sshd)

packageStateCheck ==
  /\ Now("package-state")
  /\ \/ host.pending = Unread /\ localInspectionError
     \/ host.pending # Unread
        /\ Ended(IF host.pending > host.config.maximum THEN "warning" ELSE "pass", {})

\* The services are asked for one by one, and the first that is not active
\* ends the check.
requiredServicesCheck ==
  /\ Now("required-services")
  /\ LET state == host[got.service]
     IN \/ ~ Live /\ TimedOut
        \/ Live /\ state = "absent"   /\ unavailableCheck("absent")
        \/ Live /\ state = "inactive" /\ Ended("warning", {})
        \/ Live /\ state = "active" /\ got.service = "cron" /\ Ended("pass", {})
        \/ Live /\ state = "active" /\ got.service = "ssh"
           /\ got' = [got EXCEPT !.service = "cron"] /\ GoTo("checks") /\ Others

baselineResult ==
  /\ pc = "checks" /\ got.todo = {}
  /\ Answer(Built(got.checks, got, got.errors))
  /\ UNCHANGED got /\ Others

Expire ==
  /\ Live /\ pc = "checks" /\ ctx' = "done" /\ hist' = [late |-> TRUE]
  /\ UNCHANGED <<cmd, host, changes, pc, got, reply>>

Step == Configure \/ Detect \/ supportedOSCheck \/ timeSyncCheck \/ filesystemOwnershipCheck
        \/ kernelControlsCheck \/ sshPostureCheck \/ packageStateCheck \/ requiredServicesCheck
        \/ baselineResult
Next == Step \/ Expire

----------------------------------------------------------------------------
\* What is asked of the host: a check is left out only when the configuration
\* says so.
Wanted(c) == LET s == host.config
             IN (s.enabled = <<>> \/ c \in Range(s.enabled)) /\ c \notin Range(s.disabled)

\* Every check that is selected has an outcome, and one that could not be made
\* has an error of its own; a check of several parts does not hide that one of
\* them could not be read behind another that differs (check.go:20-57,
\* 116-178).
NothingLost ==
  reply.exit = "ok" /\ cmd = "check" =>
    /\ {c.id : c \in reply.checks} = {c \in Compiled : Wanted(c)}
    /\ \A c \in reply.checks : c.status = "skipped" => \E e \in reply.errors : e.check = c.id
    /\ Wanted("kernel-controls") /\ "unread" \in {host.aslr, host.rp} =>
         \E e \in reply.errors : e.check = "kernel-controls"

\* A pass is of a machine on which every selected check holds.
PassIsEarned ==
  reply.status = "pass" /\ cmd = "check" =>
    /\ Wanted("time-sync") => host.sync = "yes"
    /\ Wanted("filesystem-ownership") => host.passwd = "trusted" /\ host.shadow = "trusted"
    /\ Wanted("kernel-controls") => host.aslr = "equal" /\ host.rp = "equal"
    /\ Wanted("ssh-posture") => host.sshd = "secure"
    /\ Wanted("package-state") => host.pending <= host.config.maximum
    /\ Wanted("required-services") => host.ssh = "active" /\ host.cron = "active"

\* Nothing that could not be made weighs more than a warning, and nothing
\* weighs more than account files anybody can write (resultbuilder.go:70-91).
StatusIsWorst ==
  reply.exit = "ok" /\ cmd = "check" =>
    /\ Wanted("filesystem-ownership") /\ host.passwd = "unsafe" => reply.status = "critical"
    /\ reply.status = "partial" => \A c \in reply.checks : c.status \notin {"critical", "warning"}
=============================================================================
