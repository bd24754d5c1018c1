---------------------------- MODULE GitlabRunner ----------------------------
(***************************************************************************)
(* The gitlab-runner plugin: `status` makes three probes that may fail on  *)
(* their own, `config` and `executors` parse the configuration file of the *)
(* runner with a parser of their own for a part of TOML.                   *)
(*                                                                         *)
(* host.config is the file, a sequence of lines; a line is a header, an    *)
(* assignment to a key, or something else.                                 *)
(***************************************************************************)
EXTENDS Collector, Functions

Headers == {"[[runners]]", "[[other]]", "[runners]", "[runners.docker]", "[other]"}
Keys == {"executor", "limit"}
Lines == Headers \cup Keys \cup {"malformed"}
Files == UNION {[1..n -> Lines] : n \in 0..MaxFileLines}

Nobody == "nobody"

Init ==
  \/ Starts({"config", "executors"},
            [config : Files, file : {"read"}] \cup [config : {<<>>}, file : {"absent", "unsafe"}],
            LAMBDA h : [always |-> {}, ever |-> {}], [i |-> 0])
  \/ Starts({"status"},
            [version : {"1.2.3", "absent", "invalid"}, unit : {"active", "failed", "not-found", "absent", "invalid"},
             at : [Pids -> {Nobody, "gitlab-runner", "other", "locked"}]],
            LAMBDA h : [always |-> {p \in Pids : h.at[p] = "gitlab-runner"},
                        ever |-> {p \in Pids : h.at[p] = "gitlab-runner"}],
            [i |-> 0, errors |-> {}, version |-> "", unit |-> "", pids |-> {}, found |-> {}])

----------------------------------------------------------------------------
(* parseConfig.  The runner a line belongs to is the number of [[runners]] *)
(* before it; zero is the index -1 of the code.                            *)

NoTable == "top of the file"
Parsing == [table |-> NoTable, runners |-> <<>>, seen |-> {}, outcome |-> "ok"]

Scope(s) == IF s.table \in {"runners", "runners.docker"} THEN <<s.table, Len(s.runners)>> ELSE <<s.table, 0>>

Header(s, line) ==
  CASE line = "[[runners]]" -> [s EXCEPT !.table = "runners", !.runners = Append(@, "no executor")]
    [] line = "[runners.docker]" /\ s.runners = <<>> -> [s EXCEPT !.outcome = "error"]
    [] line = "[runners.docker]" /\ s.runners # <<>> -> [s EXCEPT !.table = "runners.docker"]
    [] line = "[runners]" -> [s EXCEPT !.table = "runners"]
    [] line = "[other]"   -> [s EXCEPT !.table = "other"]
    [] OTHER              -> [s EXCEPT !.outcome = "error"]

\* A key of the table [runners] is applied to the last runner, of which
\* there may be none.
Assignment(s, key) ==
  IF <<Scope(s), key>> \in s.seen THEN [s EXCEPT !.outcome = "error"]
  ELSE IF s.table = "runners" /\ s.runners = <<>> THEN [s EXCEPT !.outcome = "panic"]
  ELSE [s EXCEPT !.seen = @ \cup {<<Scope(s), key>>},
                 !.runners = IF s.table = "runners" /\ key = "executor"
                             THEN [@ EXCEPT ![Len(@)] = "docker"] ELSE @]

Line(s, line) ==
  IF s.outcome # "ok" THEN s
  ELSE IF line \in Headers THEN Header(s, line)
  ELSE IF line \in Keys THEN Assignment(s, line)
  ELSE [s EXCEPT !.outcome = "error"]

\* The state after n lines.
parsed(lines) == LET p[n \in 0..Len(lines)] == IF n = 0 THEN Parsing ELSE Line(p[n - 1], lines[n])
                 IN p

parseConfig(lines) ==
  LET s == parsed(lines)[Len(lines)]
  IN IF s.outcome = "ok" /\ "no executor" \in Range(s.runners)
     THEN [s EXCEPT !.outcome = "error"] ELSE s

\* mutant: what was wrong with the file is answered in place of a code
configFailure_Reason == Answer(Failure(IF Live THEN host.file ELSE "timeout"))
configFailure ==
  Answer(Failure(IF ~ Live THEN "timeout" ELSE IF host.file = "absent" THEN "dependency" ELSE "configuration"))

\* executeConfig and executeExecutors read the file once; a panic ends the
\* process without an answer.
readConfig ==
  /\ pc = "start" /\ cmd \in {"config", "executors"}
  /\ LET file == parseConfig(host.config)
         id   == IF cmd = "executors" /\ file.runners = <<>> THEN "info" ELSE "pass"
     IN \/ ~ Live /\ configFailure
        \/ Live /\ (host.file # "read" \/ file.outcome = "error") /\ configFailure
        \/ Live /\ host.file = "read" /\ file.outcome = "panic" /\ Answer(Failure("crash"))
        \/ /\ Live /\ host.file = "read" /\ file.outcome = "ok"
           /\ Answer(Built({Chk(cmd, id)}, file.runners, {}))
  /\ UNCHANGED got /\ Others

----------------------------------------------------------------------------
(* executeStatus *)

\* A program that is absent is no failure; what is read when it fails is empty.
ProgramOf(value) ==
  [value |-> IF value \in {"absent", "invalid"} THEN "" ELSE value, fails |-> value = "invalid"]

statusTimeout ==
  /\ cmd = "status" /\ ~ Live /\ pc \in {"start", "unit", "processes", "comm", "uid"}
  /\ Answer(Failure("timeout")) /\ UNCHANGED got /\ Others

collectVersion ==
  /\ pc = "start" /\ cmd = "status" /\ Live
  /\ LET v == ProgramOf(host.version)
     IN got' = [got EXCEPT !.version = v.value, !.errors = IF v.fails THEN @ \cup {"version"} ELSE @]
  /\ GoTo("unit") /\ Others

collectUnit ==
  /\ pc = "unit" /\ Live
  /\ LET u == ProgramOf(host.unit)
     IN got' = [got EXCEPT !.unit = u.value, !.errors = IF u.fails THEN @ \cup {"unit"} ELSE @]
  /\ GoTo("processes") /\ Others

ReadProc ==
  /\ pc = "processes" /\ Live
  /\ got' = [got EXCEPT !.pids = {p \in Pids : host.at[p] # Nobody}]
  /\ GoTo("comm") /\ Others

Pid == CHOOSE p \in got.pids : \A q \in got.pids : p <= q

\* One process that cannot be read leaves no process at all.
ProcessesFail ==
  got' = [got EXCEPT !.pids = {}, !.found = {}, !.errors = @ \cup {"processes"}] /\ GoTo("report")

ReadComm ==
  /\ pc = "comm" /\ Live /\ got.pids # {}
  /\ IF host.at[Pid] = "locked" THEN ProcessesFail
     ELSE IF host.at[Pid] = "gitlab-runner" THEN UNCHANGED got /\ GoTo("uid")
     ELSE got' = [got EXCEPT !.pids = @ \ {Pid}] /\ GoTo("comm")
  /\ Others

\* A process that ended meanwhile is listed without its user; the user of the
\* one that has its id now is taken for it.
ReadUid ==
  /\ pc = "uid" /\ Live
  /\ IF host.at[Pid] = "locked" THEN ProcessesFail
     ELSE got' = [got EXCEPT !.pids = @ \ {Pid}, !.found = @ \cup {Pid}] /\ GoTo("comm")
  /\ Others

Installed == got.version # "" \/ got.unit \in {"active", "failed"} \/ got.found # {}

Report ==
  /\ pc = "report" \/ (pc = "comm" /\ got.pids = {} /\ Live)
  /\ LET status == IF ~ Installed THEN "info"
                   ELSE IF got.unit \notin {"", "active"} /\ got.found = {} THEN "warning" ELSE "pass"
     IN Answer(Built({Chk("status", status)}, got.found, got.errors))
  /\ UNCHANGED got /\ Others

Change ==
  \E p \in Pids, v \in {Nobody, "gitlab-runner", "other", "locked"} :
    /\ cmd = "status" /\ pc \in {"comm", "uid"} /\ v # host.at[p]
    /\ Changes([host EXCEPT !.at[p] = v],
               [always |-> hist.always \ {p},
                ever |-> IF v = "gitlab-runner" THEN hist.ever \cup {p} ELSE hist.ever])

Step == readConfig \/ statusTimeout \/ collectVersion \/ collectUnit \/ ReadProc \/ ReadComm \/ ReadUid \/ Report
Next == Step \/ Change \/ Deadline

----------------------------------------------------------------------------
\* A runner that runs all the time is listed, or an error says that the
\* processes could not be read (status.go:148-206).
NothingLost ==
  cmd = "status" /\ reply.exit = "ok" =>
    hist.always \subseteq reply.data \/ "processes" \in reply.errors

\* What is listed did run; each runner of the configuration was declared and
\* has the executor it names, once (config.go:124-206).
NothingInvented ==
  reply.exit = "ok" =>
    IF cmd = "status" THEN reply.data \subseteq hist.ever
    ELSE /\ Len(reply.data) = Cardinality({i \in DOMAIN host.config : host.config[i] = "[[runners]]"})
         /\ "no executor" \notin Range(reply.data)
         /\ "malformed" \notin Range(host.config)

\* A pass has made all three probes, and is not of a unit that failed, unless
\* there was a process for it.
PassIsEarned ==
  reply.status = "pass" /\ cmd = "status" =>
    /\ reply.errors = {} /\ "invalid" \notin {host.version, host.unit}
    /\ host.unit = "failed" => hist.ever # {}

\* A configuration that the parser does not accept is answered with the exit
\* code for it (docs/plugins/en/gitlab-runner-base.md:114-116).
MalformedIsAnswered == reply.exit # "crash"
=============================================================================
