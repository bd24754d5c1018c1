------------------------------- MODULE Backup -------------------------------
(***************************************************************************)
(* The backup plugin: `inventory` runs each of the three tools and reads   *)
(* its configuration, `status` does the same and asks for the units of     *)
(* each, `history` reads the log of each.                                  *)
(*                                                                         *)
(* host.version[a] is what running a tool gives; host.config[a] is the     *)
(* file: "absent", "unsafe", or its lines, of which each gives the key of  *)
(* the repository a value of some kind, or an empty one, or is another.    *)
(***************************************************************************)
EXTENDS Collector, FiniteSetsExt

adapters == <<"borg", "restic", "rsnapshot">>
Tools == Range(adapters)

MaxLines == 2     \* historyLineLimit
Lines == {"local", "ssh", "empty", "other"}
File(state, lines) == [state |-> state, lines |-> lines]
Absent == File("absent", <<>>)
Unsafe == File("unsafe", <<>>)
Configs == {Absent, Unsafe} \cup {File("read", l) : l \in UNION {[1..n -> Lines] : n \in 0..2}}
Entry == [at : 1..2, outcome : {"success", "failed", "unknown"}]
Histories == {Absent, Unsafe} \cup
  {File("read", l) : l \in (UNION {[1..n -> Entry] : n \in 0..MaxLines})
                          \cup {[i \in 1..(MaxLines + 1) |-> [at |-> 1, outcome |-> "success"]]}}

All(v) == [a \in Tools |-> v]
Versions == {"absent", "good", "malformed", "exits", "fails"}

\* What systemctl says of a unit; of one that is not there it prints the load
\* state alone, or all three properties that were asked for.
UnitStates == {"loaded", "not-found", "not-found inactive dead", "absent", "exits", "malformed"}

Inventories ==
  {[version |-> All(v), config |-> All(c)] : v \in {"absent", "good"}, c \in {Absent, File("read", <<"local">>)}}
    \cup {[version |-> [All("absent") EXCEPT ![a] = v], config |-> [All(Absent) EXCEPT ![a] = c]] :
            a \in Tools, v \in Versions, c \in Configs}

Init ==
  \/ Starts({"inventory"}, Inventories,
            LAMBDA h : [always |-> {a \in Tools : h.version[a] = "good" \/ h.config[a].state = "read"},
                        ever   |-> {a \in Tools : h.version[a] = "good" \/ h.config[a].state = "read"}],
            [todo |-> adapters, version |-> "none", products |-> {}, checks |-> {}, errors |-> {}])
  \/ Starts({"status"},
            {[version |-> All("absent"), config |-> All(Absent),
              unit |-> [All([service |-> "not-found", timer |-> "not-found"]) EXCEPT ![a] = [service |-> s, timer |-> t]]] :
               a \in {"borg", "rsnapshot"}, s \in UnitStates, t \in UnitStates},
            LAMBDA h : [always |-> {}, ever |-> {}],
            [todo |-> adapters, version |-> "none", products |-> {}, checks |-> {}, errors |-> {}])
  \/ Starts({"history"}, {[log |-> [All(Absent) EXCEPT ![a] = l]] : a \in Tools, l \in Histories},
            LAMBDA h : h.log, [todo |-> adapters, summaries |-> {}, checks |-> {}, errors |-> {}])

backupFailure(code, tool) == [code |-> code, tool |-> tool]
Tool == Head(got.todo)

Dispatch ==
  /\ pc = "start"
  /\ \/ Answer(Failure("arguments"))
     \/ GoTo(IF cmd = "history" THEN "history" ELSE "version")
  /\ UNCHANGED got /\ Others

\* Every loop asks for the deadline at the start of a tool; a program that
\* runs into it ends the command as well.
contextFailure ==
  /\ pc \in {"version", "units", "history"} /\ got.todo # <<>> /\ ~ Live
  /\ Answer(Failure("timeout")) /\ UNCHANGED got /\ Others

----------------------------------------------------------------------------
(* inventory.go *)

\* A tool that is not found is not installed; one that fails to start is not
\* either, with an error; one that answers in any other way is.
inspectVersion ==
  /\ pc = "version" /\ got.todo # <<>> /\ Live
  /\ LET said == host.version[Tool]
     IN got' = [got EXCEPT
          !.version = IF said \in {"absent", "fails"} THEN "none" ELSE "found",
          !.errors = IF said \in {"absent", "good"} THEN @ ELSE @ \cup {backupFailure("version_probe", Tool)}]
  /\ GoTo("config") /\ Others

\* restic: the key exactly once, and not empty.
exactAssignment(lines) ==
  LET at == {i \in DOMAIN lines : lines[i] # "other"}
  IN IF Cardinality(at) = 1 THEN lines[Min(at)] ELSE "empty"

\* borg: the first line that has the key decides.
parseBorgRepository(lines) ==
  LET at == {i \in DOMAIN lines : lines[i] # "other"} IN IF at = {} THEN "empty" ELSE lines[Min(at)]

\* rsnapshot: the first line with the key and a value.
parseRSnapshotRepository(lines) ==
  LET at == {i \in DOMAIN lines : lines[i] \notin {"other", "empty"}} IN IF at = {} THEN "empty" ELSE lines[Min(at)]

\* The kind of the repository; "empty" when there is none to be found.
Repository(tool, lines) ==
  CASE tool = "borg"      -> parseBorgRepository(lines)
    [] tool = "restic"    -> exactAssignment(lines)
    [] tool = "rsnapshot" -> parseRSnapshotRepository(lines)

ConfigIssue(file, kind) == file.state = "unsafe" \/ (file.state = "read" /\ kind = "empty")

inspectConfig ==
  /\ pc = "config"
  /\ LET file == host.config[Tool]
         kind == Repository(Tool, file.lines)
         installed == got.version = "found" \/ file.state = "read"
     IN got' = [got EXCEPT
          !.todo = Tail(@), !.version = "none",
          !.products = @ \cup {[tool |-> Tool, installed |-> installed, repository |-> kind]},
          !.checks = @ \cup {Chk(<<Tool, "present">>, IF installed THEN "pass" ELSE "info")},
          !.errors = IF ConfigIssue(file, kind) THEN @ \cup {backupFailure("config_metadata", Tool)} ELSE @]
  /\ GoTo("version") /\ Others

executeInventory ==
  /\ pc = "version" /\ got.todo = <<>> /\ cmd = "inventory"
  /\ Answer(Built(got.checks, got.products, got.errors)) /\ UNCHANGED got /\ Others

----------------------------------------------------------------------------
(* status.go *)

CollectedInventory ==
  /\ pc = "version" /\ got.todo = <<>> /\ cmd = "status"
  /\ got' = [got EXCEPT !.todo = adapters] /\ GoTo("units") /\ Others

\* inspectUnit: no systemctl is no issue, and no unit is none when nothing is
\* said of it but that.
UnitIssue(said) == said \in {"exits", "malformed", "not-found inactive dead"}

inspectUnits ==
  /\ pc = "units" /\ got.todo # <<>> /\ Live
  /\ LET said == host.unit[Tool]
         status == CASE UnitIssue(said.timer) -> "partial"
                     [] ~ UnitIssue(said.timer) /\ said.timer = "loaded" -> "pass"
                     [] OTHER -> "info"
     IN got' = [got EXCEPT
          !.todo = Tail(@),
          !.checks = @ \cup {Chk(<<Tool, "timer">>, status)},
          !.errors = @ \cup {backupFailure(u, Tool) : u \in {x \in {"service", "timer"} : UnitIssue(said[x])}}]
  /\ GoTo("units") /\ Others

executeStatus ==
  /\ pc = "units" /\ got.todo = <<>>
  /\ Answer(Built(got.checks, got.products, got.errors)) /\ UNCHANGED got /\ Others

----------------------------------------------------------------------------
(* history.go *)

\* The log is refused as a whole when one line of it is not understood or
\* there are too many.
HistoryIssue(file) ==
  \/ file.state = "unsafe"
  \/ Len(file.lines) > MaxLines
  \/ \E i \in DOMAIN file.lines : file.lines[i].outcome = "unknown"

Number(lines, outcome) == Cardinality({i \in DOMAIN lines : lines[i].outcome = outcome})

Summary(tool, file) ==
  LET lines == IF HistoryIssue(file) THEN <<>> ELSE file.lines
  IN [tool |-> tool, entries |-> Len(lines), failures |-> Number(lines, "failed"),
      last |-> Max({0} \cup {lines[i].at : i \in DOMAIN lines})]

inspectHistory ==
  /\ pc = "history" /\ got.todo # <<>> /\ Live
  /\ LET file == host.log[Tool]
         status == CASE HistoryIssue(file) -> "partial"
                     [] ~ HistoryIssue(file) /\ file.state = "absent" -> "info"
                     [] OTHER -> "pass"
     IN got' = [got EXCEPT
          !.todo = Tail(@), !.summaries = @ \cup {Summary(Tool, file)},
          !.checks = @ \cup {Chk(Tool, status)},
          !.errors = IF HistoryIssue(file) THEN @ \cup {backupFailure("history_metadata", Tool)} ELSE @]
  /\ GoTo("history") /\ Others

executeHistory ==
  /\ pc = "history" /\ got.todo = <<>>
  /\ Answer(Built(got.checks, got.summaries, got.errors)) /\ UNCHANGED got /\ Others

----------------------------------------------------------------------------
\* A tool is installed or removed.
Change ==
  \E a \in Tools :
    LET v == IF host.version[a] = "absent" THEN "good" ELSE "absent"
        c == IF host.config[a].state = "absent" THEN File("read", <<"ssh">>) ELSE Absent
    IN /\ cmd = "inventory" /\ pc \in {"version", "config"}
       /\ Changes([version |-> [host.version EXCEPT ![a] = v], config |-> [host.config EXCEPT ![a] = c]],
                  [always |-> IF v = "good" \/ c # Absent THEN hist.always ELSE hist.always \ {a},
                   ever   |-> IF v = "good" \/ c # Absent THEN hist.ever \cup {a} ELSE hist.ever])

Step == Dispatch \/ contextFailure \/ inspectVersion \/ inspectConfig \/ executeInventory
        \/ CollectedInventory \/ inspectUnits \/ executeStatus \/ inspectHistory \/ executeHistory
Next == Step \/ Change \/ Deadline

----------------------------------------------------------------------------
\* A tool that nobody touches and that is there, by its program or by its
\* configuration, is installed, and what could not be read of it has an error;
\* a log of which one line counts is counted whole or refused with an error
\* (inventory.go:96-151, history.go:76-116).
NothingLost ==
  reply.exit = "ok" =>
    /\ cmd = "inventory" /\ changes = 0 =>
         /\ \A p \in reply.data : p.tool \in hist.always => p.installed
         /\ \A a \in Tools : host.version[a] \in {"fails", "malformed", "exits"} \/ host.config[a] = Unsafe
              => \E e \in reply.errors : e.tool = a
    /\ cmd = "history" =>
         \A s \in reply.data :
           \/ s.entries = Len(hist[s.tool].lines)
              /\ \A i \in DOMAIN hist[s.tool].lines : hist[s.tool].lines[i].at <= s.last
           \/ \E e \in reply.errors : e.tool = s.tool

\* A tool is installed only if at some time of the run it was there, by a valid
\* answer to its probe or by its configuration, or an error says that the probe
\* was not trusted (inventory.go:120-142, 174-181).  With that error the code
\* goes beyond docs/plugins/en/backup-base.md:67-68, "Product presence is
\* derived from a valid executable probe or present config."
NothingInvented ==
  reply.exit = "ok" /\ cmd = "inventory" =>
    \A p \in reply.data : p.installed =>
      p.tool \in hist.ever \/ backupFailure("version_probe", p.tool) \in reply.errors

\* `status` passes when every unit that there is could be inspected.
PassIsEarned ==
  reply.status = "pass" =>
    /\ reply.errors = {}
    /\ cmd = "status"  => \A a \in Tools : {host.unit[a].service, host.unit[a].timer} \subseteq {"loaded", "not-found", "absent"}
    /\ cmd = "inventory" /\ changes = 0 =>
         \A a \in Tools : host.config[a].state = "read" =>
           \E i \in DOMAIN host.config[a].lines : host.config[a].lines[i] \in {"local", "ssh"}

\* "A missing conventional unit is informational"
\* (docs/plugins/en/backup-base.md:51-52), in whichever way systemctl says so.
MissingUnitIsInformational ==
  reply.exit = "ok" /\ cmd = "status" =>
    \A a \in Tools : host.unit[a].timer \in {"not-found", "not-found inactive dead"} =>
      Chk(<<a, "timer">>, "info") \in reply.checks
=============================================================================
