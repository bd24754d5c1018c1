----------------------------- MODULE Monitoring -----------------------------
(***************************************************************************)
(* The monitoring plugin: `inventory` asks, for each known product, the    *)
(* package table, the processes, the listeners, its units and its files;   *)
(* `config` reads the files; `status` does both, one after the other.      *)
(*                                                                         *)
(* Two products stand for the six: "solo", and "duo", which has two units  *)
(* and two files, as the Zabbix agent.  Both listen on one port, as Alloy  *)
(* and the Grafana Agent.                                                  *)
(***************************************************************************)
EXTENDS Collector, FiniteSetsExt

Products == {"solo", "duo"}
\* Units and files are called like the fields of host that they are.
Units == [solo |-> <<"solo">>, duo |-> <<"duo", "duo2">>]
Paths == [solo |-> <<"soloConf">>, duo |-> <<"duo2Conf", "duodConf">>]

\* host.packages, host.processes and host.listening are "unread" when the
\* table cannot be read; a missing ss is no error.  A process of "solo" is
\* "nameless" when it stands in the table and its comm cannot be read.
Hosts ==
  LET usual == [packages |-> "none", processes |-> "none", listening |-> "none",
                solo |-> "absent", duo |-> "absent", duo2 |-> "absent",
                soloConf |-> "absent", duo2Conf |-> "absent", duodConf |-> "absent"]
      file == {"unsafe", "valid", "malformed"}
      unit == {"active", "broken", "no systemctl"}
      values == [packages |-> {"solo", "duo", "unread"}, processes |-> {"solo", "duo", "unread", "nameless"},
                 listening |-> {"port", "unread", "no ss"},
                 solo |-> unit, duo |-> unit, duo2 |-> unit,
                 soloConf |-> file, duo2Conf |-> file, duodConf |-> file]
  IN Varied(Varied({usual}, values), values)

\* What speaks for a product: the package, a process by its name, a unit, a
\* file.  A process whose name cannot be read speaks for none.
Evidence(h, p) ==
  {s \in {"packages", "processes"} : h[s] = p}
  \cup {s \in {"unit"} : \E i \in DOMAIN Units[p] : h[Units[p][i]] = "active"}
  \cup {s \in {"file"} : \E i \in DOMAIN Paths[p] : h[Paths[p][i]] \in {"valid", "malformed"}}

----------------------------------------------------------------------------
\* The probes of a command, in the order they are made.
Probe(what, p, i) == [what |-> what, product |-> p, i |-> i]
All(what, p, names) == [i \in DOMAIN names[p] |-> Probe(what, p, i)]
collectInventory ==
  <<Probe("packages", "solo", 0), Probe("processes", "solo", 0), Probe("listeners", "solo", 0)>>
  \o All("unit", "solo", Units) \o All("present", "solo", Paths)
  \o All("unit", "duo", Units) \o All("present", "duo", Paths)
collectConfigs == All("config", "solo", Paths) \o All("config", "duo", Paths)

Probes == [inventory |-> collectInventory, config |-> collectConfigs,
           status |-> collectInventory \o collectConfigs]

\* todo: the probes still to be made, by their positions.
\* found: pairs of a product and what speaks for it; configs: files and
\* whether they are valid; issues: errors, by their code and product.
NothingRead == [todo |-> {}, found |-> {}, port |-> FALSE, configs |-> {}, issues |-> {}]

Init == Starts(DOMAIN Probes, Hosts,
               LAMBDA h : [always |-> [p \in Products |-> Evidence(h, p)],
                           ever |-> [p \in Products |-> Evidence(h, p)]],
               NothingRead)

Dispatch ==
  /\ pc = "start"
  /\ \/ Answer(Failure("arguments")) /\ UNCHANGED got
     \/ got' = [got EXCEPT !.todo = DOMAIN Probes[cmd]] /\ GoTo("probe")
  /\ Others

contextFailure ==
  /\ pc = "probe" /\ ~ Live
  /\ Answer(Failure("timeout")) /\ UNCHANGED got /\ Others

Current == Probes[cmd][Min(got.todo)]
Later == got.todo \ {Min(got.todo)}

\* The probe p is done with; more is what it found, issue what it reports,
\* and skips the rest of the same kind that it makes unnecessary.
Finished(p, more, issues, ends) ==
  /\ got' = [got EXCEPT
       !.todo = {n \in Later : ~ (ends /\ Probes[cmd][n].what = p.what /\ Probes[cmd][n].product = p.product)},
       !.found = @ \cup more, !.issues = @ \cup issues]
  /\ GoTo("probe") /\ Others

Now(what) == pc = "probe" /\ Live /\ got.todo # {} /\ Current.what = what

Issue(code, product) == [code |-> code, product |-> product]

\* installedPackages and monitoringProcesses: one table for all products.  A
\* process without a name that can be read is passed over in silence.
Table(what, code) ==
  /\ Now(what)
  /\ Finished(Current, {<<p, what>> : p \in {q \in Products : host[what] = q}},
              IF host[what] = "unread" THEN {Issue(code, "all")} ELSE {}, FALSE)

installedPackages   == Table("packages", "package_inventory")
monitoringProcesses == Table("processes", "process_inventory")

listeningPorts ==
  /\ Now("listeners")
  /\ got' = [got EXCEPT !.todo = Later, !.port = (host.listening = "port"),
                        !.issues = IF host.listening = "unread"
                                   THEN @ \cup {Issue("listener_inventory", "all")} ELSE @]
  /\ GoTo("probe") /\ Others

\* The units of a product are tried until one is loaded; a failure does not
\* end the search, and is reported even when it succeeds.
unitState ==
  /\ Now("unit")
  /\ LET p == Current
         state == host[Units[p.product][p.i]]
     IN Finished(p, IF state = "active" THEN {<<p.product, "unit">>} ELSE {},
                 IF state = "broken" THEN {Issue("unit_inventory", p.product)} ELSE {},
                 state = "active")

\* The files are tried until one is there; one that is unsafe ends the search.
productConfigPresent ==
  /\ Now("present")
  /\ LET p == Current
         state == host[Paths[p.product][p.i]]
     IN Finished(p, IF state \in {"valid", "malformed"} THEN {<<p.product, "file">>} ELSE {},
                 IF state = "unsafe" THEN {Issue("config_metadata", p.product)} ELSE {},
                 state # "absent")

ReadConfig ==
  /\ Now("config")
  /\ LET p == Current
         path == Paths[p.product][p.i]
         state == host[path]
     IN /\ got' = [got EXCEPT
             !.todo = Later,
             !.configs = IF state \in {"valid", "malformed"}
                         THEN @ \cup {[path |-> path, valid |-> state = "valid"]} ELSE @,
             !.issues = @ \cup (CASE state = "unsafe"    -> {Issue("unsafe_config", p.product)}
                                  [] state = "malformed" -> {Issue("malformed_config", p.product)}
                                  [] OTHER               -> {})]
        /\ GoTo("probe") /\ Others

Installed(g, p) == \E f \in g.found : f[1] = p
configIssues == {i \in got.issues : i.code \in {"unsafe_config", "malformed_config"}}

\* One check for each product, and one for the files of `config` or for
\* each of their issues in `status`.
Checks ==
  LET present == {Chk(p, IF Installed(got, p) THEN "pass" ELSE "info") : p \in Products}
      files   == {Chk("config", CASE configIssues # {} -> "partial"
                                  [] configIssues = {} /\ got.configs = {} -> "info"
                                  [] OTHER -> "pass")}
      issues  == {Chk(i, "partial") : i \in configIssues}
  IN CASE cmd = "inventory" -> present
       [] cmd = "config"    -> files
       [] cmd = "status"    -> present \cup issues

Report ==
  /\ pc = "probe" /\ Live /\ got.todo = {}
  /\ Answer(Built(Checks, got, got.issues))
  /\ UNCHANGED got /\ Others

\* A product is installed, removed, started or stopped during the run.
Change ==
  \E f \in {"processes", "duo", "soloConf", "duo2Conf"} :
    LET v == [processes |-> "solo", duo |-> "active", soloConf |-> "valid", duo2Conf |-> "unsafe"][f]
        new == [host EXCEPT ![f] = IF @ = v THEN (IF f = "processes" THEN "none" ELSE "absent") ELSE v]
    IN pc = "probe" /\
       Changes(new, [always |-> [p \in Products |-> hist.always[p] \cap Evidence(new, p)],
                     ever |-> [p \in Products |-> hist.ever[p] \cup Evidence(new, p)]])

Step == Dispatch \/ contextFailure \/ installedPackages \/ monitoringProcesses \/ listeningPorts
        \/ unitState \/ productConfigPresent \/ ReadConfig \/ Report
Next == Step \/ Change \/ Deadline

----------------------------------------------------------------------------
\* A product that something speaks for all the time is installed, or an error
\* says which of the sources could not be read (inventory.go:105-209).  A
\* process whose name cannot be read is no source: the code goes on to the next
\* without an error (332-335), though docs/plugins/en/monitoring-base.md:118-119
\* has one for each optional source that fails.
NothingLost ==
  reply.exit = "ok" /\ cmd # "config" =>
    \A p \in Products : hist.always[p] # {} =>
      Installed(reply.data, p) \/ \E i \in reply.errors : i.product \in {p, "all"}

\* Nothing speaks for a product that is said to be installed, unless it did at
\* some time of the run; a process or a unit that is seen once is enough.
NothingInvented ==
  reply.exit = "ok" =>
    \A f \in reply.data.found : f[2] \in hist.ever[f[1]]

\* A pass has looked at everything, and at no file that is malformed.
PassIsEarned ==
  reply.status = "pass" =>
    /\ reply.errors = {} /\ reply.data.todo = {}
    /\ \A c \in reply.data.configs : c.valid
=============================================================================
