------------------------------ MODULE Postgres ------------------------------
(***************************************************************************)
(* The postgres plugin: `clusters` runs pg_lsclusters, `config` walks      *)
(* etc/postgresql, and `status` puts five sources together, none of which  *)
(* it needs: one that cannot be read counts as one that has nothing.       *)
(***************************************************************************)
EXTENDS Collector, FiniteSetsExt

Nobody == "nobody"
Rows == {"main", "bad port", "bad path", "short"}
ValidRow(r) == r = "main"

\* A tool prints rows; it is absent, exits with an error, or prints too much.
Printed(rows) == [ends |-> "ok", rows |-> rows]
Broken(how) == [ends |-> how, rows |-> {}]
Lists == {Broken(h) : h \in {"absent", "exits", "truncated"}} \cup {Printed(r) : r \in SUBSET Rows}

Units == {"loaded active", "loaded inactive", "not-found inactive", "unread"}

\* The files of a cluster; a line of one sets a key that may be shown, or
\* another, to a plain value or to one with a URI in it.
Names == <<"pg_hba.conf", "postgresql.conf">>
Line == [key : {"public", "private"}, value : {"plain", "uri"}]
File(state, lines) == [state |-> state, lines |-> lines]
Absent == File("absent", {})
Files == {Absent, File("link", {}), File("unread", {})} \cup {File("regular", l) : l \in SUBSET Line}
Trees == {"absent", "link", "too many", "read"}

Init ==
  \/ Starts({"clusters"}, [list : Lists], LAMBDA h : [ever |-> {}], [found |-> {}])
  \/ Starts({"status"},
            [list : {Printed({}), Printed({"main"}), Broken("absent")}, unit : Units,
             packages : {{}, {"postgresql"}, {"unread"}}, at : [Pids -> {Nobody, "postgres", "locked"}],
             config : BOOLEAN],
            LAMBDA h : [always |-> {p \in Pids : h.at[p] = "postgres"}, ever |-> {p \in Pids : h.at[p] = "postgres"}],
            [clusters |-> {}, unit |-> "unread", packages |-> {}, todo |-> {}, found |-> {}])
  \/ Starts({"config"},
            {[tree |-> t, files |-> f] : t \in Trees \ {"read"}, f \in {<<Absent, Absent>>}}
              \cup {[tree |-> "read", files |-> <<h, c>>] : h \in {Absent, File("link", {}), File("regular", {})}, c \in Files},
            LAMBDA h : [moved |-> FALSE], [todo |-> <<1, 2>>, present |-> FALSE, shown |-> {}])

Timeout == Answer(Failure("timeout")) /\ UNCHANGED got
Dependency == Answer(Failure("dependency")) /\ UNCHANGED got

Dispatch ==
  /\ pc = "start"
  /\ \/ Answer(Failure("arguments"))
     \/ GoTo([clusters |-> "list", status |-> "list", config |-> "tree"][cmd])
  /\ UNCHANGED got /\ Others

----------------------------------------------------------------------------
(* clusters.go *)

\* collectClusters: rows that are not well formed are passed over.
Clusters(list) == [ends |-> list.ends, rows |-> {r \in list.rows : ValidRow(r)}]

executeClusters ==
  /\ pc = "list" /\ cmd = "clusters"
  /\ LET list == Clusters(host.list)
     IN CASE ~ Live -> Timeout
          [] Live /\ list.ends # "ok" -> Dependency
          [] OTHER -> Answer(Built({Chk("clusters", "pass")}, list.rows, {})) /\ UNCHANGED got
  /\ Others

----------------------------------------------------------------------------
(* status.go *)

StatusClusters ==
  /\ pc = "list" /\ cmd = "status"
  /\ IF ~ Live THEN Timeout
     ELSE got' = [got EXCEPT !.clusters = Clusters(host.list).rows] /\ GoTo("unit")
  /\ Others

collectSystemdState ==
  /\ pc = "unit"
  /\ IF ~ Live THEN Timeout ELSE got' = [got EXCEPT !.unit = host.unit] /\ GoTo("packages")
  /\ Others

collectPackages ==
  /\ pc = "packages"
  /\ got' = [got EXCEPT !.packages = host.packages \ {"unread"}, !.todo = {p \in Pids : host.at[p] # Nobody}]
  /\ GoTo("processes") /\ Others

\* A process is told by its comm; its user is read after, and may be another's.
collectProcesses ==
  /\ pc = "processes" /\ got.todo # {}
  /\ LET p == Min(got.todo)
     IN got' = [got EXCEPT !.todo = @ \ {p}, !.found = IF host.at[p] = "postgres" THEN @ \cup {p} ELSE @]
  /\ GoTo("processes") /\ Others

Installed(g, config) ==
  g.clusters # {} \/ g.packages # {} \/ g.found # {} \/ config \/ g.unit \in {"loaded active", "loaded inactive"}

\* A unit that is not there counts as not active as well.
NotActive(g) == g.unit \in {"loaded inactive", "not-found inactive"} /\ g.found = {}

executeStatus ==
  /\ pc = "processes" /\ got.todo = {}
  /\ LET installed == Installed(got, host.config)
         status == CASE ~ installed -> "info"
                     [] installed /\ NotActive(got) -> "warning"
                     [] OTHER -> "pass"
     IN Answer(Built({Chk("status", status)}, [installed |-> installed, found |-> got.found], {}))
  /\ UNCHANGED got /\ Others

----------------------------------------------------------------------------
(* config.go: one version with one cluster *)

\* The directories; they are looked at for links before they are listed.
boundedDirectories ==
  /\ pc = "tree"
  /\ CASE host.tree \in {"absent", "link", "too many"} -> Dependency
       [] host.tree = "read" /\ ~ Live -> Timeout
       [] OTHER -> GoTo("exists") /\ UNCHANGED got
  /\ Others

FileExists ==
  /\ pc = "exists" /\ got.todo # <<>>
  /\ LET state == host.files[Head(got.todo)].state
     IN CASE ~ Live -> Timeout
          [] Live /\ state = "link" -> Dependency
          [] Live /\ state = "absent" -> got' = [got EXCEPT !.todo = Tail(@)] /\ GoTo("exists")
          [] OTHER -> GoTo("read") /\ UNCHANGED got
  /\ Others

\* parseConfigFile: what is published of the lines of postgresql.conf.
Settings(lines) == {[l EXCEPT !.value = IF @ = "uri" THEN "redacted" ELSE @] : l \in {x \in lines : x.key = "public"}}

\* A file that cannot be read fails the command, one that is gone meanwhile as
\* well.  Nothing of pg_hba.conf is published but how long it is.
ReadFile ==
  /\ pc = "read"
  /\ LET i == Head(got.todo)
         file == host.files[i]
     IN IF file.state # "regular" THEN Dependency
        ELSE /\ got' = [todo |-> Tail(got.todo), present |-> TRUE,
                        shown |-> got.shown \cup (IF Names[i] = "postgresql.conf" THEN Settings(file.lines) ELSE {})]
             /\ GoTo("exists")
  /\ Others

executeConfig ==
  /\ pc = "exists" /\ got.todo = <<>>
  /\ IF got.present THEN Answer(Built({Chk("config", "pass")}, got.shown, {})) ELSE Answer(Failure("dependency"))
  /\ UNCHANGED got /\ Others

----------------------------------------------------------------------------
\* A process ends or starts; a file is taken away or put in place.
Change ==
  \/ \E p \in Pids, v \in {Nobody, "postgres"} :
       /\ cmd = "status" /\ pc = "processes" /\ v # host.at[p]
       /\ Changes([host EXCEPT !.at[p] = v],
                  [always |-> hist.always \ {p}, ever |-> IF v = Nobody THEN hist.ever ELSE hist.ever \cup {p}])
  \/ \E i \in 1..2, f \in {Absent, File("regular", Line), File("link", {})} :
       /\ cmd = "config" /\ pc \in {"exists", "read"} /\ f # host.files[i]
       /\ Changes([host EXCEPT !.files[i] = f], [moved |-> TRUE])

Step == Dispatch \/ executeClusters \/ StatusClusters \/ collectSystemdState \/ collectPackages
        \/ collectProcesses \/ executeStatus \/ boundedDirectories \/ FileExists \/ ReadFile \/ executeConfig
Next == Step \/ Change \/ Deadline

----------------------------------------------------------------------------
\* What stands and can be read is found: a row of the list, a process that runs
\* all the time, the evidence of any one source (status.go:41-62).  Of a source
\* of `status` that cannot be read nothing is said: it has no error and lowers
\* no status, as docs/plugins/en/postgres-base.md:128-129 has it.
NothingLost ==
  reply.exit = "ok" =>
    /\ cmd = "clusters" => host.list.ends = "ok" /\ reply.data = {r \in host.list.rows : ValidRow(r)}
    /\ cmd = "status" =>
         /\ hist.always \subseteq reply.data.found
         /\ hist.always # {} \/ host.packages = {"postgresql"} \/ host.config
              \/ host.list = Printed({"main"}) \/ host.unit = "loaded active" => reply.data.installed

\* No process of another program is taken for a server (status.go:176-210).
NothingInvented == reply.exit = "ok" /\ cmd = "status" => reply.data.found \subseteq hist.ever

\* A pass of `status` is of something that runs, as far as that can be told;
\* one of `config` has read every file of the cluster.
PassIsEarned ==
  reply.status = "pass" =>
    /\ cmd = "status" /\ reply.data.installed => hist.ever # {} \/ host.unit \in {"loaded active", "unread"}
    /\ cmd = "config" /\ ~ hist.moved => \A i \in DOMAIN host.files : host.files[i].state \in {"absent", "regular"}

\* Nothing of a setting that is not on the list is published, and no URI.
SecretsMasked ==
  reply.exit = "ok" /\ cmd = "config" => \A s \in reply.data : s.key = "public" /\ s.value # "uri"
=============================================================================
