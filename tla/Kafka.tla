------------------------------- MODULE Kafka -------------------------------
(***************************************************************************)
(* The kafka plugin: `status` reads the packages, the processes and the    *)
(* unit, `config` every configuration file there is, and `storage` the     *)
(* first of them, the directories it names and a tool of Kafka.            *)
(*                                                                         *)
(* host.files[i] is a configuration file: "absent", "unsafe", "malformed"  *)
(* (a duplicate, a continuation, no key) or the directories it names in    *)
(* log.dirs.  host.dirs[d] is what is in the place of a directory, with    *)
(* the number of entries in it.                                            *)
(***************************************************************************)
EXTENDS Collector

Nobody == "nobody"
Candidates == 1..2      \* of the four paths, in their order
Dirs == {"d1", "d2"}
MaxEntries == 1         \* maxLogDirEntries

\* state "valid" with no directories stands for a file without log.dirs, and
\* for one that sets log.dir as well.
File(state, dirs) == [state |-> state, dirs |-> dirs]
ConfigFiles == {File(s, {}) : s \in {"absent", "unsafe", "malformed", "valid"}} \cup
               {File("valid", d) : d \in {{"d1"}, Dirs}} \cup {File("repeats", {"d1"})}
Entry(node, entries) == [node |-> node, entries |-> entries]
Entries == {Entry("dir", 0), Entry("dir", MaxEntries), Entry("dir", MaxEntries + 1),
            Entry("new dir", 1), Entry("symlink", 0), Entry("absent", 0)}
Tools == {"works", "absent", "exits", "malformed"}

\* What `storage` may find: one file of any kind before one that is valid, and
\* anything in the place of the first directory.
Stores == [files : {<<a, File("valid", {"d1"})>> : a \in ConfigFiles},
           dirs : {[d \in Dirs |-> IF d = "d1" THEN e ELSE Entry("dir", 0)] : e \in Entries},
           tool : [sh : Tools, plain : {"works", "absent"}]]

Init ==
  \/ Starts({"status"},
            [at : [Pids -> {Nobody, "kafka", "java", "locked"}], packages : {"none", "kafka", "unsafe"},
             unit : {"loaded", "not-found", "fails"}],
            LAMBDA h : [always |-> {p \in Pids : h.at[p] = "kafka"}, ever |-> {p \in Pids : h.at[p] = "kafka"}],
            [todo |-> {}, comm |-> FALSE, found |-> {}])
  \/ Starts({"config"}, [files : [Candidates -> ConfigFiles]],
            LAMBDA h : [always |-> h.files], [todo |-> Candidates, found |-> {}])
  \/ Starts({"storage"}, Stores, LAMBDA h : [moved |-> {}],
            [config |-> 0, todo |-> {}, lstat |-> "", count |-> [d \in {} |-> 0], errors |-> {}])

Timeout == Answer(Failure("timeout"))
Dependency == Answer(Failure("dependency"))

Next1(set) == CHOOSE i \in set : \A j \in set : i <= j

Dispatch ==
  /\ pc = "start"
  /\ \/ ~ Live /\ Timeout
     \/ Live /\ GoTo([status |-> "packages", config |-> "files", storage |-> "select"][cmd])
  /\ UNCHANGED got /\ Others

----------------------------------------------------------------------------
(* executeStatus *)

collectPackages ==
  /\ pc = "packages"
  /\ IF host.packages = "unsafe" THEN Dependency /\ UNCHANGED got
     ELSE got' = [got EXCEPT !.todo = {p \in Pids : host.at[p] # Nobody}] /\ GoTo("comm")
  /\ Others

collectProcessesFails ==
  /\ cmd = "status" /\ pc = "comm" /\ got.todo # {} /\ ~ Live
  /\ Timeout /\ UNCHANGED got /\ Others

\* A process that cannot be read is passed over, like one that is gone.
ReadComm ==
  /\ pc = "comm" /\ got.todo # {} /\ Live
  /\ LET p == Next1(got.todo)
     IN IF host.at[p] \in {"kafka", "java"} THEN UNCHANGED got /\ GoTo("cmdline")
        ELSE got' = [got EXCEPT !.todo = @ \ {p}] /\ GoTo("comm")
  /\ Others

ReadCmdline ==
  /\ pc = "cmdline"
  /\ LET p == Next1(got.todo)
     IN got' = [got EXCEPT !.todo = @ \ {p}, !.found = IF host.at[p] = "kafka" THEN @ \cup {p} ELSE @]
  /\ GoTo("comm") /\ Others

collectUnit ==
  /\ pc = "comm" /\ got.todo = {}
  /\ LET fails == host.unit = "fails"
         installed == host.packages = "kafka" \/ got.found # {} \/ host.unit = "loaded"
     IN IF ~ Live THEN Timeout
        ELSE Answer(Built({Chk("installation", IF installed THEN "pass" ELSE "info"),
                           Chk("systemd", IF fails THEN "skipped" ELSE "pass")},
                          got.found, IF fails THEN {"unit"} ELSE {}))
  /\ UNCHANGED got /\ Others

----------------------------------------------------------------------------
(* executeConfig: every file that is there, or none. *)

ReadConfig ==
  /\ pc = "files" /\ got.todo # {}
  /\ LET i == Next1(got.todo)
         state == host.files[i].state
     IN CASE ~ Live -> Timeout /\ UNCHANGED got
          [] Live /\ state = "absent" -> got' = [got EXCEPT !.todo = @ \ {i}] /\ GoTo("files")
          [] Live /\ state \in {"valid", "repeats"} ->
               got' = [todo |-> got.todo \ {i}, found |-> got.found \cup {i}] /\ GoTo("files")
          [] OTHER -> Dependency /\ UNCHANGED got
  /\ Others

ReportConfig ==
  /\ pc = "files" /\ got.todo = {}
  /\ IF got.found = {} THEN Dependency ELSE Answer(Built({Chk("config", "pass")}, got.found, {}))
  /\ UNCHANGED got /\ Others

----------------------------------------------------------------------------
(* executeStorage *)

\* The first file that is there is the one, whatever is in it.  The deadline
\* is one of the reasons for which no file is selected.
selectStorageConfig ==
  /\ pc = "select"
  /\ LET there == {i \in Candidates : host.files[i].state # "absent"}
         file == host.files[Next1(there)]
     IN IF ~ Live \/ there = {} THEN Dependency /\ UNCHANGED got
        ELSE IF file.state # "valid" \/ file.dirs = {} THEN Dependency /\ UNCHANGED got
        ELSE got' = [got EXCEPT !.config = Next1(there), !.todo = file.dirs] /\ GoTo("lstat")
  /\ Others

Dir == CHOOSE d \in got.todo : d = "d1" \/ "d1" \notin got.todo

\* inspectDirectory: the path is walked, the directory opened, and what was
\* opened compared with what was there.
LstatDir ==
  /\ pc = "lstat" /\ got.todo # {}
  /\ CASE ~ Live -> Timeout /\ UNCHANGED got
       [] Live /\ host.dirs[Dir].node \in {"symlink", "absent"} -> Dependency /\ UNCHANGED got
       [] OTHER -> got' = [got EXCEPT !.lstat = host.dirs[Dir].node] /\ GoTo("open")
  /\ Others

Opened(d) == host.dirs[d].node = got.lstat

Counted(d) == host.dirs[d].entries <= MaxEntries

OpenDir ==
  /\ pc = "open"
  /\ CASE ~ Opened(Dir) -> Dependency /\ UNCHANGED got
       [] Opened(Dir) /\ ~ Live -> Timeout /\ UNCHANGED got
       [] OTHER ->
            IF ~ Counted(Dir) THEN Dependency /\ UNCHANGED got
            ELSE /\ got' = [got EXCEPT
                      !.todo = @ \ {Dir},
                      !.count = [d \in DOMAIN @ \cup {Dir} |->
                        IF d = Dir THEN [entries |-> host.dirs[d].entries, node |-> host.dirs[d].node]
                        ELSE @[d]]]
                 /\ GoTo("lstat")
  /\ Others

\* kafka-storage.sh, and kafka-storage only when there is none.
runStorageInfo ==
  /\ pc = "lstat" /\ got.todo = {}
  /\ LET tool == IF host.tool.sh = "absent" THEN host.tool.plain ELSE host.tool.sh
     IN IF ~ Live THEN Timeout
        ELSE Answer(Built({Chk("directories", "pass"), Chk("info", IF tool = "works" THEN "pass" ELSE "skipped")},
                          got.count, IF tool = "works" THEN {} ELSE {"info"}))
  /\ UNCHANGED got /\ Others

----------------------------------------------------------------------------
Change ==
  \/ \E p \in Pids, v \in {Nobody, "kafka", "java"} :
       /\ cmd = "status" /\ pc \in {"comm", "cmdline"} /\ v # host.at[p]
       /\ Changes([host EXCEPT !.at[p] = v],
                  [always |-> hist.always \ {p},
                   ever |-> IF v = "kafka" THEN hist.ever \cup {p} ELSE hist.ever])
  \/ \E i \in Candidates, s \in {"absent", "valid"} :
       /\ cmd = "config" /\ pc = "files" /\ s # host.files[i].state
       /\ Changes([host EXCEPT !.files[i] = File(s, {})], [always |-> [hist.always EXCEPT ![i] = File("absent", {})]])
  \/ \E d \in Dirs, e \in {Entry("new dir", 1), Entry("symlink", 0), Entry("absent", 0)} :
       /\ cmd = "storage" /\ pc \in {"lstat", "open"} /\ e # host.dirs[d]
       /\ Changes([host EXCEPT !.dirs[d] = e], [moved |-> hist.moved \cup {d}])

Step == Dispatch \/ collectPackages \/ collectProcessesFails \/ ReadComm \/ ReadCmdline \/ collectUnit
        \/ ReadConfig \/ ReportConfig \/ selectStorageConfig \/ LstatDir \/ OpenDir \/ runStorageInfo
Next == Step \/ Change \/ Deadline

----------------------------------------------------------------------------
\* A broker that runs all the time and can be read is listed, one that cannot
\* be read is passed over without an error; every file that is there is among
\* those of `config`; every directory of the file that was selected is counted,
\* with all its entries (status.go:210-262, config.go:47-91, storage.go:125-167).
NothingLost ==
  reply.exit = "ok" =>
    /\ cmd = "status" => hist.always \subseteq reply.data
    /\ cmd = "config" => \A i \in Candidates : hist.always[i].state # "absent" => i \in reply.data
    /\ cmd = "storage" =>
         /\ host.files[got.config].dirs = DOMAIN reply.data
         /\ \A d \in Dirs \ hist.moved : d \in DOMAIN reply.data => reply.data[d].entries = host.dirs[d].entries

\* No process of another program is taken for a broker unless the process id
\* changed hands, and no directory is counted that a link leads to.
NothingInvented ==
  reply.exit = "ok" =>
    /\ cmd = "status"  => reply.data \subseteq hist.ever
    /\ cmd = "storage" => \A d \in DOMAIN reply.data : reply.data[d].node \in {"dir", "new dir"}

\* A pass of `status` has the unit and the packages, one of `storage` the tool that
\* describes it (status.go:90-160, storage.go:40-93).
PassIsEarned ==
  reply.status = "pass" =>
    /\ cmd = "status"  => host.unit # "fails" /\ host.packages # "unsafe"
    /\ cmd = "storage" => "works" \in {host.tool.sh, host.tool.plain}
=============================================================================
