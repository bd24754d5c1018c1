-------------------------------- MODULE Java --------------------------------
(***************************************************************************)
(* The java plugin: the version of the runtime, the list of Java processes *)
(* from /proc, and the inspection of one of them with jcmd.                *)
(*                                                                         *)
(* host.at says which process has a process id; process ids are used again *)
(* while the plugin reads.  A process is what `comm` and argv zero say,    *)
(* whether its files can be read, and its arguments.                       *)
(***************************************************************************)
EXTENDS Collector

MaxEntries == 2                 \* maxProcEntries
Nobody == "nobody"

\* The processes there can be.  "java -cp" with a secret option, a daemon
\* that renamed itself, a program that is no Java, one that cannot be read.
Processes == {"jvm", "renamed", "shell", "locked"}
comm(p)     == [jvm |-> "java", renamed |-> "worker", shell |-> "sh", locked |-> "java"][p]
argv(p)     == [jvm |-> <<"java", "option secret", "value">>, renamed |-> <<"java", "value">>,
                shell |-> <<"sh", "secret=value">>, locked |-> <<"java">>][p]
IsJava(p)   == p \in Processes /\ (comm(p) = "java" \/ argv(p)[1] = "java")

Client == {"works", "absent", "fails", "denied", "cut", "malformed"}

----------------------------------------------------------------------------
\* maskNext: the argument after an option that is called like a secret and
\* has no value in it is masked, whatever it is.
masksNext(args) == LET m[i \in 0..Len(args)] ==
                         i > 0 /\ args[i] = "option secret" /\ ~ m[i - 1]
                   IN m

redactJavaArguments(args) ==
  [i \in DOMAIN args |->
     IF masksNext(args)[i - 1] \/ args[i] = "secret=value" THEN "masked" ELSE args[i]]

----------------------------------------------------------------------------
NothingRead == [pids |-> {}, issues |-> {}, found |-> {}, comm |-> "unread", outputs |-> <<>>]

Init ==
  \/ Starts({"processes"},
            [at : [Pids -> {Nobody, "jvm", "renamed", "shell"}] \cup
                  [Pids -> {Nobody, "jvm", "locked"}],
             links : {{}, {1}}, safe : BOOLEAN, client : {"works"}],
            LAMBDA h : [always |-> h.at, mixed |-> {}], NothingRead)
  \/ Starts({"runtime", "inspect"},
            [at : {[i \in Pids |-> IF i = 1 THEN p ELSE Nobody] : p \in {"jvm", "shell"}},
             links : {{}}, safe : {TRUE}, client : Client],
            LAMBDA h : [always |-> h.at, mixed |-> {}], NothingRead)

contextFailure == Failure("timeout")

Dispatch ==
  /\ pc = "start"
  /\ \/ Answer(Failure("arguments"))
     \/ GoTo([processes |-> "enumerate", runtime |-> "runtime", inspect |-> "jcmd"][cmd])
  /\ UNCHANGED got /\ Others

\* One Lstat and one ReadDir of /proc; links are counted and passed over,
\* what is beyond the limit of entries is dropped.
enumeratePIDs ==
  /\ pc = "enumerate" /\ Live /\ host.safe
  /\ LET present == {i \in Pids : host.at[i] # Nobody}
         fits    == Cardinality(present) <= MaxEntries
     IN \E entries \in SUBSET present :
          /\ IF fits THEN entries = present ELSE Cardinality(entries) = MaxEntries
          /\ got' = [got EXCEPT
               !.pids = entries \ host.links,
               !.issues = (IF fits THEN {} ELSE {"process_list_truncated"})
                          \cup (IF entries \cap host.links # {} THEN {"unsafe_proc_entry"} ELSE {})]
  /\ GoTo("comm") /\ Others

EnumerationFails ==
  /\ pc = "enumerate"
  /\ \/ ~ Live /\ Answer(contextFailure)
     \/ Live /\ ~ host.safe /\ Answer(Failure("dependency"))
  /\ UNCHANGED got /\ Others

Pid == CHOOSE i \in got.pids : \A j \in got.pids : i <= j

ReadComm ==
  /\ pc = "comm" /\ got.pids # {} /\ Live
  /\ got' = [got EXCEPT !.comm = host.at[Pid]]
  /\ GoTo("cmdline") /\ Others

\* The rest of readProcess.  Of the two files either may be gone; one that is
\* there and cannot be read is an issue.  A Java process by either file is one.
readProcess ==
  /\ pc = "cmdline"
  /\ LET first == got.comm
         now   == host.at[Pid]
         args  == IF now = Nobody THEN <<>> ELSE argv(now)
         isJava == \/ first # Nobody /\ comm(first) = "java"
                   \/ now # Nobody /\ args[1] = "java"
     IN got' = [got EXCEPT
          !.pids = @ \ {Pid},
          !.issues = IF "locked" \in {first, now}
                     THEN @ \cup {"process_metadata_unavailable"} ELSE @,
          !.found = IF "locked" \notin {first, now} /\ isJava
                    THEN @ \cup {[pid |-> Pid, args |-> redactJavaArguments(args)]} ELSE @]
  /\ GoTo("comm") /\ Others

ListProcesses ==
  /\ pc = "comm"
  /\ \/ got.pids # {} /\ ~ Live /\ Answer(contextFailure)
     \/ /\ got.pids = {}
        /\ Answer(Built({Chk("java.processes", IF got.found = {} THEN "info" ELSE "pass")},
                        got.found, got.issues))
  /\ UNCHANGED got /\ Others

\* java -version, whose output may be on either stream.
collectRuntime ==
  /\ pc = "runtime"
  /\ IF ~ Live THEN Answer(contextFailure)
     ELSE IF host.client = "works"
     THEN Answer(Built({Chk("java.runtime", "pass")}, "version", {}))
     ELSE Answer(Failure("dependency"))
  /\ UNCHANGED got /\ Others

Operations == <<"VM.version", "VM.command_line", "VM.system_properties">>

\* The three operations are sent first; the answers are parsed at the end,
\* each by the process id in its first line.
runJcmd ==
  /\ pc = "jcmd" /\ Live /\ host.client \in {"works", "malformed"}
  /\ host.at[1] # Nobody /\ IsJava(host.at[1])
  /\ got' = [got EXCEPT !.outputs = Append(@, host.at[1])]
  /\ GoTo(IF Len(got'.outputs) = Len(Operations) THEN "parse" ELSE "jcmd")
  /\ Others

runJcmdFails ==
  /\ pc = "jcmd"
  /\ \/ ~ Live /\ Answer(contextFailure)
     \/ /\ Live
        /\ host.client \notin {"works", "malformed"} \/ ~ IsJava(host.at[1])
        /\ Answer(Failure(CASE host.client = "absent" -> "dependency"
                               [] host.client = "denied" -> "privilege"
                               [] OTHER -> "general"))
  /\ UNCHANGED got /\ Others

ParseInspection ==
  /\ pc = "parse"
  /\ IF host.client = "malformed" THEN Answer(Failure("general"))
     ELSE Answer(Built({Chk("java.inspect", "pass")}, got.outputs, {}))
  /\ UNCHANGED got /\ Others

\* A process ends, and its id may be given to another one.
Change ==
  \E i \in Pids, p \in {Nobody, "jvm", "shell"} :
    /\ pc \in {"comm", "cmdline", "jcmd"} /\ p # host.at[i]
    /\ Changes([host EXCEPT !.at[i] = p],
               [always |-> [hist.always EXCEPT ![i] = Nobody],
                mixed |-> IF pc \in {"cmdline", "jcmd"} THEN hist.mixed \cup {i} ELSE hist.mixed])

Step == Dispatch \/ enumeratePIDs \/ EnumerationFails \/ ReadComm \/ readProcess \/ ListProcesses
        \/ collectRuntime \/ runJcmd \/ runJcmdFails \/ ParseInspection
Next == Step \/ Change \/ Deadline

----------------------------------------------------------------------------
\* A Java process that runs during the whole listing is listed, or an error
\* of the result says that the list is not complete (processes.go:42-80).
NothingLost ==
  cmd = "processes" /\ reply.exit = "ok" /\ reply.errors = {} =>
    \A i \in Pids \ host.links :
      IsJava(hist.always[i]) => \E r \in reply.data : r.pid = i

\* A record is of one Java process, and so are the three answers of an
\* inspection, unless the process id changed hands between two reads of it
\* (inspect.go:36, processes.go:154-156).
NothingInvented ==
  reply.exit = "ok" =>
    /\ cmd = "processes" =>
         \A r \in reply.data : r.pid \notin hist.mixed =>
           \E p \in Processes : IsJava(p) /\ r.args = redactJavaArguments(argv(p))
    /\ cmd = "inspect" /\ 1 \notin hist.mixed =>
         \A i, j \in DOMAIN reply.data : reply.data[i] = reply.data[j]

\* A pass has the answers of a client that works, all three of them for an
\* inspection, and a listing that looked at every process id (inspect.go:36-66,
\* processes.go:40-80).
PassIsEarned ==
  reply.status = "pass" =>
    /\ cmd \in {"runtime", "inspect"} => host.client = "works"
    /\ cmd = "inspect" => Len(reply.data) = Len(Operations)
    /\ cmd = "processes" => host.safe /\ got.issues = {} /\ got.pids = {}

\* No value that belongs to an option called like a secret is shown.
SecretsMasked ==
  cmd = "processes" /\ reply.exit = "ok" =>
    \A r \in reply.data : \A i \in DOMAIN r.args :
      /\ r.args[i] # "secret=value"
      /\ i > 1 /\ r.args[i - 1] = "option secret" => r.args[i] = "masked"
=============================================================================
