-------------------------- MODULE CollectorsProofs --------------------------
(***************************************************************************)
(* What a plugin that only reads reports was there at some time of its     *)
(* run, what it publishes is masked, its status is the worst of its        *)
(* findings, and its answer has the type the protocol wants: for every     *)
(* number of changes of the host, every set of process ids, files of any   *)
(* length, any arguments and any order of the filesystems.                 *)
(*                                                                         *)
(* A section for each plugin that promises it has the plugin's inductive   *)
(* invariant (<X>Inv, <X>Masked, <X>Worst), and lemmas that it holds at    *)
(* the start (<X>Init), that every step preserves it (<X>Next) and that it *)
(* implies the promise (<X>Safe); the sections "All of them" put them      *)
(* together.  The invariants of the first part relate what was read so far *)
(* to the history of the host: what is there now is in it, and what was    *)
(* kept was there when it was read.                                        *)
(*                                                                         *)
(* For Security, Services, Storage and System, which read the machine as a *)
(* whole, the invariant of what an answer leaves out and passes            *)
(* (<X>Reports) is here too; CollectorsReplyProofs has the other plugins   *)
(* and puts them together.                                                 *)
(***************************************************************************)
EXTENDS Collectors, FiniteSetTheorems, SequenceTheorems, WellFoundedInduction, TLAPS

Under == {p \in Nat \X Nat : p[1] < p[2]}

\* A set of numbers that is not empty has a least one.
LEMMA Least ==
    ASSUME NEW S \in SUBSET Nat, S # {}
    PROVE  \E i \in S : \A j \in S : i <= j
<1>1. IsWellFoundedOn(Under, Nat)
    BY NatLessThanWellFounded DEF Under, OpToRel
<1>2. PICK i \in S : \A j \in S : ~ (<<j, i>> \in Under)
    BY <1>1, WFMin
<1>3. \A j \in S : i <= j
  <2> SUFFICES ASSUME NEW j \in S PROVE i <= j
    OBVIOUS
  <2>1. i \in Nat /\ j \in Nat
    OBVIOUS
  <2>2. <<j, i>> \in Nat \X Nat /\ <<j, i>>[1] = j /\ <<j, i>>[2] = i
    BY <2>1
  <2>3. ~ (j < i)
    BY <1>2, <2>2 DEF Under
  <2> QED
    BY <2>1, <2>3
<1> QED
    BY <1>3

\* Induction over a set: the library's takes an operator for it.
LEMMA Induct ==
    ASSUME NEW T, 0 \in T, \A n \in Nat : n \in T => n + 1 \in T
    PROVE  Nat \subseteq T
<1> SUFFICES ASSUME Nat \ T # {} PROVE FALSE
    OBVIOUS
<1>1. PICK i \in Nat \ T : \A j \in Nat \ T : i <= j
    BY Least
<1>2. i # 0 /\ i - 1 \in Nat
    BY <1>1
<1>3. i - 1 \in T
    BY <1>1, <1>2
<1> QED
    BY <1>1, <1>2, <1>3

-----------------------------------------------------------------------------
(* Backup.  A tool is installed when its version or its file says so: got.products, and the probe
    that was just made, rest on what was there at some time, or on a probe that has its error. *)

\* The answer that is built carries the data and the errors it is built from.
LEMMA BkBuilt ==
    ASSUME NEW checks, NEW data, NEW errors
    PROVE  LET r == Bk!Built(checks, data, errors) IN r.data = data /\ r.errors = errors
BY DEF Bk!Built, Bk!Build, Bk!Result

\* A failure answers with its code.
LEMMA BkFailure == ASSUME NEW code PROVE Bk!Failure(code).exit = code
BY DEF Bk!Failure, Bk!NoReply

\* What a tool that is found rests on.
BkRests(tool, ever, errors) == tool \in ever \/ Bk!backupFailure("version_probe", tool) \in errors

\* What speaks for a tool now is in the history, and what was found of it rests on something.
BkInventory ==
    /\ {"version", "config"} \subseteq DOMAIN host
    /\ DOMAIN host.version = Bk!Tools /\ DOMAIN host.config = Bk!Tools
    /\ \A a \in Bk!Tools :
         host.version[a] = "good" \/ host.config[a].state = "read" => a \in hist.ever
    /\ {"todo", "version", "products", "checks", "errors"} \subseteq DOMAIN got
    /\ got.todo \in Seq(Bk!Tools)
    /\ pc \in {"start", "version", "config", "done"}
    /\ pc = "config" => got.todo # <<>> /\ (got.version = "found" => BkRests(Head(got.todo), hist.ever, got.errors))
    /\ \A p \in got.products : p.installed => BkRests(p.tool, hist.ever, got.errors)
    /\ reply.exit = "ok" => pc = "done" /\ reply.data = got.products /\ reply.errors = got.errors

\* It keeps doing so when there is more.
LEMMA BkRestsStill ==
    ASSUME NEW tool, NEW ever, NEW errors, NEW more, NEW ever2, ever \subseteq ever2, errors \subseteq more,
           BkRests(tool, ever, errors)
    PROVE  BkRests(tool, ever2, more)
BY DEF BkRests

\* The invariant is about the command that lists tools.
BkInv == cmd = "inventory" => BkInventory

\* The tools are those of the three adapters.
LEMMA BkTools == Bk!adapters \in Seq(Bk!Tools) /\ Bk!Tools = {"borg", "restic", "rsnapshot"}
BY DEF Bk!adapters, Bk!Tools, Bk!Range

\* It holds at the start.
LEMMA BkInit == Bk!Init => BkInv
<1> SUFFICES ASSUME Bk!Init, cmd = "inventory" PROVE BkInventory
    BY DEF BkInv
<1>1. /\ host \in Bk!Inventories
      /\ hist.ever = {a \in Bk!Tools : host.version[a] = "good" \/ host.config[a].state = "read"}
      /\ got = [todo |-> Bk!adapters, version |-> "none", products |-> {}, checks |-> {}, errors |-> {}]
      /\ pc = "start" /\ reply = Bk!NoReply
    BY DEF Bk!Init, Bk!Starts
<1>2. DOMAIN host = {"version", "config"} /\ DOMAIN host.version = Bk!Tools /\ DOMAIN host.config = Bk!Tools
    BY <1>1 DEF Bk!Inventories, Bk!All
<1> QED
    BY <1>1, <1>2, BkTools DEF BkInventory, Bk!NoReply

\* Every step preserves it.
LEMMA BkNext == BkInv /\ Bk!Next => BkInv'
<1> SUFFICES ASSUME BkInv, Bk!Next, cmd' = "inventory" PROVE BkInventory'
    BY DEF BkInv
<1> USE DEF BkInventory, Bk!Others, Bk!Answer, Bk!GoTo
<1>a. cmd = "inventory" /\ BkInventory
    BY DEF BkInv, Bk!Next, Bk!Step, Bk!Dispatch, Bk!contextFailure, Bk!inspectVersion, Bk!inspectConfig,
           Bk!executeInventory, Bk!CollectedInventory, Bk!inspectUnits, Bk!executeStatus, Bk!inspectHistory,
           Bk!executeHistory, Bk!Change, Bk!Changes, Bk!Deadline
<1>1. CASE Bk!Dispatch
    BY <1>a, <1>1, BkFailure DEF Bk!Dispatch
<1>2. CASE Bk!contextFailure
    BY <1>a, <1>2, BkFailure DEF Bk!contextFailure
<1>3. CASE Bk!inspectVersion
  <2> DEFINE said == host.version[Bk!Tool]
             found == IF said \in {"absent", "fails"} THEN "none" ELSE "found"
             errors == IF said \in {"absent", "good"} THEN got.errors
                       ELSE got.errors \cup {Bk!backupFailure("version_probe", Bk!Tool)}
  <2>1. Bk!Tool \in Bk!Tools /\ Bk!Tool = Head(got.todo) /\ got.todo # <<>> /\ pc = "version"
    BY <1>a, <1>3 DEF Bk!inspectVersion, Bk!Tool
  <2>2. /\ got' = [got EXCEPT !.version = found, !.errors = errors]
        /\ pc' = "config" /\ UNCHANGED <<host, hist, reply>>
    BY <1>3 DEF Bk!inspectVersion
  <2>3. found = "found" => BkRests(Bk!Tool, hist.ever, errors)
    <3>1. said = "good" => Bk!Tool \in hist.ever
      BY <1>a, <2>1
    <3> QED
      BY <3>1 DEF BkRests
  <2>4. got.errors \subseteq errors
    OBVIOUS
  <2> HIDE DEF found, errors
  <2>5. /\ got'.version = found /\ got'.errors = errors /\ got'.todo = got.todo /\ got'.products = got.products
        /\ DOMAIN got' = DOMAIN got
    BY <1>a, <2>2
  <2>6. \A p \in got'.products : p.installed => BkRests(p.tool, hist.ever, errors)
    BY <1>a, <2>4, <2>5, BkRestsStill
  <2> QED
    BY <1>a, <2>1, <2>2, <2>3, <2>5, <2>6
<1>4. CASE Bk!inspectConfig
  <2>1. /\ Bk!Tool \in Bk!Tools /\ Tail(got.todo) \in Seq(Bk!Tools)
        /\ got.version = "found" \/ host.config[Bk!Tool].state = "read" => BkRests(Bk!Tool, hist.ever, got.errors)
    BY <1>a, <1>4 DEF Bk!inspectConfig, Bk!Tool, BkRests
  <2> DEFINE new == [tool |-> Bk!Tool,
                     installed |-> got.version = "found" \/ host.config[Bk!Tool].state = "read",
                     repository |-> Bk!Repository(Bk!Tool, host.config[Bk!Tool].lines)]
  <2>2. /\ got'.todo = Tail(got.todo) /\ got'.products = got.products \cup {new}
        /\ got.errors \subseteq got'.errors /\ DOMAIN got' = DOMAIN got
        /\ pc = "config" /\ pc' = "version" /\ UNCHANGED <<host, hist, reply>>
    BY <1>a, <1>4 DEF Bk!inspectConfig
  <2>3. new.installed => BkRests(new.tool, hist.ever, got.errors)
    BY <2>1
  <2> HIDE DEF new
  <2>4. \A p \in got'.products : p.installed => BkRests(p.tool, hist.ever, got'.errors)
    <3>1. \A p \in got'.products : p.installed => BkRests(p.tool, hist.ever, got.errors)
      BY <1>a, <2>2, <2>3
    <3> QED
      BY <2>2, <3>1, BkRestsStill
  <2> QED
    BY <1>a, <2>1, <2>2, <2>4
<1>5. CASE Bk!executeInventory
  <2>1. /\ pc' = "done" /\ UNCHANGED <<cmd, host, hist, got>>
        /\ reply' = Bk!Built(got.checks, got.products, got.errors)
    BY <1>5 DEF Bk!executeInventory
  <2>2. reply'.data = got.products /\ reply'.errors = got.errors
    BY <2>1, BkBuilt
  <2> QED
    BY <1>a, <2>1, <2>2
<1>6. CASE Bk!Change
  <2>1. PICK a \in Bk!Tools :
          LET v == IF host.version[a] = "absent" THEN "good" ELSE "absent"
              c == IF host.config[a].state = "absent" THEN Bk!File("read", <<"ssh">>) ELSE Bk!Absent
          IN /\ cmd = "inventory" /\ pc \in {"version", "config"}
             /\ Bk!Changes([version |-> [host.version EXCEPT ![a] = v], config |-> [host.config EXCEPT ![a] = c]],
                           [always |-> IF v = "good" \/ c # Bk!Absent THEN hist.always ELSE hist.always \ {a},
                            ever   |-> IF v = "good" \/ c # Bk!Absent THEN hist.ever \cup {a} ELSE hist.ever])
    BY <1>6 DEF Bk!Change
  <2> DEFINE v == IF host.version[a] = "absent" THEN "good" ELSE "absent"
             c == IF host.config[a].state = "absent" THEN Bk!File("read", <<"ssh">>) ELSE Bk!Absent
             version == [host.version EXCEPT ![a] = v]
             config == [host.config EXCEPT ![a] = c]
             ever == IF v = "good" \/ c # Bk!Absent THEN hist.ever \cup {a} ELSE hist.ever
  <2>2. c # Bk!Absent \/ c.state = "absent"
    BY DEF Bk!Absent, Bk!File
  <2>3. /\ DOMAIN version = Bk!Tools /\ DOMAIN config = Bk!Tools
        /\ \A x \in Bk!Tools : version[x] = "good" \/ config[x].state = "read" => x \in ever
    BY <1>a, <2>2
  <2>4. hist.ever \subseteq ever
    OBVIOUS
  <2>5. /\ host'.version = version /\ host'.config = config /\ DOMAIN host' = {"version", "config"}
        /\ hist'.ever = ever /\ UNCHANGED <<cmd, pc, got, reply>> /\ pc # "done"
    BY <2>1 DEF Bk!Changes, Bk!Done
  <2> HIDE DEF version, config, ever
  <2>6. /\ pc = "config" /\ got.version = "found" => BkRests(Head(got.todo), ever, got.errors)
        /\ \A p \in got.products : p.installed => BkRests(p.tool, ever, got.errors)
    BY <1>a, <2>4, BkRestsStill
  <2> QED
    BY <1>a, <2>3, <2>5, <2>6
<1>7. CASE Bk!Deadline
    BY <1>a, <1>7 DEF Bk!Deadline, Bk!Done
<1> QED
    BY <1>a, <1>1, <1>2, <1>3, <1>4, <1>5, <1>6, <1>7
       DEF Bk!Next, Bk!Step, Bk!CollectedInventory, Bk!inspectUnits, Bk!executeStatus, Bk!inspectHistory, Bk!executeHistory

\* It says that nothing is invented.
LEMMA BkSafe == BkInv => Bk!NothingInvented
BY DEF BkInv, BkInventory, BkRests, Bk!NothingInvented

-----------------------------------------------------------------------------
(* Docker.  Each output shows containers that were there when the client was run; the answer
    holds what its last output shows. *)

\* The answers of the plugin, by their status.
LEMMA DAnswers ==
    ASSUME NEW data, NEW kind
    PROVE  /\ D!success(data).data = data
           /\ D!failure(kind).status # "pass" /\ D!Failure(kind).status # "pass"
BY DEF D!success, D!failure, D!Failure, D!Result, D!NoReply

\* The commands that run the client.
ClientCommands == DOMAIN D!Formats

\* What an output may be.
Outcomes == {"whole", "junk", "cut within", "cut at a line"}

\* Every output shows what was there; the position is that of the last one.
DInv ==
    /\ "containers" \in DOMAIN host
    /\ host.containers \subseteq hist.ever /\ host.containers \subseteq D!Containers
    /\ DOMAIN got = {"i", "outputs"} /\ got.i \in Nat
    /\ cmd \in ClientCommands \cup {"find", "registry"}
    /\ pc \in {"run", "parse"} => cmd \in ClientCommands
    /\ pc \in {"find", "registry"} => cmd \notin ClientCommands
    /\ cmd \in ClientCommands =>
         /\ got.outputs \in Seq([what : Outcomes, shows : SUBSET D!Containers])
         /\ got.i = Len(got.outputs)
         /\ pc = "parse" => got.i > 0
         /\ \A i \in DOMAIN got.outputs : got.outputs[i].shows \subseteq hist.ever
         /\ reply.status = "pass" => pc = "done" /\ reply.data \subseteq hist.ever

\* The commands are these.
LEMMA DCommands == ClientCommands = {"status", "info", "inspect", "health", "ps", "usage", "logs", "validate", "composeInspect", "diff"}
BY DEF ClientCommands, D!Formats

\* It holds at the start.
LEMMA DInit == D!Init => DInv
<1> SUFFICES ASSUME D!Init PROVE DInv
    OBVIOUS
<1>1. /\ got = [i |-> 0, outputs |-> <<>>] /\ pc = "start" /\ reply = D!NoReply
    BY DEF D!Init, D!Starts
<1>2. /\ "containers" \in DOMAIN host /\ host.containers \subseteq hist.ever
      /\ host.containers \subseteq D!Containers
    BY DEF D!Init, D!Starts
<1>3. cmd \in ClientCommands \cup {"find", "registry"}
    BY DEF D!Init, D!Starts, ClientCommands
<1> QED
    BY <1>1, <1>2, <1>3 DEF DInv, D!NoReply

\* Every step preserves it.
LEMMA DNext == DInv /\ D!Next => DInv'
<1> SUFFICES ASSUME DInv, D!Next PROVE DInv'
    OBVIOUS
<1> USE DEF D!Others, D!Answer, D!GoTo
<1>1. CASE D!Configure
  <2>1. /\ pc = "start" /\ UNCHANGED <<cmd, host, hist, got>>
        /\ \/ pc' = "done" /\ reply'.status # "pass"
           \/ cmd = "find" /\ pc' = "find" /\ UNCHANGED reply
           \/ cmd = "registry" /\ pc' = "registry" /\ UNCHANGED reply
           \/ cmd \notin {"find", "registry"} /\ pc' = "run" /\ UNCHANGED reply
    BY <1>1, DAnswers DEF D!Configure
  <2> QED
    BY <2>1, DCommands DEF DInv
<1>2. CASE D!RunClient
  <2>1. PICK o \in D!Outputs(D!Formats[cmd][got.i + 1]) :
          got' = [i |-> got.i + 1, outputs |-> Append(got.outputs, o)]
    BY <1>2 DEF D!RunClient
  <2>2. cmd \in ClientCommands
    BY <1>2 DEF D!RunClient, DInv
  <2>a. PICK w \in Outcomes, c \in SUBSET host.containers : o = [what |-> w, shows |-> c]
    <3>1. \/ o = [what |-> "whole", shows |-> host.containers]
          \/ o = [what |-> "junk", shows |-> {}] \/ o = [what |-> "cut within", shows |-> {}]
          \/ \E c \in SUBSET host.containers : o = [what |-> "cut at a line", shows |-> c]
      BY <2>1, Zenon DEF D!Outputs
    <3> QED
      BY <3>1 DEF Outcomes
  <2>3. o \in [what : Outcomes, shows : SUBSET D!Containers] /\ o.shows \subseteq hist.ever
    BY <2>a DEF DInv
  <2>4. /\ got.outputs \in Seq([what : Outcomes, shows : SUBSET D!Containers])
        /\ got.i = Len(got.outputs) /\ \A i \in DOMAIN got.outputs : got.outputs[i].shows \subseteq hist.ever
    BY <2>2 DEF DInv
  <2>5. /\ got'.outputs = Append(got.outputs, o) /\ got'.i = got.i + 1 /\ DOMAIN got' = {"i", "outputs"}
    BY <2>1
  <2>6. /\ got'.outputs \in Seq([what : Outcomes, shows : SUBSET D!Containers])
        /\ got'.i = Len(got'.outputs) /\ got'.i \in Nat /\ got'.i > 0
        /\ \A i \in DOMAIN got'.outputs : got'.outputs[i].shows \subseteq hist.ever
    BY <2>3, <2>4, <2>5
  <2>7. pc' \in {"run", "parse"} /\ UNCHANGED <<cmd, host, hist, reply>> /\ pc = "run"
    BY <1>2 DEF D!RunClient
  <2> QED
    BY <2>2, <2>5, <2>6, <2>7 DEF DInv
<1>3. CASE D!RunClientFails
  <2>1. reply'.status # "pass"
    BY <1>3, DAnswers DEF D!RunClientFails, D!commandError
  <2> QED
    BY <1>3, <2>1 DEF D!RunClientFails, DInv
<1>4. CASE D!Parse
  <2>1. pc = "parse" /\ pc' = "done" /\ UNCHANGED <<cmd, host, hist, got>>
    BY <1>4 DEF D!Parse
  <2>2. reply'.status = "pass" => reply'.data = got.outputs[got.i].shows
    BY <1>4, DAnswers DEF D!Parse
  <2>3. got.i \in DOMAIN got.outputs /\ cmd \in ClientCommands
    BY <2>1 DEF DInv
  <2> QED
    BY <2>1, <2>2, <2>3 DEF DInv
<1>5. CASE D!findComposeFiles
    BY <1>5 DEF D!findComposeFiles, DInv
<1>6. CASE D!Redirect
    BY <1>6 DEF D!Redirect, DInv
<1>7. CASE D!probeRegistry
  <2>1. /\ pc = "registry" /\ pc' = "done" /\ UNCHANGED <<cmd, host, hist>>
        /\ got' = [got EXCEPT !.i = @ + 1]
    BY <1>7 DEF D!probeRegistry
  <2>2. DOMAIN got' = DOMAIN got /\ (got.i \in Nat => got'.i \in Nat)
    BY <2>1 DEF DInv
  <2> QED
    BY <2>1, <2>2 DEF DInv
<1>8. CASE D!Change
    BY <1>8 DEF D!Change, D!Changes, D!Done, DInv
<1>9. CASE D!Deadline
    BY <1>9 DEF D!Deadline, D!Done, DInv
<1> QED
    BY <1>1, <1>2, <1>3, <1>4, <1>5, <1>6, <1>7, <1>8, <1>9 DEF D!Next, D!Step

\* It says that nothing is invented.
LEMMA DSafe == DInv => D!NothingInvented
BY DEF DInv, D!NothingInvented, ClientCommands

-----------------------------------------------------------------------------
(* LocalFile.  The node that was inspected is the one that is opened and read, unless someone moved
    something in between; the command `config` goes through the directory once more. *)

\* A failure has no status.
LEMMA FFailure == ASSUME NEW code PROVE F!Failure(code).status = "none"
BY DEF F!Failure, F!NoReply

\* For the command `config` what follows holds as long as nobody moved anything.
Unmoved == cmd = "config" => ~ hist.moved

\* The node inspected is a regular file; while nothing was moved it is the one opened.
FInv ==
    /\ {"dir", "file", "size", "trust", "kind"} \subseteq DOMAIN host
    /\ DOMAIN host.kind = F!Nodes
    /\ host.file \in F!Nodes \cup {F!NoNode}
    /\ {"inspected", "opened"} \subseteq DOMAIN got
    /\ pc \in {"open", "stat", "read"} => got.inspected \in F!Nodes /\ host.kind[got.inspected] = "regular"
    /\ pc = "stat" => cmd # "config"
    /\ pc = "open" /\ cmd = "config" /\ ~ hist.moved => F!Present = got.inspected
    /\ pc = "read" /\ Unmoved => got.opened = got.inspected
    /\ reply.status = "pass" => pc = "done"
    /\ F!NothingInvented

\* It holds at the start.
LEMMA FInit == F!Init => FInv
<1> SUFFICES ASSUME F!Init PROVE FInv
    OBVIOUS
<1>1. /\ host \in [dir : {"real", "symlink", "absent"}, file : {"n1", F!NoNode},
               kind : [F!Nodes -> {"regular", "symlink", "other"}],
               size : [F!Nodes -> {F!Limit, F!Limit + 1}], trust : [F!Nodes -> BOOLEAN]]
      /\ got = [inspected |-> F!NoNode, opened |-> F!NoNode]
      /\ pc = "start" /\ reply = F!NoReply
    BY DEF F!Init, F!Starts
<1>2. reply.status = "none" /\ reply.exit = "running"
    BY <1>1 DEF F!NoReply
<1> QED
    BY <1>1, <1>2 DEF FInv, F!Nodes, F!NothingInvented

\* Every step preserves it.
LEMMA FNext == FInv /\ F!Next => FInv'
<1> SUFFICES ASSUME FInv, F!Next PROVE FInv'
    OBVIOUS
<1> USE DEF FInv, F!Others, F!Answer, F!GoTo, F!Refuse, F!Absent, F!Result, F!Present, Unmoved, F!NothingInvented
<1>1. CASE F!LstatDir
    BY <1>1, FFailure DEF F!LstatDir
<1>2. CASE F!LstatFile
    BY <1>2, FFailure DEF F!LstatFile, F!Acceptable
<1>3. CASE F!Open
    BY <1>3, FFailure DEF F!Open
<1>4. CASE F!StatOpened
    BY <1>4, FFailure DEF F!StatOpened, F!SameFile
<1>5. CASE F!ReadAll
    BY <1>5, FFailure DEF F!ReadAll
<1>6. CASE F!Change
  <2>1. PICK f \in F!Nodes \cup {F!NoNode}, d \in {"real", "symlink", "absent"}, n \in F!Nodes,
             t \in BOOLEAN, s \in {F!Limit, F!Limit + 1} :
               LET new == [host EXCEPT !.file = f, !.dir = d, !.size[n] = s, !.trust[n] = t]
               IN  /\ 1 = F!Cardinality({x \in DOMAIN host : host[x] # new[x]})
                   /\ F!Changes(new, [moved |-> TRUE])
    BY <1>6 DEF F!Change
  <2> DEFINE new == [host EXCEPT !.file = f, !.dir = d, !.size[n] = s, !.trust[n] = t]
  <2>2. new.kind = host.kind /\ new.file = f /\ DOMAIN new = DOMAIN host
    OBVIOUS
  <2>3. F!Changes(new, [moved |-> TRUE])
    BY <2>1
  <2> HIDE DEF new
  <2> QED
    BY <2>2, <2>3 DEF F!Changes, F!Done
<1> QED
    BY <1>1, <1>2, <1>3, <1>4, <1>5, <1>6 DEF F!Next, F!Step

\* It says that nothing is invented.
LEMMA FSafe == FInv => F!NothingInvented
BY DEF FInv

-----------------------------------------------------------------------------
(* GitlabRunner.  `status` lists processes whose name was read while they had it.  `config`: what the
    parser has counted after n lines, by induction over the lines. *)

\* The answer that is built carries the data it is built from.
LEMMA GBuilt ==
    ASSUME NEW checks, NEW data, NEW errors
    PROVE  G!Built(checks, data, errors).data = data
BY DEF G!Built, G!Build, G!Result

\* A failure answers with its code.
LEMMA GFailure == ASSUME NEW code PROVE G!Failure(code).exit = code
BY DEF G!Failure, G!NoReply

\* The instance counts as the library does.
LEMMA GCardinality == ASSUME NEW S PROVE G!Cardinality(S) = Cardinality(S)
BY Zenon DEF G!Cardinality, Cardinality

\* What the parser makes of a file, before its line n + 1.
GStates(lines, f, n) ==
    f = [m \in 0..n |-> IF m = 0 THEN G!Parsing ELSE G!Line(f[m - 1], lines[m])]

\* What is defined up to line n is defined up to line n + 1.
LEMMA GExtends ==
    ASSUME NEW lines, NEW n \in Nat, NEW f, GStates(lines, f, n)
    PROVE  \E g : GStates(lines, g, n + 1)
<1> DEFINE g == [m \in 0..(n + 1) |-> IF m <= n THEN f[m] ELSE G!Line(f[n], lines[n + 1])]
<1>1. \A m \in 0..n : f[m] = IF m = 0 THEN G!Parsing ELSE G!Line(f[m - 1], lines[m])
    BY DEF GStates
<1>2. ASSUME NEW m \in 0..(n + 1)
      PROVE  g[m] = IF m = 0 THEN G!Parsing ELSE G!Line(g[m - 1], lines[m])
  <2>1. CASE m = 0
    BY <1>1, <2>1
  <2>2. CASE m \in 1..n
    <3>1. m \in 0..n /\ m - 1 \in 0..n /\ m # 0
      BY <2>2
    <3>2. g[m] = f[m] /\ g[m - 1] = f[m - 1]
      BY <3>1
    <3> HIDE DEF g
    <3> QED
      BY <1>1, <3>1, <3>2
  <2>3. CASE m = n + 1
    <3>1. g[n + 1] = G!Line(f[n], lines[n + 1]) /\ g[n] = f[n]
      OBVIOUS
    <3> HIDE DEF g
    <3> QED
      BY <2>3, <3>1
  <2> QED
    BY <2>1, <2>2, <2>3
<1>3. g = [m \in 0..(n + 1) |-> g[m]]
    OBVIOUS
<1> HIDE DEF g
<1>4. GStates(lines, g, n + 1)
    BY <1>2, <1>3 DEF GStates
<1> QED
    BY <1>4

\* So there are such states for any number of lines.
LEMMA GStatesExist == \A lines : \A n \in Nat : \E f : GStates(lines, f, n)
<1> SUFFICES ASSUME NEW lines PROVE \A n \in Nat : \E f : GStates(lines, f, n)
    OBVIOUS
<1> DEFINE T == {n \in Nat : \E f : GStates(lines, f, n)}
<1>1. 0 \in T
  <2> DEFINE f == [m \in 0..0 |-> G!Parsing]
  <2>1. f = [m \in 0..0 |-> IF m = 0 THEN G!Parsing ELSE G!Line(f[m - 1], lines[m])]
    OBVIOUS
  <2> HIDE DEF f
  <2>2. GStates(lines, f, 0)
    BY <2>1 DEF GStates
  <2> QED
    BY <2>2
<1>2. \A n \in Nat : n \in T => n + 1 \in T
    BY GExtends
<1> HIDE DEF T
<1>3. Nat \subseteq T
    BY <1>1, <1>2, Induct
<1> QED
    BY <1>3 DEF T

\* The states of the parser are those its recursion says.
LEMMA GParsed ==
    ASSUME NEW lines, Len(lines) \in Nat
    PROVE  /\ G!parsed(lines)[0] = G!Parsing
           /\ \A n \in 1..Len(lines) : G!parsed(lines)[n] = G!Line(G!parsed(lines)[n - 1], lines[n])
<1>1. \E f : GStates(lines, f, Len(lines))
    BY GStatesExist
<1>2. GStates(lines, CHOOSE f : GStates(lines, f, Len(lines)), Len(lines))
    BY <1>1
<1>3. G!parsed(lines) = CHOOSE f : GStates(lines, f, Len(lines))
    BY DEF G!parsed, GStates
<1>4. GStates(lines, G!parsed(lines), Len(lines))
    BY <1>2, <1>3
<1> DEFINE p == G!parsed(lines)
<1> HIDE DEF p
<1>5. p = [m \in 0..Len(lines) |-> IF m = 0 THEN G!Parsing ELSE G!Line(p[m - 1], lines[m])]
    BY <1>4 DEF p, GStates
<1>6. p[0] = G!Parsing /\ \A n \in 1..Len(lines) : p[n] = G!Line(p[n - 1], lines[n])
    BY <1>5
<1> QED
    BY <1>6 DEF p

\* What a runner may have for an executor.
GNames == {"no executor", "docker"}

\* The first n lines that declare a runner.
GRunners(lines, n) == {i \in 1..n : lines[i] = "[[runners]]"}

\* What is known of the parser's state s after n lines, if it went on so far.
GSound(s, lines, n) ==
    /\ DOMAIN s = {"table", "runners", "seen", "outcome"}
    /\ s.runners \in Seq(GNames)
    /\ s.outcome = "ok" => /\ Len(s.runners) = Cardinality(GRunners(lines, n))
                           /\ \A i \in 1..n : lines[i] # "malformed"

\* A header declares a runner, or leaves those there are.
LEMMA GHeader ==
    ASSUME NEW s, NEW line, DOMAIN s = {"table", "runners", "seen", "outcome"},
           s.runners \in Seq(GNames)
    PROVE  LET r == G!Header(s, line) IN
             /\ DOMAIN r = {"table", "runners", "seen", "outcome"} /\ r.runners \in Seq(GNames)
             /\ line # "[[runners]]" => r.runners = s.runners
             /\ line = "[[runners]]" => Len(r.runners) = Len(s.runners) + 1
<1> DEFINE r == G!Header(s, line)
<1>1. CASE line = "[[runners]]"
  <2>1. r = [s EXCEPT !.table = "runners", !.runners = Append(@, "no executor")]
    BY <1>1 DEF G!Header
  <2>2. r.runners = Append(s.runners, "no executor") /\ DOMAIN r = DOMAIN s
    BY <2>1
  <2> HIDE DEF r
  <2>3. r.runners \in Seq(GNames) /\ Len(r.runners) = Len(s.runners) + 1
    <3>1. "no executor" \in GNames
      BY DEF GNames
    <3>2. \A q \in Seq(GNames), x \in GNames : Append(q, x) \in Seq(GNames) /\ Len(Append(q, x)) = Len(q) + 1
      OBVIOUS
    <3>3. Append(s.runners, "no executor") \in Seq(GNames) /\ Len(Append(s.runners, "no executor")) = Len(s.runners) + 1
      BY <3>1, <3>2, Zenon
    <3> QED
      BY <2>2, <3>3, Zenon
  <2> QED
    BY <1>1, <2>2, <2>3 DEF r
<1>2. CASE line # "[[runners]]"
  <2>1. \/ r = [s EXCEPT !.outcome = "error"]
        \/ r = [s EXCEPT !.table = "runners.docker"]
        \/ r = [s EXCEPT !.table = "runners"]
        \/ r = [s EXCEPT !.table = "other"]
    BY <1>2 DEF G!Header
  <2> HIDE DEF r
  <2>2. r.runners = s.runners /\ DOMAIN r = DOMAIN s
    BY <2>1
  <2> QED
    BY <1>2, <2>2 DEF r
<1> QED
    BY <1>1, <1>2

\* An assignment leaves their number.
LEMMA GAssignment ==
    ASSUME NEW s, NEW key, DOMAIN s = {"table", "runners", "seen", "outcome"},
           s.runners \in Seq(GNames)
    PROVE  LET r == G!Assignment(s, key) IN
             /\ DOMAIN r = {"table", "runners", "seen", "outcome"} /\ r.runners \in Seq(GNames)
             /\ Len(r.runners) = Len(s.runners)
<1> DEFINE r == G!Assignment(s, key)
           set == [s.runners EXCEPT ![Len(s.runners)] = "docker"]
<1>1. set \in Seq(GNames) /\ Len(set) = Len(s.runners)
  <2>1. "docker" \in GNames
    BY DEF GNames
  <2>2. PICK n \in Nat : s.runners \in [1..n -> GNames] /\ Len(s.runners) = n
    OBVIOUS
  <2>3. set \in [1..n -> GNames]
    BY <2>1, <2>2
  <2>4. set \in Seq(GNames) /\ Len(set) = n
    BY <2>3
  <2> QED
    BY <2>2, <2>4
<1> HIDE DEF set
<1>2. \/ DOMAIN r = DOMAIN s /\ r.runners = s.runners
      \/ DOMAIN r = DOMAIN s /\ r.runners = set
  <2>1. CASE <<G!Scope(s), key>> \in s.seen
    BY <2>1 DEF G!Assignment
  <2>2. CASE ~ (<<G!Scope(s), key>> \in s.seen) /\ s.table = "runners" /\ s.runners = <<>>
    BY <2>2 DEF G!Assignment
  <2>3. CASE ~ (<<G!Scope(s), key>> \in s.seen) /\ ~ (s.table = "runners" /\ s.runners = <<>>)
    <3> DEFINE seen == s.seen \cup {<<G!Scope(s), key>>}
               new == IF s.table = "runners" /\ key = "executor" THEN set ELSE s.runners
    <3>1. r = [s EXCEPT !.seen = seen, !.runners = new]
      BY <2>3 DEF G!Assignment, set
    <3> HIDE DEF r, seen
    <3> QED
      BY <3>1
  <2> QED
    BY <2>1, <2>2, <2>3
<1> HIDE DEF r
<1>3. DOMAIN r = {"table", "runners", "seen", "outcome"} /\ r.runners \in Seq(GNames)
      /\ Len(r.runners) = Len(s.runners)
    BY <1>1, <1>2
<1> QED
    BY <1>3 DEF r

\* The number of declarations, one line further.
LEMMA GCounts ==
    ASSUME NEW lines, NEW n \in Nat
    PROVE  /\ IsFiniteSet(GRunners(lines, n)) /\ Cardinality(GRunners(lines, n)) \in Nat
           /\ Cardinality(GRunners(lines, n + 1)) =
                Cardinality(GRunners(lines, n)) + (IF lines[n + 1] = "[[runners]]" THEN 1 ELSE 0)
<1>1. GRunners(lines, n) \subseteq 1..n /\ IsFiniteSet(1..n)
    BY FS_Interval DEF GRunners
<1>2. IsFiniteSet(GRunners(lines, n)) /\ Cardinality(GRunners(lines, n)) \in Nat
    BY <1>1, FS_Subset, FS_CardinalityType
<1>3. CASE lines[n + 1] = "[[runners]]"
  <2>1. GRunners(lines, n + 1) = GRunners(lines, n) \cup {n + 1} /\ n + 1 \notin GRunners(lines, n)
    BY <1>3 DEF GRunners
  <2> QED
    BY <1>2, <1>3, <2>1, FS_AddElement
<1>4. CASE lines[n + 1] # "[[runners]]"
  <2>1. GRunners(lines, n + 1) = GRunners(lines, n)
    BY <1>4 DEF GRunners
  <2> QED
    BY <1>2, <1>4, <2>1
<1> QED
    BY <1>2, <1>3, <1>4

\* One line of the parser.
LEMMA GLine ==
    ASSUME NEW lines, NEW n \in Nat, NEW s, GSound(s, lines, n)
    PROVE  GSound(G!Line(s, lines[n + 1]), lines, n + 1)
<1> DEFINE line == lines[n + 1]
           r == G!Line(s, line)
<1>s. DOMAIN s = {"table", "runners", "seen", "outcome"} /\ s.runners \in Seq(GNames)
    BY DEF GSound
<1>1. CASE s.outcome # "ok"
    BY <1>1 DEF G!Line, GSound
<1>2. CASE s.outcome = "ok" /\ line \in G!Headers
  <2>1. r = G!Header(s, line)
    BY <1>2 DEF G!Line
  <2>2. /\ DOMAIN r = {"table", "runners", "seen", "outcome"} /\ r.runners \in Seq(GNames)
        /\ Len(r.runners) = Len(s.runners) + (IF line = "[[runners]]" THEN 1 ELSE 0)
    BY <1>s, <2>1, GHeader
  <2>3. line # "malformed"
    BY <1>2 DEF G!Headers
  <2> HIDE DEF r
  <2>4. \A i \in 1..(n + 1) : lines[i] # "malformed"
    BY <1>2, <2>3 DEF GSound
  <2>5. Len(r.runners) = Cardinality(GRunners(lines, n + 1))
    BY <1>2, <2>2, GCounts DEF GSound
  <2> QED
    BY <2>2, <2>4, <2>5 DEF GSound, r
<1>3. CASE s.outcome = "ok" /\ line \notin G!Headers /\ line \in G!Keys
  <2>1. r = G!Assignment(s, line)
    BY <1>3 DEF G!Line
  <2>2. /\ DOMAIN r = {"table", "runners", "seen", "outcome"} /\ r.runners \in Seq(GNames)
        /\ Len(r.runners) = Len(s.runners)
    BY <1>s, <2>1, GAssignment
  <2>3. line # "malformed" /\ line # "[[runners]]"
    BY <1>3 DEF G!Headers, G!Keys
  <2> HIDE DEF r
  <2>4. \A i \in 1..(n + 1) : lines[i] # "malformed"
    BY <1>3, <2>3 DEF GSound
  <2>5. Len(r.runners) = Cardinality(GRunners(lines, n + 1))
    <3>1. Len(s.runners) = Cardinality(GRunners(lines, n))
      BY <1>3 DEF GSound
    <3>2. Cardinality(GRunners(lines, n)) \in Nat
      BY GCounts
    <3>3. Cardinality(GRunners(lines, n + 1)) = Cardinality(GRunners(lines, n)) + 0
      BY <2>3, GCounts
    <3> QED
      BY <2>2, <3>1, <3>2, <3>3
  <2> QED
    BY <2>2, <2>4, <2>5 DEF GSound, r
<1>4. CASE s.outcome = "ok" /\ line \notin G!Headers /\ line \notin G!Keys
  <2>1. r = [s EXCEPT !.outcome = "error"]
    BY <1>4 DEF G!Line
  <2>2. DOMAIN r = DOMAIN s /\ r.runners = s.runners /\ r.outcome = "error"
    BY <1>s, <2>1
  <2> QED
    BY <1>s, <2>2 DEF GSound
<1> QED
    BY <1>1, <1>2, <1>3, <1>4

\* All lines of a file.
LEMMA GFile ==
    ASSUME NEW lines \in Seq(G!Lines)
    PROVE  GSound(G!parsed(lines)[Len(lines)], lines, Len(lines))
<1> DEFINE p == G!parsed(lines)
           T == {n \in Nat : n \in 0..Len(lines) => GSound(p[n], lines, n)}
<1>0. Len(lines) \in Nat
    OBVIOUS
<1>1. p[0] = G!Parsing /\ \A n \in 1..Len(lines) : p[n] = G!Line(p[n - 1], lines[n])
    BY GParsed
<1> HIDE DEF p
<1>2. 0 \in T
  <2>1. GRunners(lines, 0) = {} /\ 1..0 = {}
    BY DEF GRunners
  <2>2. Len(<<>>) = Cardinality(GRunners(lines, 0)) /\ \A i \in 1..0 : lines[i] # "malformed"
    BY <2>1, FS_EmptySet
  <2>3. <<>> \in Seq(GNames)
    OBVIOUS
  <2>4. DOMAIN p[0] = {"table", "runners", "seen", "outcome"} /\ p[0].runners = <<>>
    BY <1>1 DEF G!Parsing
  <2>5. GSound(p[0], lines, 0)
    BY <2>2, <2>3, <2>4, Zenon DEF GSound
  <2> QED
    BY <2>5
<1>3. \A n \in Nat : n \in T => n + 1 \in T
  <2> SUFFICES ASSUME NEW n \in Nat, n \in T, n + 1 \in 0..Len(lines) PROVE GSound(p[n + 1], lines, n + 1)
    OBVIOUS
  <2>1. n \in 0..Len(lines) /\ n + 1 \in 1..Len(lines) /\ (n + 1) - 1 = n
    OBVIOUS
  <2>2. GSound(p[n], lines, n)
    BY <2>1
  <2>3. p[n + 1] = G!Line(p[n], lines[n + 1])
    BY <1>1, <2>1
  <2> QED
    BY <2>2, <2>3, GLine
<1> HIDE DEF T
<1>4. Nat \subseteq T
    BY <1>2, <1>3, Induct
<1> QED
    BY <1>0, <1>4 DEF T, p

\* What a file that is accepted has given.
GConfig(lines, runners) ==
    /\ Len(runners) = G!Cardinality({i \in DOMAIN lines : lines[i] = "[[runners]]"})
    /\ "no executor" \notin G!Range(runners)
    /\ "malformed" \notin G!Range(lines)

\* A file that is accepted gives what it declares.
LEMMA GAccepted ==
    ASSUME NEW lines \in Seq(G!Lines), G!parseConfig(lines).outcome = "ok"
    PROVE  GConfig(lines, G!parseConfig(lines).runners)
<1> DEFINE s == G!parsed(lines)[Len(lines)]
<1>1. GSound(s, lines, Len(lines))
    BY GFile
<1>2. G!parseConfig(lines) = IF s.outcome = "ok" /\ "no executor" \in G!Range(s.runners)
                             THEN [s EXCEPT !.outcome = "error"] ELSE s
    BY DEF G!parseConfig
<1> HIDE DEF s
<1>3. G!parseConfig(lines) = s /\ s.outcome = "ok" /\ "no executor" \notin G!Range(s.runners)
  <2>1. "outcome" \in DOMAIN s
    BY <1>1 DEF GSound
  <2>2. ~ (s.outcome = "ok" /\ "no executor" \in G!Range(s.runners))
    BY <1>2, <2>1
  <2>3. G!parseConfig(lines) = s
    BY <1>2, <2>2
  <2> QED
    BY <2>2, <2>3
<1>4. {i \in DOMAIN lines : lines[i] = "[[runners]]"} = GRunners(lines, Len(lines))
    BY DEF GRunners
<1>5. Len(s.runners) = G!Cardinality({i \in DOMAIN lines : lines[i] = "[[runners]]"})
    BY <1>1, <1>3, <1>4, GCardinality DEF GSound
<1>6. "malformed" \notin G!Range(lines)
  <2>0. \A i \in 1..Len(lines) : lines[i] # "malformed"
    BY <1>1, <1>3, Zenon DEF GSound
  <2>1. \A i \in DOMAIN lines : lines[i] # "malformed"
    BY <2>0
  <2> QED
    BY <2>1, Zenon DEF G!Range
<1> QED
    BY <1>3, <1>5, <1>6 DEF GConfig

\* Found are processes that had the name, and so had the one whose user is read next.
GStatus ==
    /\ "at" \in DOMAIN host /\ DOMAIN host.at = Pids
    /\ {"pids", "found"} \subseteq DOMAIN got /\ got.pids \subseteq Pids
    /\ \A p \in Pids : host.at[p] = "gitlab-runner" => p \in hist.ever
    /\ got.found \subseteq hist.ever
    /\ pc = "uid" => got.pids # {} /\ G!Pid \in hist.ever
    /\ reply.exit = "ok" => pc = "done" /\ reply.data \subseteq hist.ever

\* The file is not changed during the run, and the answer is what it declares.
GFileInv ==
    /\ host.config \in Seq(G!Lines)
    /\ pc \in {"start", "done"}
    /\ reply.exit = "ok" => pc = "done" /\ GConfig(host.config, reply.data)

\* One invariant for each kind of command.
GInv ==
    /\ cmd \in {"config", "executors", "status"}
    /\ IF cmd = "status" THEN GStatus ELSE GFileInv

\* It holds at the start.
LEMMA GInit == G!Init => GInv
<1> SUFFICES ASSUME G!Init PROVE GInv
    OBVIOUS
<1>1. CASE G!Starts({"config", "executors"},
            [config : G!Files, file : {"read"}] \cup [config : {<<>>}, file : {"absent", "unsafe"}],
            LAMBDA h : [always |-> {}, ever |-> {}], [i |-> 0])
  <2>1. cmd \in {"config", "executors"} /\ pc = "start" /\ reply = G!NoReply
        /\ host \in [config : G!Files, file : {"read"}] \cup [config : {<<>>}, file : {"absent", "unsafe"}]
    BY <1>1 DEF G!Starts
  <2>2. G!Files \subseteq Seq(G!Lines)
    BY LinesAssumption DEF G!Files
  <2>3. <<>> \in Seq(G!Lines)
    OBVIOUS
  <2>4. host.config \in Seq(G!Lines)
    <3> DEFINE lines == Seq(G!Lines)
    <3>1. G!Files \subseteq lines /\ <<>> \in lines
      BY <2>2, <2>3
    <3> HIDE DEF lines
    <3>2. host.config \in lines
      BY <2>1, <3>1
    <3> QED
      BY <3>2 DEF lines
  <2> QED
    BY <2>1, <2>4 DEF GInv, GFileInv, G!NoReply
<1>2. CASE G!Starts({"status"},
            [version : {"1.2.3", "absent", "invalid"}, unit : {"active", "failed", "not-found", "absent", "invalid"},
             at : [Pids -> {G!Nobody, "gitlab-runner", "other", "locked"}]],
            LAMBDA h : [always |-> {p \in Pids : h.at[p] = "gitlab-runner"},
                        ever |-> {p \in Pids : h.at[p] = "gitlab-runner"}],
            [i |-> 0, errors |-> {}, version |-> "", unit |-> "", pids |-> {}, found |-> {}])
  <2>1. /\ cmd = "status" /\ pc = "start" /\ reply = G!NoReply
        /\ "at" \in DOMAIN host /\ DOMAIN host.at = Pids
        /\ hist.ever = {p \in Pids : host.at[p] = "gitlab-runner"}
        /\ got = [i |-> 0, errors |-> {}, version |-> "", unit |-> "", pids |-> {}, found |-> {}]
    BY <1>2 DEF G!Starts
  <2> QED
    BY <2>1 DEF GInv, GStatus, G!NoReply
<1> QED
    BY <1>1, <1>2 DEF G!Init

\* The next process is one of those still to be looked at.
LEMMA GPid == GStatus /\ got.pids # {} => G!Pid \in got.pids
<1> SUFFICES ASSUME GStatus, got.pids # {} PROVE G!Pid \in got.pids
    OBVIOUS
<1>1. got.pids \in SUBSET Nat
    BY PidsAssumption DEF GStatus
<1> QED
    BY <1>1, Least DEF G!Pid

\* What a step does that neither others take nor that finds a process.
LEMMA GQuiet ==
    ASSUME GStatus, UNCHANGED <<host, hist>>, {"pids", "found"} \subseteq DOMAIN got',
           got'.pids \subseteq Pids, got'.found \subseteq got.found, pc' # "uid",
           reply'.exit = "ok" => pc' = "done" /\ reply'.data \subseteq hist.ever
    PROVE  GStatus'
BY DEF GStatus

\* Every step preserves it.
LEMMA GNext == GInv /\ G!Next => GInv'
<1> SUFFICES ASSUME GInv, G!Next PROVE GInv'
    OBVIOUS
<1>1. CASE G!readConfig
  <2>1. cmd # "status" /\ GFileInv /\ UNCHANGED <<cmd, host>> /\ cmd \in {"config", "executors", "status"}
    BY <1>1 DEF G!readConfig, G!Others, GInv
  <2>2. \/ pc' = "done" /\ \E code \in {"timeout", "dependency", "configuration", "crash"} : reply' = G!Failure(code)
        \/ /\ pc' = "done" /\ G!parseConfig(host.config).outcome = "ok"
           /\ \E checks : reply' = G!Built(checks, G!parseConfig(host.config).runners, {})
    BY <1>1 DEF G!readConfig, G!configFailure, G!Answer
  <2>3. pc' = "done" /\ (reply'.exit = "ok" => GConfig(host.config, reply'.data))
    <3>1. CASE \E code \in {"timeout", "dependency", "configuration", "crash"} : reply' = G!Failure(code)
      BY <2>2, <3>1, GFailure
    <3>2. CASE /\ G!parseConfig(host.config).outcome = "ok"
               /\ \E checks : reply' = G!Built(checks, G!parseConfig(host.config).runners, {})
      <4>1. reply'.data = G!parseConfig(host.config).runners
        BY <3>2, GBuilt
      <4>2. GConfig(host.config, G!parseConfig(host.config).runners)
        BY <2>1, <3>2, GAccepted DEF GFileInv
      <4> QED
        BY <2>2, <4>1, <4>2
    <3> QED
      BY <2>2, <3>1, <3>2
  <2>4. GFileInv'
    BY <2>1, <2>3 DEF GFileInv, GConfig
  <2> QED
    BY <2>1, <2>4 DEF GInv
<1>2. CASE cmd # "status" /\ ~ G!readConfig
  <2>1. G!Deadline
    BY <1>2, ZenonT(60) DEF G!Next, G!Step, G!statusTimeout, G!collectVersion, G!collectUnit, G!ReadProc, G!ReadComm,
       G!ReadUid, G!Report, G!Change, GInv, GFileInv
  <2>2. UNCHANGED <<cmd, host, pc, reply>>
    BY <2>1 DEF G!Deadline
  <2>3. GFileInv /\ cmd \in {"config", "executors", "status"}
    BY <1>2 DEF GInv
  <2>4. GFileInv'
    BY <2>2, <2>3 DEF GFileInv, GConfig
  <2> QED
    BY <1>2, <2>2, <2>3, <2>4 DEF GInv
<1>3. CASE cmd = "status"
  <2>1. GStatus
    BY <1>3 DEF GInv
  <2>2. UNCHANGED cmd
    BY <1>3 DEF G!Next, G!Step, G!readConfig, G!statusTimeout, G!collectVersion, G!collectUnit, G!ReadProc, G!ReadComm,
       G!ReadUid, G!Report, G!Change, G!Changes, G!Deadline, G!Others
  <2> SUFFICES GStatus'
    BY <1>3, <2>2 DEF GInv
  <2> USE DEF G!Others, G!Answer, G!GoTo
  <2>3. CASE G!statusTimeout
    BY <2>1, <2>3, GFailure, GQuiet DEF G!statusTimeout, GStatus
  <2>4. CASE G!collectVersion
    BY <2>1, <2>4, GQuiet DEF G!collectVersion, GStatus
  <2>5. CASE G!collectUnit
    BY <2>1, <2>5, GQuiet DEF G!collectUnit, GStatus
  <2>6. CASE G!ReadProc
    BY <2>1, <2>6, GQuiet DEF G!ReadProc, GStatus
  <2>7. CASE G!ReadComm
    <3>1. G!Pid \in got.pids /\ UNCHANGED <<host, hist>> /\ pc = "comm" /\ got.pids # {} /\ G!Pid \in Pids
      BY <2>1, <2>7, GPid DEF G!ReadComm, GStatus
    <3>2. CASE UNCHANGED got /\ pc' = "uid" /\ UNCHANGED reply /\ host.at[G!Pid] = "gitlab-runner"
      <4>1. G!Pid' = G!Pid
        BY <3>2 DEF G!Pid
      <4> QED
        BY <2>1, <3>1, <3>2, <4>1 DEF GStatus
    <3>3. CASE G!ProcessesFail
      BY <2>1, <3>1, <3>3, GQuiet DEF G!ProcessesFail, GStatus
    <3>4. CASE got' = [got EXCEPT !.pids = @ \ {G!Pid}] /\ pc' = "comm" /\ UNCHANGED reply
      BY <2>1, <3>1, <3>4, GQuiet DEF GStatus
    <3> QED
      BY <2>7, <3>2, <3>3, <3>4 DEF G!ReadComm
  <2>8. CASE G!ReadUid
    <3>1. UNCHANGED <<host, hist>> /\ pc = "uid" /\ G!Pid \in hist.ever
      BY <2>1, <2>8 DEF G!ReadUid, GStatus
    <3>2. CASE G!ProcessesFail
      BY <2>1, <3>1, <3>2, GQuiet DEF G!ProcessesFail, GStatus
    <3>3. CASE got' = [got EXCEPT !.pids = @ \ {G!Pid}, !.found = @ \cup {G!Pid}] /\ pc' = "comm" /\ UNCHANGED reply
      <4>1. /\ {"pids", "found"} \subseteq DOMAIN got' /\ got'.pids \subseteq got.pids
            /\ got'.found = got.found \cup {G!Pid}
        BY <2>1, <3>3 DEF GStatus
      <4> QED
        BY <2>1, <3>1, <3>3, <4>1 DEF GStatus
    <3> QED
      BY <2>8, <3>2, <3>3 DEF G!ReadUid
  <2>9. CASE G!Report
    <3>1. UNCHANGED <<host, hist, got>> /\ pc' = "done" /\ \E checks : reply' = G!Built(checks, got.found, got.errors)
      BY <2>9 DEF G!Report
    <3>2. reply'.data = got.found
      BY <3>1, GBuilt
    <3> QED
      BY <2>1, <3>1, <3>2, GQuiet DEF GStatus
  <2>10. CASE G!Change
    <3>1. PICK p \in Pids, v \in {G!Nobody, "gitlab-runner", "other", "locked"} :
            /\ cmd = "status" /\ pc \in {"comm", "uid"} /\ v # host.at[p]
            /\ G!Changes([host EXCEPT !.at[p] = v],
               [always |-> hist.always \ {p},
                ever |-> IF v = "gitlab-runner" THEN hist.ever \cup {p} ELSE hist.ever])
      BY <2>10 DEF G!Change
    <3>2. /\ UNCHANGED <<pc, got, reply>> /\ pc # "done" /\ host' = [host EXCEPT !.at[p] = v]
          /\ hist'.ever = IF v = "gitlab-runner" THEN hist.ever \cup {p} ELSE hist.ever
      BY <3>1 DEF G!Changes, G!Done
    <3>3. /\ "at" \in DOMAIN host' /\ DOMAIN host'.at = Pids
          /\ \A q \in Pids : host'.at[q] = IF q = p THEN v ELSE host.at[q]
      BY <2>1, <3>2 DEF GStatus
    <3>4. G!Pid' = G!Pid
      BY <3>2 DEF G!Pid
    <3> QED
      BY <2>1, <3>2, <3>3, <3>4 DEF GStatus
  <2>11. CASE G!Deadline
    <3>1. UNCHANGED <<host, hist, pc, got, reply>>
      BY <2>11 DEF G!Deadline
    <3>2. G!Pid' = G!Pid
      BY <3>1 DEF G!Pid
    <3> QED
      BY <2>1, <3>1, <3>2 DEF GStatus
  <2>12. ~ G!readConfig
    BY <1>3 DEF G!readConfig
  <2> QED
    BY <2>3, <2>4, <2>5, <2>6, <2>7, <2>8, <2>9, <2>10, <2>11, <2>12 DEF G!Next, G!Step
<1> QED
    BY <1>1, <1>2, <1>3

\* It says that nothing is invented.
LEMMA GSafe == GInv => G!NothingInvented
BY DEF GInv, GStatus, GFileInv, GConfig, G!NothingInvented

-----------------------------------------------------------------------------
(* Java.  The two files of a process are of one program unless it was replaced between them;
    the outputs of `inspect` are of one program unless it was replaced among them. *)

\* The answer that is built carries the data it is built from.
LEMMA JBuilt ==
    ASSUME NEW checks, NEW data, NEW errors
    PROVE  J!Built(checks, data, errors).data = data
BY DEF J!Built, J!Build, J!Result

\* A failure answers with its code.
LEMMA JFailure == ASSUME NEW code PROVE J!Failure(code).exit = code
BY DEF J!Failure, J!NoReply

\* The next process is one of those still to be looked at.
LEMMA JPid ==
    ASSUME got.pids \in SUBSET Nat, got.pids # {}
    PROVE  J!Pid \in got.pids
BY Least DEF J!Pid

\* A record of one Java process.
OfOneProcess(r) == \E p \in J!Processes : J!IsJava(p) /\ r.args = J!redactJavaArguments(J!argv(p))

\* What was read of a process that nobody replaced is of one program.
JInv ==
    /\ "at" \in DOMAIN host /\ DOMAIN host.at = Pids
    /\ \A p \in Pids : host.at[p] \in J!Processes \cup {J!Nobody}
    /\ {"pids", "issues", "found", "comm", "outputs"} \subseteq DOMAIN got
    /\ got.pids \subseteq Pids
    /\ pc = "cmdline" => got.pids # {} /\ (J!Pid \in hist.mixed \/ got.comm = host.at[J!Pid])
    /\ \A r \in got.found : r.pid \notin hist.mixed => OfOneProcess(r)
    /\ got.outputs \in Seq(J!Processes)
    /\ pc = "jcmd" /\ 1 \notin hist.mixed => \A i \in DOMAIN got.outputs : got.outputs[i] = host.at[1]
    /\ 1 \notin hist.mixed => \A i, j \in DOMAIN got.outputs : got.outputs[i] = got.outputs[j]
    /\ pc \in {"enumerate", "comm", "cmdline"} => cmd = "processes"
    /\ pc \in {"jcmd", "parse"} => cmd = "inspect"
    /\ pc = "runtime" => cmd = "runtime"
    /\ pc \in {"start", "enumerate", "comm", "cmdline"} => got.outputs = <<>>
    /\ cmd \in {"processes", "runtime", "inspect"}
    /\ reply.exit = "ok" => /\ pc = "done"
                            /\ cmd = "processes" => reply.data = got.found
                            /\ cmd = "inspect" => reply.data = got.outputs

\* It holds at the start.
LEMMA JInit == J!Init => JInv
<1> SUFFICES ASSUME J!Init PROVE JInv
    OBVIOUS
<1>1. /\ got = J!NothingRead /\ pc = "start" /\ reply = J!NoReply
      /\ cmd \in {"processes", "runtime", "inspect"}
    BY DEF J!Init, J!Starts
<1>2. "at" \in DOMAIN host /\ DOMAIN host.at = Pids
    BY DEF J!Init, J!Starts
<1>3. \A p \in Pids : host.at[p] \in J!Processes \cup {J!Nobody}
  <2>1. CASE host.at \in [Pids -> {J!Nobody, "jvm", "renamed", "shell"}] \cup [Pids -> {J!Nobody, "jvm", "locked"}]
    BY <2>1 DEF J!Processes
  <2>2. CASE host.at \in {[i \in Pids |-> IF i = 1 THEN p ELSE J!Nobody] : p \in {"jvm", "shell"}}
    BY <2>2 DEF J!Processes
  <2> QED
    BY <2>1, <2>2 DEF J!Init, J!Starts
<1> QED
    BY <1>1, <1>2, <1>3 DEF JInv, J!NothingRead, J!NoReply

\* Every step preserves it.
LEMMA JNext == JInv /\ J!Next => JInv'
<1> SUFFICES ASSUME JInv, J!Next PROVE JInv'
    OBVIOUS
<1> USE DEF JInv, J!Others, J!Answer, J!GoTo
<1>1. CASE J!Dispatch
  <2>1. [processes |-> "enumerate", runtime |-> "runtime", inspect |-> "jcmd"][cmd]
          = IF cmd = "processes" THEN "enumerate" ELSE IF cmd = "runtime" THEN "runtime" ELSE "jcmd"
    OBVIOUS
  <2> QED
    BY <1>1, <2>1, JFailure DEF J!Dispatch
<1>2. CASE J!enumeratePIDs
  <2>1. /\ pc = "enumerate" /\ pc' = "comm" /\ UNCHANGED <<cmd, host, hist, reply>>
        /\ got'.pids \subseteq Pids /\ DOMAIN got' = DOMAIN got
        /\ got'.found = got.found /\ got'.outputs = got.outputs
    BY <1>2 DEF J!enumeratePIDs
  <2> QED
    BY <2>1
<1>3. CASE J!EnumerationFails
    BY <1>3, JFailure DEF J!EnumerationFails, J!contextFailure
<1>4. CASE J!ReadComm
    BY <1>4 DEF J!ReadComm, J!Pid
<1>5. CASE J!readProcess
  <2> DEFINE now == host.at[J!Pid]
             args == IF now = J!Nobody THEN <<>> ELSE J!argv(now)
             isJava == \/ got.comm # J!Nobody /\ J!comm(got.comm) = "java"
                       \/ now # J!Nobody /\ args[1] = "java"
             new == [pid |-> J!Pid, args |-> J!redactJavaArguments(args)]
  <2>1. J!Pid \in got.pids
    BY <1>5, JPid, PidsAssumption DEF J!readProcess
  <2>2. /\ pc = "cmdline" /\ pc' = "comm" /\ UNCHANGED <<cmd, host, hist, reply>>
        /\ got'.pids = got.pids \ {J!Pid} /\ DOMAIN got' = DOMAIN got /\ got'.outputs = got.outputs
        /\ \/ got'.found = got.found
           \/ isJava /\ got'.found = got.found \cup {new}
    BY <1>5 DEF J!readProcess
  <2>3. isJava /\ J!Pid \notin hist.mixed => OfOneProcess(new)
    <3> SUFFICES ASSUME isJava, J!Pid \notin hist.mixed PROVE OfOneProcess(new)
      OBVIOUS
    <3>1. got.comm = now
      BY <2>2
    <3>2. now \in J!Processes /\ args = J!argv(now)
      BY <2>1, <3>1
    <3>3. J!IsJava(now)
      BY <3>1, <3>2 DEF J!IsJava
    <3> QED
      BY <3>2, <3>3 DEF OfOneProcess
  <2> HIDE DEF isJava, new
  <2>4. new.pid = J!Pid
    BY DEF new
  <2> QED
    BY <2>1, <2>2, <2>3, <2>4
<1>6. CASE J!ListProcesses
    BY <1>6, JFailure, JBuilt DEF J!ListProcesses, J!contextFailure
<1>7. CASE J!collectRuntime
    BY <1>7, JFailure, JBuilt DEF J!collectRuntime, J!contextFailure
<1>8. CASE J!runJcmd
  <2>1. /\ pc = "jcmd" /\ pc' \in {"jcmd", "parse"} /\ UNCHANGED <<cmd, host, hist, reply>>
        /\ got'.outputs = Append(got.outputs, host.at[1]) /\ DOMAIN got' = DOMAIN got
        /\ got'.pids = got.pids /\ got'.found = got.found /\ got'.comm = got.comm
        /\ host.at[1] \in J!Processes
    BY <1>8 DEF J!runJcmd, J!IsJava
  <2>2. /\ got'.outputs \in Seq(J!Processes)
        /\ 1 \notin hist.mixed => \A i \in DOMAIN got'.outputs : got'.outputs[i] = host.at[1]
    BY <2>1
  <2> QED
    BY <2>1, <2>2
<1>9. CASE J!runJcmdFails
  <2>1. pc = "jcmd" /\ pc' = "done" /\ UNCHANGED <<cmd, host, hist, got>> /\ reply'.exit # "ok"
    BY <1>9, JFailure DEF J!runJcmdFails, J!contextFailure
  <2> QED
    BY <2>1
<1>10. CASE J!ParseInspection
    BY <1>10, JFailure, JBuilt DEF J!ParseInspection
<1>11. CASE J!Change
  <2>1. PICK i \in Pids, p \in {J!Nobody, "jvm", "shell"} :
          /\ pc \in {"comm", "cmdline", "jcmd"} /\ p # host.at[i]
          /\ J!Changes([host EXCEPT !.at[i] = p],
                       [always |-> [hist.always EXCEPT ![i] = J!Nobody],
                        mixed |-> IF pc \in {"cmdline", "jcmd"} THEN hist.mixed \cup {i} ELSE hist.mixed])
    BY <1>11 DEF J!Change
  <2>2. /\ UNCHANGED <<cmd, pc, got, reply>> /\ pc # "done"
        /\ "at" \in DOMAIN host' /\ DOMAIN host'.at = Pids
        /\ \A q \in Pids : host'.at[q] = IF q = i THEN p ELSE host.at[q]
        /\ hist'.mixed = IF pc \in {"cmdline", "jcmd"} THEN hist.mixed \cup {i} ELSE hist.mixed
    BY <2>1 DEF J!Changes, J!Done
  <2>3. p \in J!Processes \cup {J!Nobody}
    BY DEF J!Processes
  <2>4. J!Pid' = J!Pid
    BY <2>2 DEF J!Pid
  <2>5. pc = "cmdline" => J!Pid \in Pids
    BY JPid, PidsAssumption
  <2>6. "at" \in DOMAIN host' /\ DOMAIN host'.at = Pids
        /\ \A q \in Pids : host'.at[q] \in J!Processes \cup {J!Nobody}
    BY <2>2, <2>3
  <2>7. pc = "cmdline" => got.pids # {} /\ (J!Pid \in hist'.mixed \/ got.comm = host'.at[J!Pid])
    BY <2>2, <2>5
  <2>8. \A r \in got.found : r.pid \notin hist'.mixed => OfOneProcess(r)
    BY <2>2
  <2>9. pc = "jcmd" /\ 1 \notin hist'.mixed => \A j \in DOMAIN got.outputs : got.outputs[j] = host'.at[1]
    BY <2>2, PidsAssumption
  <2>10. 1 \notin hist'.mixed => \A j, k \in DOMAIN got.outputs : got.outputs[j] = got.outputs[k]
    BY <2>2
  <2> QED
    BY <2>2, <2>4, <2>6, <2>7, <2>8, <2>9, <2>10
<1>12. CASE J!Deadline
    BY <1>12 DEF J!Deadline, J!Done, J!Pid
<1> QED
    BY <1>1, <1>2, <1>3, <1>4, <1>5, <1>6, <1>7, <1>8, <1>9, <1>10, <1>11, <1>12 DEF J!Next, J!Step

\* It says that nothing is invented.
LEMMA JSafe == JInv => J!NothingInvented
BY DEF JInv, OfOneProcess, J!NothingInvented

-----------------------------------------------------------------------------
(* Kafka.  `status`: the processes found had the name at some time.  `storage`: what is counted
    is a directory, since it was one when it was opened. *)

\* The answer that is built carries the data it is built from.
LEMMA KaBuilt ==
    ASSUME NEW checks, NEW data, NEW errors
    PROVE  Ka!Built(checks, data, errors).data = data
BY DEF Ka!Built, Ka!Build, Ka!Result

\* A failure answers with its code.
LEMMA KaFailure == ASSUME NEW code PROVE Ka!Failure(code).exit = code
BY DEF Ka!Failure, Ka!NoReply

\* The next process is one of those still to be looked at.
LEMMA KaFirst ==
    ASSUME NEW S \in SUBSET Nat, S # {}
    PROVE  Ka!Next1(S) \in S
BY Least DEF Ka!Next1

\* Found are processes that had the name; those named are in the history.
KaStatus ==
    /\ "at" \in DOMAIN host /\ DOMAIN host.at = Pids
    /\ {"todo", "found"} \subseteq DOMAIN got
    /\ got.todo \subseteq Pids /\ got.found \subseteq hist.ever
    /\ \A p \in Pids : host.at[p] = "kafka" => p \in hist.ever
    /\ pc \in {"start", "packages", "comm", "cmdline", "done"}
    /\ pc = "cmdline" => got.todo # {}
    /\ reply.exit = "ok" => pc = "done" /\ reply.data = got.found

\* The nodes that a directory may be.
Directories == {"dir", "new dir"}

\* What was counted is a directory, and so is what is about to be opened.
KaStorage ==
    /\ {"files", "dirs"} \subseteq DOMAIN host
    /\ DOMAIN host.dirs = Ka!Dirs
    /\ \A d \in Ka!Dirs : host.dirs[d].node \in Directories \cup {"symlink", "absent"}
    /\ \A i \in Ka!Candidates : host.files[i].dirs \subseteq Ka!Dirs
    /\ {"config", "todo", "lstat", "count"} \subseteq DOMAIN got
    /\ got.todo \subseteq Ka!Dirs
    /\ pc \in {"start", "select", "lstat", "open", "done"}
    /\ pc = "open" => got.todo # {} /\ got.lstat \in Directories
    /\ \A d \in DOMAIN got.count : got.count[d].node \in Directories
    /\ reply.exit = "ok" => pc = "done" /\ reply.data = got.count

\* One invariant for each of the two commands.
KaInv == (cmd = "status" => KaStatus) /\ (cmd = "storage" => KaStorage)

\* It holds at the start.
LEMMA KaInit == Ka!Init => KaInv
<1> SUFFICES ASSUME Ka!Init PROVE KaInv
    OBVIOUS
<1>1. ASSUME cmd = "status" PROVE KaStatus
  <2>1. /\ DOMAIN host = {"at", "packages", "unit"}
        /\ host.at \in [Pids -> {Ka!Nobody, "kafka", "java", "locked"}]
        /\ hist.ever = {p \in Pids : host.at[p] = "kafka"}
        /\ got = [todo |-> {}, comm |-> FALSE, found |-> {}]
        /\ pc = "start" /\ reply = Ka!NoReply
    BY <1>1 DEF Ka!Init, Ka!Starts
  <2> QED
    BY <2>1 DEF KaStatus, Ka!NoReply
<1>2. ASSUME cmd = "storage" PROVE KaStorage
  <2>1. /\ got = [config |-> 0, todo |-> {}, lstat |-> "", count |-> [d \in {} |-> 0], errors |-> {}]
        /\ pc = "start" /\ reply = Ka!NoReply
        /\ host \in Ka!Stores
    BY <1>2 DEF Ka!Init, Ka!Starts
  <2>2. /\ {"files", "dirs"} \subseteq DOMAIN host
        /\ host.files \in {<<a, Ka!File("valid", {"d1"})>> : a \in Ka!ConfigFiles}
        /\ host.dirs \in {[d \in Ka!Dirs |-> IF d = "d1" THEN e ELSE Ka!Entry("dir", 0)] : e \in Ka!Entries}
    BY <2>1 DEF Ka!Stores
  <2>3. \A f \in Ka!ConfigFiles \cup {Ka!File("valid", {"d1"})} : f.dirs \subseteq Ka!Dirs
    BY DEF Ka!ConfigFiles, Ka!File, Ka!Dirs
  <2>4. \A i \in Ka!Candidates : host.files[i].dirs \subseteq Ka!Dirs
    BY <2>2, <2>3 DEF Ka!Candidates
  <2>5. \A x \in Ka!Entries \cup {Ka!Entry("dir", 0)} : x.node \in Directories \cup {"symlink", "absent"}
    <3>1. \A n : Ka!Entry("dir", n).node \in Directories /\ Ka!Entry("new dir", n).node \in Directories
      BY DEF Ka!Entry, Directories
    <3>2. \A n : Ka!Entry("symlink", n).node = "symlink" /\ Ka!Entry("absent", n).node = "absent"
      BY DEF Ka!Entry
    <3>3. \A x \in Ka!Entries \cup {Ka!Entry("dir", 0)} :
            \E n : x = Ka!Entry("dir", n) \/ x = Ka!Entry("new dir", n) \/ x = Ka!Entry("symlink", n) \/ x = Ka!Entry("absent", n)
      BY Zenon DEF Ka!Entries
    <3> QED
      BY <3>1, <3>2, <3>3, Zenon
  <2>6. /\ {"files", "dirs"} \subseteq DOMAIN host /\ DOMAIN host.dirs = Ka!Dirs
        /\ \A d \in Ka!Dirs : host.dirs[d] \in Ka!Entries \cup {Ka!Entry("dir", 0)}
    BY <2>2
  <2> QED
    BY <2>1, <2>4, <2>5, <2>6 DEF KaStorage, Ka!NoReply
<1> QED
    BY <1>1, <1>2 DEF KaInv

\* The steps of `status`.
LEMMA KaStatusNext == KaStatus /\ cmd = "status" /\ Ka!Next => KaStatus'
<1> SUFFICES ASSUME KaStatus, cmd = "status", Ka!Next PROVE KaStatus'
    OBVIOUS
<1> USE DEF KaStatus, Ka!Others, Ka!Answer, Ka!GoTo
<1>1. CASE Ka!Dispatch
    BY <1>1, KaFailure DEF Ka!Dispatch, Ka!Timeout
<1>2. CASE Ka!collectPackages
    BY <1>2, KaFailure DEF Ka!collectPackages, Ka!Dependency
<1>3. CASE Ka!collectProcessesFails
    BY <1>3, KaFailure DEF Ka!collectProcessesFails, Ka!Timeout
<1>4. CASE Ka!ReadComm
    BY <1>4 DEF Ka!ReadComm
<1>5. CASE Ka!ReadCmdline
  <2>1. Ka!Next1(got.todo) \in got.todo
    BY <1>5, KaFirst, PidsAssumption DEF Ka!ReadCmdline
  <2> QED
    BY <1>5, <2>1 DEF Ka!ReadCmdline
<1>6. CASE Ka!collectUnit
    BY <1>6, KaBuilt, KaFailure DEF Ka!collectUnit, Ka!Timeout
<1>7. CASE Ka!Change
  <2>1. PICK p \in Pids, v \in {Ka!Nobody, "kafka", "java"} :
          Ka!Changes([host EXCEPT !.at[p] = v],
                     [always |-> hist.always \ {p},
                      ever |-> IF v = "kafka" THEN hist.ever \cup {p} ELSE hist.ever])
    BY <1>7 DEF Ka!Change
  <2> QED
    BY <2>1 DEF Ka!Changes, Ka!Done
<1>8. CASE Ka!Deadline
    BY <1>8 DEF Ka!Deadline, Ka!Done
<1> QED
    BY <1>1, <1>2, <1>3, <1>4, <1>5, <1>6, <1>7, <1>8
       DEF Ka!Next, Ka!Step, Ka!ReadConfig, Ka!ReportConfig, Ka!selectStorageConfig, Ka!LstatDir, Ka!OpenDir, Ka!runStorageInfo

\* The steps of `storage`.
LEMMA KaStorageNext == KaStorage /\ cmd = "storage" /\ Ka!Next => KaStorage'
<1> SUFFICES ASSUME KaStorage, cmd = "storage", Ka!Next PROVE KaStorage'
    OBVIOUS
<1> USE DEF KaStorage, Ka!Others, Ka!Answer, Ka!GoTo
<1>d. got.todo # {} => Ka!Dir \in got.todo
    BY DEF Ka!Dir, Ka!Dirs
<1>1. CASE Ka!Dispatch
    BY <1>1, KaFailure DEF Ka!Dispatch, Ka!Timeout
<1>2. CASE Ka!selectStorageConfig
  <2> DEFINE there == {i \in Ka!Candidates : host.files[i].state # "absent"}
             first == Ka!Next1(there)
  <2>1. there # {} => first \in Ka!Candidates
    BY KaFirst DEF Ka!Candidates
  <2>2. \/ pc' = "done" /\ reply'.exit # "ok" /\ UNCHANGED <<cmd, host, hist, got>>
        \/ /\ there # {}
           /\ got' = [got EXCEPT !.config = first, !.todo = host.files[first].dirs]
           /\ pc' = "lstat" /\ UNCHANGED <<cmd, host, hist, reply>>
    BY <1>2, KaFailure DEF Ka!selectStorageConfig, Ka!Dependency
  <2>3. pc = "select"
    BY <1>2 DEF Ka!selectStorageConfig
  <2> HIDE DEF there, first
  <2> QED
    BY <2>1, <2>2, <2>3
<1>3. CASE Ka!LstatDir
    BY <1>d, <1>3, KaFailure DEF Ka!LstatDir, Ka!Timeout, Ka!Dependency
<1>4. CASE Ka!OpenDir
  <2>1. \/ pc' = "done" /\ reply'.exit # "ok" /\ UNCHANGED <<cmd, host, hist, got>>
        \/ /\ Ka!Opened(Ka!Dir)
           /\ got' = [got EXCEPT
                !.todo = @ \ {Ka!Dir},
                !.count = [d \in DOMAIN @ \cup {Ka!Dir} |->
                  IF d = Ka!Dir THEN [entries |-> host.dirs[d].entries, node |-> host.dirs[d].node] ELSE @[d]]]
           /\ pc' = "lstat" /\ UNCHANGED <<cmd, host, hist, reply>>
    BY <1>4, KaFailure DEF Ka!OpenDir, Ka!Timeout, Ka!Dependency
  <2>2. pc = "open"
    BY <1>4 DEF Ka!OpenDir
  <2>3. Ka!Opened(Ka!Dir) => host.dirs[Ka!Dir].node \in Directories
    BY <2>2 DEF Ka!Opened
  <2>4. CASE pc' = "done" /\ reply'.exit # "ok" /\ UNCHANGED <<cmd, host, hist, got>>
    BY <2>4
  <2>5. CASE /\ Ka!Opened(Ka!Dir)
             /\ got' = [got EXCEPT
                  !.todo = @ \ {Ka!Dir},
                  !.count = [d \in DOMAIN @ \cup {Ka!Dir} |->
                    IF d = Ka!Dir THEN [entries |-> host.dirs[d].entries, node |-> host.dirs[d].node] ELSE @[d]]]
             /\ pc' = "lstat" /\ UNCHANGED <<cmd, host, hist, reply>>
    <3>1. /\ DOMAIN got' = DOMAIN got /\ got'.todo = got.todo \ {Ka!Dir}
          /\ got'.count = [d \in DOMAIN got.count \cup {Ka!Dir} |->
                IF d = Ka!Dir THEN [entries |-> host.dirs[d].entries, node |-> host.dirs[d].node] ELSE got.count[d]]
      BY <2>5
    <3>2. \A d \in DOMAIN got'.count : got'.count[d].node \in Directories
      BY <2>3, <2>5, <3>1
    <3>3. reply.exit # "ok"
      BY <2>2
    <3> QED
      BY <2>5, <3>1, <3>2, <3>3
  <2> QED
    BY <2>1, <2>4, <2>5
<1>5. CASE Ka!runStorageInfo
    BY <1>5, KaBuilt, KaFailure DEF Ka!runStorageInfo, Ka!Timeout
<1>6. CASE Ka!Change
  <2>1. PICK d \in Ka!Dirs, e \in {Ka!Entry("new dir", 1), Ka!Entry("symlink", 0), Ka!Entry("absent", 0)} :
          Ka!Changes([host EXCEPT !.dirs[d] = e], [moved |-> hist.moved \cup {d}])
    BY <1>6 DEF Ka!Change
  <2>2. e.node \in Directories \cup {"symlink", "absent"}
    <3>1. \A n : Ka!Entry("new dir", n).node \in Directories
      BY DEF Ka!Entry, Directories
    <3>2. \A n : Ka!Entry("symlink", n).node = "symlink" /\ Ka!Entry("absent", n).node = "absent"
      BY DEF Ka!Entry
    <3> QED
      BY <3>1, <3>2, Zenon
  <2> QED
    BY <2>1, <2>2 DEF Ka!Changes, Ka!Done
<1>7. CASE Ka!Deadline
    BY <1>7 DEF Ka!Deadline, Ka!Done
<1> QED
    BY <1>1, <1>2, <1>3, <1>4, <1>5, <1>6, <1>7
       DEF Ka!Next, Ka!Step, Ka!ReadConfig, Ka!ReportConfig, Ka!collectPackages, Ka!collectProcessesFails,
           Ka!ReadComm, Ka!ReadCmdline, Ka!collectUnit

\* Every step preserves it.
LEMMA KaNext == KaInv /\ Ka!Next => KaInv'
<1>1. Ka!Next => UNCHANGED cmd
    BY DEF Ka!Next, Ka!Step, Ka!Dispatch, Ka!collectPackages, Ka!collectProcessesFails, Ka!ReadComm,
           Ka!ReadCmdline, Ka!collectUnit, Ka!ReadConfig, Ka!ReportConfig, Ka!selectStorageConfig, Ka!LstatDir,
           Ka!OpenDir, Ka!runStorageInfo, Ka!Change, Ka!Changes, Ka!Deadline, Ka!Others
<1> QED
    BY <1>1, KaStatusNext, KaStorageNext DEF KaInv

\* It says that nothing is invented.
LEMMA KaSafe == KaInv => Ka!NothingInvented
BY DEF KaInv, KaStatus, KaStorage, Directories, Ka!NothingInvented

-----------------------------------------------------------------------------
(* Kubernetes.  `status`: the processes found had the name at some time.  `manifests`: the documents
    stay within their bound. *)

\* The answer that is built carries the data it is built from.
LEMMA KuBuilt ==
    ASSUME NEW checks, NEW data, NEW errors
    PROVE  Ku!Built(checks, data, errors).data = data
BY DEF Ku!Built, Ku!Build, Ku!Result

\* A failure answers with its code.
LEMMA KuFailure == ASSUME NEW code PROVE Ku!Failure(code).exit = code
BY DEF Ku!Failure, Ku!NoReply

\* The instance counts as the library does.
LEMMA KuCardinality == ASSUME NEW S PROVE Ku!Cardinality(S) = Cardinality(S)
BY Zenon DEF Ku!Cardinality, Cardinality

\* The next process is one of those still to be looked at.
LEMMA KuFirst ==
    ASSUME NEW S \in SUBSET Nat, S # {}
    PROVE  Ku!Next1(S) \in S
BY Least DEF Ku!Next1

\* Found are processes that had the name; those named are in the history.
KuStatus ==
    /\ "at" \in DOMAIN host /\ DOMAIN host.at = Pids
    /\ {"todo", "found"} \subseteq DOMAIN got
    /\ got.todo \subseteq Pids /\ got.found \subseteq hist.ever
    /\ \A p \in Pids : host.at[p] = "kubelet" => p \in hist.ever
    /\ pc \in {"start", "unit", "processes", "comm", "report", "done"}
    /\ reply.exit = "ok" => pc = "done" /\ reply.data \subseteq hist.ever

\* The documents kept are within the bound.
KuManifests ==
    /\ {"todo", "found"} \subseteq DOMAIN got
    /\ "files" \in DOMAIN host /\ DOMAIN host.files = Ku!ManifestFiles
    /\ \A f \in Ku!ManifestFiles : \E n \in Nat : DOMAIN host.files[f] = 1..n
    /\ got.todo \subseteq Ku!ManifestFiles /\ IsFiniteSet(got.found)
    /\ pc \in {"start", "files", "done"}
    /\ Ku!Cardinality(got.found) <= Ku!MaxDocuments
    /\ reply.exit = "ok" => pc = "done" /\ Ku!Cardinality(reply.data) <= Ku!MaxDocuments

\* One invariant for each of the two commands.
KuInv == (cmd = "status" => KuStatus) /\ (cmd = "manifests" => KuManifests)

\* The documents of a file are finitely many.
LEMMA KuDocuments ==
    ASSUME NEW f, NEW docs, NEW n \in Nat, DOMAIN docs = 1..n
    PROVE  IsFiniteSet(Ku!parseManifestFile(f, docs))
<1> DEFINE S == {j \in DOMAIN docs : docs[j] = "object"}
<1>1. IsFiniteSet(1..n)
    BY FS_Interval
<1>2. S \in SUBSET (1..n)
    OBVIOUS
<1>3. IsFiniteSet(S)
    BY <1>1, <1>2, FS_Subset
<1>4. IsFiniteSet({<<f, i>> : i \in S})
  <2> HIDE DEF S
  <2>1. [i \in S |-> <<f, i>>] \in Surjection(S, {<<f, i>> : i \in S})
    BY DEF Surjection
  <2> QED
    BY <1>3, <2>1, FS_Surjection
<1> QED
    BY <1>4 DEF Ku!parseManifestFile

\* It holds at the start.
LEMMA KuInit == Ku!Init => KuInv
<1> SUFFICES ASSUME Ku!Init PROVE KuInv
    OBVIOUS
<1>1. ASSUME cmd = "status" PROVE KuStatus
  <2>1. /\ DOMAIN host = {"client", "unit", "at", "proc"}
        /\ host.at \in [Pids -> {Ku!Nobody, "kubelet", "locked"}]
        /\ hist.ever = {p \in Pids : host.at[p] = "kubelet"}
        /\ got = [todo |-> {}, found |-> {}, unit |-> FALSE, checks |-> {}, errors |-> {}]
        /\ pc = "start" /\ reply = Ku!NoReply
    BY <1>1 DEF Ku!Init, Ku!Starts
  <2> QED
    BY <2>1 DEF KuStatus, Ku!NoReply
<1>2. ASSUME cmd = "manifests" PROVE KuManifests
  <2>1. got = [todo |-> {}, found |-> {}] /\ pc = "start" /\ reply = Ku!NoReply
    BY <1>2 DEF Ku!Init, Ku!Starts
  <2>2. /\ DOMAIN host = {"dir", "link", "files"}
        /\ \/ host.files \in [Ku!ManifestFiles -> Ku!ManifestDocuments \cup {<<>>}]
           \/ host.files = [f \in Ku!ManifestFiles |-> <<>>]
    BY <1>2 DEF Ku!Init, Ku!Starts
  <2>3. \A d \in Ku!ManifestDocuments \cup {<<>>} : \E n \in Nat : DOMAIN d = 1..n
    <3>1. \A d \in Ku!ManifestDocuments : \E n \in Nat : DOMAIN d = 1..n
      <4> SUFFICES ASSUME NEW d \in Ku!ManifestDocuments PROVE \E n \in Nat : DOMAIN d = 1..n
        OBVIOUS
      <4>1. PICK n \in 1..2 : d \in [1..n -> {"object", "empty", "nameless"}]
        BY DEF Ku!ManifestDocuments
      <4>2. DOMAIN d = 1..n
        BY <4>1, Zenon
      <4> HIDE <4>1
      <4>3. n \in Nat
        OBVIOUS
      <4> QED
        BY <4>2, <4>3
    <3>2. DOMAIN <<>> = 1..0
      OBVIOUS
    <3> QED
      BY <3>1, <3>2
  <2>4. /\ DOMAIN host.files = Ku!ManifestFiles
        /\ \A f \in Ku!ManifestFiles : host.files[f] \in Ku!ManifestDocuments \cup {<<>>}
    BY <2>2
  <2>5. IsFiniteSet({})
    BY FS_EmptySet
  <2> QED
    BY <2>1, <2>2, <2>3, <2>4, <2>5, FS_EmptySet, KuCardinality DEF KuManifests, Ku!NoReply, Ku!MaxDocuments
<1> QED
    BY <1>1, <1>2 DEF KuInv

\* The steps of `status`.
LEMMA KuStatusNext == KuStatus /\ cmd = "status" /\ Ku!Next => KuStatus'
<1> SUFFICES ASSUME KuStatus, cmd = "status", Ku!Next PROVE KuStatus'
    OBVIOUS
<1> USE DEF KuStatus, Ku!Others, Ku!Answer, Ku!GoTo
<1>1. CASE Ku!Timeout
    BY <1>1, KuFailure DEF Ku!Timeout
<1>2. CASE Ku!collectClientVersion
    BY <1>2 DEF Ku!collectClientVersion
<1>3. CASE Ku!collectKubeletUnit
    BY <1>3 DEF Ku!collectKubeletUnit
<1>4. CASE Ku!ReadProc
    BY <1>4 DEF Ku!ReadProc, Ku!ProcessesFail
<1>5. CASE Ku!ReadComm
  <2>1. Ku!Next1(got.todo) \in got.todo
    BY <1>5, KuFirst, PidsAssumption DEF Ku!ReadComm
  <2>2. /\ pc = "comm" /\ UNCHANGED <<cmd, host, hist, reply>> /\ pc' \in {"comm", "report"}
        /\ DOMAIN got' = DOMAIN got /\ got'.todo \subseteq got.todo
        /\ \/ got'.found = {} \/ got'.found = got.found
           \/ host.at[Ku!Next1(got.todo)] = "kubelet" /\ got'.found = got.found \cup {Ku!Next1(got.todo)}
    BY <1>5, <2>1 DEF Ku!ReadComm, Ku!ProcessesFail
  <2> QED
    BY <2>1, <2>2
<1>6. CASE Ku!ReportStatus
    BY <1>6, KuBuilt DEF Ku!ReportStatus
<1>7. CASE Ku!Change
  <2>1. PICK p \in Pids, v \in {Ku!Nobody, "kubelet"} :
          Ku!Changes([host EXCEPT !.at[p] = v],
                     [always |-> hist.always \ {p},
                      ever |-> IF v = "kubelet" THEN hist.ever \cup {p} ELSE hist.ever])
    BY <1>7 DEF Ku!Change
  <2> QED
    BY <2>1 DEF Ku!Changes, Ku!Done
<1>8. CASE Ku!Deadline
    BY <1>8 DEF Ku!Deadline, Ku!Done
<1> QED
    BY <1>1, <1>2, <1>3, <1>4, <1>5, <1>6, <1>7, <1>8
       DEF Ku!Next, Ku!Step, Ku!ReadKubeconfig, Ku!ReportContexts, Ku!confinedDirectory, Ku!ReadManifest, Ku!ReportManifests

\* The steps of `manifests`.
LEMMA KuManifestsNext == KuManifests /\ cmd = "manifests" /\ Ku!Next => KuManifests'
<1> SUFFICES ASSUME KuManifests, cmd = "manifests", Ku!Next PROVE KuManifests'
    OBVIOUS
<1> USE DEF KuManifests, Ku!Others, Ku!Answer, Ku!GoTo
<1>1. CASE Ku!Timeout
    BY <1>1, KuFailure DEF Ku!Timeout
<1>2. CASE Ku!confinedDirectory
  <2>1. Ku!Cardinality({}) <= Ku!MaxDocuments
    BY FS_EmptySet, KuCardinality DEF Ku!MaxDocuments
  <2> QED
    BY <1>2, <2>1, KuFailure, KuBuilt DEF Ku!confinedDirectory, Ku!configurationFailure
<1>3. CASE Ku!ReadManifest
  <2> DEFINE f == Ku!Next1(got.todo)
             all == got.found \cup Ku!parseManifestFile(f, host.files[f])
  <2>1. \/ pc' = "done" /\ reply'.exit # "ok" /\ UNCHANGED <<host, got>>
        \/ /\ ~ (Ku!Cardinality(all) > Ku!MaxDocuments) /\ got.todo # {}
           /\ got' = [todo |-> got.todo \ {f}, found |-> all] /\ pc' = "files" /\ UNCHANGED reply
    BY <1>3, KuFailure DEF Ku!ReadManifest, Ku!configurationFailure
  <2>2. pc = "files"
    BY <1>3 DEF Ku!ReadManifest
  <2>3. CASE pc' = "done" /\ reply'.exit # "ok" /\ UNCHANGED <<host, got>>
    BY <2>3
  <2>4. CASE /\ ~ (Ku!Cardinality(all) > Ku!MaxDocuments) /\ got.todo # {}
             /\ got' = [todo |-> got.todo \ {f}, found |-> all] /\ pc' = "files" /\ UNCHANGED reply
    <3>1. IsFiniteSet(all)
    <4>1. f \in Ku!ManifestFiles
      <5>1. got.todo \subseteq Ku!ManifestFiles
        OBVIOUS
      <5>2. got.todo # {}
        BY <2>4
      <5>3. Ku!ManifestFiles \subseteq Nat
        BY DEF Ku!ManifestFiles
      <5> QED
        BY <5>1, <5>2, <5>3, KuFirst
    <4>2. PICK n \in Nat : DOMAIN host.files[f] = 1..n
      BY <4>1
    <4>3. IsFiniteSet(Ku!parseManifestFile(f, host.files[f]))
      BY <4>2, KuDocuments
    <4> QED
      BY <4>3, FS_Union
    <3>2. Ku!Cardinality(all) \in Nat
      BY <3>1, FS_CardinalityType, KuCardinality
    <3>3. Ku!Cardinality(all) <= Ku!MaxDocuments
      BY <2>4, <3>2 DEF Ku!MaxDocuments
    <3>4. host.files = host'.files /\ UNCHANGED host
      BY <1>3 DEF Ku!ReadManifest
    <3> HIDE DEF all
    <3> QED
      BY <2>2, <2>4, <3>1, <3>3, <3>4
  <2> QED
    BY <2>1, <2>3, <2>4
<1>4. CASE Ku!ReportManifests
    BY <1>4, KuBuilt DEF Ku!ReportManifests
<1>5. CASE Ku!Change
  <2>1. PICK f \in Ku!ManifestFiles, v \in {<<>>, <<"object">>} :
          Ku!Changes([host EXCEPT !.files[f] = v], [always |-> [hist.always EXCEPT ![f] = <<>>]])
    BY <1>5 DEF Ku!Change
  <2>2. \E n \in Nat : DOMAIN v = 1..n
    <3>1. DOMAIN <<>> = 1..0 /\ DOMAIN <<"object">> = 1..1
      OBVIOUS
    <3> QED
      BY <3>1
  <2> QED
    BY <2>1, <2>2 DEF Ku!Changes, Ku!Done
<1>6. CASE Ku!Deadline
    BY <1>6 DEF Ku!Deadline, Ku!Done
<1> QED
    BY <1>1, <1>2, <1>3, <1>4, <1>5, <1>6
       DEF Ku!Next, Ku!Step, Ku!ReadKubeconfig, Ku!ReportContexts, Ku!collectClientVersion, Ku!collectKubeletUnit,
           Ku!ReadProc, Ku!ReadComm, Ku!ReportStatus

\* Every step preserves it.
LEMMA KuNext == KuInv /\ Ku!Next => KuInv'
<1>1. Ku!Next => UNCHANGED cmd
    BY DEF Ku!Next, Ku!Step, Ku!Timeout, Ku!ReadKubeconfig, Ku!ReportContexts, Ku!collectClientVersion,
           Ku!collectKubeletUnit, Ku!ReadProc, Ku!ReadComm, Ku!ReportStatus, Ku!confinedDirectory,
           Ku!ReadManifest, Ku!ReportManifests, Ku!Change, Ku!Changes, Ku!Deadline, Ku!Others
<1> QED
    BY <1>1, KuStatusNext, KuManifestsNext DEF KuInv

\* It says that nothing is invented.
LEMMA KuSafe == KuInv => Ku!NothingInvented
BY DEF KuInv, KuStatus, KuManifests, Ku!NothingInvented

-----------------------------------------------------------------------------
(* Monitoring.  The probes are made of products and of positions in their lists of units and files,
    and what one finds speaks for its product at that time. *)

\* The answer that is built carries the data it is built from.
LEMMA MBuilt ==
    ASSUME NEW checks, NEW data, NEW errors
    PROVE  M!Built(checks, data, errors).data = data
BY DEF M!Built, M!Build, M!Result

\* A failure answers with its code.
LEMMA MFailure == ASSUME NEW code PROVE M!Failure(code).exit = code
BY DEF M!Failure, M!NoReply

\* A probe of a unit or of a file names one that its product has.
MProbe == {q \in [what : {"packages", "processes", "listeners", "unit", "present", "config"},
                  product : M!Products, i : 0..2] :
             /\ q.what = "unit" => q.i \in DOMAIN M!Units[q.product]
             /\ q.what = "present" => q.i \in DOMAIN M!Paths[q.product]}

\* What speaks for a product now, and what was found of it, is in the history.
MInv ==
    /\ cmd \in DOMAIN M!Probes
    /\ {"todo", "found"} \subseteq DOMAIN got /\ got.todo \subseteq DOMAIN M!Probes[cmd]
    /\ \A p \in M!Products : M!Evidence(host, p) \subseteq hist.ever[p]
    /\ \A f \in got.found : f[1] \in M!Products /\ f[2] \in hist.ever[f[1]]
    /\ reply.exit = "ok" => pc = "done" /\ reply.data = got

\* The lists of probes are made of such probes.
LEMMA MProbes == \A c \in DOMAIN M!Probes : M!Probes[c] \in Seq(MProbe)
<1>1. /\ DOMAIN M!Units["solo"] = 1..1 /\ DOMAIN M!Units["duo"] = 1..2
      /\ DOMAIN M!Paths["solo"] = 1..1 /\ DOMAIN M!Paths["duo"] = 1..2
    BY DEF M!Units, M!Paths
<1>2. \A w \in {"packages", "processes", "listeners"} : M!Probe(w, "solo", 0) \in MProbe
    BY DEF M!Probe, MProbe, M!Products
<1>3. <<M!Probe("packages", "solo", 0), M!Probe("processes", "solo", 0), M!Probe("listeners", "solo", 0)>>
        \in Seq(MProbe)
    BY <1>2
<1>4. \A p \in M!Products : M!All("unit", p, M!Units) \in Seq(MProbe)
  <2>1. ASSUME NEW p \in M!Products PROVE M!All("unit", p, M!Units) \in Seq(MProbe)
    <3>1. PICK n \in 1..2 : DOMAIN M!Units[p] = 1..n
      BY <1>1 DEF M!Products
    <3>2. \A i \in 1..n : M!Probe("unit", p, i) \in MProbe
      BY <3>1 DEF M!Probe, MProbe
    <3>3. M!All("unit", p, M!Units) = [i \in 1..n |-> M!Probe("unit", p, i)]
      BY <3>1 DEF M!All
    <3> QED
      BY <3>2, <3>3
  <2> QED
    BY <2>1
<1>5. \A p \in M!Products, w \in {"present", "config"} : M!All(w, p, M!Paths) \in Seq(MProbe)
  <2>1. ASSUME NEW p \in M!Products, NEW w \in {"present", "config"} PROVE M!All(w, p, M!Paths) \in Seq(MProbe)
    <3>1. PICK n \in 1..2 : DOMAIN M!Paths[p] = 1..n
      BY <1>1 DEF M!Products
    <3>2. \A i \in 1..n : M!Probe(w, p, i) \in MProbe
      BY <3>1 DEF M!Probe, MProbe
    <3>3. M!All(w, p, M!Paths) = [i \in 1..n |-> M!Probe(w, p, i)]
      BY <3>1 DEF M!All
    <3> QED
      BY <3>2, <3>3
  <2> QED
    BY <2>1
<1>6. M!collectInventory \in Seq(MProbe)
    BY <1>3, <1>4, <1>5, ConcatProperties, SMTT(60) DEF M!collectInventory, M!Products
<1>7. M!collectConfigs \in Seq(MProbe)
    BY <1>5, ConcatProperties DEF M!collectConfigs, M!Products
<1>8. M!collectInventory \o M!collectConfigs \in Seq(MProbe)
    BY <1>6, <1>7, ConcatProperties
<1> DEFINE inventory == M!collectInventory
           configs == M!collectConfigs
           all == inventory \o configs
<1>9. M!Probes = [inventory |-> inventory, config |-> configs, status |-> all]
    BY DEF M!Probes
<1>10. inventory \in Seq(MProbe) /\ configs \in Seq(MProbe) /\ all \in Seq(MProbe)
    BY <1>6, <1>7, <1>8
<1> HIDE DEF inventory, configs, all
<1> QED
    BY <1>9, <1>10

\* The next probe is one of them.
LEMMA MCurrent ==
    ASSUME cmd \in DOMAIN M!Probes, got.todo \subseteq DOMAIN M!Probes[cmd], got.todo # {}
    PROVE  M!Current \in MProbe
<1>1. M!Probes[cmd] \in Seq(MProbe)
    BY MProbes
<1>2. got.todo \in SUBSET Nat
    BY <1>1
<1>3. M!Min(got.todo) \in got.todo
    BY <1>2, Least DEF M!Min
<1> QED
    BY <1>1, <1>3 DEF M!Current

\* It holds at the start.
LEMMA MInit == M!Init => MInv
<1> SUFFICES ASSUME M!Init PROVE MInv
    OBVIOUS
<1>1. /\ cmd \in DOMAIN M!Probes /\ got = M!NothingRead /\ reply = M!NoReply
      /\ hist = [always |-> [p \in M!Products |-> M!Evidence(host, p)],
                 ever |-> [p \in M!Products |-> M!Evidence(host, p)]]
    BY DEF M!Init, M!Starts
<1> QED
    BY <1>1 DEF MInv, M!NothingRead, M!NoReply

\* A probe that is done with, and found what there is evidence for.
LEMMA MFound ==
    ASSUME MInv, NEW p, NEW more, NEW issues, NEW ends, M!Finished(p, more, issues, ends), pc # "done",
           \A f \in more : f[1] \in M!Products /\ f[2] \in M!Evidence(host, f[1])
    PROVE  MInv'
<1>1. /\ UNCHANGED <<cmd, host, hist, reply>> /\ {"todo", "found"} \subseteq DOMAIN got'
      /\ got'.todo \subseteq got.todo /\ got'.found = got.found \cup more
    BY DEF MInv, M!Finished, M!GoTo, M!Others, M!Later
<1>2. \A q \in M!Products : M!Evidence(host, q)' = M!Evidence(host, q)
    BY <1>1 DEF M!Evidence
<1> QED
    BY <1>1, <1>2 DEF MInv

\* What a step of the program does that finds nothing.
LEMMA MQuiet ==
    ASSUME MInv, UNCHANGED <<cmd, host, hist>>, {"todo", "found"} \subseteq DOMAIN got',
           got'.todo \subseteq DOMAIN M!Probes[cmd], got'.found = got.found,
           reply'.exit = "ok" => pc' = "done" /\ reply'.data = got'
    PROVE  MInv'
<1>2. \A q \in M!Products : M!Evidence(host, q)' = M!Evidence(host, q)
    BY DEF M!Evidence
<1> QED
    BY <1>2 DEF MInv

\* The two tables, of packages and of processes.
LEMMA MTable ==
    ASSUME MInv, NEW what \in {"packages", "processes"}, NEW code, M!Table(what, code)
    PROVE  MInv'
<1> DEFINE more == {<<p, what>> : p \in {q \in M!Products : host[what] = q}}
           issues == IF host[what] = "unread" THEN {M!Issue(code, "all")} ELSE {}
<1>1. M!Finished(M!Current, more, issues, FALSE) /\ pc = "probe"
    BY DEF M!Table, M!Now
<1>2. \A f \in more : f[1] \in M!Products /\ f[2] \in M!Evidence(host, f[1])
    BY DEF M!Evidence
<1> HIDE DEF more, issues
<1> QED
    BY <1>1, <1>2, MFound

\* Every step preserves it.
LEMMA MNext == MInv /\ M!Next => MInv'
<1> SUFFICES ASSUME MInv, M!Next PROVE MInv'
    OBVIOUS
<1>1. CASE M!Dispatch
  <2>1. CASE M!Answer(M!Failure("arguments")) /\ UNCHANGED got
    BY <1>1, <2>1, MFailure, MQuiet DEF M!Dispatch, M!Answer, M!Others, MInv
  <2>2. CASE got' = [got EXCEPT !.todo = DOMAIN M!Probes[cmd]] /\ M!GoTo("probe")
    BY <1>1, <2>2, MQuiet DEF M!Dispatch, M!GoTo, M!Others, MInv
  <2> QED
    BY <1>1, <2>1, <2>2 DEF M!Dispatch
<1>2. CASE M!contextFailure
    BY <1>2, MFailure, MQuiet DEF M!contextFailure, M!Answer, M!Others, MInv
<1>3. CASE M!installedPackages
    BY <1>3, MTable DEF M!installedPackages
<1>4. CASE M!monitoringProcesses
    BY <1>4, MTable DEF M!monitoringProcesses
<1>5. CASE M!listeningPorts
    BY <1>5, MQuiet DEF M!listeningPorts, M!Now, M!GoTo, M!Others, M!Later, MInv
<1>6. CASE M!unitState
  <2> DEFINE p == M!Current
             state == host[M!Units[p.product][p.i]]
             more == IF state = "active" THEN {<<p.product, "unit">>} ELSE {}
             issues == IF state = "broken" THEN {M!Issue("unit_inventory", p.product)} ELSE {}
  <2>1. M!Finished(p, more, issues, state = "active") /\ pc = "probe" /\ got.todo # {} /\ p.what = "unit"
    BY <1>6 DEF M!unitState, M!Now
  <2>2. p \in MProbe
    BY <2>1, MCurrent DEF MInv
  <2>3. p.product \in M!Products /\ p.i \in DOMAIN M!Units[p.product]
    BY <2>1, <2>2 DEF MProbe
  <2> HIDE DEF p
  <2>4. \A f \in more : f[1] \in M!Products /\ f[2] \in M!Evidence(host, f[1])
    BY <2>3 DEF M!Evidence
  <2> HIDE DEF more, issues, state
  <2> QED
    BY <2>1, <2>4, MFound
<1>7. CASE M!productConfigPresent
  <2> DEFINE p == M!Current
             state == host[M!Paths[p.product][p.i]]
             more == IF state \in {"valid", "malformed"} THEN {<<p.product, "file">>} ELSE {}
             issues == IF state = "unsafe" THEN {M!Issue("config_metadata", p.product)} ELSE {}
  <2>1. M!Finished(p, more, issues, state # "absent") /\ pc = "probe" /\ got.todo # {} /\ p.what = "present"
    BY <1>7 DEF M!productConfigPresent, M!Now
  <2>2. p \in MProbe
    BY <2>1, MCurrent DEF MInv
  <2>3. p.product \in M!Products /\ p.i \in DOMAIN M!Paths[p.product]
    BY <2>1, <2>2 DEF MProbe
  <2> HIDE DEF p
  <2>4. \A f \in more : f[1] \in M!Products /\ f[2] \in M!Evidence(host, f[1])
    BY <2>3 DEF M!Evidence
  <2> HIDE DEF more, issues, state
  <2> QED
    BY <2>1, <2>4, MFound
<1>8. CASE M!ReadConfig
  <2>1. /\ UNCHANGED <<cmd, host, hist, reply>> /\ DOMAIN got' = DOMAIN got /\ pc = "probe"
        /\ got'.todo = M!Later /\ got'.found = got.found
    BY <1>8 DEF M!ReadConfig, M!Now, M!GoTo, M!Others, MInv
  <2> QED
    BY <2>1, MQuiet DEF M!Later, MInv
<1>9. CASE M!Report
  <2>1. /\ UNCHANGED <<cmd, host, hist, got>> /\ pc' = "done"
        /\ reply' = M!Built(M!Checks, got, got.issues)
    BY <1>9 DEF M!Report, M!Answer, M!Others
  <2>2. reply'.data = got'
    BY <2>1, MBuilt
  <2> QED
    BY <2>1, <2>2, MQuiet DEF MInv
<1>10. CASE M!Change
  <2>1. PICK new : M!Changes(new, [always |-> [p \in M!Products |-> hist.always[p] \cap M!Evidence(new, p)],
                                    ever |-> [p \in M!Products |-> hist.ever[p] \cup M!Evidence(new, p)]])
    BY <1>10 DEF M!Change
  <2>2. /\ UNCHANGED <<cmd, pc, got, reply>> /\ pc # "done" /\ host' = new
        /\ \A p \in M!Products : hist'.ever[p] = hist.ever[p] \cup M!Evidence(new, p)
    BY <2>1 DEF M!Changes, M!Done
  <2>3. \A p \in M!Products : M!Evidence(host, p)' = M!Evidence(new, p)
    BY <2>2 DEF M!Evidence
  <2> QED
    BY <2>2, <2>3 DEF MInv
<1>11. CASE M!Deadline
    BY <1>11, MQuiet DEF M!Deadline, M!Done, MInv
<1> QED
    BY <1>1, <1>2, <1>3, <1>4, <1>5, <1>6, <1>7, <1>8, <1>9, <1>10, <1>11 DEF M!Next, M!Step

\* It says that nothing is invented.
LEMMA MSafe == MInv => M!NothingInvented
BY DEF MInv, M!NothingInvented

-----------------------------------------------------------------------------
(* Network.  A section comes from files that had rows when they were read or, when none could be
    used, from the program. *)

\* The answer that is built carries the data it is built from.
LEMMA NBuilt ==
    ASSUME NEW checks, NEW data, NEW errors
    PROVE  N!Built(checks, data, errors).data = data
BY DEF N!Built, N!Build, N!Result

\* A failure answers with its code.
LEMMA NFailure == ASSUME NEW code PROVE N!Failure(code).exit = code
BY DEF N!Failure, N!NoReply

\* The sections by name.
SectionNames == {"interfaces", "routes", "listeners"}

\* What the program of a section is worth.
NProgram(s) == IF N!ProgramOf[s] = "ip" THEN host.ip ELSE host.ss

\* Where a section comes from.
Justified(s, from) ==
    \/ from \subseteq N!FilesOf[s] /\ \A f \in from : hist.always[f] \in {"rows", "changed"}
    \/ from = {N!ProgramOf[s]} /\ NProgram(s) = "works"

\* What was collected so far is justified, and rows that were there are in the history.
NSections ==
    /\ {"files", "ip", "ss"} \subseteq DOMAIN host /\ DOMAIN host.files = N!KernelFiles
    /\ "always" \in DOMAIN hist /\ DOMAIN hist.always = N!KernelFiles
    /\ \A f \in N!KernelFiles : host.files[f] = "rows" => hist.always[f] \in {"rows", "changed"}
    /\ {"section", "from"} \subseteq DOMAIN got
    /\ pc \in {"start", "collect", "done"}
    /\ pc = "collect" => got.section \in 1..4
    /\ \A s \in DOMAIN got.from : s \in SectionNames /\ Justified(s, got.from[s])
    /\ reply.exit = "ok" => pc = "done" /\ reply.data = got.from

\* The inspection of certificates collects no sections.
NInv == cmd # "tls" => cmd \in {"overview"} \cup SectionNames /\ NSections

\* The sections are three, and their names are these.
LEMMA NNames ==
    /\ Len(N!Sections) = 3 /\ DOMAIN N!Sections = 1..3
    /\ \A i \in 1..3 : N!Sections[i] \in SectionNames
    /\ \A s \in SectionNames : \E i \in 1..3 : N!Sections[i] = s
BY DEF N!Sections, SectionNames

\* The files of a section are files of the kernel.
LEMMA NFiles == \A s \in SectionNames : N!FilesOf[s] \subseteq N!KernelFiles
BY DEF N!FilesOf, N!KernelFiles, N!SocketFiles, SectionNames

\* It holds at the start.
LEMMA NInit == N!Init => NInv
<1> SUFFICES ASSUME N!Init, cmd # "tls" PROVE cmd \in {"overview"} \cup SectionNames /\ NSections
    BY DEF NInv
<1>1. /\ cmd \in {"overview"} \cup SectionNames
      /\ host \in [files : [N!KernelFiles -> {"rows", "absent", "malformed"}], ip : N!Programs, ss : N!Programs]
      /\ hist = [always |-> host.files] /\ got = N!NothingRead /\ pc = "start" /\ reply = N!NoReply
    BY DEF N!Init, N!Starts, SectionNames
<1> QED
    BY <1>1 DEF NSections, N!NothingRead, N!NoReply

\* Every step preserves it.
LEMMA NNext == NInv /\ N!Next => NInv'
<1> SUFFICES ASSUME NInv, N!Next, cmd' # "tls" PROVE cmd' \in {"overview"} \cup SectionNames /\ NSections'
    BY DEF NInv
<1>a. UNCHANGED cmd
    BY DEF N!Next, N!Step, N!Dispatch, N!collectSection, N!Report, N!executeTLS, N!Change, N!Changes, N!Deadline, N!Others
<1>b. cmd # "tls" /\ cmd \in {"overview"} \cup SectionNames /\ NSections
    BY <1>a DEF NInv
<1> USE DEF NSections, N!Others, N!Answer, N!GoTo
<1>1. CASE N!Dispatch
  <2>1. /\ pc = "start" /\ UNCHANGED <<cmd, host, hist>> /\ got'.from = got.from /\ DOMAIN got' = DOMAIN got
        /\ \/ pc' = "done" /\ reply'.exit # "ok"
           \/ pc' = "collect" /\ got'.section \in 1..3 /\ UNCHANGED reply
    <3> DEFINE Place == CHOOSE i \in DOMAIN N!Sections : N!Sections[i] = cmd
    <3>1. cmd \in SectionNames => Place \in 1..3
      BY NNames
    <3>2. \/ pc' = "done" /\ reply' = N!Failure("arguments") /\ UNCHANGED got
          \/ got' = [got EXCEPT !.section = 1] /\ pc' = "collect" /\ UNCHANGED reply
          \/ cmd # "overview" /\ got' = [got EXCEPT !.section = Place] /\ pc' = "collect" /\ UNCHANGED reply
      BY <1>b, <1>1, Zenon DEF N!Dispatch
    <3>3. pc = "start" /\ UNCHANGED <<cmd, host, hist>>
      BY <1>1 DEF N!Dispatch
    <3> HIDE DEF Place
    <3>4. N!Failure("arguments").exit # "ok"
      BY NFailure
    <3> QED
      BY <1>b, <3>1, <3>2, <3>3, <3>4
  <2>2. \A s \in DOMAIN got'.from : s \in SectionNames /\ Justified(s, got.from[s])'
    BY <1>b, <2>1 DEF Justified, NProgram
  <2> QED
    BY <1>b, <2>1, <2>2
<1>2. CASE N!collectSection
  <2> DEFINE s == N!Sections[got.section]
             from == N!Source(s)
  <2>1. /\ pc = "collect" /\ UNCHANGED <<cmd, host, hist>> /\ got.section \in 1..3
        /\ \/ pc' = "done" /\ reply'.exit # "ok" /\ UNCHANGED got
           \/ /\ pc' = "collect" /\ UNCHANGED reply /\ DOMAIN got' = DOMAIN got
              /\ got'.section \in {got.section + 1, 4}
              /\ got'.from = IF from # {} THEN [x \in DOMAIN got.from \cup {s} |-> IF x = s THEN from ELSE got.from[x]]
                             ELSE got.from
    <3> DEFINE got2(next, errs, checks) ==
                 [got EXCEPT !.section = next,
                             !.from = IF from # {} THEN [x \in DOMAIN got.from \cup {s} |-> IF x = s THEN from ELSE got.from[x]]
                                      ELSE got.from,
                             !.checks = checks, !.errors = errs]
    <3>1. pc = "collect" /\ got.section <= Len(N!Sections) /\ UNCHANGED <<cmd, host, hist>>
      BY <1>2 DEF N!collectSection
    <3>2. Len(N!Sections) = 3 /\ got.section \in 1..3
      BY <1>b, <3>1, NNames
    <3>3. \/ pc' = "done" /\ reply' = N!Failure("timeout") /\ UNCHANGED got
          \/ /\ pc' = "collect" /\ UNCHANGED reply
             /\ \E next, errs, checks : got' = got2(next, errs, checks) /\ next \in {got.section + 1, 4}
      <4>1. CASE N!contextFailure(s)
        BY <1>2, <4>1 DEF N!collectSection
      <4>2. CASE ~ N!contextFailure(s)
        <5> DEFINE next == IF cmd = "overview" THEN got.section + 1 ELSE Len(N!Sections) + 1
                   checks == got.checks \cup {N!Chk(s, IF from # {} THEN "pass" ELSE "skipped")}
                   errs == IF from # {} THEN got.errors ELSE got.errors \cup {s}
        <5>1. got' = got2(next, errs, checks) /\ pc' = "collect" /\ UNCHANGED reply
          BY <1>2, <4>2 DEF N!collectSection
        <5>2. next \in {got.section + 1, 4}
          BY <3>2
        <5> HIDE DEF next, checks, errs, got2
        <5> QED
          BY <5>1, <5>2
      <4> QED
        BY <4>1, <4>2
    <3>4. N!Failure("timeout").exit # "ok"
      BY NFailure
    <3> HIDE DEF s, from
    <3>5. CASE pc' = "done" /\ reply' = N!Failure("timeout") /\ UNCHANGED got
      BY <3>1, <3>2, <3>4, <3>5
    <3>6. CASE /\ pc' = "collect" /\ UNCHANGED reply
               /\ \E next, errs, checks : got' = got2(next, errs, checks) /\ next \in {got.section + 1, 4}
      <4>1. PICK next, errs, checks : got' = got2(next, errs, checks) /\ next \in {got.section + 1, 4}
        BY <3>6
      <4>2. DOMAIN got' = DOMAIN got /\ got'.section = next
        BY <1>b, <4>1
      <4>3. got'.from = IF from # {} THEN [x \in DOMAIN got.from \cup {s} |-> IF x = s THEN from ELSE got.from[x]]
                        ELSE got.from
        BY <1>b, <4>1
      <4> QED
        BY <3>1, <3>2, <3>6, <4>1, <4>2, <4>3
    <3> QED
      BY <3>3, <3>5, <3>6
  <2>2. s \in SectionNames
    BY <2>1, NNames
  <2>3. from # {} => Justified(s, from)
    <3> DEFINE files == N!Usable(N!FilesOf[s])
    <3>0. files \subseteq N!FilesOf[s] /\ \A f \in files : host.files[f] = "rows"
      BY DEF N!Usable
    <3>1. \/ from \subseteq N!FilesOf[s] /\ \A f \in from : host.files[f] = "rows"
          \/ from = {N!ProgramOf[s]} /\ NProgram(s) = "works"
          \/ from = {}
      <4>1. from = IF files # {} THEN files
                   ELSE IF NProgram(s) = "works" /\ N!Live THEN {N!ProgramOf[s]} ELSE {}
        BY Zenon DEF N!Source, NProgram
      <4> HIDE DEF files, from
      <4> QED
        BY <3>0, <4>1
    <3> QED
      BY <1>b, <2>2, <3>1, NFiles DEF Justified
  <2> HIDE DEF s, from
  <2>4. \A x \in DOMAIN got'.from : x \in SectionNames /\ Justified(x, got'.from[x])
    BY <1>b, <2>1, <2>2, <2>3
  <2>5. \A x \in DOMAIN got'.from : Justified(x, got.from[x])'
    BY <2>1, <2>4 DEF Justified, NProgram
  <2> QED
    BY <1>b, <2>1, <2>4, <2>5
<1>3. CASE N!Report
  <2>1. /\ pc = "collect" /\ pc' = "done" /\ UNCHANGED <<cmd, host, hist, got>>
        /\ reply'.exit = "ok" => reply'.data = got.from
    BY <1>b, <1>3, NBuilt, NFailure DEF N!Report
  <2>2. \A s \in DOMAIN got'.from : s \in SectionNames /\ Justified(s, got.from[s])'
    BY <1>b, <2>1 DEF Justified, NProgram
  <2> QED
    BY <1>b, <2>1, <2>2
<1>4. CASE N!Change
  <2>1. PICK f \in N!KernelFiles, v \in {"rows", "absent"} :
          N!Changes([host EXCEPT !.files[f] = v], [always |-> [hist.always EXCEPT ![f] = "changed"]])
    BY <1>4 DEF N!Change
  <2>2. /\ UNCHANGED <<cmd, pc, got, reply>> /\ pc # "done" /\ DOMAIN host' = DOMAIN host
        /\ host'.ip = host.ip /\ host'.ss = host.ss /\ DOMAIN host'.files = N!KernelFiles
        /\ "always" \in DOMAIN hist' /\ DOMAIN hist'.always = N!KernelFiles
        /\ \A g \in N!KernelFiles : /\ host'.files[g] = IF g = f THEN v ELSE host.files[g]
                                    /\ hist'.always[g] = IF g = f THEN "changed" ELSE hist.always[g]
    BY <1>b, <2>1 DEF N!Changes, N!Done
  <2>3. ASSUME NEW s \in SectionNames, NEW from, Justified(s, from) PROVE Justified(s, from)'
    BY <1>b, <2>2, <2>3, NFiles DEF Justified, NProgram
  <2> QED
    BY <1>b, <2>2, <2>3
<1>5. CASE N!Deadline
  <2>1. UNCHANGED <<cmd, host, hist, pc, got, reply>>
    BY <1>5 DEF N!Deadline
  <2>2. \A s \in DOMAIN got'.from : s \in SectionNames /\ Justified(s, got.from[s])'
    BY <1>b, <2>1 DEF Justified, NProgram
  <2> QED
    BY <1>b, <2>1, <2>2
<1> QED
    BY <1>b, <1>1, <1>2, <1>3, <1>4, <1>5 DEF N!Next, N!Step, N!executeTLS

\* It says that nothing is invented.
LEMMA NSafe == NInv => N!NothingInvented
BY DEF NInv, NSections, Justified, NProgram, N!NothingInvented

-----------------------------------------------------------------------------
(* Platform.  What the detection answers is a line of a file that was there, the link followed at
    most once. *)

\* A failure answers with its code.
LEMMA PFailure == ASSUME NEW code PROVE P!Failure(code).exit = code
BY DEF P!Failure, P!NoReply

\* The instance counts as the library does.
LEMMA PCardinality == ASSUME NEW S PROVE P!Cardinality(S) = Cardinality(S)
BY Zenon DEF P!Cardinality, Cardinality

\* Every line is an assignment.
IsLine(l) == l = P!L(l.key, l.value)

\* Every line of a file is one.
PLines(lines) == \A i \in DOMAIN lines : IsLine(lines[i])

\* A node of the host has lines.
PNode(h) == PLines(h.lines)

\* The host is in the history; after a link was seen a second node is too.
PInv ==
    /\ DOMAIN host = {"kind", "lines"} /\ PNode(host)
    /\ IsFiniteSet(hist.ever) /\ host \in hist.ever
    /\ pc \in {"resolve", "open"} /\ P!isLink(host) => P!IsRoot \/ P!Cardinality(hist.ever) > 1
    /\ reply.exit = "ok" => pc = "done"
    /\ P!NothingInvented

\* The contents that are tried are lines.
LEMMA PContents == \A c \in P!Contents : PLines(c)
<1>1. \A k, v : IsLine(P!L(k, v))
    BY DEF P!L, IsLine
<1>2. \A v : IsLine(P!ID(v)) /\ IsLine(P!Version(v))
    BY <1>1 DEF P!ID, P!Version
<1>3. ASSUME NEW x, NEW y, IsLine(x), IsLine(y) PROVE PLines(<<>>) /\ PLines(<<x>>) /\ PLines(<<x, y>>)
    BY <1>3 DEF PLines
<1>4. ASSUME NEW x, NEW y, NEW z, IsLine(x), IsLine(y), IsLine(z) PROVE PLines(<<x, y, z>>)
    BY <1>4 DEF PLines
<1>5. ASSUME NEW w, NEW x, NEW y, NEW z, IsLine(w), IsLine(x), IsLine(y), IsLine(z) PROVE PLines(<<w, x, y, z>>)
    BY <1>5 DEF PLines
<1>6. ASSUME NEW v, NEW w, NEW x, NEW y, NEW z, IsLine(v), IsLine(w), IsLine(x), IsLine(y), IsLine(z)
      PROVE  PLines(<<v, w, x, y, z>>)
    BY <1>6 DEF PLines
<1>7. ASSUME NEW c \in P!Releases PROVE PLines(c)
  <2>1. PICK i, v : c = <<P!ID(i), P!Version(v)>>
    BY SMT DEF P!Releases
  <2>2. IsLine(P!ID(i)) /\ IsLine(P!Version(v))
    BY <1>2
  <2>3. PLines(<<P!ID(i), P!Version(v)>>)
    BY <1>3, <2>2
  <2> QED
    BY <2>1, <2>3
<1>8. PLines(<<>>) /\ PLines(<<P!ID("debian")>>) /\ PLines(<<P!ID("debian"), P!Version("")>>)
    BY <1>2, <1>3
<1>9. /\ PLines(<<P!L("NAME", "?"), P!ID("debian"), P!Version("12")>>)
      /\ PLines(<<P!ID("debian"), P!ID("ubuntu"), P!Version("12")>>)
      /\ PLines(<<P!L("comment", ""), P!ID("debian"), P!Version("12")>>)
      /\ PLines(<<P!L("no key", ""), P!ID("debian"), P!Version("12")>>)
    BY <1>1, <1>2, <1>4
<1>10. PLines(<<P!L("NAME", "x"), P!L("NAME", "x"), P!ID("debian"), P!Version("12")>>)
    BY <1>1, <1>2, <1>5
<1>11. PLines(<<P!ID("ubuntu"), P!Version("24.04"), P!L("A", ""), P!L("B", ""), P!L("C", "")>>)
    BY <1>1, <1>2, <1>6
<1> QED
    BY <1>7, <1>8, <1>9, <1>10, <1>11, Zenon DEF P!Contents

\* So are those of the nodes.
LEMMA PNodes == \A h \in P!Nodes : DOMAIN h = {"kind", "lines"} /\ PNode(h)
<1>1. P!Good \in P!Contents
  <2>1. P!Good \in P!Releases
    BY SMT DEF P!Good, P!Releases
  <2> QED
    BY <2>1, Zenon DEF P!Contents
<1> SUFFICES ASSUME NEW h \in P!Nodes PROVE DOMAIN h = {"kind", "lines"} /\ PNode(h)
    OBVIOUS
<1>2. \E k : \E c \in P!Contents : h = P!Node(k, c)
    BY <1>1, Zenon DEF P!Nodes
<1> QED
    BY <1>2, PContents DEF P!Node, PNode

\* It holds at the start.
LEMMA PInit == P!Init => PInv
<1> SUFFICES ASSUME P!Init PROVE PInv
    OBVIOUS
<1>1. host \in P!Nodes /\ hist = [ever |-> {host}] /\ pc = "start" /\ reply = P!NoReply
    BY DEF P!Init, P!Starts
<1> QED
    BY <1>1, PNodes, FS_Singleton DEF PInv, P!NoReply, P!NothingInvented

\* What is detected is of the node that is open.
LEMMA PDetect ==
    ASSUME PInv, P!Detect, reply'.exit = "ok"
    PROVE  /\ {i \in DOMAIN host.lines : host.lines[i].key = "ID"} = {i \in DOMAIN host.lines : host.lines[i] = P!ID(reply'.data.id)}
           /\ P!Version(reply'.data.version) \in P!Range(host.lines)
<1> DEFINE lines == host.lines
           values == P!parseRelease(lines)
           Of(key) == {l.value : l \in {v \in values : v.key = key}} \ {""}
           kept == {i \in DOMAIN lines : lines[i].key # "comment"}
<1>0. \A i \in DOMAIN lines : lines[i] = P!L(lines[i].key, lines[i].value)
    BY DEF PInv, PNode, PLines, IsLine
<1>1. PICK id \in Of("ID"), version \in Of("VERSION_ID") :
        reply'.data.id = id /\ reply'.data.version = version
  <2>1. ~ P!Refuse
    BY PFailure DEF P!Refuse, P!Answer
  <2>2. /\ Of("ID") # {} /\ Of("VERSION_ID") # {}
        /\ LET id == CHOOSE v \in Of("ID") : TRUE
               version == CHOOSE v \in Of("VERSION_ID") : TRUE
           IN P!Answer(P!Result("pass", {}, [id |-> id, version |-> version, supported |-> P!supported(id, version)], {}))
    BY <2>1 DEF P!Detect
  <2> HIDE DEF Of
  <2> QED
    BY <2>2 DEF P!Answer, P!Result
<1>2. values # {P!L("refused", "")}
    BY <1>1 DEF P!L
<1>3. /\ values = {lines[i] : i \in kept}
      /\ \A i, j \in kept : lines[i].key = lines[j].key => i = j
    BY <1>2 DEF P!parseRelease
<1>v. \A key : \A v \in Of(key) : \E i \in kept : lines[i].key = key /\ lines[i].value = v
  <2> TAKE key
  <2> TAKE v \in Of(key)
  <2>1. PICK l \in values : l.key = key /\ l.value = v
    OBVIOUS
  <2>2. PICK i \in kept : lines[i] = l
    BY <2>1, <1>3
  <2> QED
    BY <2>1, <2>2
<1> HIDE DEF Of
<1>4. PICK i \in kept : lines[i].key = "ID" /\ lines[i].value = id
    BY <1>1, <1>v
<1>5. PICK j \in kept : lines[j].key = "VERSION_ID" /\ lines[j].value = version
    BY <1>1, <1>v
<1>6. lines[i] = P!ID(id) /\ lines[j] = P!Version(version)
    BY <1>0, <1>4, <1>5 DEF P!ID, P!Version
<1>7. \A n \in DOMAIN lines : lines[n].key = "ID" => n = i
    BY <1>3, <1>4
<1>8. P!ID(id).key = "ID"
    BY DEF P!ID, P!L
<1> QED
    BY <1>1, <1>6, <1>7, <1>8 DEF P!Range

\* Every step preserves it.
LEMMA PNext == PInv /\ P!Next => PInv'
<1> SUFFICES ASSUME PInv, P!Next PROVE PInv'
    OBVIOUS
<1> USE DEF PInv, P!Others, P!Answer, P!GoTo, P!Refuse
<1>1. CASE P!Root
    BY <1>1, PFailure DEF P!Root, P!NothingInvented
<1>2. CASE P!validateReleasePath
  <2>1. reply'.exit # "ok"
    BY <1>2, PFailure DEF P!validateReleasePath
  <2> QED
    BY <1>2, <2>1, PFailure DEF P!validateReleasePath, P!NothingInvented, P!IsRoot
<1>3. CASE P!validateReleaseTarget
  <2>1. reply'.exit # "ok"
    BY <1>3, PFailure DEF P!validateReleaseTarget
  <2> QED
    BY <1>3, <2>1, PFailure DEF P!validateReleaseTarget, P!NothingInvented, P!IsRoot
<1>4. CASE P!Detect
  <2>1. pc = "open" /\ pc' = "done" /\ UNCHANGED <<cmd, host, hist>>
    BY <1>4 DEF P!Detect
  <2>2. P!NothingInvented'
    <3> SUFFICES ASSUME reply'.exit = "ok" PROVE P!NothingInvented'
      BY DEF P!NothingInvented
    <3>1. P!isLink(host) => P!IsRoot \/ P!Cardinality(hist.ever) > 1
      BY <2>1
    <3> QED
      BY <1>4, <2>1, <3>1, PDetect DEF P!NothingInvented, P!IsRoot
  <2> QED
    BY <2>1, <2>2
<1>5. CASE P!Change
  <2>0. /\ P!Node("file", <<P!ID("ubuntu"), P!Version("24.04")>>) \in P!Nodes
        /\ P!Node("link", P!Good) \in P!Nodes /\ P!Node("absent", P!Good) \in P!Nodes
    <3>1. <<P!ID("ubuntu"), P!Version("24.04")>> \in P!Contents
      <4>1. <<P!ID("ubuntu"), P!Version("24.04")>> \in P!Releases
        BY SMT DEF P!Releases
      <4> QED
        BY <4>1, Zenon DEF P!Contents
    <3> QED
      BY <3>1, Zenon DEF P!Nodes
  <2>1. PICK n \in P!Nodes : n # host /\ P!Changes(n, [ever |-> hist.ever \cup {n}])
                             /\ pc \in {"lstat", "resolve", "open"}
    BY <1>5, <2>0 DEF P!Change
  <2>2. /\ IsFiniteSet(hist'.ever) /\ host' \in hist'.ever /\ {host, n} \subseteq hist'.ever
        /\ PNode(host') /\ DOMAIN host' = {"kind", "lines"}
    BY <2>1, FS_AddElement, PNodes DEF P!Changes
  <2>3. IsFiniteSet({host}) /\ Cardinality({host}) = 1
    BY FS_Singleton
  <2>4. Cardinality({host} \cup {n}) = 2
    <3>1. n \notin {host}
      BY <2>1
    <3>2. Cardinality({host} \cup {n}) = IF n \in {host} THEN Cardinality({host}) ELSE Cardinality({host}) + 1
      BY <2>3, FS_AddElement, Zenon
    <3>3. Cardinality({host} \cup {n}) = Cardinality({host}) + 1
      BY <3>1, <3>2, Zenon
    <3> QED
      BY <2>3, <3>3
  <2>5. P!Cardinality(hist'.ever) > 1
    BY <2>2, <2>4, FS_Subset, FS_CardinalityType, PCardinality
  <2> QED
    BY <2>1, <2>2, <2>5 DEF P!Changes, P!Done, P!NothingInvented, P!IsRoot
<1> QED
    BY <1>1, <1>2, <1>3, <1>4, <1>5 DEF P!Next, P!Step

\* It says that nothing is invented.
LEMMA PSafe == PInv => P!NothingInvented
BY DEF PInv

-----------------------------------------------------------------------------
(* Postgres.  The processes found had the name at some time. *)

\* The answer that is built carries the data it is built from.
LEMMA PgBuilt ==
    ASSUME NEW checks, NEW data, NEW errors
    PROVE  Pg!Built(checks, data, errors).data = data
BY DEF Pg!Built, Pg!Build, Pg!Result

\* A failure answers with its code.
LEMMA PgFailure == ASSUME NEW code PROVE Pg!Failure(code).exit = code
BY DEF Pg!Failure, Pg!NoReply

\* Found are processes that had the name; those named are in the history.
PgStatus ==
    /\ {"at"} \subseteq DOMAIN host /\ DOMAIN host.at = Pids
    /\ {"todo", "found"} \subseteq DOMAIN got
    /\ got.todo \subseteq Pids /\ got.found \subseteq hist.ever
    /\ \A p \in Pids : host.at[p] = "postgres" => p \in hist.ever
    /\ pc \in {"start", "list", "unit", "packages", "processes", "done"}
    /\ reply.exit = "ok" => pc = "done" /\ reply.data.found = got.found

\* The invariant is about the command that lists processes.
PgInv == cmd = "status" => PgStatus

\* It holds at the start.
LEMMA PgInit == Pg!Init => PgInv
<1> SUFFICES ASSUME Pg!Init, cmd = "status" PROVE PgStatus
    BY DEF PgInv
<1>1. /\ DOMAIN host = {"list", "unit", "packages", "at", "config"}
      /\ host.at \in [Pids -> {Pg!Nobody, "postgres", "locked"}]
      /\ hist.ever = {p \in Pids : host.at[p] = "postgres"}
      /\ got = [clusters |-> {}, unit |-> "unread", packages |-> {}, todo |-> {}, found |-> {}]
      /\ pc = "start" /\ reply = Pg!NoReply
    BY DEF Pg!Init, Pg!Starts
<1> QED
    BY <1>1 DEF PgStatus, Pg!NoReply

\* Every step preserves it.
LEMMA PgNext == PgInv /\ Pg!Next => PgInv'
<1> SUFFICES ASSUME PgInv, Pg!Next, cmd' = "status" PROVE PgStatus'
    BY DEF PgInv
<1> USE DEF PgStatus, Pg!Others, Pg!Answer, Pg!GoTo, Pg!Timeout, Pg!Dependency
<1>a. cmd = "status" /\ PgStatus
    BY DEF PgInv, Pg!Next, Pg!Step, Pg!Dispatch, Pg!executeClusters, Pg!StatusClusters, Pg!collectSystemdState,
           Pg!collectPackages, Pg!collectProcesses, Pg!executeStatus, Pg!boundedDirectories, Pg!FileExists,
           Pg!ReadFile, Pg!executeConfig, Pg!Change, Pg!Changes, Pg!Deadline
<1>1. CASE Pg!Dispatch
    BY <1>a, <1>1, PgFailure DEF Pg!Dispatch
<1>2. CASE Pg!StatusClusters
    BY <1>a, <1>2, PgFailure DEF Pg!StatusClusters
<1>3. CASE Pg!collectSystemdState
    BY <1>a, <1>3, PgFailure DEF Pg!collectSystemdState
<1>4. CASE Pg!collectPackages
    BY <1>a, <1>4 DEF Pg!collectPackages
<1>5. CASE Pg!collectProcesses
  <2>1. Pg!Min(got.todo) \in got.todo
    BY <1>a, <1>5, Least, PidsAssumption DEF Pg!collectProcesses, Pg!Min
  <2> QED
    BY <1>a, <1>5, <2>1 DEF Pg!collectProcesses
<1>6. CASE Pg!executeStatus
    BY <1>a, <1>6, PgBuilt DEF Pg!executeStatus
<1>7. CASE Pg!Change
  <2>1. PICK p \in Pids, v \in {Pg!Nobody, "postgres"} :
          Pg!Changes([host EXCEPT !.at[p] = v],
                     [always |-> hist.always \ {p}, ever |-> IF v = Pg!Nobody THEN hist.ever ELSE hist.ever \cup {p}])
    BY <1>a, <1>7 DEF Pg!Change
  <2> QED
    BY <1>a, <2>1 DEF Pg!Changes, Pg!Done, Pg!Nobody
<1>8. CASE Pg!Deadline
    BY <1>a, <1>8 DEF Pg!Deadline, Pg!Done
<1> QED
    BY <1>a, <1>1, <1>2, <1>3, <1>4, <1>5, <1>6, <1>7, <1>8
       DEF Pg!Next, Pg!Step, Pg!executeClusters, Pg!boundedDirectories, Pg!FileExists, Pg!ReadFile, Pg!executeConfig

\* It says that nothing is invented.
LEMMA PgSafe == PgInv => Pg!NothingInvented
BY DEF PgInv, PgStatus, Pg!NothingInvented

-----------------------------------------------------------------------------
(* Runbook.  The documents that were kept are sound, and no two of them have one name. *)

\* The answer that is built carries the data it is built from.
LEMMA RBuilt ==
    ASSUME NEW checks, NEW data, NEW errors
    PROVE  R!Built(checks, data, errors).data = data
BY DEF R!Built, R!Build, R!Result

\* A failure answers with its code.
LEMMA RFailure == ASSUME NEW code PROVE R!Failure(code).exit = code
BY DEF R!Failure, R!NoReply

\* No document is at fault, and a name stands for one of them.
Sound(documents) ==
    \A d, e \in documents : d.fault = "none" /\ (d.name = e.name => d = e)

\* What was loaded is sound, and so is what is answered.
RInv ==
    /\ "documents" \in DOMAIN got /\ "entries" \in DOMAIN got
    /\ Sound(got.documents)
    /\ reply.exit = "ok" => pc = "done" /\ reply.data \subseteq got.documents

\* It holds at the start.
LEMMA RInit == R!Init => RInv
BY DEF R!Init, R!Starts, RInv, R!NoReply, R!Start, Sound

\* Every step preserves it.
LEMMA RNext == RInv /\ R!Next => RInv'
<1> SUFFICES ASSUME RInv, R!Next PROVE RInv'
    OBVIOUS
<1> USE DEF RInv, R!Others, R!Answer, R!GoTo
<1>1. CASE R!Dispatch
    BY <1>1, RFailure DEF R!Dispatch
<1>2. CASE R!openRunbookDirectory
    BY <1>2, RFailure DEF R!openRunbookDirectory, R!configurationFailure
<1>3. CASE R!loadDocument
  <2> DEFINE f == R!NextFile
             d == host.files[f]
  <2>1. CASE ~ R!Live \/ (R!Candidate(f) /\ R!Fails(f, d))
    BY <1>3, <2>1, RFailure DEF R!loadDocument, R!configurationFailure
  <2>2. CASE ~ (~ R!Live \/ (R!Candidate(f) /\ R!Fails(f, d)))
    <3>1. /\ \/ got'.documents = got.documents
             \/ got'.documents = got.documents \cup {d} /\ R!Candidate(f)
          /\ "documents" \in DOMAIN got' /\ "entries" \in DOMAIN got'
          /\ pc' = "load" /\ UNCHANGED reply /\ pc = "load"
      BY <1>3, <2>2 DEF R!loadDocument
    <3>2. R!Candidate(f) => d.fault = "none" /\ \A e \in got.documents : e.name # d.name
      BY <2>2 DEF R!Fails, R!validateDocument
    <3>3. Sound(got'.documents)
      BY <3>1, <3>2 DEF Sound
    <3> QED
      BY <3>1, <3>3
  <2> QED
    BY <2>1, <2>2
<1>4. CASE R!Report
  <2>1. R!Chosen \subseteq got.documents
    BY DEF R!Chosen
  <2> QED
    BY <1>4, <2>1, RBuilt, RFailure DEF R!Report
<1>5. CASE R!Change
    BY <1>5 DEF R!Change, R!Changes, R!Done
<1>6. CASE R!Deadline
    BY <1>6 DEF R!Deadline, R!Done
<1> QED
    BY <1>1, <1>2, <1>3, <1>4, <1>5, <1>6 DEF R!Next, R!Step

\* It says that nothing is invented.
LEMMA RSafe == RInv => R!NothingInvented
BY DEF RInv, R!NothingInvented, Sound

-----------------------------------------------------------------------------
(* Security.  What was read of the accounts was there at some time. *)

\* The answer that is built carries the data it is built from.
LEMMA SeBuilt ==
    ASSUME NEW checks, NEW data, NEW errors
    PROVE  Se!Built(checks, data, errors).data = data
BY DEF Se!Built, Se!Build, Se!Result

\* A failure answers with its code.
LEMMA SeFailure == ASSUME NEW code PROVE Se!Failure(code).exit = code
BY DEF Se!Failure, Se!NoReply

\* The rows there are now, and those that were read, are in the history.
SeInv ==
    /\ {"passwd"} \subseteq DOMAIN host
    /\ {"passwd", "accounts"} \subseteq DOMAIN got
    /\ host.passwd \subseteq hist.ever
    /\ got.passwd \subseteq hist.ever
    /\ got.accounts \subseteq hist.ever
    /\ reply.exit = "ok" => pc = "done" /\ reply.data = got

\* A field that all hosts have is one of their variants too.
LEMMA SeVaried ==
    ASSUME NEW hosts, NEW values, NEW x, \A h \in hosts : x \in DOMAIN h
    PROVE  \A h \in Se!Varied(hosts, values) : x \in DOMAIN h
BY DEF Se!Varied

\* All hosts have the file of the accounts.
LEMMA SeHosts == \A h \in Se!Hosts : "passwd" \in DOMAIN h
<1>1. "passwd" \in DOMAIN Se!Usual
    BY DEF Se!Usual
<1>2. \A h \in Se!Varied({Se!Usual}, Se!Unusual) : "passwd" \in DOMAIN h
    BY <1>1, SeVaried
<1>3. \A h \in Se!Varied(Se!Varied({Se!Usual}, Se!Unusual), Se!Unusual) : "passwd" \in DOMAIN h
    BY <1>2, SeVaried
<1> QED
    BY <1>1, <1>3 DEF Se!Hosts

\* It holds at the start.
LEMMA SeInit == Se!Init => SeInv
BY SeHosts DEF Se!Init, Se!Starts, SeInv, Se!NoReply

\* Every step preserves it.
LEMMA SeNext == SeInv /\ Se!Next => SeInv'
<1> SUFFICES ASSUME SeInv, Se!Next PROVE SeInv'
    OBVIOUS
<1> USE DEF SeInv, Se!Others, Se!Answer, Se!GoTo
<1>1. CASE Se!Dispatch
    BY <1>1, SeFailure DEF Se!Dispatch
<1>2. CASE Se!Timeout
    BY <1>2, SeFailure DEF Se!Timeout
<1>3. CASE Se!collectAccounts
    BY <1>3, SeFailure DEF Se!collectAccounts, Se!Dependency
<1>4. CASE Se!readShadowMetadata
    BY <1>4 DEF Se!readShadowMetadata
<1>5. CASE Se!parsePasswd
    BY <1>5 DEF Se!parsePasswd
<1>6. CASE Se!readGroups
    BY <1>6 DEF Se!readGroups
<1>7. CASE Se!readSSHConfiguration
    BY <1>7 DEF Se!readSSHConfiguration
<1>8. CASE Se!collectSSH
    BY <1>8, SeFailure DEF Se!collectSSH, Se!Dependency
<1>9. CASE Se!nft
    BY <1>9 DEF Se!nft, Se!firewallProbe
<1>10. CASE Se!ufw
    BY <1>10, SeFailure DEF Se!ufw, Se!firewallProbe
<1>11. CASE Se!buildResult
    BY <1>11, SeBuilt DEF Se!buildResult
<1>12. CASE Se!Change
    BY <1>12 DEF Se!Change, Se!Changes, Se!Done
<1>13. CASE Se!Deadline
    BY <1>13 DEF Se!Deadline, Se!Done
<1> QED
    BY <1>1, <1>2, <1>3, <1>4, <1>5, <1>6, <1>7, <1>8, <1>9, <1>10, <1>11, <1>12, <1>13
       DEF Se!Next, Se!Step

\* It says that nothing is invented.
LEMMA SeSafe == SeInv => Se!NothingInvented
BY DEF SeInv, Se!NothingInvented

-----------------------------------------------------------------------------
(* All of them: what is invented. *)

CollectorsInv ==
    /\ Is("backup")        => BkInv
    /\ Is("docker")        => DInv
    /\ Is("file")          => FInv
    /\ Is("gitlab-runner") => GInv
    /\ Is("java")          => JInv
    /\ Is("kafka")         => KaInv
    /\ Is("kubernetes")    => KuInv
    /\ Is("monitoring")    => MInv
    /\ Is("network")       => NInv
    /\ Is("platform")      => PInv
    /\ Is("postgres")      => PgInv
    /\ Is("runbook")       => RInv
    /\ Is("security")      => SeInv

\* It holds when a plugin starts.
LEMMA CollectorsInit == Init => CollectorsInv
BY BkInit, DInit, FInit, GInit, JInit, KaInit, KuInit, MInit, NInit, PInit, PgInit, RInit, SeInit
   DEF Init, Is, CollectorsInv

\* A step of one plugin is a step of that plugin.
LEMMA CollectorsNext == CollectorsInv /\ Next => CollectorsInv'
<1> SUFFICES ASSUME CollectorsInv, Next PROVE CollectorsInv'
    OBVIOUS
<1>u. \A p : Is(p)' = Is(p)
    BY DEF Next, Is
<1>1. Is("backup") => BkInv'
    BY BkNext DEF CollectorsInv, Next, Is
<1>2. Is("docker") => DInv'
    BY DNext DEF CollectorsInv, Next, Is
<1>3. Is("file") => FInv'
    BY FNext DEF CollectorsInv, Next, Is
<1>4. Is("gitlab-runner") => GInv'
    BY GNext DEF CollectorsInv, Next, Is
<1>5. Is("java") => JInv'
    BY JNext DEF CollectorsInv, Next, Is
<1>6. Is("kafka") => KaInv'
    BY KaNext DEF CollectorsInv, Next, Is
<1>7. Is("kubernetes") => KuInv'
    BY KuNext DEF CollectorsInv, Next, Is
<1>8. Is("monitoring") => MInv'
    BY MNext DEF CollectorsInv, Next, Is
<1>9. Is("network") => NInv'
    BY NNext DEF CollectorsInv, Next, Is
<1>10. Is("platform") => PInv'
    BY PNext DEF CollectorsInv, Next, Is
<1>11. Is("postgres") => PgInv'
    BY PgNext DEF CollectorsInv, Next, Is
<1>12. Is("runbook") => RInv'
    BY RNext DEF CollectorsInv, Next, Is
<1>13. Is("security") => SeInv'
    BY SeNext DEF CollectorsInv, Next, Is
<1> QED
    BY <1>u, <1>1, <1>2, <1>3, <1>4, <1>5, <1>6, <1>7, <1>8, <1>9, <1>10, <1>11, <1>12, <1>13 DEF CollectorsInv, Is

\* What no step changes stays as it is.
LEMMA CollectorsStutters == CollectorsInv /\ UNCHANGED <<vars, plugin>> => CollectorsInv'
<1> SUFFICES ASSUME CollectorsInv, UNCHANGED <<vars, plugin>> PROVE CollectorsInv'
    OBVIOUS
<1>u. UNCHANGED <<cmd, ctx, host, hist, changes, pc, got, reply, plugin>>
    BY DEF vars
<1>1. BkInv' = BkInv
    BY <1>u DEF BkInv, BkInventory, BkRests
<1>2. DInv' = DInv
    BY <1>u DEF DInv, ClientCommands
<1>3. FInv' = FInv
    BY <1>u DEF FInv, Unmoved, F!Present, F!NothingInvented
<1>4. GInv' = GInv
    BY <1>u DEF GInv, GStatus, GFileInv, GConfig, G!Pid
<1>5. JInv' = JInv
    BY <1>u DEF JInv, OfOneProcess, J!Pid
<1>6. KaInv' = KaInv
    BY <1>u DEF KaInv, KaStatus, KaStorage
<1>7. KuInv' = KuInv
    BY <1>u DEF KuInv, KuStatus, KuManifests
<1>8. MInv' = MInv
    BY <1>u DEF MInv, M!Evidence
<1>9. NInv' = NInv
    BY <1>u DEF NInv, NSections, Justified, NProgram
<1>10. PInv' = PInv
    BY <1>u DEF PInv, P!isLink, P!IsRoot, P!NothingInvented, PNode, PLines, IsLine
<1>11. PgInv' = PgInv
    BY <1>u DEF PgInv, PgStatus
<1>12. RInv' = RInv
    BY <1>u DEF RInv, Sound
<1>13. SeInv' = SeInv
    BY <1>u DEF SeInv
<1> QED
    BY <1>u, <1>1, <1>2, <1>3, <1>4, <1>5, <1>6, <1>7, <1>8, <1>9, <1>10, <1>11, <1>12, <1>13 DEF CollectorsInv, Is

\* The invariants of all plugins hold throughout every run.
LEMMA CollectorsInvariant == Spec => []CollectorsInv
<1>1. Init => CollectorsInv
    BY CollectorsInit
<1>2. CollectorsInv /\ [Next]_<<vars, plugin>> => CollectorsInv'
    BY CollectorsNext, CollectorsStutters
<1> QED
    BY <1>1, <1>2, PTL DEF Spec

\* What a plugin reports - tools, containers, processes, sections, products,
\* runners, documents, accounts - was there at some time of its run, or it is a
\* tool of backup with an error that says its probe was not trusted.
THEOREM NothingIsInvented == Spec => []NothingInvented
<1>1. Spec => []CollectorsInv
    BY CollectorsInvariant
<1>2. CollectorsInv => NothingInvented
    BY BkSafe, DSafe, FSafe, GSafe, JSafe, KaSafe, KuSafe, MSafe, NSafe, PSafe, PgSafe, RSafe, SeSafe
       DEF CollectorsInv, NothingInvented, Is
<1> QED
    BY <1>1, <1>2, PTL

-----------------------------------------------------------------------------
(* Recursions that are functions. *)

\* f begins with v and takes n steps.
Solves(f, V, v, step, n) ==
    f \in [0..n -> V] /\ f[0] = v /\ \A i \in 1..n : f[i] = step[<<i, f[i - 1]>>]

\* A recursion whose step is a function has a solution, for any number of steps.
LEMMA Iterates ==
    ASSUME NEW V, NEW v \in V, NEW step \in [Nat \X V -> V]
    PROVE  \A n \in Nat : \E f : Solves(f, V, v, step, n)
<1> DEFINE T == {n \in Nat : \E f : Solves(f, V, v, step, n)}
<1>1. 0 \in T
  <2> DEFINE f == [i \in 0..0 |-> v]
  <2>1. Solves(f, V, v, step, 0)
    BY DEF Solves
  <2> QED
    BY <2>1
<1>2. \A n \in Nat : n \in T => n + 1 \in T
  <2> SUFFICES ASSUME NEW n \in Nat, NEW f, Solves(f, V, v, step, n) PROVE \E g : Solves(g, V, v, step, n + 1)
    OBVIOUS
  <2> DEFINE g == [i \in 0..(n + 1) |-> IF i <= n THEN f[i] ELSE step[<<n + 1, f[n]>>]]
  <2>0. f[n] \in V /\ step[<<n + 1, f[n]>>] \in V
    BY DEF Solves
  <2>1. g \in [0..(n + 1) -> V] /\ g[0] = v
    BY <2>0 DEF Solves
  <2>2. ASSUME NEW i \in 1..(n + 1) PROVE g[i] = step[<<i, g[i - 1]>>]
    <3>1. CASE i \in 1..n
      <4>1. i \in 0..(n + 1) /\ i - 1 \in 0..(n + 1) /\ i <= n /\ i - 1 <= n
        BY <3>1
      <4>2. g[i] = f[i] /\ g[i - 1] = f[i - 1]
        BY <4>1
      <4> QED
        BY <3>1, <4>2 DEF Solves
    <3>2. CASE i = n + 1
      <4>1. g[n + 1] = step[<<n + 1, f[n]>>] /\ g[n] = f[n] /\ (n + 1) - 1 = n
        OBVIOUS
      <4> QED
        BY <3>2, <4>1
    <3> QED
      BY <3>1, <3>2
  <2> HIDE DEF g
  <2> QED
    BY <2>1, <2>2 DEF Solves
<1> HIDE DEF T
<1>3. Nat \subseteq T
    BY <1>1, <1>2, Induct
<1> QED
    BY <1>3 DEF T

-----------------------------------------------------------------------------
(* Apt.  The sources that were collected show no password. *)

\* A failure answers with its code.
LEMMA AFailure == ASSUME NEW code PROVE A!Failure(code).exit = code
BY DEF A!Failure, A!NoReply

\* The answer that is built carries the data it is built from.
LEMMA ABuilt ==
    ASSUME NEW checks, NEW data, NEW errors
    PROVE  A!Built(checks, data, errors).data = data
BY DEF A!Built, A!Build, A!Result

\* What is collected went through the rules for addresses.
AMasked == cmd = "sources" =>
    /\ {"todo", "sources", "errors"} \subseteq DOMAIN got
    /\ "password" \notin got.sources
    /\ pc \in {"start", "classic", "directory", "files", "done"}
    /\ reply.exit = "ok" => "password" \notin reply.data

\* No address that went through them has a password.
LEMMA AParsed == ASSUME NEW file PROVE "password" \notin A!Parsed(file)
BY DEF A!Parsed, A!sanitizeURI

\* It holds at the start.
LEMMA AMaskedInit == A!Init => AMasked
<1> SUFFICES ASSUME A!Init, cmd = "sources" PROVE AMasked
    BY DEF AMasked
<1>1. reply = A!NoReply /\ pc = "start"
    BY DEF A!Init, A!Starts
<1>2. got = [todo |-> {}, sources |-> {}, errors |-> {}]
    BY DEF A!Init, A!Starts
<1> QED
    BY <1>1, <1>2 DEF A!NoReply, AMasked

\* Every step preserves it.
LEMMA AMaskedNext == AMasked /\ A!Next => AMasked'
<1> SUFFICES ASSUME AMasked, A!Next, cmd' = "sources" PROVE AMasked'
    BY DEF AMasked
<1> USE DEF A!Answer, A!GoTo, A!Others
<1>a. cmd = "sources"
    BY DEF A!Next, A!Step, A!Dispatch, A!collectStatus, A!countRegularFiles, A!collectUpdates, A!ReadClassic,
           A!regularFiles, A!ReadSource, A!Read, A!collectSources, A!collectHistory, A!Change, A!Changes, A!Deadline
<1>1. CASE A!Dispatch
    BY <1>a, <1>1, AFailure DEF A!Dispatch, AMasked
<1>2. CASE A!ReadClassic
    BY <1>a, <1>2, AParsed DEF A!ReadClassic, AMasked
<1>3. CASE A!regularFiles
    BY <1>a, <1>3 DEF A!regularFiles, AMasked
<1>4. CASE A!ReadSource
    BY <1>a, <1>4, AParsed DEF A!ReadSource, A!Read, AMasked
<1>5. CASE A!collectSources
    BY <1>a, <1>5, ABuilt DEF A!collectSources, AMasked
<1>6. CASE A!Change
    BY <1>a, <1>6 DEF A!Change, A!Changes, AMasked
<1>7. CASE A!Deadline
    BY <1>a, <1>7 DEF A!Deadline, AMasked
<1> QED
    BY <1>a, <1>1, <1>2, <1>3, <1>4, <1>5, <1>6, <1>7
       DEF A!Next, A!Step, AMasked, A!collectStatus, A!countRegularFiles, A!collectUpdates, A!collectHistory

\* It implies the promise.
LEMMA AMaskedSafe == AMasked => A!SecretsMasked
BY DEF AMasked, A!SecretsMasked

-----------------------------------------------------------------------------
(* Java.  The recursion that masks arguments has a solution, and what it makes of any arguments
    shows no value of an option called like a secret. *)

\* Arguments that show no value of an option called like a secret.
Masked(args) ==
    \A i \in DOMAIN args : /\ args[i] # "secret=value"
                           /\ i > 1 /\ args[i - 1] = "option secret" => args[i] = "masked"

\* Which arguments the next one is masked for: the recursion has a solution.
LEMMA JMasksNext ==
    ASSUME NEW args, NEW n \in Nat, Len(args) = n
    PROVE  LET m == J!masksNext(args) IN
             \A i \in 0..n : m[i] = (i > 0 /\ args[i] = "option secret" /\ ~ m[i - 1])
<1> DEFINE Solution(m) == m = [i \in 0..n |-> i > 0 /\ args[i] = "option secret" /\ ~ m[i - 1]]
           step == [p \in Nat \X {0, 1} |-> IF args[p[1]] = "option secret" /\ p[2] = 0 THEN 1 ELSE 0]
<1>s. step \in [Nat \X {0, 1} -> {0, 1}]
    OBVIOUS
<1>v. ASSUME NEW i \in Nat, NEW b \in {0, 1}
      PROVE  step[<<i, b>>] = IF args[i] = "option secret" /\ b = 0 THEN 1 ELSE 0
  <2>1. <<i, b>> \in Nat \X {0, 1}
    OBVIOUS
  <2> QED
    BY <2>1
<1> HIDE DEF step
<1>1. PICK g \in [0..n -> {0, 1}] : g[0] = 0 /\ \A i \in 1..n : g[i] = step[<<i, g[i - 1]>>]
  <2> DEFINE V == {0, 1}
  <2>1. 0 \in V /\ step \in [Nat \X V -> V]
    BY <1>s
  <2> HIDE DEF V
  <2>2. PICK h : Solves(h, V, 0, step, n)
    BY <2>1, Iterates
  <2> QED
    BY <2>2 DEF Solves, V
<1> DEFINE f == [i \in 0..n |-> g[i] = 1]
<1>2. \A i \in 1..n : f[i] = (args[i] = "option secret" /\ ~ f[i - 1])
  <2> SUFFICES ASSUME NEW i \in 1..n PROVE f[i] = (args[i] = "option secret" /\ ~ f[i - 1])
    OBVIOUS
  <2>1. i \in Nat /\ i \in 0..n /\ i - 1 \in 0..n
    OBVIOUS
  <2>2. g[i - 1] \in {0, 1}
    BY <2>1
  <2>3. f[i] = (g[i] = 1) /\ f[i - 1] = (g[i - 1] = 1)
    BY <2>1
  <2>4. g[i] = IF args[i] = "option secret" /\ g[i - 1] = 0 THEN 1 ELSE 0
    BY <1>1, <1>v, <2>1, <2>2
  <2>5. (g[i] = 1) = (args[i] = "option secret" /\ g[i - 1] = 0)
    <3>1. CASE args[i] = "option secret" /\ g[i - 1] = 0
      BY <2>4, <3>1
    <3>2. CASE ~ (args[i] = "option secret" /\ g[i - 1] = 0)
      <4>0. g[i] = 0
        BY <2>4, <3>2, Zenon
      <4>1. g[i] # 1
        BY <4>0
      <4> QED
        BY <3>2, <4>1, Zenon
    <3> QED
      BY <3>1, <3>2
  <2>6. (g[i - 1] = 0) = ~ (g[i - 1] = 1)
    BY <2>2
  <2> HIDE DEF f
  <2> QED
    BY <2>3, <2>5, <2>6, Zenon
<1>f. f[0] = FALSE /\ f = [i \in 0..n |-> f[i]]
  <2>1. 0 \in 0..n /\ ~ (g[0] = 1)
    BY <1>1
  <2> QED
    BY <2>1
<1> HIDE DEF f
<1>3. \A i \in 0..n : f[i] = (i > 0 /\ args[i] = "option secret" /\ ~ f[i - 1])
  <2> SUFFICES ASSUME NEW i \in 0..n PROVE f[i] = (i > 0 /\ args[i] = "option secret" /\ ~ f[i - 1])
    OBVIOUS
  <2>1. CASE i = 0
    <3>1. ~ (i > 0) /\ f[i] = FALSE
      BY <1>f, <2>1
    <3> QED
      BY <3>1
  <2>2. CASE i # 0
    <3>1. i > 0 /\ i \in 1..n
      BY <2>2
    <3> QED
      BY <1>2, <3>1
  <2> QED
    BY <2>1, <2>2
<1>4. Solution(f)
    BY <1>3, <1>f
<1>6. J!masksNext(args) = CHOOSE m : Solution(m)
    BY DEF J!masksNext
<1> HIDE DEF Solution
<1>5. Solution(CHOOSE m : Solution(m))
    BY <1>4
<1>7. Solution(J!masksNext(args))
    BY <1>5, <1>6
<1> DEFINE m == J!masksNext(args)
<1> HIDE DEF m
<1>8. m = [i \in 0..n |-> i > 0 /\ args[i] = "option secret" /\ ~ m[i - 1]]
    BY <1>7 DEF m, Solution
<1>9. \A i \in 0..n : m[i] = (i > 0 /\ args[i] = "option secret" /\ ~ m[i - 1])
    BY <1>8
<1> QED
    BY <1>9 DEF m

\* What went through the rule shows nothing, whatever the arguments.
LEMMA JRedacts ==
    ASSUME NEW args, NEW n \in Nat, Len(args) = n, DOMAIN args = 1..n
    PROVE  Masked(J!redactJavaArguments(args))
<1> DEFINE m == J!masksNext(args)
           out == J!redactJavaArguments(args)
<1>1. \A i \in 0..n : m[i] = (i > 0 /\ args[i] = "option secret" /\ ~ m[i - 1])
    BY JMasksNext
<1>2. DOMAIN out = 1..n
      /\ \A i \in 1..n : out[i] = IF m[i - 1] \/ args[i] = "secret=value" THEN "masked" ELSE args[i]
    BY DEF J!redactJavaArguments
<1> HIDE DEF m, out
<1>3. ASSUME NEW i \in 1..n PROVE out[i] # "secret=value"
    BY <1>2
<1>4. ASSUME NEW i \in 1..n, i > 1 PROVE out[i - 1] = "option secret" => out[i] = "masked"
  <2>1. i - 1 \in 1..n /\ i - 1 \in 0..n /\ i - 1 > 0
    BY <1>4
  <2>2. out[i - 1] = "option secret" => ~ m[(i - 1) - 1] /\ args[i - 1] = "option secret"
    BY <1>2, <2>1
  <2>3. ~ m[(i - 1) - 1] /\ args[i - 1] = "option secret" => m[i - 1]
    BY <1>1, <2>1
  <2> QED
    BY <1>2, <2>2, <2>3
<1>5. Masked(out)
    BY <1>2, <1>3, <1>4 DEF Masked
<1> QED
    BY <1>5 DEF out

\* The arguments of a process are a sequence.
LEMMA JArguments ==
    ASSUME NEW p \in J!Processes
    PROVE  \E n \in Nat : Len(J!argv(p)) = n /\ DOMAIN J!argv(p) = 1..n
<1>1. CASE p = "jvm"
  <2>1. J!argv(p) = <<"java", "option secret", "value">>
    BY <1>1 DEF J!argv
  <2>2. Len(<<"java", "option secret", "value">>) = 3
        /\ DOMAIN <<"java", "option secret", "value">> = 1..3
    OBVIOUS
  <2> QED
    BY <2>1, <2>2
<1>2. CASE p = "renamed"
  <2>1. J!argv(p) = <<"java", "value">>
    BY <1>2 DEF J!argv
  <2> QED
    BY <2>1
<1>3. CASE p = "shell"
  <2>1. J!argv(p) = <<"sh", "secret=value">>
    BY <1>3 DEF J!argv
  <2> QED
    BY <2>1
<1>4. CASE p = "locked"
  <2>1. J!argv(p) = <<"java">>
    BY <1>4 DEF J!argv
  <2> QED
    BY <2>1
<1> QED
    BY <1>1, <1>2, <1>3, <1>4 DEF J!Processes

\* What is listed shows no secret.
JMasked == \A r \in got.found : Masked(r.args)

\* It holds at the start.
LEMMA JMaskedInit == J!Init => JMasked
<1> SUFFICES ASSUME J!Init PROVE JMasked
    OBVIOUS
<1>1. got = J!NothingRead
    BY DEF J!Init, J!Starts
<1> QED
    BY <1>1 DEF JMasked, J!NothingRead

\* Every step preserves it.
LEMMA JMaskedNext == JInv /\ JMasked /\ J!Next => JMasked'
<1> SUFFICES ASSUME JInv, JMasked, J!Next PROVE JMasked'
    OBVIOUS
<1> USE DEF J!Others, J!Answer, J!GoTo
<1>1. CASE J!readProcess
  <2> DEFINE now == host.at[J!Pid]
             args == IF now = J!Nobody THEN <<>> ELSE J!argv(now)
             new == [pid |-> J!Pid, args |-> J!redactJavaArguments(args)]
  <2>1. J!Pid \in Pids
    BY <1>1, JPid, PidsAssumption DEF J!readProcess, JInv
  <2>2. got'.found = got.found \/ got'.found = got.found \cup {new}
    BY <1>1 DEF J!readProcess, JInv
  <2>3. \E n \in Nat : Len(args) = n /\ DOMAIN args = 1..n
    <3>1. now = J!Nobody \/ now \in J!Processes
      BY <2>1 DEF JInv
    <3>2. CASE now = J!Nobody
      <4>1. Len(<<>>) = 0 /\ DOMAIN <<>> = 1..0
        OBVIOUS
      <4> QED
        BY <3>2, <4>1
    <3>3. CASE now # J!Nobody
      BY <3>1, <3>3, JArguments
    <3> QED
      BY <3>2, <3>3
  <2> HIDE DEF args
  <2>4. Masked(new.args)
    BY <2>3, JRedacts
  <2> HIDE DEF new
  <2> QED
    BY <2>2, <2>4 DEF JMasked
<1>2. CASE J!enumeratePIDs
  <2>1. got'.found = got.found
    BY <1>2 DEF J!enumeratePIDs, JInv
  <2> QED
    BY <2>1 DEF JMasked
<1>3. CASE J!ReadComm
    BY <1>3 DEF J!ReadComm, JInv, JMasked
<1>4. CASE J!runJcmd
    BY <1>4 DEF J!runJcmd, JInv, JMasked
<1>5. CASE UNCHANGED got
    BY <1>5 DEF JMasked
<1> QED
    BY <1>1, <1>2, <1>3, <1>4, <1>5
       DEF J!Next, J!Step, J!Dispatch, J!EnumerationFails, J!ListProcesses, J!collectRuntime, J!runJcmdFails,
           J!ParseInspection, J!Change, J!Changes, J!Deadline

\* It implies the promise.
LEMMA JMaskedSafe == JInv /\ JMasked => J!SecretsMasked
BY DEF JInv, JMasked, Masked, J!SecretsMasked

-----------------------------------------------------------------------------
(* Postgres.  What is kept of the lines of the files may be shown. *)

\* Settings that may be shown.
Shown(settings) == \A s \in settings : s.key = "public" /\ s.value # "uri"

\* The files of the host are made of lines; what is kept of them may be shown.
PgConfig ==
    /\ "files" \in DOMAIN host /\ DOMAIN host.files = 1..2
    /\ \A i \in 1..2 : host.files[i] \in Pg!Files
    /\ {"todo", "present", "shown"} \subseteq DOMAIN got
    /\ got.todo \in Seq(1..2)
    /\ pc = "read" => got.todo # <<>>
    /\ Shown(got.shown)
    /\ pc \in {"start", "tree", "exists", "read", "done"}
    /\ reply.exit = "ok" => Shown(reply.data)

\* The invariant is about the command that shows settings.
PgMasked == cmd = "config" => PgConfig

\* Nothing else is kept of lines.
LEMMA PgSettings == ASSUME NEW lines \in SUBSET Pg!Line PROVE Shown(Pg!Settings(lines))
BY DEF Pg!Line, Pg!Settings, Shown

\* A file has lines.
LEMMA PgFiles == \A f \in Pg!Files : f.lines \in SUBSET Pg!Line
BY DEF Pg!Files, Pg!File, Pg!Absent, Pg!Line

\* It holds at the start.
LEMMA PgMaskedInit == Pg!Init => PgMasked
<1> SUFFICES ASSUME Pg!Init, cmd = "config" PROVE PgConfig
    BY DEF PgMasked
<1>1. /\ host \in {[tree |-> t, files |-> f] : t \in Pg!Trees \ {"read"}, f \in {<<Pg!Absent, Pg!Absent>>}}
              \cup {[tree |-> "read", files |-> <<h, c>>] :
                       h \in {Pg!Absent, Pg!File("link", {}), Pg!File("regular", {})}, c \in Pg!Files}
      /\ got = [todo |-> <<1, 2>>, present |-> FALSE, shown |-> {}]
      /\ pc = "start" /\ reply = Pg!NoReply
    BY DEF Pg!Init, Pg!Starts
<1>2. Pg!Absent \in Pg!Files /\ Pg!File("link", {}) \in Pg!Files /\ Pg!File("regular", {}) \in Pg!Files
    BY DEF Pg!Files
<1>3. "files" \in DOMAIN host /\ \E a \in Pg!Files, b \in Pg!Files : host.files = <<a, b>>
    BY <1>1, <1>2
<1> QED
    BY <1>1, <1>3 DEF PgConfig, Pg!NoReply, Shown

\* Every step preserves it.
LEMMA PgMaskedNext == PgMasked /\ Pg!Next => PgMasked'
<1> SUFFICES ASSUME PgMasked, Pg!Next, cmd' = "config" PROVE PgConfig'
    BY DEF PgMasked
<1> USE DEF Pg!Others, Pg!Answer, Pg!GoTo, Pg!Timeout, Pg!Dependency
<1>a. cmd = "config" /\ PgConfig
    BY DEF PgMasked, Pg!Next, Pg!Step, Pg!Dispatch, Pg!executeClusters, Pg!StatusClusters, Pg!collectSystemdState,
           Pg!collectPackages, Pg!collectProcesses, Pg!executeStatus, Pg!boundedDirectories, Pg!FileExists,
           Pg!ReadFile, Pg!executeConfig, Pg!Change, Pg!Changes, Pg!Deadline
<1>1. CASE Pg!Dispatch
    BY <1>a, <1>1, PgFailure DEF Pg!Dispatch, PgConfig
<1>2. CASE Pg!boundedDirectories
    BY <1>a, <1>2, PgFailure DEF Pg!boundedDirectories, PgConfig
<1>3. CASE Pg!FileExists
  <2>1. pc = "exists" /\ got.todo # <<>> /\ UNCHANGED host
    BY <1>3 DEF Pg!FileExists
  <2>2. \/ pc' = "done" /\ (\E code : code # "ok" /\ reply' = Pg!Failure(code)) /\ UNCHANGED got
        \/ pc' = "exists" /\ UNCHANGED reply /\ got' = [got EXCEPT !.todo = Tail(@)]
        \/ pc' = "read" /\ UNCHANGED <<reply, got>>
    BY <1>3 DEF Pg!FileExists
  <2>3. CASE UNCHANGED got
    BY <1>a, <2>1, <2>2, <2>3, PgFailure DEF PgConfig
  <2>4. CASE pc' = "exists" /\ UNCHANGED reply /\ got' = [got EXCEPT !.todo = Tail(@)]
    BY <1>a, <2>1, <2>4 DEF PgConfig
  <2> QED
    BY <2>2, <2>3, <2>4
<1>4. CASE Pg!ReadFile
  <2> DEFINE i == Head(got.todo)
             file == host.files[i]
  <2>1. CASE file.state # "regular"
    BY <1>a, <1>4, <2>1, PgFailure DEF Pg!ReadFile, PgConfig
  <2>2. CASE file.state = "regular"
    <3>1. got' = [todo |-> Tail(got.todo), present |-> TRUE,
                  shown |-> got.shown \cup (IF Pg!Names[i] = "postgresql.conf" THEN Pg!Settings(file.lines) ELSE {})]
      BY <1>4, <2>2 DEF Pg!ReadFile
    <3>2. Pg!Names[i] = "postgresql.conf" => i \in 1..2
      BY <1>a, <1>4 DEF Pg!ReadFile, PgConfig
    <3>3. Pg!Names[i] = "postgresql.conf" => Shown(Pg!Settings(file.lines))
      BY <1>a, <3>2, PgSettings, PgFiles DEF PgConfig
    <3>4. Shown(got'.shown)
      BY <1>a, <3>1, <3>3 DEF PgConfig, Shown
    <3> QED
      BY <1>a, <1>4, <2>2, <3>1, <3>4 DEF Pg!ReadFile, PgConfig
  <2> QED
    BY <2>1, <2>2
<1>5. CASE Pg!executeConfig
  <2>1. \/ reply' = Pg!Built({Pg!Chk("config", "pass")}, got.shown, {})
        \/ reply' = Pg!Failure("dependency")
    BY <1>5 DEF Pg!executeConfig
  <2>2. reply'.exit = "ok" => reply'.data = got.shown
    BY <2>1, PgFailure, PgBuilt
  <2> QED
    BY <1>a, <1>5, <2>2 DEF Pg!executeConfig, PgConfig
<1>6. CASE Pg!Change
  <2>1. PICK i \in 1..2, f \in {Pg!Absent, Pg!File("regular", Pg!Line), Pg!File("link", {})} :
          Pg!Changes([host EXCEPT !.files[i] = f], [moved |-> TRUE])
    BY <1>a, <1>6 DEF Pg!Change
  <2>2. f \in Pg!Files
    BY DEF Pg!Files
  <2> QED
    BY <1>a, <2>1, <2>2 DEF Pg!Changes, PgConfig
<1>7. CASE Pg!Deadline
    BY <1>a, <1>7 DEF Pg!Deadline, PgConfig
<1> QED
    BY <1>a, <1>1, <1>2, <1>3, <1>4, <1>5, <1>6, <1>7
       DEF Pg!Next, Pg!Step, Pg!executeClusters, Pg!StatusClusters, Pg!collectSystemdState, Pg!collectPackages,
           Pg!collectProcesses, Pg!executeStatus, PgConfig

\* It implies the promise.
LEMMA PgMaskedSafe == PgMasked => Pg!SecretsMasked
BY DEF PgMasked, PgConfig, Shown, Pg!SecretsMasked

-----------------------------------------------------------------------------
(* Services.  What is published of the journal went through the patterns. *)

\* A failure shows nothing.
LEMMA SvFailure == ASSUME NEW code PROVE Sv!Failure(code).exit = code
BY DEF Sv!Failure, Sv!NoReply

\* What is published went through the patterns.
SvMasked == reply.exit = "ok" => "secret" \notin Sv!Range(reply.data)

\* No line that went through them is a secret.
LEMMA SvFinished == ASSUME NEW how PROVE "secret" \notin Sv!Range(Sv!Finished(how).data)
<1>1. "secret" \notin Sv!Range(Sv!Redacted(host.lines))
    BY DEF Sv!Range, Sv!Redacted
<1>2. "secret" \notin Sv!Range(<<>>)
    BY DEF Sv!Range
<1>3. \/ Sv!Finished(how).data = Sv!Redacted(host.lines)
      \/ Sv!Finished(how).data = <<>>
    BY DEF Sv!Finished, Sv!failure, Sv!Result
<1> QED
    BY <1>1, <1>2, <1>3

\* It holds at the start.
LEMMA SvMaskedInit == Sv!Init => SvMasked
BY DEF Sv!Init, Sv!Starts, Sv!NoReply, SvMasked

\* Every step preserves it.
LEMMA SvMaskedNext == SvMasked /\ Sv!Next => SvMasked'
<1> SUFFICES ASSUME SvMasked, Sv!Next PROVE SvMasked'
    OBVIOUS
<1> USE DEF Sv!Answer, Sv!GoTo, Sv!Others
<1>1. CASE Sv!managerFor
    BY <1>1, SvFailure DEF Sv!managerFor, SvMasked
<1>2. CASE Sv!Validate
    BY <1>2, SvFailure DEF Sv!Validate, SvMasked
<1>3. CASE Sv!Status \/ Sv!Logs
    BY <1>3, SvFinished DEF Sv!Status, Sv!Logs, SvMasked
<1>4. CASE Sv!Deadline
    BY <1>4 DEF Sv!Deadline, SvMasked
<1> QED
    BY <1>1, <1>2, <1>3, <1>4 DEF Sv!Next, Sv!Step

\* It is the promise.
LEMMA SvMaskedSafe == SvMasked => Sv!SecretsMasked
BY DEF SvMasked, Sv!SecretsMasked

-----------------------------------------------------------------------------
(* Baseline.  If the check of the account files is wanted and they are unsafe, it is still to be
    made or was critical. *)

\* A failure answers with its code.
LEMMA BlFailure == ASSUME NEW code PROVE Bl!Failure(code).exit = code
BY DEF Bl!Failure, Bl!NoReply

\* The answer that is built carries what it is built from.
LEMMA BlReply ==
    ASSUME NEW checks, NEW data, NEW errors
    PROVE  LET r == Bl!Built(checks, data, errors) IN
             r.checks = checks /\ r.errors = errors /\ r.status = Bl!classify(checks, errors)
BY DEF Bl!Built, Bl!Build, Bl!Result

\* The check of the account files is critical.
Unsafe == Bl!Chk("filesystem-ownership", "critical")

\* If it is wanted and the files are unsafe, it is still to be made or was critical.
BlPending ==
    Bl!Wanted("filesystem-ownership") /\ host.passwd = "unsafe" =>
        3 \in got.todo \/ Unsafe \in got.checks

\* Checks are pending from the start to the result.
BlWorst == cmd = "check" =>
    /\ {"todo", "checks", "errors", "service"} \subseteq DOMAIN got
    /\ got.todo \subseteq 1..7
    /\ pc \in {"start", "platform", "checks", "done"}
    /\ pc \in {"platform", "checks"} => BlPending
    /\ reply.exit = "ok" => pc = "done"
    /\ Bl!StatusIsWorst

\* The checks are compiled in; the third is that of the account files.
LEMMA BlCompiled ==
    /\ DOMAIN Bl!compiledCheckIDs = 1..7
    /\ \A n \in 1..7 : Bl!compiledCheckIDs[n] = "filesystem-ownership" <=> n = 3
    /\ "filesystem-ownership" \in Bl!Compiled
<1>1. DOMAIN Bl!compiledCheckIDs = 1..7 /\ Bl!compiledCheckIDs[3] = "filesystem-ownership"
    BY DEF Bl!compiledCheckIDs
<1>2. /\ Bl!compiledCheckIDs[1] = "supported-os" /\ Bl!compiledCheckIDs[2] = "time-sync"
      /\ Bl!compiledCheckIDs[4] = "kernel-controls" /\ Bl!compiledCheckIDs[5] = "ssh-posture"
      /\ Bl!compiledCheckIDs[6] = "package-state" /\ Bl!compiledCheckIDs[7] = "required-services"
    BY DEF Bl!compiledCheckIDs
<1>3. ASSUME NEW n \in 1..7 PROVE Bl!compiledCheckIDs[n] = "filesystem-ownership" <=> n = 3
  <2>1. n = 1 \/ n = 2 \/ n = 3 \/ n = 4 \/ n = 5 \/ n = 6 \/ n = 7
    OBVIOUS
  <2> QED
    BY <1>1, <1>2, <2>1
<1>4. "filesystem-ownership" \in Bl!Compiled
    BY <1>1 DEF Bl!Compiled, Bl!Range
<1> QED
    BY <1>1, <1>3, <1>4

\* Only checks that are compiled in are selected.
LEMMA BlSelectable == ASSUME NEW s PROVE Bl!selectedChecks(s) \subseteq 1..7
<1>1. Bl!selectedChecks(s) \subseteq DOMAIN Bl!compiledCheckIDs
    BY Zenon DEF Bl!selectedChecks
<1> QED
    BY <1>1, BlCompiled

\* The checks that are selected contain it if it is wanted.
LEMMA BlSelected ==
    ASSUME Bl!selectedChecks(host.config) # {}, Bl!Wanted("filesystem-ownership")
    PROVE  3 \in Bl!selectedChecks(host.config)
<1> DEFINE s == host.config
           candidates == IF s.enabled = <<>> THEN Bl!Compiled ELSE Bl!Range(s.enabled)
           wanted == {n \in DOMAIN Bl!compiledCheckIDs : Bl!compiledCheckIDs[n] \in candidates \ Bl!Range(s.disabled)}
<1>1. Bl!selectedChecks(s) = {} \/ Bl!selectedChecks(s) = wanted
    BY Zenon DEF Bl!selectedChecks
<1>2. "filesystem-ownership" \in candidates \ Bl!Range(s.disabled)
    BY BlCompiled DEF Bl!Wanted
<1> HIDE DEF candidates, s
<1>3. 3 \in DOMAIN Bl!compiledCheckIDs /\ Bl!compiledCheckIDs[3] = "filesystem-ownership"
    BY BlCompiled
<1>4. 3 \in Bl!selectedChecks(s)
  <2>1. Bl!selectedChecks(s) # {}
    BY DEF s
  <2> QED
    BY <1>1, <1>2, <1>3, <2>1
<1> QED
    BY <1>4 DEF s

\* It holds at the start.
LEMMA BlWorstInit == Bl!Init => BlWorst
<1> SUFFICES ASSUME Bl!Init PROVE BlWorst
    OBVIOUS
<1>1. /\ got = [todo |-> {}, service |-> "ssh", checks |-> {}, errors |-> {}]
      /\ pc = "start" /\ reply = Bl!NoReply
    BY DEF Bl!Init, Bl!Starts
<1> QED
    BY <1>1 DEF BlWorst, Bl!NoReply, Bl!StatusIsWorst

\* A check that ends keeps it, if that of the account files is critical when they are unsafe.
LEMMA BlEnded ==
    ASSUME BlWorst, cmd = "check", NEW id, Bl!Now(id), NEW status, NEW errors, Bl!Ended(status, errors),
           id = "filesystem-ownership" /\ host.passwd = "unsafe" => status = "critical"
    PROVE  BlWorst'
<1> DEFINE n == Bl!Min(got.todo)
<1>1. n \in got.todo /\ n \in 1..7
    BY Least DEF Bl!Min, Bl!Now, BlWorst
<1>2. id = Bl!compiledCheckIDs[n] /\ id = Bl!Current /\ pc = "checks"
    BY DEF Bl!Now, Bl!Current
<1>3. /\ got'.todo = got.todo \ {n} /\ got'.checks = got.checks \cup {Bl!Chk(id, status)}
      /\ DOMAIN got' = DOMAIN got /\ pc' = "checks" /\ UNCHANGED <<reply, host, cmd>>
    BY <1>2 DEF Bl!Ended, Bl!GoTo, Bl!Others, BlWorst
<1>4. n = 3 => id = "filesystem-ownership"
    BY <1>1, <1>2, BlCompiled
<1> HIDE DEF n
<1>5. BlPending'
  <2>1. Bl!Wanted("filesystem-ownership")' = Bl!Wanted("filesystem-ownership")
    BY <1>3 DEF Bl!Wanted
  <2>2. CASE n = 3 /\ host.passwd = "unsafe"
    BY <1>3, <1>4, <2>2 DEF BlPending, Unsafe
  <2>3. CASE ~ (n = 3 /\ host.passwd = "unsafe")
    BY <1>2, <1>3, <2>1, <2>3 DEF BlPending, BlWorst
  <2> QED
    BY <2>2, <2>3
<1>6. reply.exit # "ok"
    BY <1>2 DEF BlWorst
<1> QED
    BY <1>3, <1>5, <1>6 DEF BlWorst, Bl!StatusIsWorst

\* Every step preserves it.
LEMMA BlWorstNext == BlWorst /\ Bl!Next => BlWorst'
<1> SUFFICES ASSUME BlWorst, Bl!Next, cmd' = "check" PROVE BlWorst'
    BY DEF BlWorst
<1> USE DEF Bl!Others, Bl!Answer, Bl!GoTo
<1>a. cmd = "check"
    BY DEF Bl!Next, Bl!Step, Bl!Configure, Bl!Detect, Bl!supportedOSCheck, Bl!timeSyncCheck,
           Bl!filesystemOwnershipCheck, Bl!kernelControlsCheck, Bl!sshPostureCheck, Bl!packageStateCheck,
           Bl!requiredServicesCheck, Bl!baselineResult, Bl!Expire, Bl!Ended, Bl!TimedOut,
           Bl!unavailableCheck, Bl!localInspectionError
<1>b. CASE /\ reply'.exit # "ok" /\ pc' = "done" /\ UNCHANGED got
    BY <1>a, <1>b DEF BlWorst, Bl!StatusIsWorst
<1>t. Bl!TimedOut => reply'.exit # "ok" /\ pc' = "done" /\ UNCHANGED got
    BY BlFailure DEF Bl!TimedOut
<1>1. CASE Bl!Configure
  <2>1. CASE Bl!Answer(Bl!Failure("arguments")) \/ Bl!Answer(Bl!Failure("configuration"))
    BY <1>b, <1>1, <2>1, BlFailure DEF Bl!Configure
  <2>2. CASE /\ Bl!selectedChecks(host.config) # {} /\ got' = [got EXCEPT !.todo = Bl!selectedChecks(host.config)]
             /\ pc' = "platform" /\ UNCHANGED reply
    <3>1. Bl!selectedChecks(host.config) \subseteq 1..7
      BY BlSelectable
    <3>2. UNCHANGED host /\ pc = "start"
      BY <1>1 DEF Bl!Configure
    <3>3. BlPending'
      <4>1. Bl!Wanted("filesystem-ownership")' => Bl!Wanted("filesystem-ownership")
        BY <3>2 DEF Bl!Wanted
      <4> QED
        BY <1>a, <2>2, <4>1, BlSelected DEF BlPending, BlWorst
    <3>4. reply'.exit # "ok"
      BY <1>a, <2>2, <3>2 DEF BlWorst
    <3> QED
      BY <1>a, <2>2, <3>1, <3>3, <3>4 DEF BlWorst, Bl!StatusIsWorst
  <2> QED
    BY <1>1, <2>1, <2>2 DEF Bl!Configure
<1>2. CASE Bl!Detect
  <2>1. pc = "platform" /\ UNCHANGED <<got, host>>
    BY <1>2 DEF Bl!Detect
  <2>2. CASE reply' = Bl!Failure("dependency") /\ pc' = "done"
    BY <1>b, <2>1, <2>2, BlFailure
  <2>3. CASE pc' = "checks" /\ UNCHANGED reply
    <3>1. BlPending'
      BY <1>a, <2>1 DEF BlWorst, BlPending, Bl!Wanted
    <3> QED
      BY <1>a, <2>1, <2>3, <3>1 DEF BlWorst, Bl!StatusIsWorst
  <2> QED
    BY <1>a, <1>2, <2>2, <2>3 DEF Bl!Detect
<1>3. CASE Bl!supportedOSCheck
    BY <1>a, <1>3, BlEnded DEF Bl!supportedOSCheck
<1>4. CASE Bl!timeSyncCheck
    BY <1>a, <1>b, <1>t, <1>4, BlEnded DEF Bl!timeSyncCheck, Bl!unavailableCheck
<1>5. CASE Bl!filesystemOwnershipCheck
    BY <1>a, <1>5, BlEnded DEF Bl!filesystemOwnershipCheck, Bl!localInspectionError
<1>6. CASE Bl!kernelControlsCheck
    BY <1>a, <1>6, BlEnded DEF Bl!kernelControlsCheck
<1>7. CASE Bl!sshPostureCheck
    BY <1>a, <1>b, <1>t, <1>7, BlEnded DEF Bl!sshPostureCheck, Bl!unavailableCheck
<1>8. CASE Bl!packageStateCheck
    BY <1>a, <1>8, BlEnded DEF Bl!packageStateCheck, Bl!localInspectionError
<1>9. CASE Bl!requiredServicesCheck
  <2>1. CASE got' = [got EXCEPT !.service = "cron"] /\ pc' = "checks" /\ UNCHANGED <<reply, host>>
    <3>1. pc = "checks"
      BY <1>9 DEF Bl!requiredServicesCheck, Bl!Now
    <3>2. got'.todo = got.todo /\ got'.checks = got.checks /\ DOMAIN got' = DOMAIN got
      BY <1>a, <2>1 DEF BlWorst
    <3>3. BlPending'
      BY <1>a, <2>1, <3>1, <3>2 DEF BlWorst, BlPending, Bl!Wanted
    <3> QED
      BY <1>a, <2>1, <3>1, <3>2, <3>3 DEF BlWorst, Bl!StatusIsWorst
  <2>2. CASE Bl!TimedOut
    BY <1>b, <1>t, <2>2
  <2>3. CASE \E s, e : Bl!Now("required-services") /\ Bl!Ended(s, e)
    BY <1>a, <2>3, BlEnded
  <2> QED
    BY <1>9, <2>1, <2>2, <2>3 DEF Bl!requiredServicesCheck, Bl!unavailableCheck
<1>10. CASE Bl!baselineResult
  <2>1. /\ reply' = Bl!Built(got.checks, got, got.errors) /\ pc' = "done" /\ pc = "checks" /\ got.todo = {}
        /\ UNCHANGED <<got, host>>
    BY <1>10 DEF Bl!baselineResult
  <2>2. reply'.checks = got.checks /\ reply'.status = Bl!classify(got.checks, got.errors)
    BY <2>1, BlReply
  <2>3. BlPending
    BY <1>a, <2>1 DEF BlWorst
  <2>4. Bl!Wanted("filesystem-ownership") /\ host.passwd = "unsafe" => \E c \in got.checks : c.status = "critical"
    BY <2>1, <2>3 DEF BlPending, Unsafe, Bl!Chk
  <2>5. /\ (\E c \in got.checks : c.status = "critical") => reply'.status = "critical"
        /\ reply'.status = "partial" => \A c \in got.checks : c.status \notin {"critical", "warning"}
    BY <2>2 DEF Bl!classify
  <2>6. Bl!StatusIsWorst'
    BY <2>1, <2>2, <2>4, <2>5 DEF Bl!StatusIsWorst, Bl!Wanted
  <2> QED
    BY <1>a, <2>1, <2>6 DEF BlWorst
<1>11. CASE Bl!Expire
  <2>1. UNCHANGED <<host, pc, got, reply>>
    BY <1>11 DEF Bl!Expire
  <2> QED
    BY <1>a, <2>1 DEF BlWorst, BlPending, Bl!StatusIsWorst, Bl!Wanted
<1> QED
    BY <1>1, <1>2, <1>3, <1>4, <1>5, <1>6, <1>7, <1>8, <1>9, <1>10, <1>11 DEF Bl!Next, Bl!Step

\* It implies the promise.
LEMMA BlWorstSafe == BlWorst => Bl!StatusIsWorst
BY DEF BlWorst, Bl!StatusIsWorst

-----------------------------------------------------------------------------
(* Kubernetes.  The checks are of the client until the report adds that of the kubelet. *)

\* The answer that is built carries what it is built from.
LEMMA KuReply ==
    ASSUME NEW checks, NEW data, NEW errors
    PROVE  LET r == Ku!Built(checks, data, errors) IN r.checks = checks /\ r.errors = errors
BY DEF Ku!Built, Ku!Build, Ku!Result

\* `status`: a check of the client, and errors of the three sources.
KuWorst == cmd = "status" =>
    /\ {"checks", "errors", "todo", "found", "unit"} \subseteq DOMAIN got
    /\ \A c \in got.checks : c.id = "client"
    /\ \A e \in got.errors : e.code \in {"client", "unit", "processes"}
    /\ Ku!StatusIsWorst

\* It holds at the start.
LEMMA KuWorstInit == Ku!Init => KuWorst
<1> SUFFICES ASSUME Ku!Init, cmd = "status" PROVE KuWorst
    BY DEF KuWorst
<1>1. got = [todo |-> {}, found |-> {}, unit |-> FALSE, checks |-> {}, errors |-> {}] /\ reply = Ku!NoReply
    BY DEF Ku!Init, Ku!Starts
<1> QED
    BY <1>1 DEF KuWorst, Ku!NoReply, Ku!StatusIsWorst

\* The check of the kubelet passes if both its sources were read.
LEMMA KuKubelet ==
    ASSUME NEW checks, NEW errors, \A c \in checks : c.id = "client",
           \A e \in errors : e.code \in {"client", "unit", "processes"}
    PROVE  Ku!Chk("kubelet", "pass") \in checks \cup {Ku!KubeletCheck(errors)}
             <=> \A e \in errors : e.code = "client"
<1>1. Ku!Chk("kubelet", "pass") \notin checks
    BY DEF Ku!Chk
<1>2. Ku!Chk("kubelet", "pass") # Ku!Chk("kubelet", "partial")
    BY DEF Ku!Chk
<1>3. Ku!Chk("kubelet", "pass") = Ku!KubeletCheck(errors) <=> ~ \E e \in errors : e.code \in {"unit", "processes"}
    BY <1>2 DEF Ku!KubeletCheck
<1> QED
    BY <1>1, <1>3

\* Every step preserves it.
LEMMA KuWorstNext == KuInv /\ KuWorst /\ Ku!Next => KuWorst'
<1> SUFFICES ASSUME KuStatus, KuWorst, Ku!Next, cmd = "status" PROVE KuWorst'
  <2>1. Ku!Next => UNCHANGED cmd
    BY DEF Ku!Next, Ku!Step, Ku!Timeout, Ku!ReadKubeconfig, Ku!ReportContexts, Ku!collectClientVersion,
           Ku!collectKubeletUnit, Ku!ReadProc, Ku!ReadComm, Ku!ReportStatus, Ku!confinedDirectory,
           Ku!ReadManifest, Ku!ReportManifests, Ku!Change, Ku!Changes, Ku!Deadline, Ku!Others
  <2> QED
    BY <2>1 DEF KuInv, KuWorst
<1> USE DEF KuWorst, Ku!Others, Ku!Answer, Ku!GoTo, Ku!StatusIsWorst
<1>1. CASE Ku!Timeout
    BY <1>1, KuFailure DEF Ku!Timeout
<1>2. CASE Ku!collectClientVersion
  <2>1. \A s : Ku!Chk("client", s).id = "client"
    BY DEF Ku!Chk
  <2>2. \A o : Ku!probeFailure("client", o).code = "client"
    BY DEF Ku!probeFailure
  <2> QED
    BY <1>2, <2>1, <2>2 DEF Ku!collectClientVersion
<1>3. CASE Ku!collectKubeletUnit
  <2>1. \A o : Ku!probeFailure("unit", o).code = "unit"
    BY DEF Ku!probeFailure
  <2> QED
    BY <1>3, <2>1 DEF Ku!collectKubeletUnit
<1>4. CASE Ku!ReadProc \/ Ku!ReadComm
  <2>1. Ku!probeFailure("processes", "fails").code = "processes"
    BY DEF Ku!probeFailure
  <2>2. /\ UNCHANGED <<cmd, reply>> /\ DOMAIN got' = DOMAIN got /\ got'.checks = got.checks
        /\ \/ got'.errors = got.errors
           \/ got'.errors = got.errors \cup {Ku!probeFailure("processes", "fails")}
    BY <1>4 DEF Ku!ReadProc, Ku!ReadComm, Ku!ProcessesFail
  <2> QED
    BY <2>1, <2>2
<1>5. CASE Ku!ReportStatus
  <2>1. /\ reply'.checks = got.checks \cup {Ku!KubeletCheck(got.errors)} /\ reply'.errors = got.errors
        /\ UNCHANGED <<cmd, got>>
    BY <1>5, KuReply DEF Ku!ReportStatus
  <2> QED
    BY <2>1, KuKubelet
<1>6. CASE Ku!Change
  <2>1. UNCHANGED <<cmd, got, reply>>
    BY <1>6 DEF Ku!Change, Ku!Changes
  <2> QED
    BY <2>1
<1>7. CASE Ku!Deadline
    BY <1>7 DEF Ku!Deadline
<1> QED
    BY <1>1, <1>2, <1>3, <1>4, <1>5, <1>6, <1>7
       DEF Ku!Next, Ku!Step, Ku!ReadKubeconfig, Ku!ReportContexts, Ku!confinedDirectory, Ku!ReadManifest, Ku!ReportManifests,
           KuStatus

\* It contains the promise.
LEMMA KuWorstSafe == KuWorst => Ku!StatusIsWorst
BY DEF KuWorst, Ku!StatusIsWorst

-----------------------------------------------------------------------------
(* Security.  Until the sections are put together their checks pass or warn. *)

\* The answer that is built carries what it is built from.
LEMMA SeReply ==
    ASSUME NEW checks, NEW data, NEW errors
    PROVE  LET r == Se!Built(checks, data, errors) IN
             r.checks = checks /\ r.errors = errors /\ r.status = Se!classify(checks, errors)
BY DEF Se!Built, Se!Build, Se!Result

\* Before the sections are put together their checks pass or warn.
SeWorst ==
    /\ {"checks", "errors", "usable", "denied", "configured", "effective", "locked"} \subseteq DOMAIN got
    /\ \A c \in got.checks : c.status \in {"pass", "warning"}
    /\ Se!StatusIsWorst

\* It holds at the start.
LEMMA SeWorstInit == Se!Init => SeWorst
<1> SUFFICES ASSUME Se!Init PROVE SeWorst
    OBVIOUS
<1>1. /\ got = [passwd |-> {}, accounts |-> {}, locked |-> {}, configured |-> "absent", effective |-> "absent",
                checks |-> {}, errors |-> {}, usable |-> FALSE, denied |-> FALSE]
      /\ reply = Se!NoReply
    BY DEF Se!Init, Se!Starts
<1> QED
    BY <1>1 DEF SeWorst, Se!NoReply, Se!StatusIsWorst

\* What a report is of: the checks of the sections, and that of the platform.
SeAll(checks, errors, platform, all) ==
    /\ \A c \in checks : c.status \in {"pass", "warning"}
    /\ platform = {} \/ platform = {Se!Chk("platform", "warning")}
    /\ all = Se!Weakened(checks, errors) \cup platform

\* What an incomplete report of all sections is: partial, or a warning of the platform.
LEMMA SeIncomplete ==
    ASSUME NEW checks, NEW errors, NEW more, NEW platform, NEW all,
           SeAll(checks, errors, platform, all), errors # {}
    PROVE  /\ \A c \in all : c.status = "warning" => c.id = "platform"
           /\ Se!classify(all, errors \cup more) = IF platform = {} THEN "partial" ELSE "warning"
<1> DEFINE weak == Se!Weakened(checks, errors)
           status == Se!classify(all, errors \cup more)
<1>1. \A c \in weak : c.status \in {"pass", "partial"}
    BY DEF SeAll, Se!Weakened, Se!Chk
<1>2. \A c \in platform : c.status = "warning" /\ c.id = "platform"
    BY DEF SeAll, Se!Chk
<1>0. all = weak \cup platform
    BY DEF SeAll
<1> HIDE DEF weak
<1>3. \A c \in all : c.status # "critical" /\ (c.status = "warning" => c.id = "platform" /\ platform # {})
    BY <1>0, <1>1, <1>2
<1>4. CASE platform = {}
  <2>1. ~ \E c \in all : c.status = "warning"
    BY <1>3, <1>4
  <2>2. errors \cup more # {}
    OBVIOUS
  <2>3. status = "partial"
    BY <1>3, <2>1, <2>2 DEF Se!classify
  <2> QED
    BY <1>3, <1>4, <2>3
<1>5. CASE platform # {}
  <2>1. \E c \in all : c.status = "warning"
    BY <1>0, <1>2, <1>5
  <2>2. status = "warning"
    BY <1>3, <2>1 DEF Se!classify
  <2> QED
    BY <1>3, <1>5, <2>2
<1> QED
    BY <1>4, <1>5

\* Every step preserves it.
LEMMA SeWorstNext == SeInv /\ SeWorst /\ Se!Next => SeWorst'
<1> SUFFICES ASSUME SeInv, SeWorst, Se!Next PROVE SeWorst'
    OBVIOUS
<1> USE DEF Se!Others, Se!Answer, Se!GoTo
<1>0. pc # "done"
    BY DEF Se!Next, Se!Step, Se!Dispatch, Se!Timeout, Se!collectAccounts, Se!readShadowMetadata, Se!parsePasswd,
           Se!readGroups, Se!readSSHConfiguration, Se!collectSSH, Se!nft, Se!ufw, Se!buildResult, Se!Change,
           Se!Deadline, Se!Done
<1>1. reply.exit # "ok"
    BY <1>0 DEF SeInv
<1>2. CASE Se!Dispatch \/ Se!Timeout
  <2>1. reply'.exit # "ok" /\ UNCHANGED got
    BY <1>1, <1>2, SeFailure DEF Se!Dispatch, Se!Timeout
  <2> QED
    BY <2>1 DEF SeWorst, Se!StatusIsWorst
<1>3. CASE Se!collectAccounts \/ Se!readShadowMetadata \/ Se!parsePasswd \/ Se!readSSHConfiguration
  <2>1. reply'.exit # "ok"
    BY <1>1, <1>3, SeFailure DEF Se!collectAccounts, Se!readShadowMetadata, Se!parsePasswd, Se!readSSHConfiguration, Se!Dependency
  <2>2. got'.checks = got.checks /\ DOMAIN got' = DOMAIN got
    BY <1>3 DEF Se!collectAccounts, Se!readShadowMetadata, Se!parsePasswd, Se!readSSHConfiguration, SeWorst
  <2> QED
    BY <2>1, <2>2 DEF SeWorst, Se!StatusIsWorst
<1>4. CASE Se!readGroups
  <2>1. \A c \in Se!accountChecks(got.accounts) : c.status \in {"pass", "warning"}
    BY DEF Se!accountChecks, Se!Chk
  <2>2. got'.checks = got.checks \cup Se!accountChecks(got.accounts) /\ DOMAIN got' = DOMAIN got /\ UNCHANGED reply
    BY <1>4 DEF Se!readGroups, SeWorst
  <2> QED
    BY <1>1, <2>1, <2>2 DEF SeWorst, Se!StatusIsWorst
<1>5. CASE Se!collectSSH
  <2> DEFINE effective == IF host.sshd \notin Se!Programs THEN host.sshd ELSE "absent"
  <2>1. \A c \in Se!sshChecks(effective, got.configured) : c.status \in {"pass", "warning"}
    BY DEF Se!sshChecks, Se!Chk
  <2>2. got'.checks = got.checks \cup Se!sshChecks(effective, got.configured) /\ DOMAIN got' = DOMAIN got
    BY <1>5 DEF Se!collectSSH, SeWorst
  <2>3. reply'.exit # "ok"
    BY <1>1, <1>5, SeFailure DEF Se!collectSSH, Se!Dependency
  <2> QED
    BY <2>1, <2>2, <2>3 DEF SeWorst, Se!StatusIsWorst
<1>6. CASE Se!nft \/ Se!ufw
  <2>1. Se!Chk("firewall", "pass").status = "pass"
    BY DEF Se!Chk
  <2>2. /\ got'.checks = got.checks \/ got'.checks = got.checks \cup {Se!Chk("firewall", "pass")}
        /\ DOMAIN got' = DOMAIN got
    BY <1>6 DEF Se!nft, Se!ufw, Se!firewallProbe, SeWorst
  <2>3. reply'.exit # "ok"
    BY <1>1, <1>6, SeFailure DEF Se!nft, Se!ufw
  <2> QED
    BY <2>1, <2>2, <2>3 DEF SeWorst, Se!StatusIsWorst
<1>7. CASE Se!buildResult
  <2> DEFINE platform == IF host.platform = "unsupported" THEN {Se!Chk("platform", "warning")} ELSE {}
             more == IF host.platform = "unread" THEN {Se!Err("platform_unavailable")} ELSE {}
             all == Se!Weakened(got.checks, got.errors) \cup platform
  <2>1. UNCHANGED <<cmd, host, got>>
    BY <1>7 DEF Se!buildResult
  <2>2. Se!Audit => reply' = Se!Built(all, got, got.errors \cup more)
    BY <1>7 DEF Se!buildResult
  <2>3. platform = {} \/ platform = {Se!Chk("platform", "warning")}
    OBVIOUS
  <2>4. platform # {} => host.platform = "unsupported"
    OBVIOUS
  <2> HIDE DEF platform, more
  <2>5. Se!Audit => reply'.checks = all /\ reply'.status = Se!classify(all, got.errors \cup more)
    BY <2>2, SeReply
  <2> HIDE DEF all
  <2>6. ASSUME got.errors # {}
        PROVE  /\ \A c \in all : c.status = "warning" => c.id = "platform"
               /\ Se!classify(all, got.errors \cup more) = IF platform = {} THEN "partial" ELSE "warning"
    <3>1. SeAll(got.checks, got.errors, platform, all)
      BY <2>3 DEF SeWorst, SeAll, all
    <3> QED
      BY <2>6, <3>1, SeIncomplete
  <2>7. Se!StatusIsWorst'
    BY <2>1, <2>4, <2>5, <2>6 DEF Se!StatusIsWorst, Se!Audit
  <2> QED
    BY <2>1, <2>7 DEF SeWorst
<1>8. CASE Se!Change \/ Se!Deadline
  <2>1. UNCHANGED <<cmd, got, reply>>
    BY <1>8 DEF Se!Change, Se!Changes, Se!Deadline
  <2> QED
    BY <1>1, <2>1 DEF SeWorst, Se!StatusIsWorst
<1> QED
    BY <1>2, <1>3, <1>4, <1>5, <1>6, <1>7, <1>8 DEF Se!Next, Se!Step

-----------------------------------------------------------------------------
(* Storage.  The loop weighs the filesystems one by one, in any order of them, and ends with the
    worst. *)

\* A failure answers with its code; the answer that is built carries what it is built from.
LEMMA StReply ==
    /\ \A code : St!Failure(code).exit = code
    /\ \A s, checks, data, errors : LET r == St!Result(s, checks, data, errors) IN r.status = s /\ r.data = data
BY DEF St!Failure, St!NoReply, St!Result

\* What the status of a report may be.
Weights == {"pass", "warning", "critical", "partial"}

\* A filesystem is of one of four kinds, and weighs as it is.
LEMMA StWeighs ==
    ASSUME NEW x, NEW v \in Weights
    PROVE  /\ St!CheckStatus(x) \in {"pass", "warning", "critical", "skipped"}
           /\ St!Weigh(v, x) = IF St!CheckStatus(x) = "critical" THEN "critical"
                               ELSE IF St!CheckStatus(x) = "skipped" /\ v # "critical" THEN "partial"
                               ELSE IF St!CheckStatus(x) = "warning" /\ v = "pass" THEN "warning"
                               ELSE v
           /\ St!Weigh(v, x) \in Weights
<1>1. St!CheckStatus(x) \in {"pass", "warning", "critical", "skipped"}
    BY DEF St!CheckStatus
<1>2. CASE St!CheckStatus(x) = "critical"
    BY <1>1, <1>2 DEF St!Weigh, Weights
<1>3. CASE St!CheckStatus(x) = "skipped"
    BY <1>1, <1>3 DEF St!Weigh, Weights
<1>4. CASE St!CheckStatus(x) = "warning"
    BY <1>1, <1>4 DEF St!Weigh, Weights
<1>5. CASE St!CheckStatus(x) = "pass"
    BY <1>1, <1>5 DEF St!Weigh, Weights
<1> QED
    BY <1>1, <1>2, <1>3, <1>4, <1>5

\* The loop over the filesystems, in any order: the recursion has a solution.
LEMMA StWeighed ==
    ASSUME NEW order, NEW n \in Nat, Len(order) = n
    PROVE  LET w == St!weighed(order) IN
             w[0] = "pass" /\ \A i \in 1..n : w[i] = St!Weigh(w[i - 1], order[i])
<1> DEFINE Solution(w) == w = [i \in 0..n |-> IF i = 0 THEN "pass" ELSE St!Weigh(w[i - 1], order[i])]
           step == [p \in Nat \X Weights |-> St!Weigh(p[2], order[p[1]])]
<1>1. step \in [Nat \X Weights -> Weights]
  <2>1. \A p \in Nat \X Weights : p[2] \in Weights
    OBVIOUS
  <2> QED
    BY <2>1, StWeighs
<1>2. ASSUME NEW i \in Nat, NEW v \in Weights PROVE step[<<i, v>>] = St!Weigh(v, order[i])
  <2>1. <<i, v>> \in Nat \X Weights
    OBVIOUS
  <2> QED
    BY <2>1
<1> HIDE DEF step
<1>3. PICK f : Solves(f, Weights, "pass", step, n)
  <2>1. "pass" \in Weights
    BY DEF Weights
  <2> QED
    BY <1>1, <2>1, Iterates
<1>4. f \in [0..n -> Weights] /\ f[0] = "pass" /\ \A i \in 1..n : f[i] = step[<<i, f[i - 1]>>]
    BY <1>3 DEF Solves
<1>5. \A i \in 1..n : f[i] = St!Weigh(f[i - 1], order[i])
  <2> SUFFICES ASSUME NEW i \in 1..n PROVE f[i] = St!Weigh(f[i - 1], order[i])
    OBVIOUS
  <2>1. i \in Nat /\ f[i - 1] \in Weights
    BY <1>4
  <2> QED
    BY <1>2, <1>4, <2>1
<1>6. Solution(f)
  <2>1. f = [i \in 0..n |-> f[i]]
    BY <1>4
  <2>2. \A i \in 0..n : f[i] = IF i = 0 THEN "pass" ELSE St!Weigh(f[i - 1], order[i])
    BY <1>4, <1>5
  <2> QED
    BY <2>1, <2>2
<1>7. Solution(CHOOSE w : Solution(w))
    BY <1>6
<1>8. St!weighed(order) = CHOOSE w : Solution(w)
    BY DEF St!weighed
<1>9. Solution(St!weighed(order))
    BY <1>7, <1>8
<1> DEFINE w == St!weighed(order)
<1> HIDE DEF w
<1>10. w = [i \in 0..n |-> IF i = 0 THEN "pass" ELSE St!Weigh(w[i - 1], order[i])]
    BY <1>9 DEF w
<1>11. w[0] = "pass" /\ \A i \in 1..n : w[i] = St!Weigh(w[i - 1], order[i])
    BY <1>10
<1> QED
    BY <1>11 DEF w

\* One of the first k filesystems is of kind s.
StHas(order, s, k) == \E i \in 1..k : St!CheckStatus(order[i]) = s

\* The worst of the first k.
StWorstOf(order, k) ==
    IF StHas(order, "critical", k) THEN "critical"
    ELSE IF StHas(order, "skipped", k) THEN "partial"
    ELSE IF StHas(order, "warning", k) THEN "warning" ELSE "pass"

\* The loop ends with the worst, whatever the order.
LEMMA StFolded ==
    ASSUME NEW order, NEW n \in Nat, Len(order) = n
    PROVE  St!weighed(order)[n] = StWorstOf(order, n)
<1> DEFINE w == St!weighed(order)
           T == {k \in Nat : k \in 0..n => w[k] = StWorstOf(order, k)}
<1>1. w[0] = "pass" /\ \A i \in 1..n : w[i] = St!Weigh(w[i - 1], order[i])
    BY StWeighed
<1> HIDE DEF w
<1>2. 0 \in T
  <2>1. \A s : ~ StHas(order, s, 0)
    BY DEF StHas
  <2> QED
    BY <1>1, <2>1 DEF StWorstOf
<1>3. ASSUME NEW k \in Nat, k \in T, k + 1 \in 0..n PROVE w[k + 1] = StWorstOf(order, k + 1)
  <2> DEFINE s == St!CheckStatus(order[k + 1])
             v == w[k]
  <2>1. w[k + 1] = St!Weigh(v, order[k + 1])
    <3>1. k + 1 \in 1..n /\ (k + 1) - 1 = k
      BY <1>3
    <3> QED
      BY <1>1, <3>1
  <2>2. v = StWorstOf(order, k)
    BY <1>3
  <2>3. v \in Weights
    BY <2>2 DEF StWorstOf, Weights
  <2>4. \A t : StHas(order, t, k + 1) <=> StHas(order, t, k) \/ t = s
    <3>1. 1..(k + 1) = (1..k) \cup {k + 1}
      OBVIOUS
    <3> QED
      BY <3>1 DEF StHas
  <2>5. /\ s \in {"pass", "warning", "critical", "skipped"}
        /\ w[k + 1] = IF s = "critical" THEN "critical"
                      ELSE IF s = "skipped" /\ v # "critical" THEN "partial"
                      ELSE IF s = "warning" /\ v = "pass" THEN "warning" ELSE v
    BY <2>1, <2>3, StWeighs
  <2> HIDE DEF s, v
  <2> QED
    BY <2>2, <2>4, <2>5 DEF StWorstOf
<1>4. \A k \in Nat : k \in T => k + 1 \in T
    BY <1>3
<1> HIDE DEF T
<1>5. Nat \subseteq T
    BY <1>2, <1>4, Induct
<1> QED
    BY <1>5 DEF T, w

\* What was asked is finite; what is reported is the worst of it.
StWorst == "items" \in DOMAIN got /\ IsFiniteSet(got.items) /\ St!StatusIsWorst

\* It holds at the start.
LEMMA StWorstInit == St!Init => StWorst
<1> SUFFICES ASSUME St!Init PROVE StWorst
    OBVIOUS
<1>1. got = [mounts |-> {}, items |-> {}] /\ reply = St!NoReply
    BY DEF St!Init, St!Starts
<1>2. IsFiniteSet(got.items) /\ "items" \in DOMAIN got
    BY <1>1, FS_EmptySet
<1> QED
    BY <1>1, <1>2 DEF StWorst, St!NoReply, St!StatusIsWorst

\* The module counts as usual.
LEMMA StCardinality == ASSUME NEW S PROVE St!Cardinality(S) = Cardinality(S)
BY Zenon DEF St!Cardinality, Cardinality

\* An order of the filesystems is a sequence of them all.
LEMMA StOrders ==
    ASSUME NEW items, IsFiniteSet(items), NEW order \in St!Orders(items)
    PROVE  \E n \in Nat : /\ Len(order) = n
                          /\ \A i \in 1..n : order[i] \in items
                          /\ \A x \in items : \E i \in 1..n : order[i] = x
<1> DEFINE n == Cardinality(items)
<1>1. n \in Nat
    BY FS_CardinalityType
<1>2. St!Cardinality(items) = n
    BY StCardinality
<1> HIDE DEF n
<1>3. order \in [1..n -> items] /\ \A x \in items : \E i \in DOMAIN order : order[i] = x
    BY <1>2 DEF St!Orders
<1>4. Len(order) = n
    BY <1>1, <1>3
<1>5. \A i \in 1..n : order[i] \in items
    BY <1>3
<1>6. \A x \in items : \E i \in 1..n : order[i] = x
    BY <1>3
<1> QED
    BY <1>1, <1>4, <1>5, <1>6

\* Every step preserves it.
LEMMA StWorstNext == StWorst /\ St!Next => StWorst'
<1> SUFFICES ASSUME StWorst, St!Next PROVE StWorst'
    OBVIOUS
<1> USE DEF St!Others, St!Answer, St!GoTo
<1>a. CASE UNCHANGED got /\ (UNCHANGED reply \/ \E code : code # "ok" /\ reply' = St!Failure(code))
  <2>1. CASE UNCHANGED reply
    BY <1>a, <2>1 DEF StWorst, St!StatusIsWorst
  <2>2. CASE \E code : code # "ok" /\ reply' = St!Failure(code)
    <3>1. reply'.exit # "ok"
      BY <2>2, StReply
    <3> QED
      BY <1>a, <3>1 DEF StWorst, St!StatusIsWorst
  <2> QED
    BY <1>a, <2>1, <2>2
<1>1. CASE St!Configure
    BY <1>a, <1>1 DEF St!Configure
<1>2. CASE St!ReadTable
  <2>1. CASE UNCHANGED got /\ reply' = St!Failure("general")
    BY <1>a, <2>1
  <2>2. CASE got'.items = got.items /\ "items" \in DOMAIN got' /\ UNCHANGED reply
    BY <2>2 DEF StWorst, St!StatusIsWorst
  <2> QED
    BY <1>2, <2>1, <2>2 DEF St!ReadTable, StWorst
<1>3. CASE St!TableFails
    BY <1>a, <1>3 DEF St!TableFails
<1>4. CASE St!Stat
  <2>0. PICK m \in got.mounts :
           LET there == St!Standing(host.table, m.point)
               used  == IF there = "none" THEN St!Broken ELSE host.used[there]
           IN got' = [mounts |-> got.mounts \ {m},
                      items |-> got.items \cup {[mount |-> m, asked |-> there,
                        percent |-> IF used = St!Broken THEN St!Broken ELSE St!boundedPercent(used, 100)]}]
    BY <1>4 DEF St!Stat
  <2> DEFINE there == St!Standing(host.table, m.point)
             used  == IF there = "none" THEN St!Broken ELSE host.used[there]
             x == [mount |-> m, asked |-> there,
                   percent |-> IF used = St!Broken THEN St!Broken ELSE St!boundedPercent(used, 100)]
  <2>1. got' = [mounts |-> got.mounts \ {m}, items |-> got.items \cup {x}] /\ UNCHANGED reply
    BY <1>4, <2>0 DEF St!Stat
  <2> HIDE DEF x
  <2>3. "items" \in DOMAIN got' /\ got'.items = got.items \cup {x}
    BY <2>1
  <2>2. IsFiniteSet(got'.items)
    BY <2>3, FS_AddElement DEF StWorst
  <2> QED
    BY <2>1, <2>2, <2>3 DEF StWorst, St!StatusIsWorst
<1>5. CASE St!Report
  <2>1. PICK order \in St!Orders(got.items) :
           St!Answer(St!Result(St!Status(order), {St!Chk(i.mount.point, St!CheckStatus(i)) : i \in got.items}, got.items,
                               IF \E i \in got.items : i.percent = St!Broken THEN {"statfs_failed"} ELSE {}))
    BY <1>5 DEF St!Report
  <2>2. UNCHANGED got /\ reply'.data = got.items /\ reply'.status = St!Status(order)
    BY <1>5, <2>1, StReply DEF St!Report
  <2>3. PICK n \in Nat : /\ Len(order) = n
                         /\ \A i \in 1..n : order[i] \in got.items
                         /\ \A x \in got.items : \E i \in 1..n : order[i] = x
    BY StOrders DEF StWorst
  <2>4. reply'.status = StWorstOf(order, n)
    BY <2>2, <2>3, StFolded DEF St!Status
  <2>5. \A s : StHas(order, s, n) <=> \E x \in reply'.data : St!CheckStatus(x) = s
    BY <2>2, <2>3 DEF StHas
  <2>6. St!StatusIsWorst'
    BY <2>4, <2>5 DEF St!StatusIsWorst, StWorstOf
  <2> QED
    BY <2>2, <2>6 DEF StWorst
<1>6. CASE St!Change \/ St!Deadline
  <2>1. UNCHANGED <<got, reply>>
    BY <1>6 DEF St!Change, St!Changes, St!Deadline
  <2> QED
    BY <1>a, <2>1
<1> QED
    BY <1>1, <1>2, <1>3, <1>4, <1>5, <1>6 DEF St!Next, St!Step

-----------------------------------------------------------------------------
(* System.  The status follows from the checks and the errors. *)

\* A failure answers with its code.
LEMMA SyFailure == ASSUME NEW code PROVE Sy!Failure(code).exit = code
BY DEF Sy!Failure, Sy!NoReply

\* What a result is made of.
LEMMA SyResult ==
    ASSUME NEW status, NEW checks, NEW data, NEW errors
    PROVE  LET r == Sy!Result(status, checks, data, errors) IN
             r.status = status /\ r.checks = checks /\ r.errors = errors
BY DEF Sy!Result

\* What the status says of the checks and the errors.
SyWeighed(status, checks, errors) ==
    /\ status = "critical" <=> \E c \in checks : c.status = "critical"
    /\ status = "warning" => errors = {} /\ \A c \in checks : c.status # "skipped"

\* That is what is computed.
LEMMA SyAggregate ==
    ASSUME NEW checks, NEW errors
    PROVE  SyWeighed(Sy!aggregateStatus(checks, errors), checks, errors)
BY DEF SyWeighed, Sy!aggregateStatus

\* The promise is inductive: one step gives an answer.
SyWorst == Sy!StatusIsWorst

\* It holds at the start.
LEMMA SyWorstInit == Sy!Init => SyWorst
<1> SUFFICES ASSUME Sy!Init PROVE SyWorst
    OBVIOUS
<1>1. reply = Sy!NoReply
    BY DEF Sy!Init, Sy!Starts
<1> QED
    BY <1>1 DEF SyWorst, Sy!NoReply, Sy!StatusIsWorst

\* Every step preserves it.
LEMMA SyWorstNext == SyWorst /\ Sy!Next => SyWorst'
<1> SUFFICES ASSUME SyWorst, Sy!Next PROVE SyWorst'
    OBVIOUS
<1> USE DEF Sy!Others, Sy!Answer, Sy!GoTo
<1>1. CASE UNCHANGED reply
    BY <1>1 DEF SyWorst, Sy!StatusIsWorst
<1>2. CASE \E code \in {"arguments", "configuration"} : reply' = Sy!Failure(code)
    BY <1>2, SyFailure DEF SyWorst, Sy!StatusIsWorst
<1>3. CASE Sy!InfoResult
  <2>1. /\ reply'.checks = {} /\ reply'.errors = got.errors
        /\ reply'.status = IF got.errors = {} THEN "pass" ELSE "partial"
    BY <1>3, SyResult DEF Sy!InfoResult
  <2> QED
    BY <2>1 DEF SyWorst, Sy!StatusIsWorst
<1>4. CASE Sy!HealthResult
  <2>1. /\ reply'.status = Sy!aggregateStatus(got.checks, got.errors)
        /\ reply'.checks = got.checks /\ reply'.errors = got.errors
    BY <1>4, SyResult DEF Sy!HealthResult
  <2>2. SyWeighed(reply'.status, reply'.checks, reply'.errors)
    BY <2>1, SyAggregate
  <2> QED
    BY <2>2 DEF SyWorst, SyWeighed, Sy!StatusIsWorst
<1> QED
    BY <1>1, <1>2, <1>3, <1>4
       DEF Sy!Next, Sy!Step, Sy!Dispatch, Sy!ReadFiles, Sy!DetectVirt, Sy!timeSynchronized, Sy!SnapshotChecks,
           Sy!failedUnits, Sy!oomEvents, Sy!Expire

-----------------------------------------------------------------------------
(* All of them: what is masked, and what status wins. *)

\* The invariants of the plugins that mask what they print.
RepliesMasked ==
    /\ Is("apt")      => AMasked
    /\ Is("java")     => JMasked
    /\ Is("postgres") => PgMasked
    /\ Is("service")  => SvMasked

\* They hold when a plugin starts.
LEMMA RepliesMaskedInit == Init => RepliesMasked
BY AMaskedInit, JMaskedInit, PgMaskedInit, SvMaskedInit
   DEF Init, Is, RepliesMasked

\* Every step of a plugin preserves its own.
LEMMA RepliesMaskedNext == CollectorsInv /\ RepliesMasked /\ Next => RepliesMasked'
<1> SUFFICES ASSUME CollectorsInv, RepliesMasked, Next PROVE RepliesMasked'
    OBVIOUS
<1>u. \A p : Is(p)' = Is(p)
    BY DEF Next, Is
<1>1. Is("apt") => AMasked'
    BY AMaskedNext DEF RepliesMasked, Next, Is
<1>2. Is("java") => JMasked'
    BY JMaskedNext DEF CollectorsInv, RepliesMasked, Next, Is
<1>3. Is("postgres") => PgMasked'
    BY PgMaskedNext DEF RepliesMasked, Next, Is
<1>4. Is("service") => SvMasked'
    BY SvMaskedNext DEF RepliesMasked, Next, Is
<1> QED
    BY <1>u, <1>1, <1>2, <1>3, <1>4 DEF RepliesMasked, Is

\* They are about the state alone.
LEMMA RepliesMaskedStutters == RepliesMasked /\ UNCHANGED <<vars, plugin>> => RepliesMasked'
<1> SUFFICES ASSUME RepliesMasked, UNCHANGED <<vars, plugin>> PROVE RepliesMasked'
    OBVIOUS
<1>u. UNCHANGED <<cmd, ctx, host, hist, changes, pc, got, reply, plugin>>
    BY DEF vars
<1>1. AMasked' = AMasked
    BY <1>u DEF AMasked
<1>2. JMasked' = JMasked
    BY <1>u DEF JMasked
<1>3. PgMasked' = PgMasked
    BY <1>u DEF PgMasked, PgConfig
<1>4. SvMasked' = SvMasked
    BY <1>u DEF SvMasked
<1> QED
    BY <1>u, <1>1, <1>2, <1>3, <1>4 DEF RepliesMasked, Is

\* The invariants of the plugins whose status is the worst of several findings.
RepliesWeighed ==
    /\ Is("baseline")   => BlWorst
    /\ Is("kubernetes") => KuWorst
    /\ Is("security")   => SeWorst
    /\ Is("storage")    => StWorst
    /\ Is("system")     => SyWorst

\* They hold when a plugin starts.
LEMMA RepliesWeighedInit == Init => RepliesWeighed
BY BlWorstInit, KuWorstInit, SeWorstInit, StWorstInit, SyWorstInit
   DEF Init, Is, RepliesWeighed

\* Every step of a plugin preserves its own.
LEMMA RepliesWeighedNext == CollectorsInv /\ RepliesWeighed /\ Next => RepliesWeighed'
<1> SUFFICES ASSUME CollectorsInv, RepliesWeighed, Next PROVE RepliesWeighed'
    OBVIOUS
<1>u. \A p : Is(p)' = Is(p)
    BY DEF Next, Is
<1>1. Is("baseline") => BlWorst'
    BY BlWorstNext DEF RepliesWeighed, Next, Is
<1>2. Is("kubernetes") => KuWorst'
    BY KuWorstNext DEF CollectorsInv, RepliesWeighed, Next, Is
<1>3. Is("security") => SeWorst'
    BY SeWorstNext DEF CollectorsInv, RepliesWeighed, Next, Is
<1>4. Is("storage") => StWorst'
    BY StWorstNext DEF RepliesWeighed, Next, Is
<1>5. Is("system") => SyWorst'
    BY SyWorstNext DEF RepliesWeighed, Next, Is
<1> QED
    BY <1>u, <1>1, <1>2, <1>3, <1>4, <1>5 DEF RepliesWeighed, Is

\* They are about the state alone.
LEMMA RepliesWeighedStutters == RepliesWeighed /\ UNCHANGED <<vars, plugin>> => RepliesWeighed'
<1> SUFFICES ASSUME RepliesWeighed, UNCHANGED <<vars, plugin>> PROVE RepliesWeighed'
    OBVIOUS
<1>u. UNCHANGED <<cmd, ctx, host, hist, changes, pc, got, reply, plugin>>
    BY DEF vars
<1>1. BlWorst' = BlWorst
    BY <1>u DEF BlWorst, BlPending, Bl!Wanted, Bl!StatusIsWorst
<1>2. KuWorst' = KuWorst
    BY <1>u DEF KuWorst, Ku!StatusIsWorst
<1>3. SeWorst' = SeWorst
    BY <1>u DEF SeWorst, Se!StatusIsWorst, Se!Audit
<1>4. StWorst' = StWorst
    BY <1>u DEF StWorst, St!StatusIsWorst
<1>5. SyWorst' = SyWorst
    BY <1>u DEF SyWorst, Sy!StatusIsWorst
<1> QED
    BY <1>u, <1>1, <1>2, <1>3, <1>4, <1>5 DEF RepliesWeighed, Is

\* No answer shows the password of a source, the value of an argument called
\* like a secret, a setting that is not on the list, or a line of the journal
\* that the patterns match: whatever the arguments and the lines are, and
\* whatever others change while they are read.
THEOREM SecretsAreMasked == Spec => []SecretsMasked
<1>1. Init => RepliesMasked
    BY RepliesMaskedInit
<1>2. CollectorsInv /\ RepliesMasked /\ [Next]_<<vars, plugin>> => RepliesMasked'
    BY RepliesMaskedNext, RepliesMaskedStutters
<1>3. CollectorsInv /\ RepliesMasked => SecretsMasked
    BY AMaskedSafe, JMaskedSafe, PgMaskedSafe, SvMaskedSafe
       DEF CollectorsInv, RepliesMasked, SecretsMasked, Is
<1>4. Spec => []CollectorsInv
    BY CollectorsInvariant
<1> QED
    BY <1>1, <1>2, <1>3, <1>4, PTL DEF Spec

\* A critical finding is never hidden behind one that weighs less or could not
\* be made: the status of an answer is the worst that its findings give, in
\* whatever order they are made and weighed.
THEOREM WorstStatusWins == Spec => []StatusIsWorst
<1>1. Init => RepliesWeighed
    BY RepliesWeighedInit
<1>2. CollectorsInv /\ RepliesWeighed /\ [Next]_<<vars, plugin>> => RepliesWeighed'
    BY RepliesWeighedNext, RepliesWeighedStutters
<1>3. CollectorsInv /\ RepliesWeighed => StatusIsWorst
    BY BlWorstSafe, KuWorstSafe
       DEF RepliesWeighed, SeWorst, StWorst, SyWorst, StatusIsWorst, Is
<1>4. Spec => []CollectorsInv
    BY CollectorsInvariant
<1> QED
    BY <1>1, <1>2, <1>3, <1>4, PTL DEF Spec

-----------------------------------------------------------------------------
(* Security.  What is at fault with accounts, ssh and the firewall is among the checks. *)

\* The rows of the account file are those that are looked at, and what else is read is of its kind.
SeTyped(h) ==
    /\ {"passwd", "shadow", "group", "writable", "main", "directory", "dropins", "sshd", "nft", "ufw", "platform"}
         \subseteq DOMAIN h
    /\ h.passwd = Se!Unread \/ h.passwd \subseteq Se!Rows
    /\ h.directory \in {"read", "absent", "link", "unread", "too many"}
    /\ h.sshd \in {"yes", "no", "none"} \cup Se!Programs

\* It is so after one more field was given a value of those it may have.
LEMMA SeVariedTyped ==
    ASSUME NEW hosts, \A h \in hosts : SeTyped(h)
    PROVE  \A h \in Se!Varied(hosts, Se!Unusual) : SeTyped(h)
<1> SUFFICES ASSUME NEW g \in Se!Varied(hosts, Se!Unusual), g \notin hosts PROVE SeTyped(g)
    OBVIOUS
<1>1. PICK h \in hosts, f \in DOMAIN Se!Unusual : g \in {[h EXCEPT ![f] = v] : v \in Se!Unusual[f]}
    BY DEF Se!Varied
<1>2. PICK v \in Se!Unusual[f] : g = [h EXCEPT ![f] = v]
    BY <1>1
<1>3. SeTyped(h)
    OBVIOUS
<1>4. /\ f = "passwd" => v = Se!Unread \/ v \subseteq Se!Rows
      /\ f = "directory" => v \in {"absent", "link", "unread", "too many"}
      /\ f = "sshd" => v \in {"yes", "none"} \cup Se!Programs
  <2>1. Se!Unusual.passwd = {Se!Unread, Se!NoRow} \cup {{"root", r} : r \in Se!Rows}
    BY DEF Se!Unusual
  <2>2. Se!Unusual.directory = {"absent", "link", "unread", "too many"} /\ Se!Unusual.sshd = {"yes", "none"} \cup Se!Programs
    BY DEF Se!Unusual
  <2>3. \A x \in Se!Unusual.passwd : x = Se!Unread \/ x \subseteq Se!Rows
    BY <2>1 DEF Se!NoRow, Se!Rows
  <2> QED
    BY <1>2, <2>2, <2>3
<1> QED
    BY <1>2, <1>3, <1>4 DEF SeTyped

\* They are so on every host that a run may find.
LEMMA SeHostsTyped == \A h \in Se!Hosts : SeTyped(h)
<1>1. SeTyped(Se!Usual)
    BY DEF SeTyped, Se!Usual, Se!Rows
<1>2. \A h \in Se!Varied({Se!Usual}, Se!Unusual) : SeTyped(h)
    BY <1>1, SeVariedTyped
<1>3. \A h \in Se!Varied(Se!Varied({Se!Usual}, Se!Unusual), Se!Unusual) : SeTyped(h)
    BY <1>2, SeVariedTyped
<1>4. \A d : SeTyped([Se!Usual EXCEPT !.main = "unread", !.sshd = "absent", !.dropins = d])
    BY <1>1 DEF SeTyped, Se!Programs
<1>5. SeTyped([Se!Usual EXCEPT !.passwd = {"root", "toor"}, !.shadow = Se!Unread])
    BY <1>1 DEF SeTyped, Se!Rows
<1> QED
    BY <1>3, <1>4, <1>5 DEF Se!Hosts

\* The rows that always were there were read; those that are not well formed have an error.
SeRows ==
    /\ pc \in {"shadow", "homes", "group"} => hist.always \subseteq got.passwd /\ host.passwd # Se!Unread
    /\ pc \in {"homes", "group"} /\ host.shadow = Se!Unread => Se!Err("shadow_unavailable") \in got.errors
    /\ pc = "group" =>
         /\ hist.always \ Se!Malformed \subseteq got.accounts
         /\ \A r \in Se!Malformed \cap hist.always : <<"malformed_passwd_entry", r>> \in got.errors

\* The section of the accounts, when it is complete.
SeAccounts ==
    /\ Se!ZeroUID \subseteq hist.always => Se!Chk("uid-zero", "warning") \in got.checks
    /\ "guest" \in hist.always /\ host.writable => Se!Chk("home-permissions", "warning") \in got.checks
    /\ Se!MissingAccounts \subseteq got.errors

\* The section of the daemon, the files and what it says itself.
SeFiles == Se!DropinErrors \cup (IF Se!Configured THEN {} ELSE {Se!Err("sshd_config_unavailable")}) \subseteq got.errors
SeDaemon ==
    /\ host.sshd = "yes" => Se!Chk("root-login", "warning") \in got.checks
    /\ host.sshd \in Se!Programs => Se!Err(Se!SshdError[host.sshd]) \in got.errors

\* The section of the firewalls.
SeNft == host.nft # "works" => <<"nft", host.nft>> \in got.errors
SeUfw == host.ufw # "works" => <<"ufw", host.ufw>> \in got.errors

\* What the sections have so far.
SeReports ==
    /\ SeTyped(host) /\ hist.always \subseteq host.passwd
    /\ cmd \in {"audit", "accounts", "ssh", "firewall"}
    /\ pc \in {"passwd", "shadow", "homes", "group"} => cmd \in {"audit", "accounts"}
    /\ pc \in {"config", "sshd"} => cmd \in {"audit", "ssh"}
    /\ pc \in {"nft", "ufw"} => cmd \in {"audit", "firewall"}
    /\ SeRows
    /\ pc \in {"config", "sshd", "nft", "ufw", "report"} /\ cmd \in {"audit", "accounts"} => SeAccounts
    /\ pc \in {"sshd", "nft", "ufw", "report"} /\ cmd \in {"audit", "ssh"} => SeFiles
    /\ pc \in {"nft", "ufw", "report"} /\ cmd \in {"audit", "ssh"} => SeDaemon
    /\ pc \in {"ufw", "report"} /\ cmd \in {"audit", "firewall"} => SeNft
    /\ pc = "report" /\ cmd \in {"audit", "firewall"} => SeUfw
    /\ reply.exit = "ok" \/ reply.status = "pass" => pc = "done"
    /\ Se!NothingLost /\ Se!PassIsEarned

\* It holds at the start.
LEMMA SeReportsInit == Se!Init => SeReports
<1> SUFFICES ASSUME Se!Init PROVE SeReports
    OBVIOUS
<1>1. /\ cmd \in {"audit", "accounts", "ssh", "firewall"} /\ host \in Se!Hosts /\ hist.always = host.passwd
      /\ pc = "start" /\ reply = Se!NoReply
    BY DEF Se!Init, Se!Starts
<1> QED
    BY <1>1, SeHostsTyped DEF SeReports, SeRows, Se!NoReply, Se!NothingLost, Se!PassIsEarned

\* What is missing depends on the host only.
LEMMA SeMissingStill ==
    ASSUME UNCHANGED <<host, hist>>
    PROVE  /\ Se!MissingAccounts' = Se!MissingAccounts /\ Se!MissingSSH' = Se!MissingSSH
           /\ Se!MissingFirewall' = Se!MissingFirewall
           /\ Se!DropinErrors' = Se!DropinErrors /\ Se!Configured' = Se!Configured
<1>1. /\ Se!Unread' = Se!Unread /\ Se!Malformed' = Se!Malformed /\ Se!Programs' = Se!Programs
      /\ \A code : Se!Err(code)' = Se!Err(code)
      /\ Se!SshdError' = Se!SshdError /\ Se!Range(host.dropins)' = Se!Range(host.dropins)
    BY DEF Se!Unread, Se!Malformed, Se!Programs, Se!Err, Se!SshdError, Se!Range
<1>2. Se!DropinErrors' = Se!DropinErrors /\ Se!Configured' = Se!Configured
    BY <1>1 DEF Se!DropinErrors, Se!Configured
<1>3. Se!MissingAccounts' = Se!MissingAccounts
    BY <1>1 DEF Se!MissingAccounts
<1>4. Se!MissingSSH' = Se!MissingSSH
    BY <1>1, <1>2 DEF Se!MissingSSH
<1>5. Se!MissingFirewall' = Se!MissingFirewall
    BY DEF Se!MissingFirewall
<1> QED
    BY <1>2, <1>3, <1>4, <1>5

\* What was said stays said.
LEMMA SeSaidStill ==
    ASSUME UNCHANGED <<host, hist>>, got.checks \subseteq got'.checks, got.errors \subseteq got'.errors
    PROVE  /\ SeAccounts => SeAccounts'
           /\ SeFiles => SeFiles'
           /\ SeDaemon => SeDaemon'
           /\ SeNft => SeNft'
           /\ SeUfw => SeUfw'
<1>1. /\ Se!ZeroUID' = Se!ZeroUID /\ Se!Programs' = Se!Programs /\ Se!SshdError' = Se!SshdError
      /\ \A id, s : Se!Chk(id, s)' = Se!Chk(id, s)
      /\ \A code : Se!Err(code)' = Se!Err(code)
    BY DEF Se!ZeroUID, Se!Programs, Se!SshdError, Se!Chk, Se!Err
<1>2. SeAccounts => SeAccounts'
    BY <1>1, SeMissingStill DEF SeAccounts
<1>3. SeFiles => SeFiles'
    BY <1>1, SeMissingStill DEF SeFiles
<1>4. SeDaemon => SeDaemon'
    BY <1>1 DEF SeDaemon
<1>5. (SeNft => SeNft') /\ (SeUfw => SeUfw')
    BY DEF SeNft, SeUfw
<1> QED
    BY <1>2, <1>3, <1>4, <1>5

\* Two accounts with the user identifier 0 give a warning.
LEMMA SeZero ==
    ASSUME NEW accounts, Se!ZeroUID \subseteq accounts
    PROVE  Se!Chk("uid-zero", "warning") \in Se!accountChecks(accounts)
<1>1. accounts \cap Se!ZeroUID = {"root", "toor"}
    BY DEF Se!ZeroUID
<1>2. IsFiniteSet({"root"}) /\ Cardinality({"root"}) = 1
    BY FS_Singleton
<1>3. Cardinality({"root", "toor"}) = 2
  <2>1. {"root", "toor"} = {"root"} \cup {"toor"} /\ "toor" \notin {"root"}
    OBVIOUS
  <2> QED
    BY <1>2, <2>1, FS_AddElement
<1>4. Se!Cardinality({"root", "toor"}) = Cardinality({"root", "toor"})
    BY Zenon DEF Se!Cardinality, Cardinality
<1>5. Se!Cardinality(accounts \cap Se!ZeroUID) > 1
    BY <1>1, <1>3, <1>4
<1> QED
    BY <1>5 DEF Se!accountChecks

\* A home that others may write gives one.
LEMMA SeHome ==
    ASSUME NEW accounts, "guest" \in accounts, host.writable
    PROVE  Se!Chk("home-permissions", "warning") \in Se!accountChecks(accounts)
<1>1. "guest" \in {x \in accounts : x = "guest" /\ host.writable}
    OBVIOUS
<1>2. Se!Chk("home-permissions", "warning") \in {Se!Chk("home-permissions", "warning") : a \in {x \in accounts : x = "guest" /\ host.writable}}
    BY <1>1
<1> QED
    BY <1>2 DEF Se!accountChecks

\* What is said of a built answer.
LEMMA SeBuilds ==
    ASSUME NEW checks, NEW data, NEW errors
    PROVE  LET r == Se!Built(checks, data, errors) IN
           /\ r.exit = "ok" /\ r.checks = checks /\ r.errors = errors
           /\ r.status = "pass" <=> errors = {} /\ \A c \in checks : c.status \in {"pass", "info"}
<1>1. Se!classify(checks, errors) = "pass" <=> errors = {} /\ \A c \in checks : c.status \in {"pass", "info"}
    BY DEF Se!classify
<1> QED
    BY <1>1 DEF Se!Built, Se!Build, Se!Result

\* A warning is in the answer, as one or weakened.
LEMMA SeFound ==
    ASSUME NEW id, Se!Chk(id, "warning") \in got.checks
    PROVE  LET checks == IF Se!Audit THEN Se!Weakened(got.checks, got.errors) ELSE got.checks
           IN \E c \in checks : c.id = id /\ c.status \in {"warning", "partial"}
<1> DEFINE c == Se!Chk(id, "warning")
           w == IF got.errors # {} /\ c.status = "warning" THEN Se!Chk(c.id, "partial") ELSE c
<1>1. c.id = id /\ c.status = "warning" /\ w.id = id /\ w.status \in {"warning", "partial"}
    BY DEF Se!Chk
<1>2. w \in Se!Weakened(got.checks, got.errors)
    BY DEF Se!Weakened
<1> HIDE DEF c, w
<1> QED
    BY <1>1, <1>2 DEF c

\* Every step preserves it.
LEMMA SeReportsNext == SeInv /\ SeWorst /\ SeReports /\ Se!Next => SeReports'
<1> SUFFICES ASSUME SeInv, SeWorst, SeReports, Se!Next PROVE SeReports'
    OBVIOUS
<1> USE DEF Se!Others, Se!Answer, Se!GoTo
<1>0. pc # "done"
    BY DEF Se!Next, Se!Step, Se!Dispatch, Se!Timeout, Se!collectAccounts, Se!readShadowMetadata, Se!parsePasswd,
           Se!readGroups, Se!readSSHConfiguration, Se!collectSSH, Se!nft, Se!ufw, Se!buildResult, Se!Change,
           Se!Deadline, Se!Done
<1>c. UNCHANGED cmd
    BY DEF Se!Next, Se!Step, Se!Dispatch, Se!Timeout, Se!collectAccounts, Se!readShadowMetadata, Se!parsePasswd,
           Se!readGroups, Se!readSSHConfiguration, Se!collectSSH, Se!nft, Se!ufw, Se!buildResult, Se!Change,
           Se!Changes, Se!Deadline
<1>q. reply.exit # "ok" /\ reply.status # "pass"
    BY <1>0 DEF SeReports
<1>f. \A code : code # "ok" => Se!Failure(code).exit # "ok" /\ Se!Failure(code).status # "pass"
    BY DEF Se!Failure, Se!NoReply
<1>u. /\ Se!Unread' = Se!Unread /\ Se!ZeroUID' = Se!ZeroUID /\ Se!Malformed' = Se!Malformed /\ Se!Programs' = Se!Programs
      /\ Se!Rows' = Se!Rows /\ \A code : Se!Err(code)' = Se!Err(code)
    BY DEF Se!Unread, Se!ZeroUID, Se!Malformed, Se!Programs, Se!Rows, Se!Err
<1>y. UNCHANGED <<host, hist>> => SeTyped(host)' /\ hist'.always \subseteq host'.passwd
    BY <1>u DEF SeReports, SeTyped
<1>a. CASE /\ UNCHANGED <<host, hist>> /\ pc' = "done" /\ reply'.exit # "ok" /\ reply'.status # "pass"
    BY <1>a, <1>c, <1>y DEF SeReports, SeRows, Se!NothingLost, Se!PassIsEarned
<1>l. UNCHANGED reply => Se!NothingLost' /\ Se!PassIsEarned' /\ reply'.exit # "ok" /\ reply'.status # "pass"
    BY <1>q DEF Se!NothingLost, Se!PassIsEarned
<1>1. CASE Se!Dispatch
  <2>0. pc = "start" /\ UNCHANGED <<host, hist, got>>
    BY <1>1 DEF Se!Dispatch
  <2>1. CASE reply' = Se!Failure("arguments") /\ pc' = "done"
    BY <1>a, <1>f, <2>0, <2>1
  <2>2. CASE pc' = [audit |-> "passwd", accounts |-> "passwd", ssh |-> "config", firewall |-> "nft"][cmd] /\ UNCHANGED reply
    <3>1. pc' = IF cmd \in {"audit", "accounts"} THEN "passwd" ELSE IF cmd = "ssh" THEN "config" ELSE "nft"
      BY <2>2 DEF SeReports
    <3> QED
      BY <1>c, <1>l, <1>y, <2>0, <2>2, <3>1 DEF SeReports, SeRows
  <2> QED
    BY <1>1, <2>1, <2>2 DEF Se!Dispatch
<1>2. CASE Se!Timeout
    BY <1>2, <1>a, <1>f DEF Se!Timeout
<1>3. CASE Se!collectAccounts
  <2>0. pc = "passwd" /\ UNCHANGED <<host, hist>> /\ cmd \in {"audit", "accounts"}
    BY <1>3 DEF Se!collectAccounts, SeReports
  <2>1. CASE host.passwd = Se!Unread
    <3>1. /\ got'.checks = got.checks /\ got'.errors = got.errors \cup {Se!Err("passwd_unavailable")}
          /\ \/ pc' = "config" /\ UNCHANGED reply
             \/ pc' = "done" /\ reply' = Se!Failure("dependency")
      BY <1>3, <2>1 DEF Se!collectAccounts, SeWorst, Se!Dependency
    <3>2. SeAccounts'
      <4>1. hist'.always \subseteq {"unread"}
        BY <2>0, <2>1 DEF SeReports, Se!Unread
      <4>2. "root" \notin hist'.always /\ "guest" \notin hist'.always
        BY <4>1
      <4>3. "root" \in Se!ZeroUID
        BY DEF Se!ZeroUID
      <4>4. Se!MissingAccounts' \subseteq got'.errors
        <5>1. Se!MissingAccounts = {Se!Err("passwd_unavailable")}
          BY <2>1 DEF Se!MissingAccounts
        <5> QED
          BY <2>0, <3>1, <5>1, SeMissingStill
      <4> QED
        BY <1>u, <4>2, <4>3, <4>4 DEF SeAccounts
    <3>3. CASE pc' = "done" /\ reply' = Se!Failure("dependency")
      BY <1>a, <1>f, <2>0, <3>3
    <3>4. CASE pc' = "config" /\ UNCHANGED reply
      <4>1. cmd' = "audit"
        BY <1>3, <1>c, <2>1, <3>4 DEF Se!collectAccounts, Se!Audit
      <4> QED
        BY <1>l, <1>y, <2>0, <3>2, <3>4, <4>1 DEF SeReports, SeRows
    <3> QED
      BY <3>1, <3>3, <3>4
  <2>2. CASE host.passwd # Se!Unread
    <3>1. got'.passwd = host.passwd /\ pc' = "shadow" /\ UNCHANGED reply
      BY <1>3, <2>2 DEF Se!collectAccounts, SeWorst, SeInv
    <3>2. SeRows'
      BY <1>u, <2>0, <2>2, <3>1 DEF SeRows, SeReports
    <3> QED
      BY <1>c, <1>l, <1>y, <2>0, <3>1, <3>2 DEF SeReports
  <2> QED
    BY <2>1, <2>2
<1>4. CASE Se!readShadowMetadata
  <2>0. pc = "shadow" /\ UNCHANGED <<host, hist, reply>> /\ cmd \in {"audit", "accounts"} /\ pc' = "homes"
    BY <1>4 DEF Se!readShadowMetadata, SeReports
  <2>1. /\ got'.passwd = got.passwd /\ (host.shadow = Se!Unread => Se!Err("shadow_unavailable") \in got'.errors)
    BY <1>4 DEF Se!readShadowMetadata, SeInv, SeWorst
  <2>2. SeRows'
    BY <1>u, <2>0, <2>1 DEF SeRows, SeReports
  <2> QED
    BY <1>c, <1>l, <1>y, <2>0, <2>2 DEF SeReports
<1>5. CASE Se!parsePasswd
  <2>0. pc = "homes" /\ UNCHANGED <<host, hist, reply>> /\ cmd \in {"audit", "accounts"} /\ pc' = "group"
    BY <1>5 DEF Se!parsePasswd, SeReports
  <2>1. /\ got'.passwd = got.passwd /\ got'.accounts = got.passwd \ Se!Malformed
        /\ got'.errors = got.errors \cup {<<"malformed_passwd_entry", r>> : r \in got.passwd \cap Se!Malformed}
    BY <1>5 DEF Se!parsePasswd, SeInv, SeWorst
  <2>2. /\ hist.always \subseteq got.passwd /\ host.passwd # Se!Unread
        /\ host.shadow = Se!Unread => Se!Err("shadow_unavailable") \in got.errors
    BY <2>0 DEF SeReports, SeRows
  <2>3. \A r \in Se!Malformed \cap hist.always : <<"malformed_passwd_entry", r>> \in got'.errors
    BY <2>1, <2>2
  <2>4. host.shadow = Se!Unread => Se!Err("shadow_unavailable") \in got'.errors
    BY <2>1, <2>2
  <2>5. SeRows'
    BY <1>u, <2>0, <2>1, <2>2, <2>3, <2>4 DEF SeRows
  <2> QED
    BY <1>c, <1>l, <1>y, <2>0, <2>5 DEF SeReports
<1>6. CASE Se!readGroups
  <2> DEFINE more == IF host.group = Se!Unread THEN {Se!Err("group_unavailable")}
                     ELSE {<<"malformed_group_entry", r>> : r \in host.group \cap {"short row"}}
  <2>0. /\ pc = "group" /\ UNCHANGED <<host, hist, reply>> /\ cmd \in {"audit", "accounts"}
        /\ pc' = IF Se!Audit THEN "config" ELSE "report"
    BY <1>6 DEF Se!readGroups, SeReports
  <2>1. got'.checks = got.checks \cup Se!accountChecks(got.accounts) /\ got'.errors = got.errors \cup more
    BY <1>6 DEF Se!readGroups, SeWorst
  <2> HIDE DEF more
  <2>2. SeRows
    BY DEF SeReports
  <2>3. Se!ZeroUID \subseteq hist.always => Se!Chk("uid-zero", "warning") \in got'.checks
    <3>1. Se!ZeroUID \cap Se!Malformed = {}
      BY DEF Se!ZeroUID, Se!Malformed
    <3>2. Se!ZeroUID \subseteq hist.always => Se!ZeroUID \subseteq got.accounts
      BY <2>0, <2>2, <3>1 DEF SeRows
    <3> QED
      BY <2>1, <3>2, SeZero
  <2>4. "guest" \in hist.always /\ host.writable => Se!Chk("home-permissions", "warning") \in got'.checks
    <3>1. "guest" \notin Se!Malformed
      BY DEF Se!Malformed
    <3>2. "guest" \in hist.always => "guest" \in got.accounts
      BY <2>0, <2>2, <3>1 DEF SeRows
    <3> QED
      BY <2>1, <3>2, SeHome
  <2>5. Se!MissingAccounts \subseteq got'.errors
    <3>1. (IF host.group = Se!Unread THEN {Se!Err("group_unavailable")} ELSE {}) \subseteq more
      BY DEF more
    <3>2. {<<"malformed_group_entry", r>> : r \in {"short row"} \cap host.group} \subseteq more
      <4>1. host.group = Se!Unread => {"short row"} \cap host.group = {}
        BY DEF Se!Unread
      <4> QED
        BY <4>1 DEF more
    <3>3. /\ {<<"malformed_passwd_entry", r>> : r \in Se!Malformed \cap hist.always} \subseteq got.errors
          /\ (IF host.shadow = Se!Unread THEN {Se!Err("shadow_unavailable")} ELSE {}) \subseteq got.errors
          /\ host.passwd # Se!Unread
      BY <2>0, <2>2 DEF SeRows
    <3>4. got.errors \subseteq got'.errors /\ more \subseteq got'.errors
      BY <2>1
    <3> QED
      BY <3>1, <3>2, <3>3, <3>4 DEF Se!MissingAccounts
  <2>7. \A id, s : Se!Chk(id, s)' = Se!Chk(id, s)
    BY DEF Se!Chk
  <2>8. SeAccounts'
    BY <1>u, <2>0, <2>3, <2>4, <2>5, <2>7, SeMissingStill DEF SeAccounts
  <2>9. SeRows'
    BY <2>0 DEF SeRows
  <2>10. pc' = "config" => cmd = "audit"
    BY <2>0 DEF Se!Audit
  <2>11. pc' = "report" => cmd = "accounts"
    BY <2>0 DEF Se!Audit
  <2>12. pc' \in {"config", "report"}
    BY <2>0
  <2>13. Se!NothingLost' /\ Se!PassIsEarned' /\ reply'.exit # "ok" /\ reply'.status # "pass"
    BY <1>l, <2>0
  <2>14. SeTyped(host)' /\ hist'.always \subseteq host'.passwd /\ cmd' = cmd /\ cmd \in {"audit", "accounts"}
    BY <1>c, <1>y, <2>0
  <2> QED
    BY <2>8, <2>9, <2>10, <2>11, <2>12, <2>13, <2>14 DEF SeReports
<1>7. CASE Se!readSSHConfiguration
  <2>0. /\ pc = "config" /\ UNCHANGED <<host, hist, reply>> /\ cmd \in {"audit", "ssh"} /\ pc' = "sshd"
    BY <1>7 DEF Se!readSSHConfiguration, SeReports
  <2>1. PICK configured, usable : got' = [got EXCEPT !.configured = configured,
           !.errors = got.errors \cup Se!DropinErrors
                        \cup (IF Se!Configured THEN {} ELSE {Se!Err("sshd_config_unavailable")}), !.usable = usable]
    BY <1>7 DEF Se!readSSHConfiguration
  <2>2. /\ got'.checks = got.checks
        /\ got'.errors = got.errors \cup Se!DropinErrors
                           \cup (IF Se!Configured THEN {} ELSE {Se!Err("sshd_config_unavailable")})
    BY <2>1 DEF SeWorst
  <2>4. SeFiles'
    BY <1>u, <2>0, <2>2, SeMissingStill DEF SeFiles
  <2>5. cmd = "audit" => SeAccounts'
    <3>1. cmd = "audit" => SeAccounts
      BY <2>0 DEF SeReports
    <3> QED
      BY <2>0, <2>2, <3>1, SeSaidStill
  <2> QED
    BY <1>c, <1>l, <1>y, <2>0, <2>4, <2>5 DEF SeReports, SeRows
<1>8. CASE Se!collectSSH
  <2> DEFINE works == host.sshd \notin Se!Programs
             effective == IF works THEN host.sshd ELSE "absent"
             usable == got.usable \/ works
  <2>0. /\ pc = "sshd" /\ UNCHANGED <<host, hist>> /\ cmd \in {"audit", "ssh"}
        /\ \/ pc' = (IF cmd = "audit" THEN "nft" ELSE "report") /\ UNCHANGED reply
           \/ pc' = "done" /\ reply' = Se!Failure("dependency")
    BY <1>8 DEF Se!collectSSH, SeReports, Se!Dependency, Se!Audit
  <2>1. got' = [got EXCEPT !.effective = effective, !.usable = usable,
                     !.checks = got.checks \cup Se!sshChecks(effective, got.configured),
                     !.errors = IF works THEN got.errors ELSE got.errors \cup {Se!Err(Se!SshdError[host.sshd])}]
    BY <1>8 DEF Se!collectSSH
  <2> HIDE DEF usable
  <2>2. /\ got'.checks = got.checks \cup Se!sshChecks(effective, got.configured)
        /\ got'.errors = IF works THEN got.errors ELSE got.errors \cup {Se!Err(Se!SshdError[host.sshd])}
    BY <2>1 DEF SeWorst
  <2>3. host.sshd = "yes" => Se!Chk("root-login", "warning") \in got'.checks
    <3>1. Se!Chk("root-login", "warning") \in Se!sshChecks("yes", got.configured)
      BY DEF Se!sshChecks
    <3>2. host.sshd = "yes" => effective = "yes"
      BY DEF Se!Programs
    <3> HIDE DEF effective
    <3> QED
      BY <2>2, <3>1, <3>2
  <2>4. host.sshd \in Se!Programs => Se!Err(Se!SshdError[host.sshd]) \in got'.errors
    BY <2>2
  <2>5. SeDaemon'
    <3>1. Se!Chk("root-login", "warning")' = Se!Chk("root-login", "warning") /\ Se!SshdError' = Se!SshdError
      BY DEF Se!Chk, Se!SshdError
    <3> QED
      BY <1>u, <2>0, <2>3, <2>4, <3>1 DEF SeDaemon
  <2>6. (cmd = "audit" => SeAccounts') /\ SeFiles'
    <3>1. (cmd = "audit" => SeAccounts) /\ SeFiles
      BY <2>0 DEF SeReports
    <3>2. got.checks \subseteq got'.checks /\ got.errors \subseteq got'.errors
      BY <2>2
    <3> QED
      BY <2>0, <3>1, <3>2, SeSaidStill
  <2>7. CASE pc' = "done" /\ reply' = Se!Failure("dependency")
    BY <1>a, <1>f, <2>0, <2>7
  <2>8. CASE pc' = (IF cmd = "audit" THEN "nft" ELSE "report") /\ UNCHANGED reply
    BY <1>c, <1>l, <1>y, <2>0, <2>5, <2>6, <2>8 DEF SeReports, SeRows
  <2> QED
    BY <2>0, <2>7, <2>8
<1>9. CASE Se!nft \/ Se!ufw
  <2> DEFINE name == IF pc = "nft" THEN "nft" ELSE "ufw"
             works == host[name] = "works"
  <2>0. /\ UNCHANGED <<host, hist>> /\ cmd \in {"audit", "firewall"}
        /\ \/ pc = "nft" /\ pc' = "ufw" /\ UNCHANGED reply
           \/ pc = "ufw" /\ pc' = "report" /\ UNCHANGED reply
           \/ pc = "ufw" /\ pc' = "done" /\ \E code \in {"privilege", "dependency"} : reply' = Se!Failure(code)
    BY <1>9 DEF Se!nft, Se!ufw, SeReports
  <2>1. /\ got'.checks = IF works THEN got.checks \cup {Se!Chk("firewall", "pass")} ELSE got.checks
        /\ got'.errors = IF works THEN got.errors ELSE got.errors \cup {<<name, host[name]>>}
    BY <1>9 DEF Se!nft, Se!ufw, Se!firewallProbe, SeWorst
  <2>2. got.checks \subseteq got'.checks /\ got.errors \subseteq got'.errors
    BY <2>1
  <2>3. SeNft' /\ (pc = "ufw" => SeUfw')
    <3>1. CASE pc = "nft"
      BY <2>0, <2>1, <3>1 DEF SeNft
    <3>2. CASE pc = "ufw"
      <4>1. SeNft
        BY <2>0, <3>2 DEF SeReports
      <4>2. SeUfw'
        BY <2>0, <2>1, <3>2 DEF SeUfw
      <4> QED
        BY <2>0, <2>2, <4>1, <4>2, SeSaidStill
    <3> QED
      BY <2>0, <3>1, <3>2
  <2> HIDE DEF name, works
  <2>4. cmd = "audit" => SeAccounts' /\ SeFiles' /\ SeDaemon'
    <3>1. cmd = "audit" => SeAccounts /\ SeFiles /\ SeDaemon
      BY <2>0 DEF SeReports
    <3> QED
      BY <2>0, <2>2, <3>1, SeSaidStill
  <2>5. CASE pc' \in {"ufw", "report"} /\ UNCHANGED reply
    BY <1>c, <1>l, <1>y, <2>0, <2>3, <2>4, <2>5 DEF SeReports, SeRows
  <2>6. CASE pc' = "done" /\ \E code \in {"privilege", "dependency"} : reply' = Se!Failure(code)
    BY <1>a, <1>f, <2>0, <2>6
  <2> QED
    BY <2>0, <2>5, <2>6
<1>10. CASE Se!buildResult
  <2> DEFINE checks == IF Se!Audit THEN Se!Weakened(got.checks, got.errors) ELSE got.checks
             platform == IF host.platform = "unsupported" THEN {Se!Chk("platform", "warning")} ELSE {}
             more == IF host.platform = "unread" THEN {Se!Err("platform_unavailable")} ELSE {}
  <2>0. /\ pc = "report" /\ pc' = "done" /\ UNCHANGED <<host, hist, got>>
        /\ reply' = Se!Built(checks \cup platform, got, got.errors \cup more)
    BY <1>10 DEF Se!buildResult
  <2> HIDE DEF checks, platform, more
  <2>1. /\ reply'.checks = checks \cup platform /\ reply'.errors = got.errors \cup more
        /\ reply'.status = "pass" => got.errors \cup more = {} /\ \A c \in checks \cup platform : c.status \in {"pass", "info"}
    BY <2>0, SeBuilds
  <2>2. ASSUME NEW id, Se!Chk(id, "warning") \in got.checks
        PROVE  \E c \in reply'.checks : c.id = id /\ c.status \in {"warning", "partial"}
    BY <2>1, <2>2, SeFound DEF checks
  <2>3. reply'.status = "pass" => \A id : Se!Chk(id, "warning") \notin got.checks
    <3> SUFFICES ASSUME reply'.status = "pass", NEW id, Se!Chk(id, "warning") \in got.checks PROVE FALSE
      OBVIOUS
    <3>1. PICK c \in checks : c.id = id /\ c.status \in {"warning", "partial"}
      BY SeFound DEF checks
    <3> QED
      BY <2>1, <3>1
  <2>4. /\ cmd \in {"audit", "accounts"} => SeAccounts
        /\ cmd \in {"audit", "ssh"} => SeFiles /\ SeDaemon
        /\ cmd \in {"audit", "firewall"} => SeNft /\ SeUfw
    BY <2>0 DEF SeReports
  <2>5. Se!NothingLost'
    <3>1. cmd \in {"audit", "accounts"} =>
            /\ Se!ZeroUID \subseteq hist.always => \E c \in reply'.checks : c.id = "uid-zero" /\ c.status \in {"warning", "partial"}
            /\ "guest" \in hist.always /\ host.writable => \E c \in reply'.checks : c.id = "home-permissions" /\ c.status \in {"warning", "partial"}
            /\ Se!MissingAccounts \subseteq reply'.errors
      BY <2>1, <2>2, <2>4 DEF SeAccounts
    <3>2. cmd \in {"audit", "ssh"} =>
            /\ host.sshd = "yes" => \E c \in reply'.checks : c.id = "root-login" /\ c.status \in {"warning", "partial"}
            /\ Se!MissingSSH \subseteq reply'.errors
      <4>1. cmd \in {"audit", "ssh"} => {Se!Err(Se!SshdError[p]) : p \in Se!Programs \cap {host.sshd}} \subseteq got.errors
        BY <2>4 DEF SeDaemon
      <4>2. cmd \in {"audit", "ssh"} => Se!MissingSSH \subseteq got.errors
        BY <2>4, <4>1 DEF SeFiles, Se!MissingSSH
      <4> QED
        BY <2>1, <2>2, <2>4, <4>2 DEF SeDaemon
    <3>3. cmd \in {"audit", "firewall"} => Se!MissingFirewall \subseteq reply'.errors
      BY <2>1, <2>4 DEF SeNft, SeUfw, Se!MissingFirewall
    <3>4. host.platform = "unread" => Se!Err("platform_unavailable") \in reply'.errors
      BY <2>1 DEF more
    <3>5. UNCHANGED <<host, hist>>
      BY <2>0
    <3> QED
      BY <1>c, <1>u, <3>1, <3>2, <3>3, <3>4, <3>5, SeMissingStill DEF Se!NothingLost
  <2>6. Se!PassIsEarned'
    <3> SUFFICES ASSUME reply'.status = "pass"
                 PROVE  /\ reply'.errors = {}
                        /\ cmd \in {"audit", "accounts"} => host.shadow # Se!Unread /\ ~ Se!ZeroUID \subseteq hist.always
                        /\ cmd \in {"audit", "ssh"} => host.sshd \in {"no", "none"}
                        /\ cmd \in {"audit", "firewall"} => "works" \in {host.nft, host.ufw}
      BY <1>c, <1>u, <2>0 DEF Se!PassIsEarned
    <3>1. got.errors = {} /\ reply'.errors = {}
      BY <2>1
    <3>2. cmd \in {"audit", "accounts"} => host.shadow # Se!Unread /\ ~ Se!ZeroUID \subseteq hist.always
      <4>1. host.shadow = Se!Unread => Se!MissingAccounts # {}
        BY DEF Se!MissingAccounts
      <4> QED
        BY <2>3, <2>4, <3>1, <4>1 DEF SeAccounts
    <3>3. cmd \in {"audit", "ssh"} => host.sshd \in {"no", "none"}
      BY <2>3, <2>4, <3>1 DEF SeDaemon, SeReports, SeTyped
    <3>4. cmd \in {"audit", "firewall"} => "works" \in {host.nft, host.ufw}
      BY <2>4, <3>1 DEF SeNft
    <3> QED
      BY <3>1, <3>2, <3>3, <3>4
  <2> QED
    BY <1>c, <1>y, <2>0, <2>5, <2>6 DEF SeReports, SeRows
<1>11. CASE Se!Change
  <2> DEFINE rows == IF "toor" \in host.passwd THEN host.passwd \ {"toor"} ELSE host.passwd \cup {"toor"}
  <2>0. /\ pc \in {"passwd", "shadow", "homes", "group"} /\ host.passwd # Se!Unread
        /\ host' = [host EXCEPT !.passwd = rows] /\ hist' = [always |-> hist.always \cap rows, ever |-> hist.ever \cup rows]
        /\ UNCHANGED <<pc, got, reply>>
    BY <1>11 DEF Se!Change, Se!Changes
  <2>1. rows \subseteq Se!Rows
    <3>1. host.passwd \subseteq Se!Rows
      BY <2>0 DEF SeReports, SeTyped
    <3> QED
      BY <3>1 DEF Se!Rows
  <2> HIDE DEF rows
  <2>2. /\ host'.passwd = rows /\ host'.shadow = host.shadow /\ host'.directory = host.directory /\ host'.sshd = host.sshd
        /\ DOMAIN host' = DOMAIN host
        /\ hist'.always = hist.always \cap rows
    BY <2>0 DEF SeReports, SeTyped
  <2>3. SeTyped(host)' /\ hist'.always \subseteq host'.passwd
    BY <1>u, <2>1, <2>2 DEF SeReports, SeTyped
  <2>4. SeRows'
    <3>1. host'.passwd # Se!Unread
      BY <2>1, <2>2 DEF Se!Unread, Se!Rows
    <3>2. SeRows
      BY DEF SeReports
    <3> QED
      BY <1>u, <2>0, <2>2, <3>1, <3>2 DEF SeRows
  <2> QED
    BY <1>c, <1>l, <2>0, <2>3, <2>4 DEF SeReports
<1>12. CASE Se!Deadline
  <2>0. UNCHANGED <<host, hist, pc, got, reply>>
    BY <1>12 DEF Se!Deadline
  <2>1. /\ SeAccounts => SeAccounts'
        /\ SeFiles => SeFiles'
        /\ SeDaemon => SeDaemon'
        /\ SeNft => SeNft'
        /\ SeUfw => SeUfw'
    BY <2>0, SeSaidStill
  <2>2. SeRows'
    BY <1>u, <2>0 DEF SeReports, SeRows
  <2> QED
    BY <1>c, <1>l, <1>y, <2>0, <2>1, <2>2 DEF SeReports
<1> QED
    BY <1>1, <1>2, <1>3, <1>4, <1>5, <1>6, <1>7, <1>8, <1>9, <1>10, <1>11, <1>12 DEF Se!Next, Se!Step

-----------------------------------------------------------------------------
(* Services.  A pass is of a unit that could be run. *)

\* A unit is run only if it is valid and within the limits; a pass is of a program that works.
SvReports ==
    /\ pc = "run" => host.unit = "valid" /\ (cmd = "logs" => got.since > 0 /\ got.lines \in 1..Sv!MaxLogLines)
    /\ reply.status = "pass" => pc = "done"
    /\ Sv!PassIsEarned

\* It holds at the start.
LEMMA SvReportsInit == Sv!Init => SvReports
BY DEF Sv!Init, Sv!Starts, SvReports, Sv!NoReply, Sv!PassIsEarned

\* Every step preserves it.
LEMMA SvReportsNext == SvReports /\ Sv!Next => SvReports'
<1> SUFFICES ASSUME SvReports, Sv!Next PROVE SvReports'
    OBVIOUS
<1> USE DEF SvReports, Sv!PassIsEarned, Sv!Others, Sv!Answer, Sv!GoTo
<1>0. \A code : Sv!Failure(code).status = "none"
    BY DEF Sv!Failure, Sv!NoReply
<1>1. CASE Sv!managerFor
    BY <1>0, <1>1 DEF Sv!managerFor
<1>2. CASE Sv!Validate
    BY <1>0, <1>2 DEF Sv!Validate, Sv!ValidateUnit
<1>3. CASE Sv!Status \/ Sv!Logs
  <2>1. \A how : Sv!Finished(how).status = "pass" => how = "works"
    BY DEF Sv!Finished, Sv!failure, Sv!Result
  <2>2. reply'.status = "pass" => host.program = "works"
    BY <1>3, <2>1 DEF Sv!Status, Sv!Logs
  <2> QED
    BY <1>3, <2>2 DEF Sv!Status, Sv!Logs
<1>4. CASE Sv!Deadline
    BY <1>4 DEF Sv!Deadline
<1> QED
    BY <1>1, <1>2, <1>3, <1>4 DEF Sv!Next, Sv!Step

-----------------------------------------------------------------------------
(* Storage.  The mount that is selected contains the path, and none does that is longer. *)

\* The names on the way to a mount.
StPaths == Seq({"a", "b"})

\* The mounts of a table are somewhere.
StTable(t) == \E n \in Nat : DOMAIN t = 1..n /\ \A i \in 1..n : t[i].point \in StPaths

\* The tables are such.
LEMMA StTables == \A t \in St!Tables : StTable(t)
<1> DEFINE Mount == [point : StPaths, source : St!Sources]
<1>1. <<>> \in StPaths /\ <<"a">> \in StPaths /\ <<"a", "b">> \in StPaths
  <2>1. "a" \in {"a", "b"} /\ "b" \in {"a", "b"}
    OBVIOUS
  <2>2. <<"a">> \in StPaths
    BY <2>1 DEF StPaths
  <2>3. <<"a", "b">> \in StPaths
    BY <2>1 DEF StPaths
  <2> QED
    BY <2>2, <2>3 DEF StPaths
<1>2. \A p \in {<<>>, <<"a">>, <<"a", "b">>}, s \in {"sda", "sdb", "tmpfs"} : St!M(p, s) \in Mount
    BY <1>1 DEF St!M, St!Sources
<1>3. PICK r1, r2, r3, a1, a2, a3, b1, b2, b3 :
        /\ r1 = St!M(<<>>, "sda") /\ r2 = St!M(<<>>, "sdb") /\ r3 = St!M(<<>>, "tmpfs")
        /\ a1 = St!M(<<"a">>, "sda") /\ a2 = St!M(<<"a">>, "sdb") /\ a3 = St!M(<<"a">>, "tmpfs")
        /\ b1 = St!M(<<"a", "b">>, "sda") /\ b2 = St!M(<<"a", "b">>, "sdb") /\ b3 = St!M(<<"a", "b">>, "tmpfs")
    BY Zenon
<1> HIDE DEF Mount
<1>4. {r1, r2, r3, a1, a2, a3, b1, b2, b3} \subseteq Mount
  <2>1. r1 \in Mount /\ r2 \in Mount /\ r3 \in Mount
    BY <1>2, <1>3, Zenon
  <2>2. a1 \in Mount /\ a2 \in Mount /\ a3 \in Mount
    BY <1>2, <1>3, Zenon
  <2>3. b1 \in Mount /\ b2 \in Mount /\ b3 \in Mount
    BY <1>2, <1>3, Zenon
  <2> QED
    BY <2>1, <2>2, <2>3
<1>5. St!Tables = {<<r1>>, <<r1, a2>>, <<r1, a1, b2>>, <<r3>>, <<r1, b2, a3>>, <<r1, a2, a1>>}
    BY <1>3, Zenon DEF St!Tables, St!Root
<1>6. \A t \in St!Tables : t \in Seq(Mount)
  <2>1. \A x \in Mount : <<x>> \in Seq(Mount)
    OBVIOUS
  <2>2. \A x, y \in Mount : <<x, y>> \in Seq(Mount)
    OBVIOUS
  <2>3. \A x, y, z \in Mount : <<x, y, z>> \in Seq(Mount)
    OBVIOUS
  <2>4. /\ r1 \in Mount /\ r3 \in Mount /\ a1 \in Mount
        /\ a2 \in Mount /\ a3 \in Mount /\ b2 \in Mount
    BY <1>4
  <2>5. <<r1>> \in Seq(Mount) /\ <<r3>> \in Seq(Mount)
    BY <2>1, <2>4
  <2>6. <<r1, a2>> \in Seq(Mount)
    BY <2>2, <2>4
  <2>7. /\ <<r1, a1, b2>> \in Seq(Mount) /\ <<r1, b2, a3>> \in Seq(Mount)
        /\ <<r1, a2, a1>> \in Seq(Mount)
    BY <2>3, <2>4
  <2> QED
    BY <1>5, <2>5, <2>6, <2>7, Zenon
<1>7. \A x \in Mount : x.point \in StPaths
    BY DEF Mount
<1>8. \A t \in Seq(Mount) : Len(t) \in Nat /\ DOMAIN t = 1..Len(t) /\ \A i \in 1..Len(t) : t[i] \in Mount
    OBVIOUS
<1> QED
    BY <1>6, <1>7, <1>8 DEF StTable

\* The paths that are asked for.
LEMMA StPath == \A c \in {"all", "a", "a/b"} : St!Path[c] \in StPaths
<1>1. "a" \in {"a", "b"} /\ "b" \in {"a", "b"}
    OBVIOUS
<1>2. <<>> \in StPaths /\ <<"a">> \in StPaths
    BY <1>1 DEF StPaths
<1>3. <<"a", "b">> \in StPaths
    BY <1>1 DEF StPaths
<1>4. ASSUME NEW c \in {"all", "a", "a/b"} PROVE St!Path[c] \in {<<>>, <<"a">>, <<"a", "b">>}
    BY DEF St!Path, St!Root
<1> QED
    BY <1>2, <1>3, <1>4

\* A prefix, by its names.
LEMMA StNames ==
    ASSUME NEW s \in StPaths, NEW t \in StPaths
    PROVE  St!contains(s, t) <=> Len(s) <= Len(t) /\ \A i \in 1..Len(s) : s[i] = t[i]
<1>1. DOMAIN s = 1..Len(s)
    BY DEF StPaths
<1> QED
    BY <1>1 DEF St!contains

\* Of two prefixes of a path the shorter one is one of the longer one.
LEMMA StPrefixes ==
    ASSUME NEW p \in StPaths, NEW q \in StPaths, NEW path \in StPaths, St!contains(q, path)
    PROVE  /\ St!contains(p, q) => St!contains(p, path)
           /\ St!contains(p, path) /\ Len(p) <= Len(q) => St!contains(p, q)
<1>1. Len(p) \in Nat /\ Len(q) \in Nat /\ Len(path) \in Nat
    BY DEF StPaths
<1>2. Len(q) <= Len(path) /\ \A i \in 1..Len(q) : q[i] = path[i]
    BY StNames
<1>3. St!contains(p, q) => St!contains(p, path)
    BY <1>1, <1>2, StNames
<1>4. St!contains(p, path) /\ Len(p) <= Len(q) => St!contains(p, q)
    BY <1>1, <1>2, StNames
<1> QED
    BY <1>3, <1>4

\* The ends of a set of positions.
LEMMA StEnds ==
    ASSUME NEW n \in Nat, NEW S \in SUBSET (1..n), S # {}
    PROVE  /\ St!Max(S) \in S /\ \A j \in S : j <= St!Max(S)
           /\ St!Min(S) \in S /\ \A j \in S : St!Min(S) <= j
<1> DEFINE down == {n - i : i \in S}
<1>1. down \in SUBSET Nat /\ down # {}
  <2>1. \A i \in S : n - i \in Nat
    OBVIOUS
  <2>2. PICK i \in S : TRUE
    OBVIOUS
  <2> QED
    BY <2>1, <2>2
<1>2. PICK d \in down : \A e \in down : d <= e
    BY <1>1, Least
<1>3. PICK i \in S : d = n - i
    BY <1>2
<1>4. \A j \in S : i >= j
  <2> SUFFICES ASSUME NEW j \in S PROVE i >= j
    OBVIOUS
  <2>1. n - j \in down
    OBVIOUS
  <2>2. d <= n - j
    BY <1>2, <2>1
  <2> QED
    BY <1>3, <2>2
<1>5. St!Max(S) \in S /\ \A j \in S : St!Max(S) >= j
    BY <1>4 DEF St!Max
<1>6. S \in SUBSET Nat
    OBVIOUS
<1>7. PICK k \in S : \A j \in S : k <= j
    BY <1>6, Least
<1>8. St!Min(S) \in S /\ \A j \in S : St!Min(S) <= j
    BY <1>7 DEF St!Min
<1> QED
    BY <1>5, <1>8

\* What stands at the deepest mount on the way to a path stands at the path, or that is hidden by a
\* pseudo filesystem.
LEMMA StContains ==
    ASSUME NEW t, StTable(t), NEW path \in StPaths,
           St!containingMount(path, t, St!realMounts(t)) # {}
    PROVE  \E m \in St!Selected(t, St!containingMount(path, t, St!realMounts(t))) :
             St!Standing(t, path) = "tmpfs" \/ St!Standing(t, m.point) = St!Standing(t, path)
<1> DEFINE at == {i \in St!realMounts(t) : St!contains(t[i].point, path)}
           deepest == {i \in at : \A j \in at : Len(t[j].point) <= Len(t[i].point)}
           d == St!Min(deepest)
           on == {i \in DOMAIN t : St!contains(t[i].point, path)}
           above == {i \in DOMAIN t : St!contains(t[i].point, t[d].point)}
           last == St!Max(on)
<1>1. PICK n \in Nat : DOMAIN t = 1..n /\ \A i \in 1..n : t[i].point \in StPaths
    BY DEF StTable
<1>2. at # {} /\ St!containingMount(path, t, St!realMounts(t)) = {d}
    BY DEF St!containingMount
<1>3. at \subseteq 1..n /\ on \subseteq 1..n
    BY <1>1 DEF St!realMounts
<1>4. deepest # {}
  <2> DEFINE far == {Len(path) - Len(t[i].point) : i \in at}
  <2>1. \A i \in at : Len(t[i].point) \in Nat /\ Len(path) \in Nat /\ Len(t[i].point) <= Len(path)
    <3> SUFFICES ASSUME NEW i \in at PROVE Len(t[i].point) \in Nat /\ Len(path) \in Nat /\ Len(t[i].point) <= Len(path)
      OBVIOUS
    <3>1. t[i].point \in StPaths /\ St!contains(t[i].point, path)
      BY <1>1, <1>3
    <3> QED
      BY <3>1, StNames DEF StPaths
  <2>2. far \in SUBSET Nat /\ far # {}
    BY <1>2, <2>1
  <2>3. PICK e \in far : \A f \in far : e <= f
    BY <2>2, Least
  <2>4. PICK i \in at : e = Len(path) - Len(t[i].point)
    BY <2>3
  <2>5. ASSUME NEW j \in at PROVE Len(t[j].point) <= Len(t[i].point)
    <3>1. Len(path) - Len(t[j].point) \in far
      OBVIOUS
    <3>2. e <= Len(path) - Len(t[j].point)
      BY <2>3, <3>1
    <3> QED
      BY <2>1, <2>4, <3>2
  <2> QED
    BY <2>5
<1>5. d \in deepest
  <2>1. deepest \in SUBSET (1..n)
    BY <1>3
  <2> HIDE DEF deepest
  <2> QED
    BY <1>4, <2>1, StEnds
<1>6. t[d] \in St!Selected(t, {d})
  <2>1. d \in Nat
    BY <1>3, <1>5
  <2> HIDE DEF d
  <2> QED
    BY <2>1 DEF St!Selected
<1>7. d \in 1..n /\ t[d].point \in StPaths /\ St!contains(t[d].point, path) /\ \A j \in at : Len(t[j].point) <= Len(t[d].point)
    BY <1>1, <1>3, <1>5
<1> HIDE DEF d
<1>8. on # {} /\ last \in on /\ \A j \in on : j <= last
  <2>1. d \in on
    BY <1>1, <1>7
  <2> HIDE DEF on
  <2> QED
    BY <1>3, <2>1, StEnds
<1>9. St!Standing(t, path) = t[last].source
    BY <1>8 DEF St!Standing
<1>10. CASE St!Pseudo(t[last])
    BY <1>2, <1>6, <1>9, <1>10 DEF St!Pseudo
<1>11. CASE ~ St!Pseudo(t[last])
  <2>1. last \in at
    BY <1>8, <1>11 DEF St!realMounts
  <2>2. last \in 1..n /\ t[last].point \in StPaths /\ St!contains(t[last].point, path)
        /\ Len(t[last].point) <= Len(t[d].point)
    BY <1>1, <1>3, <1>7, <2>1
  <2> HIDE DEF last, on
  <2>3. last \in above
    BY <1>1, <1>7, <2>2, StPrefixes
  <2>4. ASSUME NEW i \in above PROVE i \in on
    <3>1. i \in 1..n /\ t[i].point \in StPaths /\ St!contains(t[i].point, t[d].point)
      BY <1>1, <2>4
    <3> QED
      BY <1>1, <1>7, <3>1, StPrefixes DEF on
  <2>5. St!Max(above) = last
    <3>1. above \subseteq 1..n /\ above # {}
      BY <1>1, <2>3
    <3> HIDE DEF above
    <3>2. St!Max(above) \in above /\ last <= St!Max(above)
      BY <2>3, <3>1, StEnds
    <3>3. PICK k, l : k = St!Max(above) /\ l = last
      OBVIOUS
    <3>4. k \in Nat /\ l \in Nat /\ l <= k /\ k <= l
      <4>1. k \in above /\ l <= k
        BY <3>2, <3>3
      <4>2. k <= l
        BY <1>8, <2>4, <3>3, <4>1
      <4> QED
        BY <2>2, <3>1, <3>3, <4>1, <4>2
    <3> QED
      BY <3>3, <3>4
  <2>6. St!Standing(t, t[d].point) = t[last].source
    BY <2>3, <2>5 DEF St!Standing
  <2> QED
    BY <1>2, <1>6, <1>9, <2>6
<1> QED
    BY <1>10, <1>11

\* Of every point that has a mount one is selected.
LEMMA StSelects ==
    ASSUME NEW t, StTable(t), NEW i \in St!realMounts(t)
    PROVE  \E m \in St!Selected(t, St!realMounts(t)) : m.point = t[i].point
<1> DEFINE same == {j \in St!realMounts(t) : t[j].point = t[i].point}
<1>1. same \in SUBSET Nat /\ same # {}
    BY DEF StTable, St!realMounts
<1>2. PICK j \in same : \A k \in same : j <= k
    BY <1>1, Least
<1>3. \A k \in St!realMounts(t) : k < j => t[k].point # t[j].point
  <2> SUFFICES ASSUME NEW k \in St!realMounts(t), k < j, t[k].point = t[j].point PROVE FALSE
    OBVIOUS
  <2>1. k \in same
    BY <1>2
  <2>2. j <= k /\ j \in Nat /\ k \in Nat
    BY <1>1, <1>2, <2>1
  <2> QED
    BY <2>2
<1>4. t[j] \in St!Selected(t, St!realMounts(t))
    BY <1>2, <1>3 DEF St!Selected
<1> QED
    BY <1>2, <1>4

\* What is to be reported is still to be asked, or is asked.
StAsks ==
    IF cmd = "all"
    THEN \A i \in DOMAIN hist.table : ~ St!Pseudo(hist.table[i]) =>
           \/ \E m \in got.mounts : m.point = hist.table[i].point
           \/ \E r \in got.items : r.mount.point = hist.table[i].point
    ELSE \/ St!Standing(hist.table, St!Path[cmd]) = "tmpfs"
         \/ \E m \in got.mounts : St!Standing(hist.table, m.point) = St!Standing(hist.table, St!Path[cmd])
         \/ \E r \in got.items : r.asked = St!Standing(hist.table, St!Path[cmd])

\* While nobody mounts anything the table is the one that was read, and nothing of it is passed over.
StReports ==
    /\ cmd \in {"all", "a", "a/b"}
    /\ {"table", "used"} \subseteq DOMAIN host /\ {"mounts", "items"} \subseteq DOMAIN got
    /\ DOMAIN hist = {"table", "settled"}
    /\ hist.settled => StTable(host.table) /\ host.table = hist.table
    /\ pc = "stat" /\ hist.settled => StAsks
    /\ reply.exit = "ok" => pc = "done"
    /\ St!NothingLost

\* It holds at the start.
LEMMA StReportsInit == St!Init => StReports
<1> SUFFICES ASSUME St!Init PROVE StReports
    OBVIOUS
<1>1. /\ cmd \in {"all", "a", "a/b"} /\ host \in [table : St!Tables, used : [St!Sources -> St!Percents]]
      /\ hist = [table |-> host.table, settled |-> TRUE] /\ got = [mounts |-> {}, items |-> {}]
      /\ pc = "start" /\ reply = St!NoReply
    BY DEF St!Init, St!Starts
<1>2. {"table", "used"} \subseteq DOMAIN host /\ StTable(host.table)
    BY <1>1, StTables
<1>3. St!NothingLost
    BY <1>1 DEF St!NothingLost, St!NoReply
<1> QED
    BY <1>1, <1>2, <1>3 DEF StReports, St!NoReply

\* Every step preserves it.
LEMMA StReportsNext == StReports /\ St!Next => StReports'
<1> SUFFICES ASSUME StReports, St!Next PROVE StReports'
    OBVIOUS
<1> USE DEF St!Others, St!Answer, St!GoTo
<1>c. cmd' = cmd
    BY DEF St!Next, St!Step, St!Configure, St!ReadTable, St!TableFails, St!Stat, St!Report, St!Change, St!Changes, St!Deadline
<1>k. St!Path' = St!Path
    BY DEF St!Path, St!Root
<1>s. \A p : St!Standing(hist.table, p)' = St!Standing(hist'.table, p')
    BY DEF St!Standing
<1>q. pc # "done" => reply.exit # "ok"
    BY DEF StReports
<1>a. CASE UNCHANGED <<host, hist, got>> /\ pc' # "stat" /\ reply'.exit # "ok"
    BY <1>a, <1>c DEF StReports, StTable, St!NothingLost
<1>f. \A code : code # "ok" => St!Failure(code).exit # "ok"
    BY StReply
<1>1. CASE St!Configure
  <2>1. /\ pc = "start" /\ UNCHANGED <<host, hist, got>>
        /\ \/ pc' = "done" /\ reply'.exit # "ok"
           \/ pc' = "table" /\ UNCHANGED reply
    BY <1>1, <1>f DEF St!Configure
  <2> QED
    BY <1>a, <1>q, <2>1
<1>2. CASE St!ReadTable
  <2> DEFINE mounts == St!realMounts(host.table)
             chosen == IF cmd = "all" THEN mounts ELSE St!containingMount(St!Path[cmd], host.table, mounts)
  <2>1. pc = "table" /\ UNCHANGED <<host, hist>>
    BY <1>2 DEF St!ReadTable
  <2>2. CASE cmd # "all" /\ chosen = {}
    <3>1. St!Answer(St!Failure("general")) /\ UNCHANGED got
      BY <1>2, <2>2 DEF St!ReadTable
    <3> QED
      BY <1>a, <1>f, <2>1, <3>1
  <2>3. CASE ~ (cmd # "all" /\ chosen = {})
    <3>1. got' = [got EXCEPT !.mounts = St!Selected(host.table, chosen)] /\ pc' = "stat" /\ UNCHANGED reply
      BY <1>2, <2>3 DEF St!ReadTable
    <3>2. {"mounts", "items"} \subseteq DOMAIN got' /\ got'.mounts = St!Selected(host.table, chosen)
      BY <3>1 DEF StReports
    <3>3. ASSUME hist.settled, cmd = "all" PROVE StAsks'
      <4>1. got'.mounts = St!Selected(hist.table, St!realMounts(hist.table)) /\ StTable(hist.table)
        BY <3>2, <3>3 DEF StReports
      <4>2. \A i \in DOMAIN hist.table : ~ St!Pseudo(hist.table[i]) => \E m \in got'.mounts : m.point = hist.table[i].point
        <5> SUFFICES ASSUME NEW i \in DOMAIN hist.table, ~ St!Pseudo(hist.table[i])
                     PROVE  \E m \in got'.mounts : m.point = hist.table[i].point
          OBVIOUS
        <5>1. i \in St!realMounts(hist.table)
          BY DEF St!realMounts
        <5> QED
          BY <4>1, <5>1, StSelects
      <4> QED
        BY <1>c, <2>1, <3>3, <4>2 DEF StAsks
    <3>4. ASSUME hist.settled, cmd # "all" PROVE StAsks'
      <4> DEFINE path == St!Path[cmd]
                 held == St!containingMount(path, hist.table, St!realMounts(hist.table))
      <4>1. got'.mounts = St!Selected(hist.table, held) /\ StTable(hist.table) /\ held # {}
        BY <2>3, <3>2, <3>4 DEF StReports
      <4>2. path \in StPaths
        BY StPath DEF StReports
      <4>3. PICK p : p = path
        OBVIOUS
      <4>4. \E m \in got'.mounts : St!Standing(hist.table, p) = "tmpfs" \/ St!Standing(hist.table, m.point) = St!Standing(hist.table, p)
        BY <4>1, <4>2, <4>3, StContains
      <4>5. St!Path[cmd]' = p
        BY <1>c, <1>k, <4>3
      <4>6. \A x : St!Standing(hist.table, x)' = St!Standing(hist.table, x')
        BY <1>s, <2>1 DEF St!Standing
      <4> QED
        BY <1>c, <1>k, <2>1, <3>4, <4>3, <4>4 DEF StAsks
    <3> QED
      BY <1>c, <1>q, <2>1, <3>1, <3>2, <3>3, <3>4 DEF StReports, StTable, St!NothingLost
  <2> QED
    BY <2>2, <2>3
<1>3. CASE St!TableFails
    BY <1>3, <1>a, <1>f DEF St!TableFails
<1>4. CASE St!Stat
  <2>0. PICK m \in got.mounts :
           LET there == St!Standing(host.table, m.point)
               used  == IF there = "none" THEN St!Broken ELSE host.used[there]
           IN got' = [mounts |-> got.mounts \ {m},
                      items |-> got.items \cup {[mount |-> m, asked |-> there,
                        percent |-> IF used = St!Broken THEN St!Broken ELSE St!boundedPercent(used, 100)]}]
    BY <1>4 DEF St!Stat
  <2> DEFINE there == St!Standing(host.table, m.point)
             used  == IF there = "none" THEN St!Broken ELSE host.used[there]
             x == [mount |-> m, asked |-> there,
                   percent |-> IF used = St!Broken THEN St!Broken ELSE St!boundedPercent(used, 100)]
  <2>1. got' = [mounts |-> got.mounts \ {m}, items |-> got.items \cup {x}]
    BY <2>0
  <2>2. pc = "stat" /\ pc' = "stat" /\ UNCHANGED <<host, hist, reply>>
    BY <1>4 DEF St!Stat
  <2>3. x.mount = m /\ x.asked = St!Standing(host.table, m.point)
    OBVIOUS
  <2> HIDE DEF x
  <2>4. got'.mounts = got.mounts \ {m} /\ got'.items = got.items \cup {x} /\ DOMAIN got' = {"mounts", "items"}
    BY <2>1
  <2>5. ASSUME hist.settled PROVE StAsks'
    <3>1. StAsks /\ x.asked = St!Standing(hist.table, m.point)
      BY <2>2, <2>3, <2>5 DEF StReports
    <3>2. CASE cmd = "all"
      BY <1>c, <2>2, <2>3, <2>4, <3>1, <3>2 DEF StAsks
    <3>3. CASE cmd # "all"
      BY <1>c, <1>k, <2>2, <2>4, <3>1, <3>3 DEF StAsks
    <3> QED
      BY <3>2, <3>3
  <2> QED
    BY <1>c, <1>q, <2>2, <2>4, <2>5 DEF StReports, StTable, St!NothingLost
<1>5. CASE St!Report
  <2>1. /\ pc = "stat" /\ got.mounts = {} /\ pc' = "done" /\ UNCHANGED <<host, hist, got>>
        /\ reply'.data = got.items
    BY <1>5, StReply DEF St!Report
  <2>2. hist.settled => StAsks
    BY <2>1 DEF StReports
  <2>3. St!NothingLost'
    BY <1>c, <1>k, <2>1, <2>2 DEF St!NothingLost, StAsks
  <2> QED
    BY <1>c, <2>1, <2>3 DEF StReports, StTable
<1>6. CASE St!Change
  <2>1. PICK t \in St!Tables : pc = "stat" /\ St!Changes([host EXCEPT !.table = t], [hist EXCEPT !.settled = FALSE])
    BY <1>6 DEF St!Change
  <2>2. /\ pc = "stat" /\ UNCHANGED <<pc, got, reply>> /\ DOMAIN host' = DOMAIN host /\ DOMAIN hist' = DOMAIN hist
        /\ ~ hist'.settled
    BY <2>1 DEF St!Changes, StReports
  <2> QED
    BY <1>c, <1>q, <2>2 DEF StReports, St!NothingLost
<1>7. CASE St!Deadline
  <2>1. UNCHANGED <<host, hist, pc, got, reply>>
    BY <1>7 DEF St!Deadline
  <2>2. StAsks' = StAsks
    BY <1>c, <1>k, <2>1 DEF StAsks
  <2>3. St!NothingLost' = St!NothingLost
    BY <1>c, <1>k, <2>1 DEF St!NothingLost
  <2> QED
    BY <1>c, <2>1, <2>2, <2>3 DEF StReports, StTable
<1> QED
    BY <1>1, <1>2, <1>3, <1>4, <1>5, <1>6, <1>7 DEF St!Next, St!Step

-----------------------------------------------------------------------------
(* System.  What could not be read has an error, and what is measured is among the checks. *)

\* What is measured is a number.
SyNumbers(h) == {"memory", "root", "data"} \subseteq DOMAIN h /\ \A f \in {"memory", "root", "data"} : h[f] \in Nat

\* It is so after one more field was given a value of those it may have.
LEMMA SyVaried ==
    ASSUME NEW hosts, NEW values, \A h \in hosts : SyNumbers(h),
           \A f \in {"memory", "root", "data"} \cap DOMAIN values : values[f] \subseteq Nat
    PROVE  \A h \in Sy!Varied(hosts, values) : SyNumbers(h)
<1> SUFFICES ASSUME NEW g \in Sy!Varied(hosts, values), g \notin hosts PROVE SyNumbers(g)
    OBVIOUS
<1>1. PICK h \in hosts, f \in DOMAIN values : g \in {[h EXCEPT ![f] = v] : v \in values[f]}
    BY DEF Sy!Varied
<1>2. PICK v \in values[f] : g = [h EXCEPT ![f] = v]
    BY <1>1
<1>3. SyNumbers(h)
    OBVIOUS
<1> QED
    BY <1>2, <1>3 DEF SyNumbers

\* Every host that a run may find is measured in numbers.
LEMMA SyHosts == \A h \in Sy!Hosts : SyNumbers(h)
<1> DEFINE values == [config |-> {"invalid"}, os_release |-> {"ubuntu", "unread"}, kernel |-> {"unread"},
                      hostname |-> {"unread"}, uptime |-> {"unread"}, cpu |-> {"unread"},
                      memory |-> Sy!Percents, load |-> {"unread"},
                      cgroup |-> {"docker"}, virt |-> {"kvm", "unread"},
                      sync |-> {"no", "junk", "exits", "absent"}, reboot |-> {TRUE},
                      units |-> {"failed", "exits", "absent"}, oom |-> {"killed", "exits", "absent"},
                      root |-> {79, 80, 90, Sy!Unread}, data |-> {80, 90, Sy!Unread}, mounts |-> {"unread"}]
<1>1. values.memory \subseteq Nat /\ values.root \subseteq Nat /\ values.data \subseteq Nat
    BY DEF Sy!Percents, Sy!Unread
<1>2. Sy!Usual.memory = 10 /\ Sy!Usual.root = 10 /\ Sy!Usual.data = 10
      /\ {"memory", "root", "data"} \subseteq DOMAIN Sy!Usual
    BY DEF Sy!Usual
<1>3. SyNumbers(Sy!Usual)
    BY <1>2 DEF SyNumbers
<1>4. Sy!Hosts = Sy!Varied(Sy!Varied({Sy!Usual}, values), values)
    BY DEF Sy!Hosts
<1> HIDE DEF values
<1>5. \A f \in {"memory", "root", "data"} \cap DOMAIN values : values[f] \subseteq Nat
    BY <1>1
<1>6. \A h \in Sy!Varied({Sy!Usual}, values) : SyNumbers(h)
    BY <1>3, <1>5, SyVaried
<1> QED
    BY <1>4, <1>5, <1>6, SyVaried

\* The checks of the snapshot are made of what there is.
SyChecked ==
    /\ {Sy!Chk("os", Sy!osCheck), Sy!Chk("memory", Sy!memoryCheck), Sy!Chk("time-sync", Sy!timeCheck),
        Sy!Chk("reboot", IF host.reboot THEN "warning" ELSE "pass")} \subseteq got.checks
    /\ \/ got.errors # {}
       \/ \A u \in {host.root, host.data} : \E p : Sy!Chk(p, Sy!filesystemCheck([point |-> p, used |-> u])) \in got.checks

\* A check that was made stays with the answer.
LEMMA SyCheckedStill ==
    ASSUME SyChecked, UNCHANGED host, got'.sync = got.sync, got.checks \subseteq got'.checks, got.errors \subseteq got'.errors
    PROVE  SyChecked'
<1>1. (Sy!osCheck)' = Sy!osCheck /\ (Sy!memoryCheck)' = Sy!memoryCheck /\ (Sy!timeCheck)' = Sy!timeCheck
    BY DEF Sy!osCheck, Sy!memoryCheck, Sy!timeCheck
<1>2. got.errors # {} => got'.errors # {}
    OBVIOUS
<1>3. CASE got.errors # {}
    BY <1>1, <1>2, <1>3 DEF SyChecked
<1>4. CASE got.errors = {}
  <2>1. \A u \in {host.root, host.data} : \E p : Sy!Chk(p, Sy!filesystemCheck([point |-> p, used |-> u])) \in got'.checks
    BY <1>4 DEF SyChecked
  <2> QED
    BY <1>1, <2>1 DEF SyChecked
<1> QED
    BY <1>3, <1>4

\* What was read so far, and which of it has an error.
SyReports ==
    /\ SyNumbers(host)
    /\ {"errors", "virt", "sync", "usage", "checks"} \subseteq DOMAIN got
    /\ hist.late => ctx = "done"
    /\ pc = "start" => ctx = "live"
    /\ got.sync \in {"yes", "no", "unread"} /\ (got.sync # "unread" => got.sync = host.sync)
    /\ cmd = "health" /\ pc \in {"files", "virt", "sync", "checks"} =>
         \/ host.mounts = "unread" /\ got.usage = {[point |-> "", used |-> Sy!Unread]}
         \/ got.usage = {[point |-> "/", used |-> host.root], [point |-> "/data", used |-> host.data]}
    /\ pc \in {"virt", "sync", "checks", "units", "oom", "report"} =>
         \A f \in Sy!Fields : host[f] = "unread" => Sy!structuredFailure(f) \in got.errors
    /\ pc \in {"units", "oom", "report"} /\ cmd = "health" => SyChecked
    /\ pc \in {"oom", "report"} /\ cmd = "health" => \E c \in got.checks : c.id = "failed-units" /\ (host.units = "none" \/ c.status \in {"warning", "skipped"})
    /\ pc = "report" /\ cmd = "health" =>
         /\ \E c \in got.checks : host.oom = "none" \/ c.status \in {"critical", "skipped"}
         /\ ctx = "done" => got.errors # {}
    /\ reply.exit = "ok" \/ reply.status = "pass" => pc = "done"
    /\ Sy!NothingLost /\ Sy!PassIsEarned

\* It holds at the start.
LEMMA SyReportsInit == Sy!Init => SyReports
<1> SUFFICES ASSUME Sy!Init PROVE SyReports
    OBVIOUS
<1>1. /\ host \in Sy!Hosts /\ got = Sy!NothingRead /\ pc = "start" /\ ctx = "live" /\ hist = [late |-> FALSE]
      /\ reply = Sy!NoReply
    BY DEF Sy!Init, Sy!Starts
<1>2. SyNumbers(host)
    BY <1>1, SyHosts
<1> QED
    BY <1>1, <1>2 DEF SyReports, Sy!NothingRead, Sy!NoReply, Sy!NothingLost, Sy!PassIsEarned

\* What a status says of the checks and the errors.
LEMMA SyStatus ==
    ASSUME NEW checks, NEW errors
    PROVE  /\ errors # {} => Sy!aggregateStatus(checks, errors) \in {"partial", "critical"}
           /\ Sy!aggregateStatus(checks, errors) = "pass" =>
                errors = {} /\ \A c \in checks : c.status \notin {"critical", "warning", "skipped"}
BY DEF Sy!aggregateStatus

\* If the checks of the snapshot pass, there is nothing to say of it.
LEMMA SyInOrder ==
    ASSUME SyChecked, SyNumbers(host), got.errors = {}, got.sync \in {"yes", "no", "unread"},
           \A c \in got.checks : c.status \notin {"critical", "warning", "skipped"}
    PROVE  /\ host.os_release = "debian" /\ host.memory < 85 /\ host.root < 80 /\ host.data < 80
           /\ got.sync = "yes" /\ ~ host.reboot
<1> USE DEF Sy!Chk
<1>1. \A id, s : Sy!Chk(id, s).status = s
    OBVIOUS
<1>2. host.os_release = "debian"
    BY <1>1 DEF SyChecked, Sy!osCheck
<1>3. host.memory < 85
  <2>1. Sy!memoryCheck \notin {"critical", "warning", "skipped"}
    BY <1>1 DEF SyChecked
  <2> QED
    BY <2>1 DEF Sy!memoryCheck, Sy!Limit, SyNumbers
<1>4. got.sync = "yes"
  <2>1. Sy!timeCheck \notin {"warning", "skipped"}
    BY <1>1 DEF SyChecked
  <2> QED
    BY <2>1 DEF Sy!timeCheck
<1>5. ~ host.reboot
  <2>1. (IF host.reboot THEN "warning" ELSE "pass") # "warning"
    BY <1>1 DEF SyChecked
  <2> QED
    BY <2>1
<1>6. ASSUME NEW u \in {host.root, host.data} PROVE u < 80
  <2>1. PICK p : Sy!Chk(p, Sy!filesystemCheck([point |-> p, used |-> u])) \in got.checks
    BY DEF SyChecked
  <2>2. Sy!filesystemCheck([point |-> p, used |-> u]) \notin {"critical", "warning", "skipped"}
    BY <1>1, <2>1
  <2>3. u \in Nat
    BY DEF SyNumbers
  <2> QED
    BY <2>2, <2>3 DEF Sy!filesystemCheck, Sy!Limit
<1> QED
    BY <1>2, <1>3, <1>4, <1>5, <1>6

\* Every step preserves it.
LEMMA SyReportsNext == SyReports /\ Sy!Next => SyReports'
<1> SUFFICES ASSUME SyReports, Sy!Next PROVE SyReports'
    OBVIOUS
<1> USE DEF Sy!Others, Sy!Answer, Sy!GoTo
<1>a. CASE /\ UNCHANGED <<cmd, ctx, host, hist, got>> /\ pc' = "done" /\ reply'.status # "pass" /\ reply'.exit # "ok"
    BY <1>a DEF SyReports, Sy!NothingLost, Sy!PassIsEarned
<1>k. /\ UNCHANGED <<cmd, host>>
    BY DEF Sy!Next, Sy!Step, Sy!Dispatch, Sy!ReadFiles, Sy!DetectVirt, Sy!timeSynchronized, Sy!InfoResult,
           Sy!SnapshotChecks, Sy!failedUnits, Sy!oomEvents, Sy!HealthResult, Sy!Expire
<1>p. CASE UNCHANGED reply /\ pc # "done" /\ reply.exit # "ok" /\ reply.status # "pass"
        /\ pc' # "done" /\ (Sy!NothingLost' /\ Sy!PassIsEarned' => SyReports')
    BY <1>p DEF Sy!NothingLost, Sy!PassIsEarned
<1>q. pc # "done" => reply.exit # "ok" /\ reply.status # "pass"
    BY DEF SyReports
<1>1. CASE Sy!Dispatch
  <2>1. CASE \E code \in {"arguments", "configuration"} : Sy!Answer(Sy!Failure(code)) /\ UNCHANGED got
    BY <1>a, <1>1, <2>1 DEF Sy!Dispatch, Sy!Failure, Sy!NoReply
  <2>2. CASE /\ got' = [got EXCEPT !.usage =
                   IF cmd = "info" THEN {}
                   ELSE IF host.mounts = "unread" THEN {[point |-> "", used |-> Sy!Unread]}
                   ELSE {[point |-> "/", used |-> host.root], [point |-> "/data", used |-> host.data]}]
             /\ pc' = "files" /\ UNCHANGED reply
    <3>1. pc = "start" /\ UNCHANGED <<cmd, ctx, host, hist>>
      BY <1>1 DEF Sy!Dispatch
    <3> QED
      BY <1>p, <1>q, <2>2, <3>1 DEF SyReports
  <2> QED
    BY <1>1, <2>1, <2>2 DEF Sy!Dispatch
<1>2. CASE Sy!ReadFiles
    BY <1>p, <1>q, <1>2 DEF Sy!ReadFiles, SyReports
<1>3. CASE Sy!DetectVirt
    BY <1>p, <1>q, <1>3 DEF Sy!DetectVirt, SyReports
<1>4. CASE Sy!timeSynchronized
  <2>1. /\ got'.sync \in {"yes", "no", "unread"} /\ (got'.sync # "unread" => got'.sync = host.sync)
        /\ got'.usage = got.usage /\ got.errors \subseteq got'.errors
        /\ {"errors", "virt", "sync", "usage", "checks"} \subseteq DOMAIN got'
    BY <1>4 DEF Sy!timeSynchronized, Sy!Outcome, SyReports
  <2>2. pc = "sync" /\ pc' = (IF cmd = "info" THEN "report" ELSE "checks") /\ UNCHANGED <<cmd, ctx, host, hist, reply>>
    BY <1>4 DEF Sy!timeSynchronized
  <2> QED
    BY <1>p, <1>q, <2>1, <2>2 DEF SyReports
<1>5. CASE Sy!InfoResult
  <2>1. /\ reply'.errors = got.errors /\ reply'.status = IF got.errors = {} THEN "pass" ELSE "partial"
    BY <1>5, SyResult DEF Sy!InfoResult
  <2> QED
    BY <1>5, <2>1 DEF Sy!InfoResult, SyReports, Sy!NothingLost, Sy!PassIsEarned
<1>6. CASE Sy!SnapshotChecks
  <2> DEFINE made == {Sy!Chk("os", Sy!osCheck), Sy!Chk("memory", Sy!memoryCheck), Sy!Chk("load", "info"),
                      Sy!Chk("time-sync", Sy!timeCheck), Sy!Chk("reboot", IF host.reboot THEN "warning" ELSE "pass")}
             disks == {Sy!Chk(u.point, Sy!filesystemCheck(u)) : u \in got.usage}
             missing == {Sy!structuredFailure(u.point) : u \in {x \in got.usage : x.used = Sy!Unread}}
  <2>1. /\ got'.checks = made \cup disks /\ got'.errors = got.errors \cup missing
        /\ UNCHANGED <<got.sync, got.usage>> /\ DOMAIN got' = DOMAIN got
        /\ pc = "checks" /\ pc' = "units" /\ UNCHANGED <<cmd, ctx, host, hist, reply>>
    BY <1>6 DEF Sy!SnapshotChecks, SyReports
  <2>2. cmd = "health" => SyChecked'
    <3> SUFFICES ASSUME cmd = "health" PROVE SyChecked'
      OBVIOUS
    <3>1. (Sy!osCheck)' = Sy!osCheck /\ (Sy!memoryCheck)' = Sy!memoryCheck /\ (Sy!timeCheck)' = Sy!timeCheck
      BY <2>1 DEF Sy!osCheck, Sy!memoryCheck, Sy!timeCheck
    <3>2. made \subseteq got'.checks
      BY <2>1
    <3>3. CASE host.mounts = "unread" /\ got.usage = {[point |-> "", used |-> Sy!Unread]}
      <4>1. Sy!structuredFailure("") \in missing
        BY <3>3
      <4>2. got'.errors # {}
        BY <2>1, <4>1
      <4> QED
        BY <2>1, <3>1, <3>2, <4>2 DEF SyChecked
    <3>4. CASE got.usage = {[point |-> "/", used |-> host.root], [point |-> "/data", used |-> host.data]}
      <4>1. /\ Sy!Chk("/", Sy!filesystemCheck([point |-> "/", used |-> host.root])) \in disks
            /\ Sy!Chk("/data", Sy!filesystemCheck([point |-> "/data", used |-> host.data])) \in disks
        BY <3>4
      <4> HIDE DEF disks
      <4>2. \A u \in {host.root, host.data} : \E p : Sy!Chk(p, Sy!filesystemCheck([point |-> p, used |-> u])) \in got'.checks
        BY <2>1, <4>1
      <4> QED
        BY <2>1, <3>1, <3>2, <4>2 DEF SyChecked
    <3> QED
      BY <2>1, <3>3, <3>4 DEF SyReports
  <2> HIDE DEF made, disks, missing
  <2> QED
    BY <1>p, <1>q, <2>1, <2>2 DEF SyReports
<1>7. CASE Sy!failedUnits
  <2> DEFINE said == Sy!Outcome(host.units)
             new == Sy!Chk("failed-units", CASE said = "none" -> "pass" [] said \in {"failed", "killed"} -> "warning" [] OTHER -> "skipped")
  <2>1. /\ got'.checks = got.checks \cup {new} /\ got.errors \subseteq got'.errors
        /\ UNCHANGED <<got.sync, got.usage>> /\ DOMAIN got' = DOMAIN got
        /\ pc = "units" /\ pc' = "oom" /\ UNCHANGED <<cmd, ctx, host, hist, reply>>
    BY <1>7 DEF Sy!failedUnits, Sy!Checked, SyReports
  <2>2. new.id = "failed-units" /\ (host.units = "none" \/ new.status \in {"warning", "skipped"})
    BY DEF Sy!Chk, Sy!Outcome
  <2> HIDE DEF new
  <2>3. cmd = "health" => SyChecked'
    BY <2>1, SyCheckedStill DEF SyReports
  <2> QED
    BY <1>p, <1>q, <2>1, <2>2, <2>3 DEF SyReports
<1>8. CASE Sy!oomEvents
  <2> DEFINE said == Sy!Outcome(host.oom)
             new == Sy!Chk("oom", CASE said = "none" -> "pass" [] said \in {"failed", "killed"} -> "critical" [] OTHER -> "skipped")
  <2>1. /\ got'.checks = got.checks \cup {new} /\ got.errors \subseteq got'.errors
        /\ UNCHANGED <<got.sync, got.usage>> /\ DOMAIN got' = DOMAIN got
        /\ pc = "oom" /\ pc' = "report" /\ UNCHANGED <<cmd, ctx, host, hist, reply>>
    BY <1>8 DEF Sy!oomEvents, Sy!Checked, SyReports
  <2>2. host.oom = "none" \/ new.status \in {"critical", "skipped"}
    BY DEF Sy!Chk, Sy!Outcome
  <2>4. ctx = "done" => got'.errors # {}
    <3>1. ctx = "done" => said = "killed at the deadline"
      BY DEF Sy!Outcome, Sy!Live
    <3> QED
      BY <1>8, <3>1 DEF Sy!oomEvents, Sy!Checked, SyReports
  <2> HIDE DEF new
  <2>3. cmd = "health" => SyChecked'
    BY <2>1, SyCheckedStill DEF SyReports
  <2> QED
    BY <1>p, <1>q, <2>1, <2>2, <2>3, <2>4 DEF SyReports
<1>9. CASE Sy!HealthResult
  <2>1. /\ reply'.status = Sy!aggregateStatus(got.checks, got.errors) /\ reply'.errors = got.errors
        /\ pc = "report" /\ pc' = "done" /\ cmd = "health" /\ UNCHANGED <<cmd, ctx, host, hist, got>>
    BY <1>9, SyResult DEF Sy!HealthResult
  <2>2. got.errors # {} => reply'.status \in {"partial", "critical"}
    BY <2>1, SyStatus
  <2>3. reply'.status = "pass" => got.errors = {} /\ \A c \in got.checks : c.status \notin {"critical", "warning", "skipped"}
    <3>1. Sy!aggregateStatus(got.checks, got.errors) = "pass" =>
             got.errors = {} /\ \A c \in got.checks : c.status \notin {"critical", "warning", "skipped"}
      BY SyStatus, Zenon
    <3> QED
      BY <2>1, <3>1, Zenon
  <2>4. Sy!NothingLost'
    BY <2>1, <2>2 DEF SyReports, Sy!NothingLost
  <2>5. reply'.status = "pass" => /\ host.os_release = "debian" /\ host.memory < 85 /\ host.root < 80 /\ host.data < 80
                                  /\ got.sync = "yes" /\ ~ host.reboot
    BY <2>1, <2>3, SyInOrder DEF SyReports
  <2>6. reply'.status = "pass" => host.units = "none" /\ host.oom = "none"
    BY <2>1, <2>3 DEF SyReports
  <2>7. Sy!PassIsEarned'
    BY <2>1, <2>5, <2>6 DEF SyReports, Sy!PassIsEarned
  <2> QED
    BY <2>1, <2>4, <2>7 DEF SyReports
<1>10. CASE Sy!Expire
  <2>1. /\ pc \in {"files", "virt", "sync", "units", "oom"} /\ UNCHANGED <<cmd, host, pc, got, reply>>
        /\ ctx' = "done" /\ hist'.late
    BY <1>10 DEF Sy!Expire
  <2>2. pc \in {"units", "oom"} /\ cmd = "health" => SyChecked'
    BY <2>1, SyCheckedStill DEF SyReports
  <2> QED
    BY <1>p, <1>q, <2>1, <2>2 DEF SyReports
<1> QED
    BY <1>1, <1>2, <1>3, <1>4, <1>5, <1>6, <1>7, <1>8, <1>9, <1>10 DEF Sy!Next, Sy!Step

-----------------------------------------------------------------------------
(* The type of the runs. *)

ExitCodes == {"ok", "general", "arguments", "privilege", "dependency", "timeout", "configuration", "crash"}

\* The answer of a run that is over.
WellFormed(r) ==
    /\ r.exit \in ExitCodes /\ r.status \in Statuses \cup {"none"}
    /\ \A c \in r.checks : c.status \in Statuses

Typed == changes \in 0..MaxChanges /\ ctx \in {"live", "done"} /\ ReplyOK

\* A step of the program goes on without an answer, or gives one; others take
\* steps of their own.
Moves ==
    /\ UNCHANGED <<ctx, changes>>
    /\ \/ pc # "done" /\ pc' # "done" /\ UNCHANGED reply
       \/ pc' = "done" /\ WellFormed(reply')
Meanwhile ==
    /\ UNCHANGED <<pc, reply>>
    /\ \/ UNCHANGED ctx \/ ctx' = "done"
    /\ \/ UNCHANGED changes \/ (changes < MaxChanges /\ changes' = changes + 1)

\* Either keeps the types.
LEMMA MovesTyped == Typed /\ (Moves \/ Meanwhile) => Typed'
<1> SUFFICES ASSUME Typed, Moves \/ Meanwhile PROVE Typed'
    OBVIOUS
<1>1. changes' \in 0..MaxChanges /\ ctx' \in {"live", "done"}
    BY ChangesAssumption DEF Typed, Moves, Meanwhile
<1>2. ReplyOK'
  <2>1. CASE UNCHANGED <<pc, reply>>
    BY <2>1 DEF Typed, ReplyOK
  <2>2. CASE pc # "done" /\ pc' # "done" /\ UNCHANGED reply
    BY <2>2 DEF Typed, ReplyOK
  <2>3. CASE pc' = "done" /\ WellFormed(reply')
    BY <2>3 DEF ReplyOK, WellFormed, ExitCodes
  <2> QED
    BY <2>1, <2>2, <2>3 DEF Moves, Meanwhile
<1> QED
    BY <1>1, <1>2 DEF Typed

(* Apt *)

\* What its steps rely on.
ATypes == cmd \in {"status", "updates", "sources", "history"}

\* What an answer is made of.
LEMMA AShapes ==
    /\ \A code \in ExitCodes : WellFormed(A!Failure(code))
    /\ \A checks, data, errors : (\A c \in checks : c.status \in Statuses) =>
            WellFormed(A!Built(checks, data, errors))
BY DEF WellFormed, ExitCodes, Statuses, A!Failure, A!NoReply, A!Built, A!Build, A!classify, A!Result

\* Each of its steps.
LEMMA AMoves == ATypes /\ A!Step => Moves /\ ATypes'
<1> SUFFICES ASSUME ATypes, A!Step PROVE Moves /\ ATypes'
    OBVIOUS
<1>1. CASE A!Dispatch
    BY <1>1, AShapes
       DEF A!Dispatch, A!Answer, A!GoTo, A!Others, Moves, ExitCodes, ATypes
<1>2. CASE A!collectStatus
    BY <1>2, AShapes
       DEF A!collectStatus, A!Answer, A!GoTo, A!Others, Moves, ExitCodes, ATypes
<1>3. CASE A!countRegularFiles
    BY <1>3, AShapes
       DEF A!countRegularFiles, A!Chk, A!Answer, A!GoTo, A!Others, Moves, ExitCodes, Statuses, ATypes
<1>4. CASE A!collectUpdates
    BY <1>4, AShapes
       DEF A!collectUpdates, A!Chk, A!Answer, A!GoTo, A!Others, Moves, ExitCodes, Statuses, ATypes
<1>5. CASE A!ReadClassic
    BY <1>5, AShapes
       DEF A!ReadClassic, A!Answer, A!GoTo, A!Others, Moves, ExitCodes, ATypes
<1>6. CASE A!regularFiles
    BY <1>6, AShapes
       DEF A!regularFiles, A!Answer, A!GoTo, A!Others, Moves, ExitCodes, ATypes
<1>7. CASE A!ReadSource
    BY <1>7, AShapes
       DEF A!ReadSource, A!Answer, A!GoTo, A!Others, Moves, ExitCodes, ATypes
<1>8. CASE A!collectSources
    BY <1>8, AShapes
       DEF A!collectSources, A!Chk, A!Answer, A!GoTo, A!Others, Moves, ExitCodes, Statuses, ATypes
<1>9. CASE A!collectHistory
    BY <1>9, AShapes
       DEF A!collectHistory, A!Chk, A!Answer, A!GoTo, A!Others, Moves, ExitCodes, Statuses, ATypes
<1> QED
    BY <1>1, <1>2, <1>3, <1>4, <1>5, <1>6, <1>7, <1>8, <1>9 DEF A!Step

\* They, and what others do, keep the types.
LEMMA ANextTyped == Typed /\ ATypes /\ A!Next => Typed' /\ ATypes'
<1> SUFFICES ASSUME Typed, ATypes, A!Next PROVE Typed' /\ ATypes'
    OBVIOUS
<1>1. CASE A!Step
    BY <1>1, AMoves, MovesTyped
<1>2. CASE A!Change
  <2>1. Meanwhile /\ ATypes'
    BY <1>2 DEF A!Change, A!Changes, Meanwhile, ATypes
  <2> QED
    BY <2>1, MovesTyped
<1>3. CASE A!Deadline
  <2>1. Meanwhile /\ ATypes'
    BY <1>3 DEF A!Deadline, Meanwhile, ATypes
  <2> QED
    BY <2>1, MovesTyped
<1> QED
    BY <1>1, <1>2, <1>3 DEF A!Next

\* It starts with them.
LEMMA AInitTyped == A!Init => Typed /\ ATypes
<1> SUFFICES ASSUME A!Init PROVE Typed /\ ATypes
    OBVIOUS
<1>1. ctx = "live" /\ changes = 0 /\ pc = "start" /\ reply = A!NoReply
    BY DEF A!Init, A!Starts
<1>2. Typed
    BY <1>1, ChangesAssumption DEF Typed, ReplyOK, Statuses, A!NoReply
<1>3. ATypes
    BY DEF A!Init, A!Starts, ATypes
<1> QED
    BY <1>2, <1>3

(* Backup *)

\* What its steps rely on.
BkTypes == "checks" \in DOMAIN got /\ (\A c \in got.checks : c.status \in Statuses)

\* What an answer is made of.
LEMMA BkShapes ==
    /\ \A code \in ExitCodes : WellFormed(Bk!Failure(code))
    /\ \A checks, data, errors : (\A c \in checks : c.status \in Statuses) =>
            WellFormed(Bk!Built(checks, data, errors))
BY DEF WellFormed, ExitCodes, Statuses, Bk!Failure, Bk!NoReply, Bk!Built, Bk!Build, Bk!classify, Bk!Result

\* Each of its steps.
LEMMA BkMoves == BkTypes /\ Bk!Step => Moves /\ BkTypes'
<1> SUFFICES ASSUME BkTypes, Bk!Step PROVE Moves /\ BkTypes'
    OBVIOUS
<1>1. CASE Bk!Dispatch
    BY <1>1, BkShapes
       DEF Bk!Dispatch, Bk!Answer, Bk!GoTo, Bk!Others, Moves, ExitCodes, BkTypes
<1>2. CASE Bk!contextFailure
    BY <1>2, BkShapes
       DEF Bk!contextFailure, Bk!Answer, Bk!GoTo, Bk!Others, Moves, ExitCodes, BkTypes
<1>3. CASE Bk!inspectVersion
    BY <1>3, BkShapes
       DEF Bk!inspectVersion, Bk!Answer, Bk!GoTo, Bk!Others, Moves, ExitCodes, BkTypes
<1>4. CASE Bk!inspectConfig
    BY <1>4, BkShapes
       DEF Bk!inspectConfig, Bk!Chk, Bk!Answer, Bk!GoTo, Bk!Others, Moves, ExitCodes, Statuses, BkTypes
<1>5. CASE Bk!executeInventory
    BY <1>5, BkShapes
       DEF Bk!executeInventory, Bk!Answer, Bk!GoTo, Bk!Others, Moves, ExitCodes, BkTypes
<1>6. CASE Bk!CollectedInventory
    BY <1>6, BkShapes
       DEF Bk!CollectedInventory, Bk!Answer, Bk!GoTo, Bk!Others, Moves, ExitCodes, BkTypes
<1>7. CASE Bk!inspectUnits
    BY <1>7, BkShapes
       DEF Bk!inspectUnits, Bk!Chk, Bk!Answer, Bk!GoTo, Bk!Others, Moves, ExitCodes, Statuses, BkTypes
<1>8. CASE Bk!executeStatus
    BY <1>8, BkShapes
       DEF Bk!executeStatus, Bk!Answer, Bk!GoTo, Bk!Others, Moves, ExitCodes, BkTypes
<1>9. CASE Bk!inspectHistory
    BY <1>9, BkShapes
       DEF Bk!inspectHistory, Bk!Chk, Bk!Answer, Bk!GoTo, Bk!Others, Moves, ExitCodes, Statuses, BkTypes
<1>10. CASE Bk!executeHistory
    BY <1>10, BkShapes
       DEF Bk!executeHistory, Bk!Answer, Bk!GoTo, Bk!Others, Moves, ExitCodes, BkTypes
<1> QED
    BY <1>1, <1>2, <1>3, <1>4, <1>5, <1>6, <1>7, <1>8, <1>9, <1>10 DEF Bk!Step

\* They, and what others do, keep the types.
LEMMA BkNextTyped == Typed /\ BkTypes /\ Bk!Next => Typed' /\ BkTypes'
<1> SUFFICES ASSUME Typed, BkTypes, Bk!Next PROVE Typed' /\ BkTypes'
    OBVIOUS
<1>1. CASE Bk!Step
    BY <1>1, BkMoves, MovesTyped
<1>2. CASE Bk!Change
  <2>1. Meanwhile /\ BkTypes'
    BY <1>2 DEF Bk!Change, Bk!Changes, Meanwhile, BkTypes
  <2> QED
    BY <2>1, MovesTyped
<1>3. CASE Bk!Deadline
  <2>1. Meanwhile /\ BkTypes'
    BY <1>3 DEF Bk!Deadline, Meanwhile, BkTypes
  <2> QED
    BY <2>1, MovesTyped
<1> QED
    BY <1>1, <1>2, <1>3 DEF Bk!Next

\* It starts with them.
LEMMA BkInitTyped == Bk!Init => Typed /\ BkTypes
<1> SUFFICES ASSUME Bk!Init PROVE Typed /\ BkTypes
    OBVIOUS
<1>1. ctx = "live" /\ changes = 0 /\ pc = "start" /\ reply = Bk!NoReply
    BY DEF Bk!Init, Bk!Starts
<1>2. Typed
    BY <1>1, ChangesAssumption DEF Typed, ReplyOK, Statuses, Bk!NoReply
<1>3. BkTypes
    BY DEF Bk!Init, Bk!Starts, BkTypes
<1> QED
    BY <1>2, <1>3

(* Baseline *)

\* What its steps rely on.
BlTypes == "checks" \in DOMAIN got /\ (\A c \in got.checks : c.status \in Statuses)

\* What an answer is made of.
LEMMA BlShapes ==
    /\ \A code \in ExitCodes : WellFormed(Bl!Failure(code))
    /\ \A checks, data, errors : (\A c \in checks : c.status \in Statuses) =>
            WellFormed(Bl!Built(checks, data, errors))
BY DEF WellFormed, ExitCodes, Statuses, Bl!Failure, Bl!NoReply, Bl!Built, Bl!Build, Bl!classify, Bl!Result

\* A check that ends.
LEMMA BlEnds ==
    ASSUME BlTypes, pc = "checks", NEW status \in Statuses, NEW errors, Bl!Ended(status, errors)
    PROVE  Moves /\ BlTypes'
BY DEF Bl!Ended, Bl!Chk, Bl!GoTo, Bl!Others, Moves, BlTypes

\* Each of its steps.
LEMMA BlMoves == BlTypes /\ Bl!Step => Moves /\ BlTypes'
<1> SUFFICES ASSUME BlTypes, Bl!Step PROVE Moves /\ BlTypes'
    OBVIOUS
<1>1. CASE Bl!Configure
    BY <1>1, BlShapes
       DEF Bl!Configure, Bl!Answer, Bl!GoTo, Bl!Others, Moves, ExitCodes, BlTypes
<1>2. CASE Bl!Detect
    BY <1>2, BlShapes
       DEF Bl!Detect, Bl!Chk, Bl!Answer, Bl!GoTo, Bl!Others, Moves, ExitCodes, Statuses, BlTypes
<1>3. CASE Bl!supportedOSCheck
    BY <1>3, BlEnds, BlShapes
       DEF Bl!supportedOSCheck, Bl!Now, Bl!Others, Statuses
<1>4. CASE Bl!timeSyncCheck
    BY <1>4, BlEnds, BlShapes
       DEF Bl!timeSyncCheck, Bl!Now, Bl!unavailableCheck, Bl!TimedOut, Bl!Answer, Bl!Others, Moves, BlTypes,
           ExitCodes, Statuses
<1>5. CASE Bl!filesystemOwnershipCheck
    BY <1>5, BlEnds, BlShapes
       DEF Bl!filesystemOwnershipCheck, Bl!Now, Bl!localInspectionError, Statuses
<1>6. CASE Bl!kernelControlsCheck
    BY <1>6, BlEnds, BlShapes
       DEF Bl!kernelControlsCheck, Bl!Now, Bl!Others, Statuses
<1>7. CASE Bl!sshPostureCheck
    BY <1>7, BlEnds, BlShapes
       DEF Bl!sshPostureCheck, Bl!Now, Bl!unavailableCheck, Bl!TimedOut, Bl!Answer, Bl!Others, Moves,
           BlTypes, ExitCodes, Statuses
<1>8. CASE Bl!packageStateCheck
    BY <1>8, BlEnds, BlShapes
       DEF Bl!packageStateCheck, Bl!Now, Bl!localInspectionError, Statuses
<1>9. CASE Bl!requiredServicesCheck
    BY <1>9, BlEnds, BlShapes
       DEF Bl!requiredServicesCheck, Bl!Now, Bl!unavailableCheck, Bl!TimedOut, Bl!Answer, Bl!GoTo,
           Bl!Others, Moves, BlTypes, ExitCodes, Statuses
<1>10. CASE Bl!baselineResult
    BY <1>10, BlShapes
       DEF Bl!baselineResult, Bl!Answer, Bl!GoTo, Bl!Others, Moves, ExitCodes, BlTypes
<1> QED
    BY <1>1, <1>2, <1>3, <1>4, <1>5, <1>6, <1>7, <1>8, <1>9, <1>10 DEF Bl!Step

\* They, and what others do, keep the types.
LEMMA BlNextTyped == Typed /\ BlTypes /\ Bl!Next => Typed' /\ BlTypes'
<1> SUFFICES ASSUME Typed, BlTypes, Bl!Next PROVE Typed' /\ BlTypes'
    OBVIOUS
<1>1. CASE Bl!Step
    BY <1>1, BlMoves, MovesTyped
<1>2. CASE Bl!Expire
  <2>1. Meanwhile /\ BlTypes'
    BY <1>2 DEF Bl!Expire, Meanwhile, BlTypes
  <2> QED
    BY <2>1, MovesTyped
<1> QED
    BY <1>1, <1>2 DEF Bl!Next

\* It starts with them.
LEMMA BlInitTyped == Bl!Init => Typed /\ BlTypes
<1> SUFFICES ASSUME Bl!Init PROVE Typed /\ BlTypes
    OBVIOUS
<1>1. ctx = "live" /\ changes = 0 /\ pc = "start" /\ reply = Bl!NoReply
    BY DEF Bl!Init, Bl!Starts
<1>2. Typed
    BY <1>1, ChangesAssumption DEF Typed, ReplyOK, Statuses, Bl!NoReply
<1>3. BlTypes
    BY DEF Bl!Init, Bl!Starts, BlTypes
<1> QED
    BY <1>2, <1>3

(* Docker *)

\* What an answer is made of.
LEMMA DShapes ==
    /\ \A code \in ExitCodes : WellFormed(D!Failure(code))
    /\ \A status, checks, data, errors :
         status \in Statuses /\ (\A c \in checks : c.status \in Statuses) =>
            WellFormed(D!Result(status, checks, data, errors))
BY DEF WellFormed, ExitCodes, Statuses, D!Failure, D!NoReply, D!Result

\* Each of its steps.
LEMMA DMoves == D!Step => Moves
<1> SUFFICES ASSUME D!Step PROVE Moves
    OBVIOUS
<1>1. CASE D!Configure
    BY <1>1, DShapes
       DEF D!Configure, D!Answer, D!GoTo, D!Others, Moves, ExitCodes, Statuses
<1>2. CASE D!RunClient
    BY <1>2, DShapes
       DEF D!RunClient, D!Answer, D!GoTo, D!Others, Moves, ExitCodes, Statuses
<1>3. CASE D!RunClientFails
    BY <1>3, DShapes
       DEF D!RunClientFails, D!commandError, D!failure, D!Answer, D!GoTo, D!Others, Moves, ExitCodes, Statuses
<1>4. CASE D!Parse
    BY <1>4, DShapes
       DEF D!Parse, D!success, D!failure, D!Answer, D!GoTo, D!Others, Moves, ExitCodes, Statuses
<1>5. CASE D!findComposeFiles
    BY <1>5, DShapes
       DEF D!findComposeFiles, D!success, D!failure, D!Answer, D!GoTo, D!Others, Moves, ExitCodes, Statuses
<1>6. CASE D!Redirect
    BY <1>6, DShapes
       DEF D!Redirect, D!Answer, D!GoTo, D!Others, Moves, ExitCodes, Statuses
<1>7. CASE D!probeRegistry
    BY <1>7, DShapes
       DEF D!probeRegistry, D!success, D!failure, D!Answer, D!GoTo, D!Others, Moves, ExitCodes, Statuses
<1> QED
    BY <1>1, <1>2, <1>3, <1>4, <1>5, <1>6, <1>7 DEF D!Step

\* They, and what others do, keep the types.
LEMMA DNextTyped == Typed /\ D!Next => Typed'
<1> SUFFICES ASSUME Typed, D!Next PROVE Typed'
    OBVIOUS
<1>1. CASE D!Step
    BY <1>1, DMoves, MovesTyped
<1>2. CASE D!Change
  <2>1. Meanwhile
    BY <1>2 DEF D!Change, D!Changes, Meanwhile
  <2> QED
    BY <2>1, MovesTyped
<1>3. CASE D!Deadline
  <2>1. Meanwhile
    BY <1>3 DEF D!Deadline, Meanwhile
  <2> QED
    BY <2>1, MovesTyped
<1> QED
    BY <1>1, <1>2, <1>3 DEF D!Next

\* It starts with them.
LEMMA DInitTyped == D!Init => Typed
<1> SUFFICES ASSUME D!Init PROVE Typed
    OBVIOUS
<1>1. ctx = "live" /\ changes = 0 /\ pc = "start" /\ reply = D!NoReply
    BY DEF D!Init, D!Starts
<1>2. Typed
    BY <1>1, ChangesAssumption DEF Typed, ReplyOK, Statuses, D!NoReply
<1> QED
    BY <1>2

(* LocalFile *)

\* What an answer is made of.
LEMMA FShapes ==
    /\ \A code \in ExitCodes : WellFormed(F!Failure(code))
    /\ \A status, checks, data, errors :
         status \in Statuses /\ (\A c \in checks : c.status \in Statuses) =>
            WellFormed(F!Result(status, checks, data, errors))
BY DEF WellFormed, ExitCodes, Statuses, F!Failure, F!NoReply, F!Result

\* Each of its steps.
LEMMA FMoves == F!Step => Moves
<1> SUFFICES ASSUME F!Step PROVE Moves
    OBVIOUS
<1>1. CASE F!LstatDir
    BY <1>1, FShapes
       DEF F!LstatDir, F!Absent, F!Refuse, F!Answer, F!GoTo, F!Others, Moves, ExitCodes, Statuses
<1>2. CASE F!LstatFile
    BY <1>2, FShapes
       DEF F!LstatFile, F!Absent, F!Refuse, F!Answer, F!GoTo, F!Others, Moves, ExitCodes, Statuses
<1>3. CASE F!Open
    BY <1>3, FShapes
       DEF F!Open, F!Refuse, F!Answer, F!GoTo, F!Others, Moves, ExitCodes, Statuses
<1>4. CASE F!StatOpened
    BY <1>4, FShapes
       DEF F!StatOpened, F!Refuse, F!Answer, F!GoTo, F!Others, Moves, ExitCodes, Statuses
<1>5. CASE F!ReadAll
    BY <1>5, FShapes
       DEF F!ReadAll, F!Refuse, F!Answer, F!GoTo, F!Others, Moves, ExitCodes, Statuses
<1> QED
    BY <1>1, <1>2, <1>3, <1>4, <1>5 DEF F!Step

\* They, and what others do, keep the types.
LEMMA FNextTyped == Typed /\ F!Next => Typed'
<1> SUFFICES ASSUME Typed, F!Next PROVE Typed'
    OBVIOUS
<1>1. CASE F!Step
    BY <1>1, FMoves, MovesTyped
<1>2. CASE F!Change
  <2>1. Meanwhile
    BY <1>2 DEF F!Change, F!Changes, Meanwhile
  <2> QED
    BY <2>1, MovesTyped
<1> QED
    BY <1>1, <1>2 DEF F!Next

\* It starts with them.
LEMMA FInitTyped == F!Init => Typed
<1> SUFFICES ASSUME F!Init PROVE Typed
    OBVIOUS
<1>1. ctx = "live" /\ changes = 0 /\ pc = "start" /\ reply = F!NoReply
    BY DEF F!Init, F!Starts
<1>2. Typed
    BY <1>1, ChangesAssumption DEF Typed, ReplyOK, Statuses, F!NoReply
<1> QED
    BY <1>2

(* GitlabRunner *)

\* What an answer is made of.
LEMMA GShapes ==
    /\ \A code \in ExitCodes : WellFormed(G!Failure(code))
    /\ \A checks, data, errors : (\A c \in checks : c.status \in Statuses) =>
            WellFormed(G!Built(checks, data, errors))
BY DEF WellFormed, ExitCodes, Statuses, G!Failure, G!NoReply, G!Built, G!Build, G!classify, G!Result

\* Each of its steps.
LEMMA GMoves == G!Step => Moves
<1> SUFFICES ASSUME G!Step PROVE Moves
    OBVIOUS
<1>1. CASE G!readConfig
    BY <1>1, GShapes
       DEF G!readConfig, G!configFailure, G!Chk, G!Answer, G!GoTo, G!Others, Moves, ExitCodes, Statuses
<1>2. CASE G!statusTimeout
    BY <1>2, GShapes
       DEF G!statusTimeout, G!Answer, G!GoTo, G!Others, Moves, ExitCodes
<1>3. CASE G!collectVersion
    BY <1>3, GShapes
       DEF G!collectVersion, G!Answer, G!GoTo, G!Others, Moves, ExitCodes
<1>4. CASE G!collectUnit
    BY <1>4, GShapes
       DEF G!collectUnit, G!Answer, G!GoTo, G!Others, Moves, ExitCodes
<1>5. CASE G!ReadProc
    BY <1>5, GShapes
       DEF G!ReadProc, G!Answer, G!GoTo, G!Others, Moves, ExitCodes
<1>6. CASE G!ReadComm
    BY <1>6, GShapes
       DEF G!ReadComm, G!ProcessesFail, G!Answer, G!GoTo, G!Others, Moves, ExitCodes
<1>7. CASE G!ReadUid
    BY <1>7, GShapes
       DEF G!ReadUid, G!ProcessesFail, G!Answer, G!GoTo, G!Others, Moves, ExitCodes
<1>8. CASE G!Report
  <2>1. \E status \in {"info", "warning", "pass"} :
           reply' = G!Built({G!Chk("status", status)}, got.found, got.errors)
    BY <1>8 DEF G!Report, G!Answer
  <2>2. WellFormed(reply')
    BY <2>1, GShapes DEF G!Chk, Statuses
  <2> QED
    BY <1>8, <2>2 DEF G!Report, G!Answer, G!Others, Moves
<1> QED
    BY <1>1, <1>2, <1>3, <1>4, <1>5, <1>6, <1>7, <1>8 DEF G!Step

\* They, and what others do, keep the types.
LEMMA GNextTyped == Typed /\ G!Next => Typed'
<1> SUFFICES ASSUME Typed, G!Next PROVE Typed'
    OBVIOUS
<1>1. CASE G!Step
    BY <1>1, GMoves, MovesTyped
<1>2. CASE G!Change
  <2>1. Meanwhile
    BY <1>2 DEF G!Change, G!Changes, Meanwhile
  <2> QED
    BY <2>1, MovesTyped
<1>3. CASE G!Deadline
  <2>1. Meanwhile
    BY <1>3 DEF G!Deadline, Meanwhile
  <2> QED
    BY <2>1, MovesTyped
<1> QED
    BY <1>1, <1>2, <1>3 DEF G!Next

\* It starts with them.
LEMMA GInitTyped == G!Init => Typed
<1> SUFFICES ASSUME G!Init PROVE Typed
    OBVIOUS
<1>1. ctx = "live" /\ changes = 0 /\ pc = "start" /\ reply = G!NoReply
    BY DEF G!Init, G!Starts
<1>2. Typed
    BY <1>1, ChangesAssumption DEF Typed, ReplyOK, Statuses, G!NoReply
<1> QED
    BY <1>2

(* Incident *)

\* What its steps rely on.
ITypes == cmd \in {"snapshot", "services", "timeline"}

\* What an answer is made of.
LEMMA IShapes ==
    /\ \A code \in ExitCodes : WellFormed(I!Failure(code))
    /\ \A checks, data, errors : (\A c \in checks : c.status \in Statuses) =>
            WellFormed(I!Built(checks, data, errors))
BY DEF WellFormed, ExitCodes, Statuses, I!Failure, I!NoReply, I!Built, I!Build, I!classify, I!Result

\* Each of its steps.
LEMMA IMoves == ITypes /\ I!Step => Moves /\ ITypes'
<1> SUFFICES ASSUME ITypes, I!Step PROVE Moves /\ ITypes'
    OBVIOUS
<1>1. CASE I!Dispatch
    BY <1>1, IShapes
       DEF I!Dispatch, I!Answer, I!GoTo, I!Others, Moves, ExitCodes, ITypes
<1>2. CASE I!ReadEvidence
    BY <1>2, IShapes
       DEF I!ReadEvidence, I!Snapshot, I!Answer, I!GoTo, I!Others, Moves, ExitCodes, ITypes
<1>3. CASE I!runBounded
    BY <1>3, IShapes
       DEF I!runBounded, I!Snapshot, I!Answer, I!GoTo, I!Others, Moves, ExitCodes, ITypes
<1>4. CASE I!contextFailure
    BY <1>4, IShapes
       DEF I!contextFailure, I!Answer, I!GoTo, I!Others, Moves, ExitCodes, ITypes
<1>5. CASE I!ReportSnapshot
    BY <1>5, IShapes
       DEF I!ReportSnapshot, I!Chk, I!Answer, I!GoTo, I!Others, Moves, ExitCodes, Statuses, ITypes
<1>6. CASE I!executeServices
    BY <1>6, IShapes
       DEF I!executeServices, I!Chk, I!Answer, I!GoTo, I!Others, Moves, ExitCodes, Statuses, ITypes
<1>7. CASE I!executeTimeline
    BY <1>7, IShapes
       DEF I!executeTimeline, I!Chk, I!Answer, I!GoTo, I!Others, Moves, ExitCodes, Statuses, ITypes
<1> QED
    BY <1>1, <1>2, <1>3, <1>4, <1>5, <1>6, <1>7 DEF I!Step

\* They, and what others do, keep the types.
LEMMA INextTyped == Typed /\ ITypes /\ I!Next => Typed' /\ ITypes'
<1> SUFFICES ASSUME Typed, ITypes, I!Next PROVE Typed' /\ ITypes'
    OBVIOUS
<1>1. CASE I!Step
    BY <1>1, IMoves, MovesTyped
<1>2. CASE I!Deadline
  <2>1. Meanwhile /\ ITypes'
    BY <1>2 DEF I!Deadline, Meanwhile, ITypes
  <2> QED
    BY <2>1, MovesTyped
<1> QED
    BY <1>1, <1>2 DEF I!Next

\* It starts with them.
LEMMA IInitTyped == I!Init => Typed /\ ITypes
<1> SUFFICES ASSUME I!Init PROVE Typed /\ ITypes
    OBVIOUS
<1>1. ctx = "live" /\ changes = 0 /\ pc = "start" /\ reply = I!NoReply
    BY DEF I!Init, I!Starts
<1>2. Typed
    BY <1>1, ChangesAssumption DEF Typed, ReplyOK, Statuses, I!NoReply
<1>3. ITypes
    BY DEF I!Init, I!Starts, ITypes
<1> QED
    BY <1>2, <1>3

(* Java *)

\* What its steps rely on.
JTypes == cmd \in {"processes", "runtime", "inspect"}

\* What an answer is made of.
LEMMA JShapes ==
    /\ \A code \in ExitCodes : WellFormed(J!Failure(code))
    /\ \A checks, data, errors : (\A c \in checks : c.status \in Statuses) =>
            WellFormed(J!Built(checks, data, errors))
BY DEF WellFormed, ExitCodes, Statuses, J!Failure, J!NoReply, J!Built, J!Build, J!classify, J!Result

\* Each of its steps.
LEMMA JMoves == JTypes /\ J!Step => Moves /\ JTypes'
<1> SUFFICES ASSUME JTypes, J!Step PROVE Moves /\ JTypes'
    OBVIOUS
<1>1. CASE J!Dispatch
    BY <1>1, JShapes
       DEF J!Dispatch, J!Answer, J!GoTo, J!Others, Moves, ExitCodes, JTypes
<1>2. CASE J!enumeratePIDs
    BY <1>2, JShapes
       DEF J!enumeratePIDs, J!Answer, J!GoTo, J!Others, Moves, ExitCodes, JTypes
<1>3. CASE J!EnumerationFails
    BY <1>3, JShapes
       DEF J!EnumerationFails, J!contextFailure, J!Answer, J!GoTo, J!Others, Moves, ExitCodes, JTypes
<1>4. CASE J!ReadComm
    BY <1>4, JShapes
       DEF J!ReadComm, J!Answer, J!GoTo, J!Others, Moves, ExitCodes, JTypes
<1>5. CASE J!readProcess
    BY <1>5, JShapes
       DEF J!readProcess, J!Answer, J!GoTo, J!Others, Moves, ExitCodes, JTypes
<1>6. CASE J!ListProcesses
    BY <1>6, JShapes
       DEF J!ListProcesses, J!contextFailure, J!Chk, J!Answer, J!GoTo, J!Others, Moves, ExitCodes, Statuses,
           JTypes
<1>7. CASE J!collectRuntime
    BY <1>7, JShapes
       DEF J!collectRuntime, J!contextFailure, J!Chk, J!Answer, J!GoTo, J!Others, Moves, ExitCodes,
           Statuses, JTypes
<1>8. CASE J!runJcmd
    BY <1>8, JShapes
       DEF J!runJcmd, J!Answer, J!GoTo, J!Others, Moves, ExitCodes, JTypes
<1>9. CASE J!runJcmdFails
    BY <1>9, JShapes
       DEF J!runJcmdFails, J!contextFailure, J!Answer, J!GoTo, J!Others, Moves, ExitCodes, JTypes
<1>10. CASE J!ParseInspection
    BY <1>10, JShapes
       DEF J!ParseInspection, J!Chk, J!Answer, J!GoTo, J!Others, Moves, ExitCodes, Statuses, JTypes
<1> QED
    BY <1>1, <1>2, <1>3, <1>4, <1>5, <1>6, <1>7, <1>8, <1>9, <1>10 DEF J!Step

\* They, and what others do, keep the types.
LEMMA JNextTyped == Typed /\ JTypes /\ J!Next => Typed' /\ JTypes'
<1> SUFFICES ASSUME Typed, JTypes, J!Next PROVE Typed' /\ JTypes'
    OBVIOUS
<1>1. CASE J!Step
    BY <1>1, JMoves, MovesTyped
<1>2. CASE J!Change
  <2>1. Meanwhile /\ JTypes'
    BY <1>2 DEF J!Change, J!Changes, Meanwhile, JTypes
  <2> QED
    BY <2>1, MovesTyped
<1>3. CASE J!Deadline
  <2>1. Meanwhile /\ JTypes'
    BY <1>3 DEF J!Deadline, Meanwhile, JTypes
  <2> QED
    BY <2>1, MovesTyped
<1> QED
    BY <1>1, <1>2, <1>3 DEF J!Next

\* It starts with them.
LEMMA JInitTyped == J!Init => Typed /\ JTypes
<1> SUFFICES ASSUME J!Init PROVE Typed /\ JTypes
    OBVIOUS
<1>1. ctx = "live" /\ changes = 0 /\ pc = "start" /\ reply = J!NoReply
    BY DEF J!Init, J!Starts
<1>2. Typed
    BY <1>1, ChangesAssumption DEF Typed, ReplyOK, Statuses, J!NoReply
<1>3. JTypes
    BY DEF J!Init, J!Starts, JTypes
<1> QED
    BY <1>2, <1>3

(* Kafka *)

\* What its steps rely on.
KaTypes == cmd \in {"status", "config", "storage"}

\* What an answer is made of.
LEMMA KaShapes ==
    /\ \A code \in ExitCodes : WellFormed(Ka!Failure(code))
    /\ \A checks, data, errors : (\A c \in checks : c.status \in Statuses) =>
            WellFormed(Ka!Built(checks, data, errors))
BY DEF WellFormed, ExitCodes, Statuses, Ka!Failure, Ka!NoReply, Ka!Built, Ka!Build, Ka!classify, Ka!Result

\* Each of its steps.
LEMMA KaMoves == KaTypes /\ Ka!Step => Moves /\ KaTypes'
<1> SUFFICES ASSUME KaTypes, Ka!Step PROVE Moves /\ KaTypes'
    OBVIOUS
<1>1. CASE Ka!Dispatch
    BY <1>1, KaShapes
       DEF Ka!Dispatch, Ka!Timeout, Ka!Answer, Ka!GoTo, Ka!Others, Moves, ExitCodes, KaTypes
<1>2. CASE Ka!collectPackages
    BY <1>2, KaShapes
       DEF Ka!collectPackages, Ka!Dependency, Ka!Answer, Ka!GoTo, Ka!Others, Moves, ExitCodes, KaTypes
<1>3. CASE Ka!collectProcessesFails
    BY <1>3, KaShapes
       DEF Ka!collectProcessesFails, Ka!Timeout, Ka!Answer, Ka!GoTo, Ka!Others, Moves, ExitCodes, KaTypes
<1>4. CASE Ka!ReadComm
    BY <1>4, KaShapes
       DEF Ka!ReadComm, Ka!Answer, Ka!GoTo, Ka!Others, Moves, ExitCodes, KaTypes
<1>5. CASE Ka!ReadCmdline
    BY <1>5, KaShapes
       DEF Ka!ReadCmdline, Ka!Answer, Ka!GoTo, Ka!Others, Moves, ExitCodes, KaTypes
<1>6. CASE Ka!collectUnit
    BY <1>6, KaShapes
       DEF Ka!collectUnit, Ka!Timeout, Ka!Chk, Ka!Answer, Ka!GoTo, Ka!Others, Moves, ExitCodes, Statuses,
           KaTypes
<1>7. CASE Ka!ReadConfig
    BY <1>7, KaShapes
       DEF Ka!ReadConfig, Ka!Timeout, Ka!Dependency, Ka!Answer, Ka!GoTo, Ka!Others, Moves, ExitCodes, KaTypes
<1>8. CASE Ka!ReportConfig
    BY <1>8, KaShapes
       DEF Ka!ReportConfig, Ka!Dependency, Ka!Chk, Ka!Answer, Ka!GoTo, Ka!Others, Moves, ExitCodes,
           Statuses, KaTypes
<1>9. CASE Ka!selectStorageConfig
    BY <1>9, KaShapes
       DEF Ka!selectStorageConfig, Ka!Dependency, Ka!Answer, Ka!GoTo, Ka!Others, Moves, ExitCodes, KaTypes
<1>10. CASE Ka!LstatDir
    BY <1>10, KaShapes
       DEF Ka!LstatDir, Ka!Timeout, Ka!Dependency, Ka!Answer, Ka!GoTo, Ka!Others, Moves, ExitCodes, KaTypes
<1>11. CASE Ka!OpenDir
    BY <1>11, KaShapes
       DEF Ka!OpenDir, Ka!Timeout, Ka!Dependency, Ka!Answer, Ka!GoTo, Ka!Others, Moves, ExitCodes, KaTypes
<1>12. CASE Ka!runStorageInfo
    BY <1>12, KaShapes
       DEF Ka!runStorageInfo, Ka!Timeout, Ka!Chk, Ka!Answer, Ka!GoTo, Ka!Others, Moves, ExitCodes, Statuses,
           KaTypes
<1> QED
    BY <1>1, <1>2, <1>3, <1>4, <1>5, <1>6, <1>7, <1>8, <1>9, <1>10, <1>11, <1>12 DEF Ka!Step

\* They, and what others do, keep the types.
LEMMA KaNextTyped == Typed /\ KaTypes /\ Ka!Next => Typed' /\ KaTypes'
<1> SUFFICES ASSUME Typed, KaTypes, Ka!Next PROVE Typed' /\ KaTypes'
    OBVIOUS
<1>1. CASE Ka!Step
    BY <1>1, KaMoves, MovesTyped
<1>2. CASE Ka!Change
  <2>1. Meanwhile /\ KaTypes'
    BY <1>2 DEF Ka!Change, Ka!Changes, Meanwhile, KaTypes
  <2> QED
    BY <2>1, MovesTyped
<1>3. CASE Ka!Deadline
  <2>1. Meanwhile /\ KaTypes'
    BY <1>3 DEF Ka!Deadline, Meanwhile, KaTypes
  <2> QED
    BY <2>1, MovesTyped
<1> QED
    BY <1>1, <1>2, <1>3 DEF Ka!Next

\* It starts with them.
LEMMA KaInitTyped == Ka!Init => Typed /\ KaTypes
<1> SUFFICES ASSUME Ka!Init PROVE Typed /\ KaTypes
    OBVIOUS
<1>1. ctx = "live" /\ changes = 0 /\ pc = "start" /\ reply = Ka!NoReply
    BY DEF Ka!Init, Ka!Starts
<1>2. Typed
    BY <1>1, ChangesAssumption DEF Typed, ReplyOK, Statuses, Ka!NoReply
<1>3. KaTypes
    BY DEF Ka!Init, Ka!Starts, KaTypes
<1> QED
    BY <1>2, <1>3

(* Kubernetes *)

\* What its steps rely on.
KuTypes ==
    /\ pc = "files" => cmd = "manifests"
    /\ cmd = "status" => "checks" \in DOMAIN got /\ (\A c \in got.checks : c.status \in Statuses)

\* What an answer is made of.
LEMMA KuShapes ==
    /\ \A code \in ExitCodes : WellFormed(Ku!Failure(code))
    /\ \A checks, data, errors : (\A c \in checks : c.status \in Statuses) =>
            WellFormed(Ku!Built(checks, data, errors))
BY DEF WellFormed, ExitCodes, Statuses, Ku!Failure, Ku!NoReply, Ku!Built, Ku!Build, Ku!classify, Ku!Result

\* Each of its steps.
LEMMA KuMoves == KuTypes /\ Ku!Step => Moves /\ KuTypes'
<1> SUFFICES ASSUME KuTypes, Ku!Step PROVE Moves /\ KuTypes'
    OBVIOUS
<1>1. CASE Ku!Timeout
    BY <1>1, KuShapes
       DEF Ku!Timeout, Ku!Answer, Ku!GoTo, Ku!Others, Moves, ExitCodes, KuTypes
<1>2. CASE Ku!collectClientVersion
    BY <1>2, KuShapes
       DEF Ku!collectClientVersion, Ku!Chk, Ku!Answer, Ku!GoTo, Ku!Others, Moves, ExitCodes, Statuses, KuTypes
<1>3. CASE Ku!collectKubeletUnit
    BY <1>3, KuShapes
       DEF Ku!collectKubeletUnit, Ku!Answer, Ku!GoTo, Ku!Others, Moves, ExitCodes, KuTypes
<1>4. CASE Ku!ReadProc
    BY <1>4, KuShapes
       DEF Ku!ReadProc, Ku!ProcessesFail, Ku!Answer, Ku!GoTo, Ku!Others, Moves, ExitCodes, KuTypes
<1>5. CASE Ku!ReadComm
    BY <1>5, KuShapes
       DEF Ku!ReadComm, Ku!ProcessesFail, Ku!Answer, Ku!GoTo, Ku!Others, Moves, ExitCodes, KuTypes
<1>6. CASE Ku!ReportStatus
    BY <1>6, KuShapes
       DEF Ku!ReportStatus, Ku!KubeletCheck, Ku!Chk, Ku!Answer, Ku!GoTo, Ku!Others, Moves, ExitCodes,
           Statuses, KuTypes
<1>7. CASE Ku!ReadKubeconfig
    BY <1>7, KuShapes
       DEF Ku!ReadKubeconfig, Ku!configurationFailure, Ku!Answer, Ku!GoTo, Ku!Others, Moves, ExitCodes,
           KuTypes
<1>8. CASE Ku!ReportContexts
    BY <1>8, KuShapes
       DEF Ku!ReportContexts, Ku!Chk, Ku!Answer, Ku!GoTo, Ku!Others, Moves, ExitCodes, Statuses, KuTypes
<1>9. CASE Ku!confinedDirectory
    BY <1>9, KuShapes
       DEF Ku!confinedDirectory, Ku!configurationFailure, Ku!Chk, Ku!Answer, Ku!GoTo, Ku!Others, Moves,
           ExitCodes, Statuses, KuTypes
<1>10. CASE Ku!ReadManifest
    BY <1>10, KuShapes
       DEF Ku!ReadManifest, Ku!configurationFailure, Ku!Answer, Ku!GoTo, Ku!Others, Moves, ExitCodes, KuTypes
<1>11. CASE Ku!ReportManifests
    BY <1>11, KuShapes
       DEF Ku!ReportManifests, Ku!Chk, Ku!Answer, Ku!GoTo, Ku!Others, Moves, ExitCodes, Statuses, KuTypes
<1> QED
    BY <1>1, <1>2, <1>3, <1>4, <1>5, <1>6, <1>7, <1>8, <1>9, <1>10, <1>11 DEF Ku!Step

\* They, and what others do, keep the types.
LEMMA KuNextTyped == Typed /\ KuTypes /\ Ku!Next => Typed' /\ KuTypes'
<1> SUFFICES ASSUME Typed, KuTypes, Ku!Next PROVE Typed' /\ KuTypes'
    OBVIOUS
<1>1. CASE Ku!Step
    BY <1>1, KuMoves, MovesTyped
<1>2. CASE Ku!Change
  <2>1. Meanwhile /\ KuTypes'
    BY <1>2 DEF Ku!Change, Ku!Changes, Meanwhile, KuTypes
  <2> QED
    BY <2>1, MovesTyped
<1>3. CASE Ku!Deadline
  <2>1. Meanwhile /\ KuTypes'
    BY <1>3 DEF Ku!Deadline, Meanwhile, KuTypes
  <2> QED
    BY <2>1, MovesTyped
<1> QED
    BY <1>1, <1>2, <1>3 DEF Ku!Next

\* It starts with them.
LEMMA KuInitTyped == Ku!Init => Typed /\ KuTypes
<1> SUFFICES ASSUME Ku!Init PROVE Typed /\ KuTypes
    OBVIOUS
<1>1. ctx = "live" /\ changes = 0 /\ pc = "start" /\ reply = Ku!NoReply
    BY DEF Ku!Init, Ku!Starts
<1>2. Typed
    BY <1>1, ChangesAssumption DEF Typed, ReplyOK, Statuses, Ku!NoReply
<1>4. cmd = "status" => got = [todo |-> {}, found |-> {}, unit |-> FALSE, checks |-> {}, errors |-> {}]
    BY DEF Ku!Init, Ku!Starts
<1>3. KuTypes
    BY <1>1, <1>4 DEF KuTypes
<1> QED
    BY <1>2, <1>3

(* Monitoring *)

\* What its steps rely on.
MTypes == cmd \in {"status", "inventory", "config"}

\* What an answer is made of.
LEMMA MShapes ==
    /\ \A code \in ExitCodes : WellFormed(M!Failure(code))
    /\ \A checks, data, errors : (\A c \in checks : c.status \in Statuses) =>
            WellFormed(M!Built(checks, data, errors))
BY DEF WellFormed, ExitCodes, Statuses, M!Failure, M!NoReply, M!Built, M!Build, M!classify, M!Result

\* A table that is read.
LEMMA MTables ==
    ASSUME MTypes, NEW what, NEW code, M!Table(what, code)
    PROVE  Moves /\ MTypes'
<1>1. pc = "probe" /\ M!GoTo("probe") /\ M!Others
    BY DEF M!Table, M!Now, M!Finished
<1> QED
    BY <1>1 DEF M!GoTo, M!Others, Moves, MTypes

\* Each of its steps.
LEMMA MMoves == MTypes /\ M!Step => Moves /\ MTypes'
<1> SUFFICES ASSUME MTypes, M!Step PROVE Moves /\ MTypes'
    OBVIOUS
<1>1. CASE M!Dispatch
    BY <1>1, MShapes
       DEF M!Dispatch, M!Answer, M!GoTo, M!Others, Moves, ExitCodes, MTypes
<1>2. CASE M!contextFailure
    BY <1>2, MShapes
       DEF M!contextFailure, M!Answer, M!GoTo, M!Others, Moves, ExitCodes, MTypes
<1>3. CASE M!installedPackages
    BY <1>3, MTables DEF M!installedPackages
<1>4. CASE M!monitoringProcesses
    BY <1>4, MTables DEF M!monitoringProcesses
<1>5. CASE M!listeningPorts
    BY <1>5, MShapes
       DEF M!listeningPorts, M!Now, M!Answer, M!GoTo, M!Others, Moves, ExitCodes, MTypes
<1>6. CASE M!unitState
    BY <1>6, MShapes
       DEF M!unitState, M!Now, M!Finished, M!Answer, M!GoTo, M!Others, Moves, ExitCodes, MTypes
<1>7. CASE M!productConfigPresent
    BY <1>7, MShapes
       DEF M!productConfigPresent, M!Now, M!Finished, M!Answer, M!GoTo, M!Others, Moves, ExitCodes, MTypes
<1>8. CASE M!ReadConfig
    BY <1>8, MShapes
       DEF M!ReadConfig, M!Now, M!Answer, M!GoTo, M!Others, Moves, ExitCodes, MTypes
<1>9. CASE M!Report
    BY <1>9, MShapes
       DEF M!Report, M!Checks, M!Chk, M!Answer, M!GoTo, M!Others, Moves, ExitCodes, Statuses, MTypes
<1> QED
    BY <1>1, <1>2, <1>3, <1>4, <1>5, <1>6, <1>7, <1>8, <1>9 DEF M!Step

\* They, and what others do, keep the types.
LEMMA MNextTyped == Typed /\ MTypes /\ M!Next => Typed' /\ MTypes'
<1> SUFFICES ASSUME Typed, MTypes, M!Next PROVE Typed' /\ MTypes'
    OBVIOUS
<1>1. CASE M!Step
    BY <1>1, MMoves, MovesTyped
<1>2. CASE M!Change
  <2>1. Meanwhile /\ MTypes'
    BY <1>2 DEF M!Change, M!Changes, Meanwhile, MTypes
  <2> QED
    BY <2>1, MovesTyped
<1>3. CASE M!Deadline
  <2>1. Meanwhile /\ MTypes'
    BY <1>3 DEF M!Deadline, Meanwhile, MTypes
  <2> QED
    BY <2>1, MovesTyped
<1> QED
    BY <1>1, <1>2, <1>3 DEF M!Next

\* It starts with them.
LEMMA MInitTyped == M!Init => Typed /\ MTypes
<1> SUFFICES ASSUME M!Init PROVE Typed /\ MTypes
    OBVIOUS
<1>1. ctx = "live" /\ changes = 0 /\ pc = "start" /\ reply = M!NoReply
    BY DEF M!Init, M!Starts
<1>2. Typed
    BY <1>1, ChangesAssumption DEF Typed, ReplyOK, Statuses, M!NoReply
<1>3. MTypes
    BY DEF M!Init, M!Starts, MTypes, M!Probes
<1> QED
    BY <1>2, <1>3

(* Network *)

\* What its steps rely on.
NTypes == "checks" \in DOMAIN got /\ (\A c \in got.checks : c.status \in Statuses)

\* What an answer is made of.
LEMMA NShapes ==
    /\ \A code \in ExitCodes : WellFormed(N!Failure(code))
    /\ \A checks, data, errors : (\A c \in checks : c.status \in Statuses) =>
            WellFormed(N!Built(checks, data, errors))
BY DEF WellFormed, ExitCodes, Statuses, N!Failure, N!NoReply, N!Built, N!Build, N!classify, N!Result

\* Each of its steps.
LEMMA NMoves == NTypes /\ N!Step => Moves /\ NTypes'
<1> SUFFICES ASSUME NTypes, N!Step PROVE Moves /\ NTypes'
    OBVIOUS
<1>1. CASE N!Dispatch
    BY <1>1, NShapes
       DEF N!Dispatch, N!Answer, N!GoTo, N!Others, Moves, ExitCodes, NTypes
<1>2. CASE N!collectSection
  <2>1. CASE N!Answer(N!Failure("timeout")) /\ UNCHANGED got
    BY <1>2, <2>1, NShapes DEF N!collectSection, N!Answer, N!Others, Moves, NTypes, ExitCodes
  <2>2. CASE ~ (N!Answer(N!Failure("timeout")) /\ UNCHANGED got)
    <3>1. pc = "collect" /\ N!GoTo("collect") /\ N!Others
      BY <1>2, <2>2 DEF N!collectSection
    <3>2. \E s : \E status \in {"pass", "skipped"} :
             DOMAIN got' = DOMAIN got /\ got'.checks = got.checks \cup {N!Chk(s, status)}
      <4> DEFINE s == N!Sections[got.section]
                 ok == N!Source(s) # {}
      <4>1. \E from, section, errors :
               got' = [got EXCEPT !.section = section, !.from = from,
                                  !.checks = @ \cup {N!Chk(s, IF ok THEN "pass" ELSE "skipped")},
                                  !.errors = errors]
        BY <1>2, <2>2 DEF N!collectSection
      <4>2. DOMAIN got' = DOMAIN got /\ got'.checks = got.checks \cup {N!Chk(s, IF ok THEN "pass" ELSE "skipped")}
        BY <4>1 DEF NTypes
      <4> HIDE DEF s
      <4> QED
        BY <4>2
    <3> QED
      BY <3>1, <3>2 DEF N!GoTo, N!Others, N!Chk, Moves, NTypes, Statuses
  <2> QED
    BY <2>1, <2>2
<1>3. CASE N!Report
    BY <1>3, NShapes
       DEF N!Report, N!Answer, N!GoTo, N!Others, Moves, ExitCodes, NTypes
<1>4. CASE N!executeTLS
    BY <1>4, NShapes
       DEF N!executeTLS, N!Chk, N!Answer, N!GoTo, N!Others, Moves, ExitCodes, Statuses, NTypes
<1> QED
    BY <1>1, <1>2, <1>3, <1>4 DEF N!Step

\* They, and what others do, keep the types.
LEMMA NNextTyped == Typed /\ NTypes /\ N!Next => Typed' /\ NTypes'
<1> SUFFICES ASSUME Typed, NTypes, N!Next PROVE Typed' /\ NTypes'
    OBVIOUS
<1>1. CASE N!Step
    BY <1>1, NMoves, MovesTyped
<1>2. CASE N!Change
  <2>1. Meanwhile /\ NTypes'
    BY <1>2 DEF N!Change, N!Changes, Meanwhile, NTypes
  <2> QED
    BY <2>1, MovesTyped
<1>3. CASE N!Deadline
  <2>1. Meanwhile /\ NTypes'
    BY <1>3 DEF N!Deadline, Meanwhile, NTypes
  <2> QED
    BY <2>1, MovesTyped
<1> QED
    BY <1>1, <1>2, <1>3 DEF N!Next

\* It starts with them.
LEMMA NInitTyped == N!Init => Typed /\ NTypes
<1> SUFFICES ASSUME N!Init PROVE Typed /\ NTypes
    OBVIOUS
<1>1. ctx = "live" /\ changes = 0 /\ pc = "start" /\ reply = N!NoReply
    BY DEF N!Init, N!Starts
<1>2. Typed
    BY <1>1, ChangesAssumption DEF Typed, ReplyOK, Statuses, N!NoReply
<1>3. NTypes
    BY DEF N!Init, N!Starts, NTypes, N!NothingRead
<1> QED
    BY <1>2, <1>3

(* Platform *)

\* What an answer is made of.
LEMMA PShapes ==
    /\ \A code \in ExitCodes : WellFormed(P!Failure(code))
    /\ \A status, checks, data, errors :
         status \in Statuses /\ (\A c \in checks : c.status \in Statuses) =>
            WellFormed(P!Result(status, checks, data, errors))
BY DEF WellFormed, ExitCodes, Statuses, P!Failure, P!NoReply, P!Result

\* Each of its steps.
LEMMA PMoves == P!Step => Moves
<1> SUFFICES ASSUME P!Step PROVE Moves
    OBVIOUS
<1>1. CASE P!Root
    BY <1>1, PShapes
       DEF P!Root, P!Refuse, P!Answer, P!GoTo, P!Others, Moves, ExitCodes, Statuses
<1>2. CASE P!validateReleasePath
    BY <1>2, PShapes
       DEF P!validateReleasePath, P!Refuse, P!Answer, P!GoTo, P!Others, Moves, ExitCodes, Statuses
<1>3. CASE P!validateReleaseTarget
    BY <1>3, PShapes
       DEF P!validateReleaseTarget, P!Refuse, P!Answer, P!GoTo, P!Others, Moves, ExitCodes, Statuses
<1>4. CASE P!Detect
  <2>1. P!Refuse \/ \E data : P!Answer(P!Result("pass", {}, data, {}))
    BY <1>4 DEF P!Detect
  <2>2. pc' = "done" /\ WellFormed(reply')
    BY <2>1, PShapes DEF P!Refuse, P!Answer, ExitCodes, Statuses
  <2> QED
    BY <1>4, <2>2 DEF P!Detect, P!Others, Moves
<1> QED
    BY <1>1, <1>2, <1>3, <1>4 DEF P!Step

\* They, and what others do, keep the types.
LEMMA PNextTyped == Typed /\ P!Next => Typed'
<1> SUFFICES ASSUME Typed, P!Next PROVE Typed'
    OBVIOUS
<1>1. CASE P!Step
    BY <1>1, PMoves, MovesTyped
<1>2. CASE P!Change
  <2>1. Meanwhile
    BY <1>2 DEF P!Change, P!Changes, Meanwhile
  <2> QED
    BY <2>1, MovesTyped
<1> QED
    BY <1>1, <1>2 DEF P!Next

\* It starts with them.
LEMMA PInitTyped == P!Init => Typed
<1> SUFFICES ASSUME P!Init PROVE Typed
    OBVIOUS
<1>1. ctx = "live" /\ changes = 0 /\ pc = "start" /\ reply = P!NoReply
    BY DEF P!Init, P!Starts
<1>2. Typed
    BY <1>1, ChangesAssumption DEF Typed, ReplyOK, Statuses, P!NoReply
<1> QED
    BY <1>2

(* Postgres *)

\* What its steps rely on.
PgTypes == cmd \in {"clusters", "status", "config"}

\* What an answer is made of.
LEMMA PgShapes ==
    /\ \A code \in ExitCodes : WellFormed(Pg!Failure(code))
    /\ \A checks, data, errors : (\A c \in checks : c.status \in Statuses) =>
            WellFormed(Pg!Built(checks, data, errors))
BY DEF WellFormed, ExitCodes, Statuses, Pg!Failure, Pg!NoReply, Pg!Built, Pg!Build, Pg!classify, Pg!Result

\* Each of its steps.
LEMMA PgMoves == PgTypes /\ Pg!Step => Moves /\ PgTypes'
<1> SUFFICES ASSUME PgTypes, Pg!Step PROVE Moves /\ PgTypes'
    OBVIOUS
<1>1. CASE Pg!Dispatch
    BY <1>1, PgShapes
       DEF Pg!Dispatch, Pg!Answer, Pg!GoTo, Pg!Others, Moves, ExitCodes, PgTypes
<1>2. CASE Pg!executeClusters
    BY <1>2, PgShapes
       DEF Pg!executeClusters, Pg!Timeout, Pg!Dependency, Pg!Chk, Pg!Answer, Pg!GoTo, Pg!Others, Moves,
           ExitCodes, Statuses, PgTypes
<1>3. CASE Pg!StatusClusters
    BY <1>3, PgShapes
       DEF Pg!StatusClusters, Pg!Timeout, Pg!Answer, Pg!GoTo, Pg!Others, Moves, ExitCodes, PgTypes
<1>4. CASE Pg!collectSystemdState
    BY <1>4, PgShapes
       DEF Pg!collectSystemdState, Pg!Timeout, Pg!Answer, Pg!GoTo, Pg!Others, Moves, ExitCodes, PgTypes
<1>5. CASE Pg!collectPackages
    BY <1>5, PgShapes
       DEF Pg!collectPackages, Pg!Answer, Pg!GoTo, Pg!Others, Moves, ExitCodes, PgTypes
<1>6. CASE Pg!collectProcesses
    BY <1>6, PgShapes
       DEF Pg!collectProcesses, Pg!Answer, Pg!GoTo, Pg!Others, Moves, ExitCodes, PgTypes
<1>7. CASE Pg!executeStatus
    BY <1>7, PgShapes
       DEF Pg!executeStatus, Pg!Chk, Pg!Answer, Pg!GoTo, Pg!Others, Moves, ExitCodes, Statuses, PgTypes
<1>8. CASE Pg!boundedDirectories
    BY <1>8, PgShapes
       DEF Pg!boundedDirectories, Pg!Timeout, Pg!Dependency, Pg!Answer, Pg!GoTo, Pg!Others, Moves,
           ExitCodes, PgTypes
<1>9. CASE Pg!FileExists
    BY <1>9, PgShapes
       DEF Pg!FileExists, Pg!Timeout, Pg!Dependency, Pg!Answer, Pg!GoTo, Pg!Others, Moves, ExitCodes, PgTypes
<1>10. CASE Pg!ReadFile
    BY <1>10, PgShapes
       DEF Pg!ReadFile, Pg!Dependency, Pg!Answer, Pg!GoTo, Pg!Others, Moves, ExitCodes, PgTypes
<1>11. CASE Pg!executeConfig
    BY <1>11, PgShapes
       DEF Pg!executeConfig, Pg!Chk, Pg!Answer, Pg!GoTo, Pg!Others, Moves, ExitCodes, Statuses, PgTypes
<1> QED
    BY <1>1, <1>2, <1>3, <1>4, <1>5, <1>6, <1>7, <1>8, <1>9, <1>10, <1>11 DEF Pg!Step

\* They, and what others do, keep the types.
LEMMA PgNextTyped == Typed /\ PgTypes /\ Pg!Next => Typed' /\ PgTypes'
<1> SUFFICES ASSUME Typed, PgTypes, Pg!Next PROVE Typed' /\ PgTypes'
    OBVIOUS
<1>1. CASE Pg!Step
    BY <1>1, PgMoves, MovesTyped
<1>2. CASE Pg!Change
  <2>1. Meanwhile /\ PgTypes'
    BY <1>2 DEF Pg!Change, Pg!Changes, Meanwhile, PgTypes
  <2> QED
    BY <2>1, MovesTyped
<1>3. CASE Pg!Deadline
  <2>1. Meanwhile /\ PgTypes'
    BY <1>3 DEF Pg!Deadline, Meanwhile, PgTypes
  <2> QED
    BY <2>1, MovesTyped
<1> QED
    BY <1>1, <1>2, <1>3 DEF Pg!Next

\* It starts with them.
LEMMA PgInitTyped == Pg!Init => Typed /\ PgTypes
<1> SUFFICES ASSUME Pg!Init PROVE Typed /\ PgTypes
    OBVIOUS
<1>1. ctx = "live" /\ changes = 0 /\ pc = "start" /\ reply = Pg!NoReply
    BY DEF Pg!Init, Pg!Starts
<1>2. Typed
    BY <1>1, ChangesAssumption DEF Typed, ReplyOK, Statuses, Pg!NoReply
<1>3. PgTypes
    BY DEF Pg!Init, Pg!Starts, PgTypes
<1> QED
    BY <1>2, <1>3

(* Runbook *)

\* What an answer is made of.
LEMMA RShapes ==
    /\ \A code \in ExitCodes : WellFormed(R!Failure(code))
    /\ \A checks, data, errors : (\A c \in checks : c.status \in Statuses) =>
            WellFormed(R!Built(checks, data, errors))
BY DEF WellFormed, ExitCodes, Statuses, R!Failure, R!NoReply, R!Built, R!Build, R!classify, R!Result

\* Each of its steps.
LEMMA RMoves == R!Step => Moves
<1> SUFFICES ASSUME R!Step PROVE Moves
    OBVIOUS
<1>1. CASE R!Dispatch
    BY <1>1, RShapes
       DEF R!Dispatch, R!Answer, R!GoTo, R!Others, Moves, ExitCodes
<1>2. CASE R!openRunbookDirectory
    BY <1>2, RShapes
       DEF R!openRunbookDirectory, R!configurationFailure, R!Answer, R!GoTo, R!Others, Moves, ExitCodes
<1>3. CASE R!loadDocument
    BY <1>3, RShapes
       DEF R!loadDocument, R!configurationFailure, R!Answer, R!GoTo, R!Others, Moves, ExitCodes
<1>4. CASE R!Report
    BY <1>4, RShapes
       DEF R!Report, R!Answer, R!GoTo, R!Others, Moves, ExitCodes
<1> QED
    BY <1>1, <1>2, <1>3, <1>4 DEF R!Step

\* They, and what others do, keep the types.
LEMMA RNextTyped == Typed /\ R!Next => Typed'
<1> SUFFICES ASSUME Typed, R!Next PROVE Typed'
    OBVIOUS
<1>1. CASE R!Step
    BY <1>1, RMoves, MovesTyped
<1>2. CASE R!Change
  <2>1. Meanwhile
    BY <1>2 DEF R!Change, R!Changes, Meanwhile
  <2> QED
    BY <2>1, MovesTyped
<1>3. CASE R!Deadline
  <2>1. Meanwhile
    BY <1>3 DEF R!Deadline, Meanwhile
  <2> QED
    BY <2>1, MovesTyped
<1> QED
    BY <1>1, <1>2, <1>3 DEF R!Next

\* It starts with them.
LEMMA RInitTyped == R!Init => Typed
<1> SUFFICES ASSUME R!Init PROVE Typed
    OBVIOUS
<1>1. ctx = "live" /\ changes = 0 /\ pc = "start" /\ reply = R!NoReply
    BY DEF R!Init, R!Starts
<1>2. Typed
    BY <1>1, ChangesAssumption DEF Typed, ReplyOK, Statuses, R!NoReply
<1> QED
    BY <1>2

(* Security *)

\* What its steps rely on.
SeTypes ==
    /\ cmd \in {"audit", "accounts", "ssh", "firewall"}
    /\ "checks" \in DOMAIN got /\ (\A c \in got.checks : c.status \in Statuses)

\* What an answer is made of.
LEMMA SeShapes ==
    /\ \A code \in ExitCodes : WellFormed(Se!Failure(code))
    /\ \A checks, data, errors : (\A c \in checks : c.status \in Statuses) =>
            WellFormed(Se!Built(checks, data, errors))
BY DEF WellFormed, ExitCodes, Statuses, Se!Failure, Se!NoReply, Se!Built, Se!Build, Se!classify, Se!Result

\* Each of its steps.
LEMMA SeMoves == SeTypes /\ Se!Step => Moves /\ SeTypes'
<1> SUFFICES ASSUME SeTypes, Se!Step PROVE Moves /\ SeTypes'
    OBVIOUS
<1>1. CASE Se!Dispatch
    BY <1>1, SeShapes
       DEF Se!Dispatch, Se!Answer, Se!GoTo, Se!Others, Moves, ExitCodes, SeTypes
<1>2. CASE Se!Timeout
    BY <1>2, SeShapes
       DEF Se!Timeout, Se!Answer, Se!GoTo, Se!Others, Moves, ExitCodes, SeTypes
<1>3. CASE Se!collectAccounts
    BY <1>3, SeShapes
       DEF Se!collectAccounts, Se!Dependency, Se!Answer, Se!GoTo, Se!Others, Moves, ExitCodes, SeTypes
<1>4. CASE Se!readShadowMetadata
    BY <1>4, SeShapes
       DEF Se!readShadowMetadata, Se!Answer, Se!GoTo, Se!Others, Moves, ExitCodes, SeTypes
<1>5. CASE Se!parsePasswd
    BY <1>5, SeShapes
       DEF Se!parsePasswd, Se!Answer, Se!GoTo, Se!Others, Moves, ExitCodes, SeTypes
<1>6. CASE Se!readGroups
    BY <1>6, SeShapes
       DEF Se!readGroups, Se!accountChecks, Se!Chk, Se!Answer, Se!GoTo, Se!Others, Moves, ExitCodes,
           Statuses, SeTypes
<1>7. CASE Se!readSSHConfiguration
    BY <1>7, SeShapes
       DEF Se!readSSHConfiguration, Se!Answer, Se!GoTo, Se!Others, Moves, ExitCodes, SeTypes
<1>8. CASE Se!collectSSH
    BY <1>8, SeShapes
       DEF Se!collectSSH, Se!Dependency, Se!sshChecks, Se!Chk, Se!Answer, Se!GoTo, Se!Others, Moves,
           ExitCodes, Statuses, SeTypes
<1>9. CASE Se!nft
    BY <1>9, SeShapes
       DEF Se!nft, Se!firewallProbe, Se!Chk, Se!Answer, Se!GoTo, Se!Others, Moves, ExitCodes, Statuses,
           SeTypes
<1>10. CASE Se!ufw
    BY <1>10, SeShapes
       DEF Se!ufw, Se!firewallProbe, Se!Chk, Se!Answer, Se!GoTo, Se!Others, Moves, ExitCodes, Statuses,
           SeTypes
<1>11. CASE Se!buildResult
    BY <1>11, SeShapes
       DEF Se!buildResult, Se!Weakened, Se!Chk, Se!Answer, Se!GoTo, Se!Others, Moves, ExitCodes, Statuses,
           SeTypes
<1> QED
    BY <1>1, <1>2, <1>3, <1>4, <1>5, <1>6, <1>7, <1>8, <1>9, <1>10, <1>11 DEF Se!Step

\* They, and what others do, keep the types.
LEMMA SeNextTyped == Typed /\ SeTypes /\ Se!Next => Typed' /\ SeTypes'
<1> SUFFICES ASSUME Typed, SeTypes, Se!Next PROVE Typed' /\ SeTypes'
    OBVIOUS
<1>1. CASE Se!Step
    BY <1>1, SeMoves, MovesTyped
<1>2. CASE Se!Change
  <2>1. Meanwhile /\ SeTypes'
    BY <1>2 DEF Se!Change, Se!Changes, Meanwhile, SeTypes
  <2> QED
    BY <2>1, MovesTyped
<1>3. CASE Se!Deadline
  <2>1. Meanwhile /\ SeTypes'
    BY <1>3 DEF Se!Deadline, Meanwhile, SeTypes
  <2> QED
    BY <2>1, MovesTyped
<1> QED
    BY <1>1, <1>2, <1>3 DEF Se!Next

\* It starts with them.
LEMMA SeInitTyped == Se!Init => Typed /\ SeTypes
<1> SUFFICES ASSUME Se!Init PROVE Typed /\ SeTypes
    OBVIOUS
<1>1. ctx = "live" /\ changes = 0 /\ pc = "start" /\ reply = Se!NoReply
    BY DEF Se!Init, Se!Starts
<1>2. Typed
    BY <1>1, ChangesAssumption DEF Typed, ReplyOK, Statuses, Se!NoReply
<1>3. SeTypes
    BY DEF Se!Init, Se!Starts, SeTypes
<1> QED
    BY <1>2, <1>3

(* ServiceInfo *)

\* What an answer is made of.
LEMMA SvShapes ==
    /\ \A code \in ExitCodes : WellFormed(Sv!Failure(code))
    /\ \A status, checks, data, errors :
         status \in Statuses /\ (\A c \in checks : c.status \in Statuses) =>
            WellFormed(Sv!Result(status, checks, data, errors))
BY DEF WellFormed, ExitCodes, Statuses, Sv!Failure, Sv!NoReply, Sv!Result

\* Each of its steps.
LEMMA SvMoves == Sv!Step => Moves
<1> SUFFICES ASSUME Sv!Step PROVE Moves
    OBVIOUS
<1>1. CASE Sv!managerFor
    BY <1>1, SvShapes
       DEF Sv!managerFor, Sv!Answer, Sv!GoTo, Sv!Others, Moves, ExitCodes, Statuses
<1>2. CASE Sv!Validate
    BY <1>2, SvShapes
       DEF Sv!Validate, Sv!Answer, Sv!GoTo, Sv!Others, Moves, ExitCodes, Statuses
<1>3. CASE Sv!Status
    BY <1>3, SvShapes
       DEF Sv!Status, Sv!Finished, Sv!failure, Sv!Answer, Sv!GoTo, Sv!Others, Moves, ExitCodes, Statuses
<1>4. CASE Sv!Logs
    BY <1>4, SvShapes
       DEF Sv!Logs, Sv!Finished, Sv!failure, Sv!Answer, Sv!GoTo, Sv!Others, Moves, ExitCodes, Statuses
<1> QED
    BY <1>1, <1>2, <1>3, <1>4 DEF Sv!Step

\* They, and what others do, keep the types.
LEMMA SvNextTyped == Typed /\ Sv!Next => Typed'
<1> SUFFICES ASSUME Typed, Sv!Next PROVE Typed'
    OBVIOUS
<1>1. CASE Sv!Step
    BY <1>1, SvMoves, MovesTyped
<1>2. CASE Sv!Deadline
  <2>1. Meanwhile
    BY <1>2 DEF Sv!Deadline, Meanwhile
  <2> QED
    BY <2>1, MovesTyped
<1> QED
    BY <1>1, <1>2 DEF Sv!Next

\* It starts with them.
LEMMA SvInitTyped == Sv!Init => Typed
<1> SUFFICES ASSUME Sv!Init PROVE Typed
    OBVIOUS
<1>1. ctx = "live" /\ changes = 0 /\ pc = "start" /\ reply = Sv!NoReply
    BY DEF Sv!Init, Sv!Starts
<1>2. Typed
    BY <1>1, ChangesAssumption DEF Typed, ReplyOK, Statuses, Sv!NoReply
<1> QED
    BY <1>2

(* Storage *)

\* What an answer is made of.
LEMMA StShapes ==
    /\ \A code \in ExitCodes : WellFormed(St!Failure(code))
    /\ \A status, checks, data, errors :
         status \in Statuses /\ (\A c \in checks : c.status \in Statuses) =>
            WellFormed(St!Result(status, checks, data, errors))
BY DEF WellFormed, ExitCodes, Statuses, St!Failure, St!NoReply, St!Result

\* Each of its steps.
LEMMA StMoves == StWorst /\ St!Step => Moves
<1> SUFFICES ASSUME StWorst, St!Step PROVE Moves
    OBVIOUS
<1>1. CASE St!Configure
    BY <1>1, StShapes
       DEF St!Configure, St!Answer, St!GoTo, St!Others, Moves, ExitCodes, Statuses
<1>2. CASE St!ReadTable
    BY <1>2, StShapes
       DEF St!ReadTable, St!Answer, St!GoTo, St!Others, Moves, ExitCodes, Statuses
<1>3. CASE St!TableFails
    BY <1>3, StShapes
       DEF St!TableFails, St!Answer, St!GoTo, St!Others, Moves, ExitCodes, Statuses
<1>4. CASE St!Stat
    BY <1>4, StShapes
       DEF St!Stat, St!Answer, St!GoTo, St!Others, Moves, ExitCodes, Statuses
<1>5. CASE St!Report
  <2>1. PICK order \in St!Orders(got.items) : \E errors :
           St!Answer(St!Result(St!Status(order), {St!Chk(i.mount.point, St!CheckStatus(i)) : i \in
       got.items}, got.items, errors))
    BY <1>5 DEF St!Report
  <2>2. PICK n \in Nat : Len(order) = n
    BY StOrders DEF StWorst
  <2>3. St!Status(order) \in Statuses
    BY <2>2, StFolded DEF St!Status, StWorstOf, Statuses
  <2>4. \A c \in {St!Chk(i.mount.point, St!CheckStatus(i)) : i \in got.items} : c.status \in Statuses
    BY DEF St!Chk, St!CheckStatus, Statuses
  <2>5. WellFormed(reply')
    BY <2>1, <2>3, <2>4, StShapes DEF St!Answer
  <2> QED
    BY <1>5, <2>1, <2>5 DEF St!Report, St!Answer, St!Others, Moves
<1> QED
    BY <1>1, <1>2, <1>3, <1>4, <1>5 DEF St!Step

\* They, and what others do, keep the types.
LEMMA StNextTyped == Typed /\ StWorst /\ St!Next => Typed'
<1> SUFFICES ASSUME Typed, StWorst, St!Next PROVE Typed'
    OBVIOUS
<1>1. CASE St!Step
    BY <1>1, StMoves, MovesTyped
<1>2. CASE St!Change
  <2>1. Meanwhile
    BY <1>2 DEF St!Change, St!Changes, Meanwhile
  <2> QED
    BY <2>1, MovesTyped
<1>3. CASE St!Deadline
  <2>1. Meanwhile
    BY <1>3 DEF St!Deadline, Meanwhile
  <2> QED
    BY <2>1, MovesTyped
<1> QED
    BY <1>1, <1>2, <1>3 DEF St!Next

\* It starts with them.
LEMMA StInitTyped == St!Init => Typed
<1> SUFFICES ASSUME St!Init PROVE Typed
    OBVIOUS
<1>1. ctx = "live" /\ changes = 0 /\ pc = "start" /\ reply = St!NoReply
    BY DEF St!Init, St!Starts
<1>2. Typed
    BY <1>1, ChangesAssumption DEF Typed, ReplyOK, Statuses, St!NoReply
<1> QED
    BY <1>2

(* SystemInfo *)

\* What its steps rely on.
SyTypes ==
    /\ "sync" \in DOMAIN got /\ got.sync \in {"yes", "no", "unread"}
    /\ "checks" \in DOMAIN got /\ (\A c \in got.checks : c.status \in Statuses)

\* What an answer is made of.
LEMMA SyShapes ==
    /\ \A code \in ExitCodes : WellFormed(Sy!Failure(code))
    /\ \A status, checks, data, errors :
         status \in Statuses /\ (\A c \in checks : c.status \in Statuses) =>
            WellFormed(Sy!Result(status, checks, data, errors))
BY DEF WellFormed, ExitCodes, Statuses, Sy!Failure, Sy!NoReply, Sy!Result

\* Each of its steps.
LEMMA SyMoves == SyTypes /\ Sy!Step => Moves /\ SyTypes'
<1> SUFFICES ASSUME SyTypes, Sy!Step PROVE Moves /\ SyTypes'
    OBVIOUS
<1>1. CASE Sy!Dispatch
    BY <1>1, SyShapes
       DEF Sy!Dispatch, Sy!Answer, Sy!GoTo, Sy!Others, Moves, ExitCodes, Statuses, SyTypes
<1>2. CASE Sy!ReadFiles
    BY <1>2, SyShapes
       DEF Sy!ReadFiles, Sy!Answer, Sy!GoTo, Sy!Others, Moves, ExitCodes, Statuses, SyTypes
<1>3. CASE Sy!DetectVirt
    BY <1>3, SyShapes
       DEF Sy!DetectVirt, Sy!Answer, Sy!GoTo, Sy!Others, Moves, ExitCodes, Statuses, SyTypes
<1>4. CASE Sy!timeSynchronized
    BY <1>4, SyShapes
       DEF Sy!timeSynchronized, Sy!Answer, Sy!GoTo, Sy!Others, Moves, ExitCodes, Statuses, SyTypes
<1>5. CASE Sy!InfoResult
    BY <1>5, SyShapes
       DEF Sy!InfoResult, Sy!Answer, Sy!GoTo, Sy!Others, Moves, ExitCodes, Statuses, SyTypes
<1>6. CASE Sy!SnapshotChecks
    BY <1>6, SyShapes
       DEF Sy!SnapshotChecks, Sy!osCheck, Sy!memoryCheck, Sy!filesystemCheck, Sy!timeCheck, Sy!Limit,
           Sy!Chk, Sy!Answer, Sy!GoTo, Sy!Others, Moves, ExitCodes, Statuses, SyTypes
<1>7. CASE Sy!failedUnits
    BY <1>7, SyShapes
       DEF Sy!failedUnits, Sy!Checked, Sy!Chk, Sy!Answer, Sy!GoTo, Sy!Others, Moves, ExitCodes, Statuses,
           SyTypes
<1>8. CASE Sy!oomEvents
    BY <1>8, SyShapes
       DEF Sy!oomEvents, Sy!Checked, Sy!Chk, Sy!Answer, Sy!GoTo, Sy!Others, Moves, ExitCodes, Statuses,
           SyTypes
<1>9. CASE Sy!HealthResult
    BY <1>9, SyShapes
       DEF Sy!HealthResult, Sy!aggregateStatus, Sy!Answer, Sy!GoTo, Sy!Others, Moves, ExitCodes, Statuses,
           SyTypes
<1> QED
    BY <1>1, <1>2, <1>3, <1>4, <1>5, <1>6, <1>7, <1>8, <1>9 DEF Sy!Step

\* They, and what others do, keep the types.
LEMMA SyNextTyped == Typed /\ SyTypes /\ Sy!Next => Typed' /\ SyTypes'
<1> SUFFICES ASSUME Typed, SyTypes, Sy!Next PROVE Typed' /\ SyTypes'
    OBVIOUS
<1>1. CASE Sy!Step
    BY <1>1, SyMoves, MovesTyped
<1>2. CASE Sy!Expire
  <2>1. Meanwhile /\ SyTypes'
    BY <1>2 DEF Sy!Expire, Meanwhile, SyTypes
  <2> QED
    BY <2>1, MovesTyped
<1> QED
    BY <1>1, <1>2 DEF Sy!Next

\* It starts with them.
LEMMA SyInitTyped == Sy!Init => Typed /\ SyTypes
<1> SUFFICES ASSUME Sy!Init PROVE Typed /\ SyTypes
    OBVIOUS
<1>1. ctx = "live" /\ changes = 0 /\ pc = "start" /\ reply = Sy!NoReply
    BY DEF Sy!Init, Sy!Starts
<1>2. Typed
    BY <1>1, ChangesAssumption DEF Typed, ReplyOK, Statuses, Sy!NoReply
<1>3. SyTypes
    BY DEF Sy!Init, Sy!Starts, SyTypes, Sy!NothingRead
<1> QED
    BY <1>2, <1>3

-----------------------------------------------------------------------------
(* All of them: the types. *)

\* What the steps of each plugin rely on.
RunsTyped ==
    /\ plugin \in Plugins /\ Typed
    /\ Is("apt")        => ATypes
    /\ Is("backup")     => BkTypes
    /\ Is("baseline")   => BlTypes
    /\ Is("incident")   => ITypes
    /\ Is("java")       => JTypes
    /\ Is("kafka")      => KaTypes
    /\ Is("kubernetes") => KuTypes
    /\ Is("monitoring") => MTypes
    /\ Is("network")    => NTypes
    /\ Is("postgres")   => PgTypes
    /\ Is("security")   => SeTypes
    /\ Is("system")     => SyTypes

\* It holds when a plugin starts.
LEMMA RunsTypedInit == Init => RunsTyped
<1> SUFFICES ASSUME Init PROVE RunsTyped
    OBVIOUS
<1>1. ASSUME Is("apt") PROVE A!Init
    BY <1>1 DEF Init, Is
<1>2. ASSUME Is("backup") PROVE Bk!Init
    BY <1>2 DEF Init, Is
<1>3. ASSUME Is("baseline") PROVE Bl!Init
    BY <1>3 DEF Init, Is
<1>4. ASSUME Is("docker") PROVE D!Init
    BY <1>4 DEF Init, Is
<1>5. ASSUME Is("file") PROVE F!Init
    BY <1>5 DEF Init, Is
<1>6. ASSUME Is("gitlab-runner") PROVE G!Init
    BY <1>6 DEF Init, Is
<1>7. ASSUME Is("incident") PROVE I!Init
    BY <1>7 DEF Init, Is
<1>8. ASSUME Is("java") PROVE J!Init
    BY <1>8 DEF Init, Is
<1>9. ASSUME Is("kafka") PROVE Ka!Init
    BY <1>9 DEF Init, Is
<1>10. ASSUME Is("kubernetes") PROVE Ku!Init
    BY <1>10 DEF Init, Is
<1>11. ASSUME Is("monitoring") PROVE M!Init
    BY <1>11 DEF Init, Is
<1>12. ASSUME Is("network") PROVE N!Init
    BY <1>12 DEF Init, Is
<1>13. ASSUME Is("platform") PROVE P!Init
    BY <1>13 DEF Init, Is
<1>14. ASSUME Is("postgres") PROVE Pg!Init
    BY <1>14 DEF Init, Is
<1>15. ASSUME Is("runbook") PROVE R!Init
    BY <1>15 DEF Init, Is
<1>16. ASSUME Is("security") PROVE Se!Init
    BY <1>16 DEF Init, Is
<1>17. ASSUME Is("service") PROVE Sv!Init
    BY <1>17 DEF Init, Is
<1>18. ASSUME Is("storage") PROVE St!Init
    BY <1>18 DEF Init, Is
<1>19. ASSUME Is("system") PROVE Sy!Init
    BY <1>19 DEF Init, Is
<1>p. plugin \in Plugins
    BY DEF Init, Plugins
<1>t. Typed
    BY <1>1, <1>2, <1>3, <1>4, <1>5, <1>6, <1>7, <1>8, <1>9, <1>10, <1>11, <1>12, <1>13, <1>14, <1>15,
       <1>16, <1>17, <1>18, <1>19,
       AInitTyped, BkInitTyped, BlInitTyped, DInitTyped, FInitTyped, GInitTyped, IInitTyped, JInitTyped,
       KaInitTyped, KuInitTyped, MInitTyped, NInitTyped, PInitTyped, PgInitTyped, RInitTyped, SeInitTyped,
       SvInitTyped, StInitTyped, SyInitTyped
       DEF Init, Is
<1> QED
    BY <1>p, <1>t, <1>1, <1>2, <1>3, <1>4, <1>5, <1>6, <1>7, <1>8, <1>9, <1>10, <1>11, <1>12, <1>13, <1>14,
       <1>15, <1>16, <1>17, <1>18, <1>19,
       AInitTyped, BkInitTyped, BlInitTyped, IInitTyped, JInitTyped, KaInitTyped, KuInitTyped, MInitTyped,
       NInitTyped, PgInitTyped, SeInitTyped, SyInitTyped
       DEF RunsTyped

\* A step of one plugin is a step of that plugin.
LEMMA RunsTypedNext == RunsTyped /\ RepliesWeighed /\ Next => RunsTyped'
<1> SUFFICES ASSUME RunsTyped, RepliesWeighed, Next PROVE RunsTyped'
    OBVIOUS
<1>u. plugin' = plugin /\ \A p : Is(p)' = Is(p)
    BY DEF Next, Is
<1>1. Is("apt") => Typed' /\ ATypes'
    BY ANextTyped DEF RunsTyped, Next, Is
<1>2. Is("backup") => Typed' /\ BkTypes'
    BY BkNextTyped DEF RunsTyped, Next, Is
<1>3. Is("baseline") => Typed' /\ BlTypes'
    BY BlNextTyped DEF RunsTyped, Next, Is
<1>4. Is("docker") => Typed'
    BY DNextTyped DEF RunsTyped, Next, Is
<1>5. Is("file") => Typed'
    BY FNextTyped DEF RunsTyped, Next, Is
<1>6. Is("gitlab-runner") => Typed'
    BY GNextTyped DEF RunsTyped, Next, Is
<1>7. Is("incident") => Typed' /\ ITypes'
    BY INextTyped DEF RunsTyped, Next, Is
<1>8. Is("java") => Typed' /\ JTypes'
    BY JNextTyped DEF RunsTyped, Next, Is
<1>9. Is("kafka") => Typed' /\ KaTypes'
    BY KaNextTyped DEF RunsTyped, Next, Is
<1>10. Is("kubernetes") => Typed' /\ KuTypes'
    BY KuNextTyped DEF RunsTyped, Next, Is
<1>11. Is("monitoring") => Typed' /\ MTypes'
    BY MNextTyped DEF RunsTyped, Next, Is
<1>12. Is("network") => Typed' /\ NTypes'
    BY NNextTyped DEF RunsTyped, Next, Is
<1>13. Is("platform") => Typed'
    BY PNextTyped DEF RunsTyped, Next, Is
<1>14. Is("postgres") => Typed' /\ PgTypes'
    BY PgNextTyped DEF RunsTyped, Next, Is
<1>15. Is("runbook") => Typed'
    BY RNextTyped DEF RunsTyped, Next, Is
<1>16. Is("security") => Typed' /\ SeTypes'
    BY SeNextTyped DEF RunsTyped, Next, Is
<1>17. Is("service") => Typed'
    BY SvNextTyped DEF RunsTyped, Next, Is
<1>18. Is("storage") => Typed'
    BY StNextTyped DEF RunsTyped, RepliesWeighed, Next, Is
<1>19. Is("system") => Typed' /\ SyTypes'
    BY SyNextTyped DEF RunsTyped, Next, Is
<1>t. Typed'
    BY <1>1, <1>2, <1>3, <1>4, <1>5, <1>6, <1>7, <1>8, <1>9, <1>10, <1>11, <1>12, <1>13, <1>14, <1>15,
       <1>16, <1>17, <1>18, <1>19
       DEF Next
<1> QED
    BY <1>u, <1>t, <1>1, <1>2, <1>3, <1>7, <1>8, <1>9, <1>10, <1>11, <1>12, <1>14, <1>16, <1>19
       DEF RunsTyped, Is

\* It is about the state alone.
LEMMA RunsTypedStutters == RunsTyped /\ UNCHANGED <<vars, plugin>> => RunsTyped'
<1> SUFFICES ASSUME RunsTyped, UNCHANGED <<vars, plugin>> PROVE RunsTyped'
    OBVIOUS
<1>u. UNCHANGED <<cmd, ctx, host, hist, changes, pc, got, reply, plugin>>
    BY DEF vars
<1>0. Typed' = Typed
    BY <1>u DEF Typed, ReplyOK
<1>1. ATypes' = ATypes
    BY <1>u DEF ATypes
<1>2. BkTypes' = BkTypes
    BY <1>u DEF BkTypes
<1>3. BlTypes' = BlTypes
    BY <1>u DEF BlTypes
<1>4. ITypes' = ITypes
    BY <1>u DEF ITypes
<1>5. JTypes' = JTypes
    BY <1>u DEF JTypes
<1>6. KaTypes' = KaTypes
    BY <1>u DEF KaTypes
<1>7. KuTypes' = KuTypes
    BY <1>u DEF KuTypes
<1>8. MTypes' = MTypes
    BY <1>u DEF MTypes
<1>9. NTypes' = NTypes
    BY <1>u DEF NTypes
<1>10. PgTypes' = PgTypes
    BY <1>u DEF PgTypes
<1>11. SeTypes' = SeTypes
    BY <1>u DEF SeTypes
<1>12. SyTypes' = SyTypes
    BY <1>u DEF SyTypes
<1> QED
    BY <1>u, <1>0, <1>1, <1>2, <1>3, <1>4, <1>5, <1>6, <1>7, <1>8, <1>9, <1>10, <1>11, <1>12 DEF RunsTyped, Is

\* An answer has an exit code, and a status and checks that the protocol knows,
\* for every plugin that reads; a run has an answer when it is over, and none
\* before; others do not act more often than they may.
THEOREM TypeCorrect == Spec => []TypeOK
<1>1. Init => RepliesWeighed /\ RunsTyped
    BY RepliesWeighedInit, RunsTypedInit
<1>2. CollectorsInv /\ RepliesWeighed /\ RunsTyped /\ [Next]_<<vars, plugin>> => RepliesWeighed' /\ RunsTyped'
    BY RepliesWeighedNext, RepliesWeighedStutters, RunsTypedNext, RunsTypedStutters
<1>3. RunsTyped => TypeOK
    BY DEF RunsTyped, Typed, TypeOK
<1>4. Spec => []CollectorsInv
    BY CollectorsInvariant
<1> QED
    BY <1>1, <1>2, <1>3, <1>4, PTL DEF Spec
=============================================================================
