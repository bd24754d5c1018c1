---------------------- MODULE CollectorsReplyProofs ----------------------
(***************************************************************************)
(* What the answers of the plugins that only read leave out, and what they *)
(* pass: for every number of changes of the host, every set of process     *)
(* ids, any arguments and any order of the filesystems.                    *)
(*                                                                         *)
(* As in CollectorsProofs a section for each plugin has an inductive       *)
(* invariant (<X>Reports), and lemmas that it holds at the start, that     *)
(* every step preserves it, with what CollectorsProofs knows of the        *)
(* plugin, and that it implies the promise.  Those of Security, Services,  *)
(* Storage and System are in CollectorsProofs.                             *)
(***************************************************************************)
EXTENDS CollectorsProofs

-----------------------------------------------------------------------------
(* Apt.  What a command was told when a tool or a source could not be read. *)

\* A record that is incomplete all the time is so now, and was seen to be once it was looked at.
AStatus ==
    /\ {"database", "directory", "updates"} \subseteq DOMAIN host
    /\ host.updates \in Nat
    /\ hist.other => host.database = "other"
    /\ hist.pending => host.directory = "read" /\ host.updates > 0
    /\ pc = "pending" /\ hist.other => got.incomplete
    /\ pc \in {"start", "database", "pending", "done"}

\* A file of the sources that stays as it was is still to be read, or is read and collected.
ARead == \A i \in DOMAIN host.files : A!Regular(host.files[i]) =>
           i \in got.todo \/ (host.files[i].state = "read" /\ A!Parsed(host.files[i]) \subseteq got.sources)

\* What could not be read of the sources has an error.
ASources ==
    /\ {"classic", "directory", "files"} \subseteq DOMAIN host
    /\ {"todo", "sources", "errors"} \subseteq DOMAIN got
    /\ pc \in {"directory", "files"} /\ got.errors = {} => host.classic.state # "unread"
    /\ pc = "files" /\ ~ hist.moved /\ got.errors = {} /\ host.directory = "read" => ARead
    /\ pc \in {"start", "classic", "directory", "files", "done"}

\* The commands in their order; what is answered loses nothing, and a pass is earned.
AReports ==
    /\ cmd \in {"status", "updates", "sources", "history"}
    /\ cmd = "status" => AStatus
    /\ cmd = "updates" => pc \in {"start", "simulate", "done"}
    /\ cmd = "sources" => ASources
    /\ cmd = "history" => pc \in {"start", "log", "done"}
    /\ reply.exit = "ok" \/ reply.status = "pass" => pc = "done"
    /\ A!NothingLost /\ A!PassIsEarned

\* What is said of a built answer with one check.
LEMMA ABuilds ==
    ASSUME NEW id, NEW status, NEW data, NEW errors
    PROVE  LET r == A!Built({A!Chk(id, status)}, data, errors) IN
           /\ r.exit = "ok" /\ r.errors = errors /\ r.data = data
           /\ r.status = "pass" => errors = {}
           /\ status = "warning" => r.status = "warning"
           /\ errors # {} /\ status = "pass" => r.status = "partial"
<1> DEFINE checks == {A!Chk(id, status)}
<1>1. checks = {[id |-> id, status |-> status]}
    BY DEF A!Chk
<1>2. \A s : (\E c \in checks : c.status = s) <=> status = s
    BY <1>1
<1> HIDE DEF checks
<1>3. /\ A!classify(checks, errors) = "pass" => errors = {}
      /\ status = "warning" => A!classify(checks, errors) = "warning"
      /\ errors # {} /\ status = "pass" => A!classify(checks, errors) = "partial"
    BY <1>2 DEF A!classify
<1>4. LET r == A!Built(checks, data, errors) IN
        r.exit = "ok" /\ r.errors = errors /\ r.data = data /\ r.status = A!classify(checks, errors)
    BY DEF A!Built, A!Build, A!Result
<1> QED
    BY <1>3, <1>4 DEF checks

\* It holds at the start.
LEMMA AReportsInit == A!Init => AReports
<1> SUFFICES ASSUME A!Init PROVE AReports
    OBVIOUS
<1>1. pc = "start" /\ reply = A!NoReply /\ cmd \in {"status", "updates", "sources", "history"}
    BY DEF A!Init, A!Starts
<1>2. cmd = "status" => host \in [database : A!Databases, directory : A!UpdateDirs, updates : 0..(A!MaxFiles + 1)]
    BY DEF A!Init, A!Starts
<1>3. cmd = "status" => hist = [other |-> host.database = "other", pending |-> host.directory = "read" /\ host.updates > 0]
    BY DEF A!Init, A!Starts
<1>4. cmd = "sources" => host \in A!Hosts /\ got = [todo |-> {}, sources |-> {}, errors |-> {}]
    BY DEF A!Init, A!Starts
<1>5. cmd = "status" => AStatus
  <2> SUFFICES ASSUME cmd = "status" PROVE AStatus
    OBVIOUS
  <2>1. {"database", "directory", "updates"} \subseteq DOMAIN host /\ host.updates \in Nat
    BY <1>2 DEF A!MaxFiles
  <2>2. hist.other = (host.database = "other") /\ hist.pending = (host.directory = "read" /\ host.updates > 0)
    BY <1>3
  <2> QED
    BY <1>1, <2>1, <2>2 DEF AStatus
<1>6. \A h \in A!Hosts : {"classic", "directory", "files"} \subseteq DOMAIN h
  <2> DEFINE C == {A!Absent, A!Unread, A!File("read", "list", <<"password", "no entry">>)}
             D0 == {"absent", "link", "read"}
             L == (A!Sources \ {A!Absent}) \cup A!Ignored
             N0 == {A!MaxFiles, A!MaxFiles + 1}
  <2>1. A!Hosts = {[classic |-> c, directory |-> d, files |-> <<f>>] : c \in C, d \in D0, f \in L}
                  \cup {[classic |-> A!Absent, directory |-> "read",
                         files |-> [i \in 1..n |-> A!File("read", "list", <<"plain">>)]] : n \in N0}
    BY DEF A!Hosts
  <2> HIDE DEF C, D0, L, N0
  <2> QED
    BY <2>1
<1>7. cmd = "sources" => ASources
    BY <1>1, <1>4, <1>6 DEF ASources
<1> QED
    BY <1>1, <1>5, <1>7 DEF AReports, A!NothingLost, A!PassIsEarned, A!NoReply

\* Every step preserves it.
LEMMA AReportsNext == AReports /\ A!Next => AReports'
<1> SUFFICES ASSUME AReports, A!Next PROVE AReports'
    OBVIOUS
<1> USE DEF A!Others, A!Answer, A!GoTo
<1>c. cmd' = cmd
    BY DEF A!Next, A!Step, A!Dispatch, A!collectStatus, A!countRegularFiles, A!collectUpdates, A!ReadClassic,
           A!regularFiles, A!ReadSource, A!Read, A!collectSources, A!collectHistory, A!Change, A!Changes, A!Deadline
<1>f. \A code : code # "ok" => A!Failure(code).exit # "ok" /\ A!Failure(code).status # "pass"
    BY DEF A!Failure, A!NoReply
<1>q. pc # "done" => reply.exit # "ok" /\ reply.status # "pass"
    BY DEF AReports
<1>a. CASE /\ UNCHANGED <<host, hist, got>> /\ pc' = "done" /\ reply'.exit # "ok" /\ reply'.status # "pass"
    BY <1>a, <1>c DEF AReports, AStatus, ASources, A!NothingLost, A!PassIsEarned
<1>1. CASE A!Dispatch
  <2>1. CASE A!Answer(A!Failure("arguments"))
    BY <1>1, <1>a, <1>f, <2>1 DEF A!Dispatch
  <2>2. CASE A!GoTo([status |-> "database", updates |-> "simulate", sources |-> "classic", history |-> "log"][cmd])
    <3>1. /\ pc = "start" /\ UNCHANGED <<host, hist, got, reply>>
          /\ pc' = [status |-> "database", updates |-> "simulate", sources |-> "classic", history |-> "log"][cmd]
      BY <1>1, <2>2 DEF A!Dispatch
    <3>2. /\ cmd = "status" => pc' = "database" /\ AStatus
          /\ cmd = "updates" => pc' = "simulate"
          /\ cmd = "sources" => pc' = "classic" /\ ASources
          /\ cmd = "history" => pc' = "log"
          /\ cmd \in {"status", "updates", "sources", "history"}
      BY <3>1 DEF AReports
    <3> QED
      BY <1>c, <1>q, <3>1, <3>2 DEF AReports, AStatus, ASources, A!NothingLost, A!PassIsEarned
  <2> QED
    BY <1>1, <2>1, <2>2 DEF A!Dispatch
<1>2. CASE A!collectStatus
  <2>1. CASE host.database = "absent"
    BY <1>2, <1>a, <1>f, <2>1 DEF A!collectStatus
  <2>2. CASE host.database = "unread"
    BY <1>2, <1>a, <1>f, <2>2 DEF A!collectStatus
  <2>3. CASE host.database \notin {"absent", "unread"}
    <3>1. /\ pc = "database" /\ pc' = "pending" /\ UNCHANGED <<host, hist, reply>>
          /\ got' = [incomplete |-> host.database = "other"]
      BY <1>2, <2>3 DEF A!collectStatus
    <3>2. cmd = "status" /\ AStatus
      BY <3>1 DEF AReports, ASources
    <3> QED
      BY <1>c, <1>q, <3>1, <3>2 DEF AReports, AStatus, A!NothingLost, A!PassIsEarned
  <2> QED
    BY <2>1, <2>2, <2>3
<1>3. CASE A!countRegularFiles
  <2> DEFINE pending == IF host.directory = "read" /\ ~ A!PendingError THEN host.updates ELSE 0
             status == IF got.incomplete \/ pending > 0 THEN "warning" ELSE "pass"
             errors == IF A!PendingError THEN {"dpkg_updates_unavailable"} ELSE {}
  <2>1. /\ pc = "pending" /\ pc' = "done" /\ UNCHANGED <<host, hist, got>>
        /\ reply' = A!Built({A!Chk("dpkg-status", status)}, pending, errors)
    BY <1>3 DEF A!countRegularFiles
  <2>2. cmd = "status" /\ AStatus
    BY <2>1 DEF AReports, ASources
  <2>3. hist.other => status = "warning"
    BY <2>1, <2>2 DEF AStatus
  <2>4. hist.pending => status = "warning" \/ errors # {}
    BY <2>2 DEF AStatus
  <2>5. status \in {"warning", "pass"}
    OBVIOUS
  <2> HIDE DEF pending, status, errors
  <2>6. /\ reply'.errors = errors /\ (reply'.status = "pass" => errors = {})
        /\ hist.other \/ hist.pending => reply'.status \in {"warning", "partial"}
    BY <2>1, <2>3, <2>4, <2>5, ABuilds
  <2> QED
    BY <1>c, <2>1, <2>2, <2>6 DEF AReports, AStatus, A!NothingLost, A!PassIsEarned
<1>4. CASE A!collectUpdates
  <2>0. pc = "simulate" /\ pc' = "done" /\ UNCHANGED <<host, hist, got>>
    BY <1>4 DEF A!collectUpdates
  <2>1. \/ \E code \in {"timeout", "dependency", "general"} : reply' = A!Failure(code)
        \/ reply' = A!Built({A!Chk("updates", "pass")}, A!Min({host.inst, A!MaxOutput}), {})
    BY <1>4 DEF A!collectUpdates
  <2>2. CASE \E code \in {"timeout", "dependency", "general"} : reply' = A!Failure(code)
    BY <1>a, <1>f, <2>0, <2>2
  <2>3. CASE reply' = A!Built({A!Chk("updates", "pass")}, A!Min({host.inst, A!MaxOutput}), {})
    <3>1. reply'.errors = {}
      BY <2>3, ABuilds
    <3>2. cmd = "updates"
      BY <2>0 DEF AReports, AStatus, ASources
    <3> QED
      BY <1>c, <2>0, <3>1, <3>2 DEF AReports, A!NothingLost, A!PassIsEarned
  <2> QED
    BY <2>1, <2>2, <2>3
<1>5. CASE A!ReadClassic
  <2>0. pc = "classic" /\ pc' = "directory" /\ UNCHANGED <<host, hist, reply>>
    BY <1>5 DEF A!ReadClassic
  <2>1. cmd = "sources" /\ ASources
    BY <2>0 DEF AReports, AStatus
  <2>2. /\ {"todo", "sources", "errors"} \subseteq DOMAIN got'
        /\ got'.errors = IF host.classic.state = "unread" THEN {"apt_source_unavailable"} ELSE {}
    BY <1>5, <2>1 DEF A!ReadClassic, ASources
  <2> QED
    BY <1>c, <1>q, <2>0, <2>1, <2>2 DEF AReports, ASources, A!NothingLost, A!PassIsEarned
<1>6. CASE A!regularFiles
  <2> DEFINE files == {i \in DOMAIN host.files : A!Regular(host.files[i])}
             fails == host.directory = "link" \/ (host.directory = "read" /\ A!Cardinality(files) > A!MaxFiles)
  <2>0. pc = "directory" /\ pc' = "files" /\ UNCHANGED <<host, hist, reply>>
    BY <1>6 DEF A!regularFiles
  <2>1. cmd = "sources" /\ ASources
    BY <2>0 DEF AReports, AStatus
  <2>2. got' = [got EXCEPT !.todo = IF host.directory = "read" /\ ~ fails THEN files ELSE {},
                           !.errors = IF fails THEN @ \cup {"apt_source_unavailable"} ELSE @]
    BY <1>6 DEF A!regularFiles
  <2> HIDE DEF fails
  <2>3. /\ {"todo", "sources", "errors"} \subseteq DOMAIN got'
        /\ got'.errors = {} => got.errors = {} /\ ~ fails
        /\ ~ fails /\ host.directory = "read" => got'.todo = files
    BY <2>1, <2>2 DEF ASources
  <2>4. got'.errors = {} /\ host.directory = "read" => ARead'
    BY <2>0, <2>3 DEF ARead
  <2> QED
    BY <1>c, <1>q, <2>0, <2>1, <2>3, <2>4 DEF AReports, ASources, A!NothingLost, A!PassIsEarned
<1>7. CASE A!ReadSource
  <2> DEFINE n == A!Min(got.todo)
             file == host.files[n]
  <2>0. pc = "files" /\ pc' = "files" /\ UNCHANGED <<host, hist, reply>>
    BY <1>7 DEF A!ReadSource
  <2>1. cmd = "sources" /\ ASources
    BY <2>0 DEF AReports, AStatus
  <2>2. /\ {"todo", "sources", "errors"} \subseteq DOMAIN got'
        /\ got'.todo = got.todo \ {n}
        /\ got'.sources = IF file.state = "read" THEN got.sources \cup A!Parsed(file) ELSE got.sources
        /\ got'.errors = IF file.state = "read" THEN got.errors ELSE got.errors \cup {"apt_source_unavailable"}
    BY <1>7 DEF A!ReadSource, A!Read
  <2>3. got'.errors = {} => got.errors = {} /\ file.state = "read" /\ got'.sources = got.sources \cup A!Parsed(file)
    BY <2>2
  <2> HIDE DEF n
  <2>4. got'.errors = {} /\ ARead => ARead'
    <3> SUFFICES ASSUME got'.errors = {}, ARead, NEW i \in DOMAIN host.files, A!Regular(host.files[i])
                 PROVE  i \in got'.todo \/ (host.files[i].state = "read" /\ A!Parsed(host.files[i]) \subseteq got'.sources)
      BY <2>0 DEF ARead
    <3>1. CASE i = n
      BY <2>3, <3>1
    <3>2. CASE i # n
      BY <2>2, <2>3, <3>2 DEF ARead
    <3> QED
      BY <3>1, <3>2
  <2> QED
    BY <1>c, <1>q, <2>0, <2>1, <2>2, <2>3, <2>4 DEF AReports, ASources, A!NothingLost, A!PassIsEarned
<1>8. CASE A!collectSources
  <2> DEFINE status == IF got.errors = {} THEN "pass" ELSE "partial"
  <2>0. /\ pc = "files" /\ got.todo = {} /\ pc' = "done" /\ UNCHANGED <<host, hist, got>>
        /\ reply' = A!Built({A!Chk("sources", status)}, got.sources, got.errors)
    BY <1>8 DEF A!collectSources
  <2> HIDE DEF status
  <2>1. cmd = "sources" /\ ASources
    BY <2>0 DEF AReports, AStatus
  <2>2. reply'.errors = got.errors /\ reply'.data = got.sources /\ (reply'.status = "pass" => got.errors = {})
    BY <2>0, ABuilds
  <2>3. A!Regular(A!Unread) /\ A!Unread.state = "unread"
    BY DEF A!Regular, A!Unread, A!File
  <2>4. got.errors = {} /\ ~ hist.moved /\ host.directory = "read" =>
          \A i \in DOMAIN host.files : /\ host.files[i] # A!Unread
                                       /\ A!Regular(host.files[i]) => A!Parsed(host.files[i]) \subseteq got.sources
    BY <2>0, <2>1, <2>3 DEF ASources, ARead
  <2>5. got.errors = {} => host.classic # A!Unread
    BY <2>0, <2>1, <2>3 DEF ASources
  <2>6. A!PassIsEarned'
    <3>1. A!Unread' = A!Unread /\ A!Range(host.files)' = {host.files[i] : i \in DOMAIN host.files}
      BY <2>0 DEF A!Unread, A!File, A!Range
    <3> QED
      BY <1>c, <2>0, <2>1, <2>2, <2>4, <2>5, <3>1 DEF A!PassIsEarned
  <2>7. A!NothingLost'
    BY <1>c, <2>0, <2>1, <2>2, <2>4 DEF A!NothingLost
  <2> QED
    BY <1>c, <2>0, <2>1, <2>6, <2>7 DEF AReports, ASources
<1>9. CASE A!collectHistory
  <2> DEFINE status == IF host.log = "unread" THEN "partial" ELSE "pass"
             data == IF host.log = "read" THEN A!countTopLevelItems(host.items) ELSE 0
             errors == IF host.log = "unread" THEN {"apt_history_unavailable"} ELSE {}
  <2>0. /\ pc = "log" /\ pc' = "done" /\ UNCHANGED <<host, hist, got>>
        /\ reply' = A!Built({A!Chk("history", status)}, data, errors)
    BY <1>9 DEF A!collectHistory
  <2>1. cmd = "history"
    BY <2>0 DEF AReports, AStatus, ASources
  <2> HIDE DEF status, data
  <2>2. reply'.errors = errors /\ (reply'.status = "pass" => errors = {})
    BY <2>0, ABuilds
  <2> QED
    BY <1>c, <2>0, <2>1, <2>2 DEF AReports, A!NothingLost, A!PassIsEarned
<1>10. CASE A!Change
  <2>1. CASE cmd = "status"
    <3>1. PICK d \in {"installed", "other"}, u \in {0, 1} :
            A!Changes([host EXCEPT !.database = d, !.updates = u],
                      [other |-> hist.other /\ d = "other", pending |-> hist.pending /\ u > 0])
      BY <1>10, <2>1 DEF A!Change
    <3>2. AStatus
      BY <2>1 DEF AReports
    <3>3. /\ pc # "done" /\ UNCHANGED <<pc, got, reply>> /\ DOMAIN host' = DOMAIN host
          /\ host'.database = d /\ host'.updates = u /\ host'.directory = host.directory
      BY <3>1, <3>2 DEF A!Changes, A!Done, AStatus
    <3>4. hist' = [other |-> hist.other /\ d = "other", pending |-> hist.pending /\ u > 0]
      BY <3>1 DEF A!Changes
    <3>5. (hist'.other => hist.other /\ d = "other") /\ (hist'.pending => hist.pending /\ u > 0)
      BY <3>4
    <3> HIDE DEF A!Change
    <3>6. AStatus'
      BY <3>2, <3>3, <3>5 DEF AStatus
    <3> QED
      BY <1>c, <1>q, <2>1, <3>3, <3>6 DEF AReports, A!NothingLost, A!PassIsEarned
  <2>2. CASE cmd = "sources"
    <3>1. PICK f \in {A!Unread, A!File("read", "list", <<"password">>)} :
            A!Changes([host EXCEPT !.files[1] = f], [moved |-> TRUE])
      BY <1>10, <2>2 DEF A!Change
    <3>2. ASources
      BY <2>2 DEF AReports
    <3>3. /\ pc # "done" /\ UNCHANGED <<pc, got, reply>> /\ DOMAIN host' = DOMAIN host
          /\ host'.classic = host.classic /\ host'.directory = host.directory /\ hist'.moved
      BY <3>1, <3>2 DEF A!Changes, A!Done, ASources
    <3>4. ASources'
      BY <3>2, <3>3 DEF ASources
    <3> QED
      BY <1>c, <1>q, <2>2, <3>3, <3>4 DEF AReports, A!NothingLost, A!PassIsEarned
  <2> QED
    BY <1>10, <2>1, <2>2 DEF A!Change
<1>11. CASE A!Deadline
  <2>1. UNCHANGED <<cmd, host, hist, pc, got, reply>>
    BY <1>11 DEF A!Deadline
  <2>2. A!Unread' = A!Unread /\ A!Range(host.files)' = A!Range(host.files)
    BY <2>1 DEF A!Unread, A!File, A!Range
  <2> QED
    BY <2>1, <2>2 DEF AReports, AStatus, ASources, ARead, A!NothingLost, A!PassIsEarned
<1> QED
    BY <1>1, <1>2, <1>3, <1>4, <1>5, <1>6, <1>7, <1>8, <1>9, <1>10, <1>11 DEF A!Next, A!Step

-----------------------------------------------------------------------------
(* Backup.  What is at fault with a tool, a unit or a log is still to be looked at, or told. *)

\* The answer of a run that is over is what the promises are about.
BkSaid ==
    /\ changes \in Nat
    /\ reply.exit = "ok" \/ reply.status = "pass" => pc = "done"
    /\ Bk!NothingLost /\ Bk!PassIsEarned

\* A tool that is still to be looked at, and one that has an error.
BkLeft(a) == \E i \in DOMAIN got.todo : got.todo[i] = a
BkTold(a) == \E e \in got.errors : e.tool = a

\* A configuration in which no line names a repository.
BkEmpty(file) == file.state = "read" /\ \A i \in DOMAIN file.lines : file.lines[i] \notin {"local", "ssh"}

\* What is at fault with a tool.
BkBroken(a) == host.version[a] \in {"fails", "malformed", "exits"}
BkFault(a) == BkBroken(a) \/ host.config[a] = Bk!Unsafe \/ BkEmpty(host.config[a])

\* The lines of a configuration.
BkConfig(file) == DOMAIN file.lines \subseteq Nat /\ \A i \in DOMAIN file.lines : file.lines[i] \in {"local", "ssh", "empty", "other"}

\* While nobody touches a tool: what speaks for it was seen, and what is at fault is told.
BkRead == changes = 0 =>
    /\ \A a \in Bk!Tools : BkConfig(host.config[a])
    /\ \A a \in hist.always : host.version[a] = "good" \/ host.config[a].state = "read"
    /\ \A p \in got.products : p.tool \in hist.always => p.installed
    /\ pc = "config" => \A t \in Bk!Tools : t = Head(got.todo) =>
         /\ host.version[t] = "good" => got.version = "found"
         /\ BkBroken(t) => BkTold(t)
    /\ \A a \in Bk!Tools : BkFault(a) => BkLeft(a) \/ BkTold(a)

\* What is still to be done after the first.
LEMMA BkRest ==
    ASSUME NEW S, NEW s \in Seq(S), s # <<>>, NEW i \in DOMAIN s
    PROVE  s[i] = Head(s) \/ \E j \in DOMAIN Tail(s) : Tail(s)[j] = s[i]
<1>1. CASE i = 1
    BY <1>1
<1>2. CASE i # 1
  <2>1. i - 1 \in DOMAIN Tail(s) /\ Tail(s)[i - 1] = s[i]
    BY <1>2
  <2> QED
    BY <2>1
<1> QED
    BY <1>1, <1>2

\* Everything is still to be done at the start.
LEMMA BkAll == \A a \in Bk!Tools : \E i \in DOMAIN Bk!adapters : Bk!adapters[i] = a
<1>1. Bk!adapters = <<"borg", "restic", "rsnapshot">>
    BY DEF Bk!adapters
<1>2. /\ 1 \in DOMAIN Bk!adapters /\ Bk!adapters[1] = "borg"
      /\ 2 \in DOMAIN Bk!adapters /\ Bk!adapters[2] = "restic"
      /\ 3 \in DOMAIN Bk!adapters /\ Bk!adapters[3] = "rsnapshot"
    BY <1>1
<1> QED
    BY <1>2, BkTools

\* What is said of a built answer.
LEMMA BkBuilds ==
    ASSUME NEW checks, NEW data, NEW errors
    PROVE  LET r == Bk!Built(checks, data, errors) IN
           /\ r.exit = "ok" /\ r.errors = errors /\ r.data = data
           /\ r.status = "pass" => errors = {}
<1>1. Bk!classify(checks, errors) = "pass" => errors = {}
    BY DEF Bk!classify
<1> QED
    BY <1>1 DEF Bk!Built, Bk!Build, Bk!Result

\* A failure says nothing.
LEMMA BkFails == \A code : Bk!Failure(code).exit = code /\ Bk!Failure(code).status = "none"
BY DEF Bk!Failure, Bk!NoReply

\* The repository is read from one of the lines.
LEMMA BkRepository ==
    ASSUME NEW tool \in Bk!Tools, NEW file, BkConfig(file), Bk!Repository(tool, file.lines) # "empty"
    PROVE  \E i \in DOMAIN file.lines : file.lines[i] \in {"local", "ssh"}
<1> DEFINE lines == file.lines
           keyed == {i \in DOMAIN lines : lines[i] # "other"}
           valued == {i \in DOMAIN lines : lines[i] \notin {"other", "empty"}}
<1>1. keyed \in SUBSET Nat /\ valued \in SUBSET Nat /\ \A i \in DOMAIN lines : lines[i] \in {"local", "ssh", "empty", "other"}
    BY DEF BkConfig
<1>2. ASSUME NEW S \in SUBSET Nat, S # {} PROVE Bk!Min(S) \in S
    BY <1>2, Least DEF Bk!Min
<1>3. Bk!Cardinality(keyed) = 1 => keyed # {}
  <2>1. Bk!Cardinality({}) = Cardinality({})
    BY Zenon DEF Bk!Cardinality, Cardinality
  <2> QED
    BY <2>1, FS_EmptySet
<1>4. CASE tool = "borg"
  <2>1. Bk!Repository(tool, lines) = IF keyed = {} THEN "empty" ELSE lines[Bk!Min(keyed)]
    BY <1>4 DEF Bk!Repository, Bk!parseBorgRepository
  <2> HIDE DEF lines
  <2>2. keyed # {} /\ lines[Bk!Min(keyed)] # "empty"
    BY <2>1 DEF lines
  <2>3. Bk!Min(keyed) \in keyed
    BY <1>1, <1>2, <2>2
  <2> QED
    BY <1>1, <2>2, <2>3 DEF lines
<1>5. CASE tool = "restic"
  <2>1. Bk!Repository(tool, lines) = IF Bk!Cardinality(keyed) = 1 THEN lines[Bk!Min(keyed)] ELSE "empty"
    BY <1>5 DEF Bk!Repository, Bk!exactAssignment
  <2> HIDE DEF lines
  <2>2. keyed # {} /\ lines[Bk!Min(keyed)] # "empty"
    BY <1>3, <2>1 DEF lines
  <2>3. Bk!Min(keyed) \in keyed
    BY <1>1, <1>2, <2>2
  <2> QED
    BY <1>1, <2>2, <2>3 DEF lines
<1>6. CASE tool = "rsnapshot"
  <2>1. Bk!Repository(tool, lines) = IF valued = {} THEN "empty" ELSE lines[Bk!Min(valued)]
    BY <1>6 DEF Bk!Repository, Bk!parseRSnapshotRepository
  <2> HIDE DEF lines
  <2>2. valued # {}
    BY <2>1 DEF lines
  <2>3. Bk!Min(valued) \in valued
    BY <1>1, <1>2, <2>2
  <2> QED
    BY <1>1, <2>3 DEF lines
<1> QED
    BY <1>4, <1>5, <1>6, BkTools

\* Every step of the inventory preserves what is said of it.
LEMMA BkReadNext ==
    ASSUME cmd = "inventory", BkInventory, BkRead, BkSaid, Bk!Next
    PROVE  BkRead' /\ BkSaid'
<1> USE DEF Bk!Others, Bk!Answer, Bk!GoTo
<1>c. cmd' = cmd
    BY DEF Bk!Next, Bk!Step, Bk!Dispatch, Bk!contextFailure, Bk!inspectVersion, Bk!inspectConfig,
           Bk!executeInventory, Bk!CollectedInventory, Bk!inspectUnits, Bk!executeStatus, Bk!inspectHistory,
           Bk!executeHistory, Bk!Change, Bk!Changes, Bk!Deadline
<1>k. Bk!Tools' = Bk!Tools /\ Bk!Unsafe' = Bk!Unsafe
    BY DEF Bk!Tools, Bk!Range, Bk!adapters, Bk!Unsafe, Bk!File
<1>q. pc # "done" => reply.exit # "ok" /\ reply.status # "pass"
    BY DEF BkSaid
<1>b. UNCHANGED host => \A a : BkBroken(a)' = BkBroken(a) /\ BkFault(a)' = BkFault(a)
    BY <1>k DEF BkBroken, BkFault, BkEmpty
<1>a. CASE /\ UNCHANGED <<changes, host, hist, got>>
           /\ pc' # "config" /\ reply'.exit # "ok" /\ reply'.status # "pass"
  <2>1. BkRead'
    BY <1>a, <1>b, <1>k DEF BkRead, BkConfig, BkLeft, BkTold
  <2> QED
    BY <1>a, <2>1 DEF BkSaid, Bk!NothingLost, Bk!PassIsEarned
<1>1. CASE Bk!Dispatch
  <2>1. UNCHANGED <<changes, host, hist, got>> /\ pc = "start" /\ cmd # "history"
    BY <1>1 DEF Bk!Dispatch
  <2>2. \/ pc' = "done" /\ reply' = Bk!Failure("arguments")
        \/ pc' = "version" /\ UNCHANGED reply
    BY <1>1, <2>1 DEF Bk!Dispatch
  <2> QED
    BY <1>a, <1>q, <2>1, <2>2, BkFails
<1>2. CASE Bk!contextFailure
    BY <1>2, <1>a, BkFails DEF Bk!contextFailure
<1>3. CASE Bk!inspectVersion
  <2> DEFINE said == host.version[Bk!Tool]
             new == Bk!backupFailure("version_probe", Bk!Tool)
  <2>1. /\ pc = "version" /\ pc' = "config" /\ UNCHANGED <<changes, host, hist, reply>>
        /\ got.todo # <<>>
    BY <1>3 DEF Bk!inspectVersion
  <2>2. /\ got'.todo = got.todo /\ got'.products = got.products
        /\ got'.version = IF said \in {"absent", "fails"} THEN "none" ELSE "found"
        /\ got'.errors = IF said \in {"absent", "good"} THEN got.errors ELSE got.errors \cup {new}
    BY <1>3 DEF Bk!inspectVersion, BkInventory
  <2>3. new.tool = Head(got.todo) /\ said = host.version[Head(got.todo)] /\ got.errors \subseteq got'.errors
    BY <2>2 DEF Bk!backupFailure, Bk!Tool
  <2> HIDE DEF new, said
  <2>4. BkBroken(Head(got.todo)) => \E e \in got'.errors : e.tool = Head(got.todo)
    BY <2>2, <2>3 DEF BkBroken
  <2>5. \A a : (BkLeft(a) => BkLeft(a)') /\ (BkTold(a) => BkTold(a)')
    BY <2>2, <2>3 DEF BkLeft, BkTold
  <2>6. BkRead'
    <3>1. changes = 0 /\ said = "good" => got'.version = "found"
      BY <2>2
    <3>p. PICK t : t = Head(got.todo)
      OBVIOUS
    <3>2. changes = 0 /\ BkBroken(t) => BkTold(t)'
      BY <2>4, <3>p DEF BkTold
    <3>3. changes = 0 => \A a \in Bk!Tools : BkFault(a)' => (BkLeft(a) \/ BkTold(a))'
      BY <1>b, <2>1, <2>5 DEF BkRead
    <3>4. BkBroken(t)' = BkBroken(t) /\ host'.version[t] = said /\ Head(got'.todo) = t
      BY <2>1, <2>2, <2>3, <3>p DEF BkBroken
    <3>5. changes' = 0 => \A a \in Bk!Tools' : a = Head(got'.todo) =>
            /\ host'.version[a] = "good" => got'.version = "found"
            /\ BkBroken(a)' => BkTold(a)'
      <4> SUFFICES ASSUME changes' = 0, NEW a \in Bk!Tools', a = Head(got'.todo)
                   PROVE  /\ host'.version[a] = "good" => got'.version = "found"
                          /\ BkBroken(a)' => BkTold(a)'
        OBVIOUS
      <4>1. a = t
        BY <3>4
      <4> QED
        BY <2>1, <3>1, <3>2, <3>4, <4>1
    <3>6. changes = 0 => /\ \A a \in Bk!Tools : BkConfig(host.config[a])
                         /\ \A a \in hist.always : host.version[a] = "good" \/ host.config[a].state = "read"
                         /\ \A p \in got.products : p.tool \in hist.always => p.installed
      BY DEF BkRead
    <3>7. changes' = 0 => \A a \in Bk!Tools' : BkConfig(host.config[a])'
      BY <1>k, <2>1, <3>6 DEF BkConfig
    <3>8. changes' = 0 => /\ \A a \in hist'.always : host'.version[a] = "good" \/ host'.config[a].state = "read"
                          /\ \A p \in got'.products : p.tool \in hist'.always => p.installed
      BY <2>1, <2>2, <3>6
    <3>9. changes' = 0 => \A a \in Bk!Tools' : BkFault(a)' => (BkLeft(a) \/ BkTold(a))'
      BY <1>k, <2>1, <3>3
    <3> QED
      BY <3>5, <3>7, <3>8, <3>9 DEF BkRead
  <2> QED
    BY <1>q, <2>1, <2>6 DEF BkSaid, Bk!NothingLost, Bk!PassIsEarned
<1>4. CASE Bk!inspectConfig
  <2> DEFINE tool == Head(got.todo)
             file == host.config[tool]
             kind == Bk!Repository(tool, file.lines)
             installed == got.version = "found" \/ file.state = "read"
             new == [tool |-> tool, installed |-> installed, repository |-> kind]
             issue == Bk!backupFailure("config_metadata", tool)
  <2>1. pc = "config" /\ pc' = "version" /\ UNCHANGED <<changes, host, hist, reply>> /\ got.todo # <<>>
    BY <1>4 DEF Bk!inspectConfig, BkInventory
  <2>2. /\ got'.todo = Tail(got.todo) /\ got'.products = got.products \cup {new}
        /\ got'.errors = IF Bk!ConfigIssue(file, kind) THEN got.errors \cup {issue} ELSE got.errors
    BY <1>4 DEF Bk!inspectConfig, Bk!Tool, BkInventory
  <2>3. tool \in Bk!Tools /\ issue.tool = tool /\ new.tool = tool /\ (installed => new.installed) /\ got.errors \subseteq got'.errors
    <3>1. tool \in Bk!Tools
      BY <2>1 DEF BkInventory
    <3>2. issue.tool = tool /\ new.tool = tool
      BY DEF Bk!backupFailure
    <3>3. installed => new.installed
      BY Zenon
    <3>4. got.errors \subseteq got'.errors
      BY <2>2
    <3> QED
      BY <3>1, <3>2, <3>3, <3>4
  <2>4. \A a : (BkLeft(a) => a = tool \/ BkLeft(a)') /\ (BkTold(a) => BkTold(a)')
    <3>1. \A i \in DOMAIN got.todo : got.todo[i] = tool \/ \E j \in DOMAIN got'.todo : got'.todo[j] = got.todo[i]
      BY <2>1, <2>2, BkRest DEF BkInventory
    <3>2. got.errors \subseteq got'.errors
      BY <2>3
    <3> HIDE DEF tool
    <3> QED
      BY <3>1, <3>2 DEF BkLeft, BkTold
  <2>5. changes = 0 /\ BkFault(tool) => BkTold(tool) \/ issue \in got'.errors
    <3> SUFFICES ASSUME changes = 0, BkFault(tool), ~ BkTold(tool) PROVE issue \in got'.errors
      OBVIOUS
    <3>1. ~ BkBroken(tool) /\ BkConfig(file)
      BY <2>1, <2>3 DEF BkRead
    <3>2. file = Bk!Unsafe \/ BkEmpty(file)
      BY <3>1 DEF BkFault
    <3>3. Bk!Unsafe.state = "unsafe"
      BY DEF Bk!Unsafe, Bk!File
    <3>4. BkEmpty(file) => kind = "empty"
      BY <2>3, <3>1, BkRepository DEF BkEmpty
    <3>5. Bk!ConfigIssue(file, kind)
      BY <3>2, <3>3, <3>4 DEF Bk!ConfigIssue, BkEmpty
    <3> QED
      BY <2>2, <3>5
  <2>6. changes = 0 /\ tool \in hist.always => new.installed
    <3>1. changes = 0 /\ tool \in hist.always => installed
      BY <2>1, <2>3 DEF BkRead
    <3> QED
      BY <2>3, <3>1
  <2> HIDE DEF tool, new, issue
  <2>7. \A a \in Bk!Tools : changes = 0 /\ BkFault(a) => (BkLeft(a) \/ BkTold(a))'
    <3> SUFFICES ASSUME NEW a \in Bk!Tools, changes = 0, BkFault(a) PROVE BkLeft(a)' \/ BkTold(a)'
      OBVIOUS
    <3>1. BkLeft(a) \/ BkTold(a)
      BY DEF BkRead
    <3>2. CASE a = tool
      <4>1. CASE BkTold(tool)
        BY <2>4, <3>2, <4>1
      <4>2. CASE issue \in got'.errors
        BY <2>3, <3>2, <4>2 DEF BkTold
      <4> QED
        BY <2>5, <3>2, <4>1, <4>2
    <3>3. CASE a # tool
      BY <2>4, <3>1, <3>3
    <3> QED
      BY <3>2, <3>3
  <2>8. changes = 0 => \A p \in got'.products : p.tool \in hist.always => p.installed
    BY <2>2, <2>3, <2>6 DEF BkRead
  <2>9. BkRead'
    BY <1>b, <1>k, <2>1, <2>7, <2>8 DEF BkRead, BkConfig
  <2> QED
    BY <1>q, <2>1, <2>9 DEF BkSaid, Bk!NothingLost, Bk!PassIsEarned
<1>5. CASE Bk!executeInventory
  <2>1. /\ pc = "version" /\ got.todo = <<>> /\ pc' = "done" /\ UNCHANGED <<changes, host, hist, got>>
        /\ reply' = Bk!Built(got.checks, got.products, got.errors)
    BY <1>5 DEF Bk!executeInventory
  <2>2. /\ reply'.data = got.products /\ reply'.errors = got.errors
        /\ reply'.status = "pass" => got.errors = {}
    BY <2>1, BkBuilds
  <2>3. BkRead'
    BY <1>b, <1>k, <2>1 DEF BkRead, BkConfig, BkLeft, BkTold
  <2>4. changes = 0 => \A a \in Bk!Tools : BkFault(a) => \E e \in got.errors : e.tool = a
    <3>1. \A a : ~ BkLeft(a)
      BY <2>1 DEF BkLeft
    <3> QED
      BY <3>1 DEF BkRead, BkTold
  <2>5. Bk!NothingLost'
    <3>1. changes = 0 => \A p \in got.products : p.tool \in hist.always => p.installed
      BY DEF BkRead
    <3>2. \A a : host.version[a] \in {"fails", "malformed", "exits"} \/ host.config[a] = Bk!Unsafe => BkFault(a)
      BY DEF BkFault, BkBroken
    <3> QED
      BY <1>c, <1>k, <2>1, <2>2, <2>4, <3>1, <3>2 DEF Bk!NothingLost
  <2>6. Bk!PassIsEarned'
    <3>1. \A a : host.config[a].state = "read" /\ ~ BkFault(a) => \E i \in DOMAIN host.config[a].lines : host.config[a].lines[i] \in {"local", "ssh"}
      BY DEF BkFault, BkEmpty
    <3> QED
      BY <1>c, <1>k, <2>1, <2>2, <2>4, <3>1 DEF Bk!PassIsEarned
  <2> QED
    BY <2>1, <2>3, <2>5, <2>6 DEF BkSaid
<1>6. CASE Bk!Change
  <2>1. /\ changes' = changes + 1 /\ UNCHANGED <<pc, reply>> /\ pc # "done"
    BY <1>6 DEF Bk!Change, Bk!Changes, Bk!Done
  <2>2. changes' # 0 /\ changes' \in Nat
    BY <2>1 DEF BkSaid
  <2> QED
    BY <1>q, <2>1, <2>2 DEF BkRead, BkSaid, Bk!NothingLost, Bk!PassIsEarned
<1>7. CASE Bk!Deadline
  <2>1. UNCHANGED <<changes, host, hist, pc, got, reply>>
    BY <1>7 DEF Bk!Deadline
  <2>2. BkRead'
    BY <1>b, <1>k, <2>1 DEF BkRead, BkConfig, BkLeft, BkTold, BkBroken
  <2> QED
    BY <1>c, <1>k, <2>1, <2>2 DEF BkSaid, Bk!NothingLost, Bk!PassIsEarned
<1> QED
    BY <1>1, <1>2, <1>3, <1>4, <1>5, <1>6, <1>7
       DEF Bk!Next, Bk!Step, BkInventory, Bk!CollectedInventory, Bk!inspectUnits, Bk!executeStatus, Bk!inspectHistory, Bk!executeHistory

\* No step changes the command.
LEMMA BkStays == Bk!Next => cmd' = cmd
BY DEF Bk!Next, Bk!Step, Bk!Dispatch, Bk!contextFailure, Bk!inspectVersion, Bk!inspectConfig,
       Bk!executeInventory, Bk!CollectedInventory, Bk!inspectUnits, Bk!executeStatus, Bk!inspectHistory,
       Bk!executeHistory, Bk!Change, Bk!Changes, Bk!Deadline, Bk!Others

\* A unit of which something is at fault is still to be looked at, or told.
BkUnits ==
    /\ {"todo", "errors"} \subseteq DOMAIN got
    /\ pc \in {"start", "version", "config", "units", "done"}
    /\ \A a \in Bk!Tools : host.unit[a].service \in Bk!UnitStates /\ host.unit[a].timer \in Bk!UnitStates
    /\ pc = "units" =>
         /\ got.todo \in Seq(Bk!Tools)
         /\ \A a \in Bk!Tools :
              Bk!UnitIssue(host.unit[a].service) \/ Bk!UnitIssue(host.unit[a].timer) => BkLeft(a) \/ got.errors # {}

\* A unit that has no issue is as it should be.
LEMMA BkUnitStates == \A s \in Bk!UnitStates : Bk!UnitIssue(s) \/ s \in {"loaded", "not-found", "absent"}
BY Zenon DEF Bk!UnitStates, Bk!UnitIssue

\* Every step of the status preserves what is said of it.
LEMMA BkUnitsNext ==
    ASSUME cmd = "status", BkUnits, BkSaid, Bk!Next
    PROVE  BkUnits' /\ BkSaid'
<1> USE DEF Bk!Others, Bk!Answer, Bk!GoTo
<1>c. cmd' = cmd
    BY BkStays
<1>k. Bk!Tools' = Bk!Tools /\ Bk!UnitStates' = Bk!UnitStates
    BY DEF Bk!Tools, Bk!Range, Bk!adapters, Bk!UnitStates
<1>i. \A s : Bk!UnitIssue(s)' = Bk!UnitIssue(s)
    BY DEF Bk!UnitIssue
<1>q. pc # "done" => reply.exit # "ok" /\ reply.status # "pass"
    BY DEF BkSaid
<1>s. reply'.status # "pass" => Bk!PassIsEarned'
    BY DEF Bk!PassIsEarned
<1>l. Bk!NothingLost'
    BY <1>c DEF Bk!NothingLost
<1>a. CASE /\ UNCHANGED <<changes, host, hist>> /\ {"todo", "errors"} \subseteq DOMAIN got'
           /\ pc' \in {"version", "config", "done"} /\ reply'.exit # "ok" /\ reply'.status # "pass"
    BY <1>a, <1>k, <1>l, <1>s DEF BkUnits, BkSaid
<1>1. CASE Bk!Dispatch
  <2>1. UNCHANGED <<changes, host, hist, got>> /\ pc = "start"
    BY <1>1 DEF Bk!Dispatch
  <2>2. \/ pc' = "done" /\ reply' = Bk!Failure("arguments")
        \/ pc' = "version" /\ UNCHANGED reply
    BY <1>1, <2>1 DEF Bk!Dispatch
  <2> QED
    BY <1>a, <1>q, <2>1, <2>2, BkFails DEF BkUnits
<1>2. CASE Bk!contextFailure
    BY <1>2, <1>a, BkFails DEF Bk!contextFailure, BkUnits
<1>3. CASE Bk!inspectVersion \/ Bk!inspectConfig
  <2>1. UNCHANGED <<changes, host, hist, reply>> /\ pc # "done" /\ pc' \in {"version", "config"}
    BY <1>3 DEF Bk!inspectVersion, Bk!inspectConfig
  <2>2. DOMAIN got' = DOMAIN got
    BY <1>3 DEF Bk!inspectVersion, Bk!inspectConfig
  <2> QED
    BY <1>a, <1>q, <2>1, <2>2 DEF BkUnits
<1>4. CASE Bk!CollectedInventory
  <2>1. /\ pc = "version" /\ pc' = "units" /\ UNCHANGED <<changes, host, hist, reply>>
        /\ got' = [got EXCEPT !.todo = Bk!adapters]
    BY <1>4 DEF Bk!CollectedInventory
  <2>2. got'.todo = Bk!adapters /\ DOMAIN got' = DOMAIN got
    BY <2>1 DEF BkUnits
  <2>3. \A a \in Bk!Tools : BkLeft(a)'
    BY <2>2, BkAll DEF BkLeft
  <2>4. BkUnits'
    BY <1>k, <2>1, <2>2, <2>3, BkTools DEF BkUnits
  <2> QED
    BY <1>l, <1>q, <1>s, <2>1, <2>4 DEF BkSaid
<1>5. CASE Bk!inspectUnits
  <2> DEFINE tool == Head(got.todo)
             said == host.unit[tool]
             new == {Bk!backupFailure(u, tool) : u \in {x \in {"service", "timer"} : Bk!UnitIssue(said[x])}}
  <2>1. pc = "units" /\ pc' = "units" /\ UNCHANGED <<changes, host, hist, reply>> /\ got.todo # <<>>
    BY <1>5 DEF Bk!inspectUnits
  <2>2. got'.todo = Tail(got.todo) /\ got'.errors = got.errors \cup new /\ DOMAIN got' = DOMAIN got
    BY <1>5 DEF Bk!inspectUnits, Bk!Tool, BkUnits
  <2>3. got.todo \in Seq(Bk!Tools) /\ tool \in Bk!Tools
    BY <2>1 DEF BkUnits
  <2>4. Bk!UnitIssue(host.unit[tool].service) \/ Bk!UnitIssue(host.unit[tool].timer) => new # {}
    OBVIOUS
  <2>5. \A a : BkLeft(a) => a = tool \/ BkLeft(a)'
    <3>1. \A i \in DOMAIN got.todo : got.todo[i] = tool \/ \E j \in DOMAIN got'.todo : got'.todo[j] = got.todo[i]
      BY <2>1, <2>2, <2>3, BkRest
    <3> HIDE DEF tool
    <3> QED
      BY <3>1 DEF BkLeft
  <2> HIDE DEF tool, new
  <2>6. ASSUME NEW a \in Bk!Tools, Bk!UnitIssue(host.unit[a].service) \/ Bk!UnitIssue(host.unit[a].timer)
        PROVE  BkLeft(a)' \/ got'.errors # {}
    <3>1. BkLeft(a) \/ got.errors # {}
      BY <2>1, <2>6 DEF BkUnits
    <3>2. a = tool => new # {}
      BY <2>4, <2>6
    <3> QED
      BY <2>2, <2>5, <3>1, <3>2
  <2>7. BkUnits'
    <3>1. got'.todo \in Seq(Bk!Tools)
      BY <2>1, <2>2, <2>3
    <3> QED
      BY <1>i, <1>k, <2>1, <2>2, <2>6, <3>1 DEF BkUnits
  <2> QED
    BY <1>l, <1>q, <1>s, <2>1, <2>7 DEF BkSaid
<1>6. CASE Bk!executeStatus
  <2>1. /\ pc = "units" /\ got.todo = <<>> /\ pc' = "done" /\ UNCHANGED <<changes, host, hist, got>>
        /\ reply' = Bk!Built(got.checks, got.products, got.errors)
    BY <1>6 DEF Bk!executeStatus
  <2>2. reply'.errors = got.errors /\ (reply'.status = "pass" => got.errors = {})
    BY <2>1, BkBuilds
  <2>3. \A a : ~ BkLeft(a)
    BY <2>1 DEF BkLeft
  <2>4. got.errors = {} => \A a \in Bk!Tools : {host.unit[a].service, host.unit[a].timer} \subseteq {"loaded", "not-found", "absent"}
    BY <2>1, <2>3, BkUnitStates DEF BkUnits
  <2>5. Bk!PassIsEarned'
    BY <1>c, <1>k, <2>1, <2>2, <2>4 DEF Bk!PassIsEarned
  <2>6. BkUnits'
    BY <1>k, <2>1 DEF BkUnits
  <2> QED
    BY <1>l, <2>1, <2>5, <2>6 DEF BkSaid
<1>7. CASE Bk!Deadline
  <2>1. UNCHANGED <<changes, host, hist, pc, got, reply>>
    BY <1>7 DEF Bk!Deadline
  <2>2. BkUnits'
    BY <1>i, <1>k, <2>1 DEF BkUnits, BkLeft
  <2> QED
    BY <1>c, <1>k, <1>l, <2>1, <2>2 DEF BkSaid, Bk!PassIsEarned
<1> QED
    BY <1>1, <1>2, <1>3, <1>4, <1>5, <1>6, <1>7
       DEF Bk!Next, Bk!Step, BkUnits, Bk!executeInventory, Bk!inspectHistory, Bk!executeHistory, Bk!Change

\* What is said of a log counts all of it, or an error is told.
BkCounted(s) ==
    \/ /\ s.entries = Len(hist[s.tool].lines)
       /\ \A i \in DOMAIN hist[s.tool].lines : hist[s.tool].lines[i].at <= s.last
    \/ BkTold(s.tool)

\* The history is of the logs as they are, each counted or with an error.
BkLogs ==
    /\ {"todo", "summaries", "errors"} \subseteq DOMAIN got
    /\ pc \in {"start", "history", "done"}
    /\ got.todo \in Seq(Bk!Tools)
    /\ hist = host.log
    /\ \A a \in Bk!Tools : \A i \in DOMAIN host.log[a].lines : host.log[a].lines[i].at \in 1..2
    /\ \A s \in got.summaries : BkCounted(s)

\* The last of some times is no earlier than any.
LEMMA BkLast == \A S \in SUBSET (0..2) : S # {} => \A x \in S : x <= Bk!Max(S)
<1> SUFFICES ASSUME NEW S \in SUBSET (0..2), S # {} PROVE \A x \in S : x <= Bk!Max(S)
    OBVIOUS
<1>1. \E x \in S : \A y \in S : x >= y
  <2>1. CASE 2 \in S
    BY <2>1
  <2>2. CASE 2 \notin S /\ 1 \in S
    BY <2>2
  <2>3. CASE 2 \notin S /\ 1 \notin S
    <3>1. \A x \in S : x = 0
      BY <2>3
    <3>2. PICK x \in S : TRUE
      OBVIOUS
    <3>3. x = 0
      BY <3>1
    <3>4. \A y \in S : x >= y
      BY <3>1, <3>3
    <3> QED
      BY <3>4
  <2> QED
    BY <2>1, <2>2, <2>3
<1>2. Bk!Max(S) \in S /\ \A y \in S : Bk!Max(S) >= y
    BY <1>1 DEF Bk!Max
<1> QED
    BY <1>2

\* A log is counted whole unless it is at fault.
LEMMA BkSummary ==
    ASSUME NEW tool, NEW file, \A i \in DOMAIN file.lines : file.lines[i].at \in 1..2, ~ Bk!HistoryIssue(file)
    PROVE  LET s == Bk!Summary(tool, file) IN
           s.entries = Len(file.lines) /\ \A i \in DOMAIN file.lines : file.lines[i].at <= s.last
<1> DEFINE times == {0} \cup {file.lines[i].at : i \in DOMAIN file.lines}
<1>1. Bk!Summary(tool, file).entries = Len(file.lines) /\ Bk!Summary(tool, file).last = Bk!Max(times)
    BY DEF Bk!Summary
<1>2. times \in SUBSET (0..2) /\ times # {}
    OBVIOUS
<1>3. \A i \in DOMAIN file.lines : file.lines[i].at \in times
    OBVIOUS
<1> HIDE DEF times
<1>4. \A x \in times : x <= Bk!Max(times)
    BY <1>2, BkLast
<1> QED
    BY <1>1, <1>3, <1>4

\* Every step of the history preserves what is said of it.
LEMMA BkLogsNext ==
    ASSUME cmd = "history", BkLogs, BkSaid, Bk!Next
    PROVE  BkLogs' /\ BkSaid'
<1> USE DEF Bk!Others, Bk!Answer, Bk!GoTo
<1>c. cmd' = cmd
    BY BkStays
<1>k. Bk!Tools' = Bk!Tools
    BY DEF Bk!Tools, Bk!Range, Bk!adapters
<1>q. pc # "done" => reply.exit # "ok" /\ reply.status # "pass"
    BY DEF BkSaid
<1>s. reply'.exit # "ok" /\ reply'.status # "pass" => Bk!NothingLost' /\ Bk!PassIsEarned'
    BY DEF Bk!NothingLost, Bk!PassIsEarned
<1>u. UNCHANGED <<host, hist, got>> /\ pc' \in {"start", "history", "done"} => BkLogs'
    BY <1>k DEF BkLogs, BkCounted, BkTold
<1>1. CASE Bk!Dispatch
  <2>1. UNCHANGED <<changes, host, hist, got>> /\ pc = "start"
    BY <1>1 DEF Bk!Dispatch
  <2>2. \/ pc' = "done" /\ reply' = Bk!Failure("arguments")
        \/ pc' = "history" /\ UNCHANGED reply
    BY <1>1, <2>1 DEF Bk!Dispatch
  <2> QED
    BY <1>q, <1>s, <1>u, <2>1, <2>2, BkFails DEF BkSaid
<1>2. CASE Bk!contextFailure
    BY <1>2, <1>s, <1>u, BkFails DEF Bk!contextFailure, BkSaid
<1>3. CASE Bk!inspectHistory
  <2> DEFINE tool == Head(got.todo)
             file == host.log[tool]
             new == Bk!Summary(tool, file)
             issue == Bk!backupFailure("history_metadata", tool)
  <2>1. pc = "history" /\ pc' = "history" /\ UNCHANGED <<changes, host, hist, reply>>
    BY <1>3 DEF Bk!inspectHistory
  <2>2. /\ got'.summaries = got.summaries \cup {new} /\ DOMAIN got' = DOMAIN got
        /\ got'.errors = IF Bk!HistoryIssue(file) THEN got.errors \cup {issue} ELSE got.errors
    BY <1>3 DEF Bk!inspectHistory, Bk!Tool, BkLogs
  <2>3. issue.tool = tool /\ new.tool = tool
    BY DEF Bk!backupFailure, Bk!Summary
  <2>4. got.errors \subseteq got'.errors
    BY <2>2
  <2>5. got.todo # <<>> /\ tool \in Bk!Tools /\ got'.todo = Tail(got.todo) /\ got'.todo \in Seq(Bk!Tools)
    BY <1>3 DEF Bk!inspectHistory, BkLogs
  <2>6. \/ /\ new.entries = Len(file.lines)
           /\ \A i \in DOMAIN file.lines : file.lines[i].at <= new.last
        \/ issue \in got'.errors
    <3>1. \A i \in DOMAIN file.lines : file.lines[i].at \in 1..2
      BY <2>5 DEF BkLogs
    <3>2. CASE ~ Bk!HistoryIssue(file)
      BY <3>1, <3>2, BkSummary
    <3> QED
      BY <2>2, <3>2
  <2>7. hist[tool] = file
    BY DEF BkLogs
  <2> HIDE DEF issue, new, tool, file
  <2>8. ASSUME NEW s \in got'.summaries PROVE BkCounted(s)'
    <3>1. CASE s = new
      BY <2>1, <2>3, <2>6, <2>7, <3>1 DEF BkCounted, BkTold
    <3>2. CASE s \in got.summaries
      BY <2>1, <2>4, <3>2 DEF BkLogs, BkCounted, BkTold
    <3> QED
      BY <2>2, <3>1, <3>2
  <2>9. BkLogs'
    BY <1>k, <2>1, <2>2, <2>5, <2>8 DEF BkLogs
  <2> QED
    BY <1>q, <1>s, <2>1, <2>9 DEF BkSaid
<1>4. CASE Bk!executeHistory
  <2>1. /\ pc = "history" /\ pc' = "done" /\ UNCHANGED <<changes, host, hist, got>>
        /\ reply' = Bk!Built(got.checks, got.summaries, got.errors)
    BY <1>4 DEF Bk!executeHistory
  <2>2. reply'.data = got.summaries /\ reply'.errors = got.errors /\ (reply'.status = "pass" => got.errors = {})
    BY <2>1, BkBuilds
  <2>3. Bk!NothingLost'
    BY <1>c, <2>1, <2>2 DEF Bk!NothingLost, BkLogs, BkCounted, BkTold
  <2>4. Bk!PassIsEarned'
    BY <1>c, <2>2 DEF Bk!PassIsEarned
  <2> QED
    BY <1>u, <2>1, <2>3, <2>4 DEF BkSaid
<1>5. CASE Bk!Deadline
  <2>1. UNCHANGED <<changes, host, hist, pc, got, reply>>
    BY <1>5 DEF Bk!Deadline
  <2>2. BkLogs'
    BY <1>u, <2>1 DEF BkLogs
  <2> QED
    BY <1>c, <1>k, <2>1, <2>2 DEF BkSaid, Bk!NothingLost, Bk!PassIsEarned
<1> QED
    BY <1>1, <1>2, <1>3, <1>4, <1>5
       DEF Bk!Next, Bk!Step, BkLogs, Bk!inspectVersion, Bk!inspectConfig, Bk!executeInventory,
           Bk!CollectedInventory, Bk!inspectUnits, Bk!executeStatus, Bk!Change

\* What is said of the commands of the plugin.
BkReports ==
    /\ cmd \in {"inventory", "status", "history"}
    /\ cmd = "inventory" => BkRead
    /\ cmd = "status" => BkUnits
    /\ cmd = "history" => BkLogs
    /\ BkSaid

\* Every configuration that a run may find has lines of the four kinds.
LEMMA BkConfigs == \A file \in Bk!Configs : BkConfig(file)
<1>1. ASSUME NEW m \in 0..2, NEW l \in [1..m -> Bk!Lines] PROVE BkConfig(Bk!File("read", l))
    BY <1>1 DEF BkConfig, Bk!File, Bk!Lines
<1>2. BkConfig(Bk!Absent) /\ BkConfig(Bk!Unsafe)
    BY DEF BkConfig, Bk!Absent, Bk!Unsafe, Bk!File
<1> QED
    BY <1>1, <1>2, Zenon DEF Bk!Configs

\* So has that of every tool of every host.
LEMMA BkInventories ==
    ASSUME NEW h \in Bk!Inventories
    PROVE  \A a \in Bk!Tools : h.config[a] \in Bk!Configs
<1> DEFINE local == Bk!File("read", <<"local">>)
<1>1. Bk!Absent \in Bk!Configs /\ local \in Bk!Configs
  <2>1. <<"local">> \in [1..1 -> Bk!Lines]
    BY DEF Bk!Lines
  <2>2. <<"local">> \in UNION {[1..n -> Bk!Lines] : n \in 0..2}
    BY <2>1
  <2> QED
    BY <2>2 DEF Bk!Configs
<1> HIDE DEF local
<1>2. ASSUME NEW v, NEW c \in {Bk!Absent, local}, h = [version |-> Bk!All(v), config |-> Bk!All(c)]
      PROVE  \A a \in Bk!Tools : h.config[a] \in Bk!Configs
    BY <1>1, <1>2 DEF Bk!All
<1>3. ASSUME NEW b \in Bk!Tools, NEW v, NEW c \in Bk!Configs,
             h = [version |-> [Bk!All("absent") EXCEPT ![b] = v], config |-> [Bk!All(Bk!Absent) EXCEPT ![b] = c]]
      PROVE  \A a \in Bk!Tools : h.config[a] \in Bk!Configs
    BY <1>1, <1>3 DEF Bk!All
<1> DEFINE X == {[version |-> Bk!All(v), config |-> Bk!All(c)] : v \in {"absent", "good"}, c \in {Bk!Absent, local}}
           Y == {[version |-> [Bk!All("absent") EXCEPT ![b] = v], config |-> [Bk!All(Bk!Absent) EXCEPT ![b] = c]] :
                   b \in Bk!Tools, v \in Bk!Versions, c \in Bk!Configs}
<1>4. Bk!Inventories = X \cup Y
    BY DEF Bk!Inventories, local
<1>5. CASE h \in X
    BY <1>2, <1>5
<1>6. CASE h \in Y
    BY <1>3, <1>6
<1> HIDE DEF X, Y
<1> QED
    BY <1>4, <1>5, <1>6

\* It holds at the start.
LEMMA BkReportsInit == Bk!Init => BkReports
<1> SUFFICES ASSUME Bk!Init PROVE BkReports
    OBVIOUS
<1>1. changes = 0 /\ pc = "start" /\ reply.exit # "ok" /\ reply.status # "pass"
    BY DEF Bk!Init, Bk!Starts, Bk!NoReply
<1>2. BkSaid
    BY <1>1 DEF BkSaid, Bk!NothingLost, Bk!PassIsEarned
<1>3. cmd \in {"inventory", "status", "history"}
    BY DEF Bk!Init, Bk!Starts
<1>4. ASSUME cmd = "inventory" PROVE BkRead
  <2>1. /\ host \in Bk!Inventories
        /\ hist.always = {a \in Bk!Tools : host.version[a] = "good" \/ host.config[a].state = "read"}
        /\ got.todo = Bk!adapters /\ got.products = {}
    BY <1>4 DEF Bk!Init, Bk!Starts
  <2>2. \A a \in Bk!Tools : BkConfig(host.config[a])
    BY <2>1, BkInventories, BkConfigs
  <2>3. \A a \in Bk!Tools : BkLeft(a)
    BY <2>1, BkAll DEF BkLeft
  <2> QED
    BY <1>1, <2>1, <2>2, <2>3 DEF BkRead
<1>5. ASSUME cmd = "status" PROVE BkUnits
  <2>h. host \in {[version |-> Bk!All("absent"), config |-> Bk!All(Bk!Absent),
                   unit |-> [Bk!All([service |-> "not-found", timer |-> "not-found"]) EXCEPT ![a] = [service |-> s, timer |-> t]]] :
                     a \in {"borg", "rsnapshot"}, s \in Bk!UnitStates, t \in Bk!UnitStates}
    BY <1>5 DEF Bk!Init, Bk!Starts
  <2>1. PICK a \in {"borg", "rsnapshot"}, s \in Bk!UnitStates, t \in Bk!UnitStates :
          host = [version |-> Bk!All("absent"), config |-> Bk!All(Bk!Absent),
                  unit |-> [Bk!All([service |-> "not-found", timer |-> "not-found"]) EXCEPT ![a] = [service |-> s, timer |-> t]]]
    BY <2>h
  <2>2. "not-found" \in Bk!UnitStates
    BY Zenon DEF Bk!UnitStates
  <2>3. DOMAIN got = {"todo", "version", "products", "checks", "errors"}
    BY <1>5 DEF Bk!Init, Bk!Starts
  <2>4. \A b \in Bk!Tools : host.unit[b].service \in Bk!UnitStates /\ host.unit[b].timer \in Bk!UnitStates
    BY <2>1, <2>2 DEF Bk!All
  <2> QED
    BY <1>1, <2>3, <2>4 DEF BkUnits
<1>6. ASSUME cmd = "history" PROVE BkLogs
  <2>1. /\ hist = host.log /\ DOMAIN got = {"todo", "summaries", "checks", "errors"}
        /\ got.todo = Bk!adapters /\ got.summaries = {}
    BY <1>6 DEF Bk!Init, Bk!Starts
  <2>h. host \in {[log |-> [Bk!All(Bk!Absent) EXCEPT ![a] = l]] : a \in Bk!Tools, l \in Bk!Histories}
    BY <1>6 DEF Bk!Init, Bk!Starts
  <2>2. PICK a \in Bk!Tools, l \in Bk!Histories : host = [log |-> [Bk!All(Bk!Absent) EXCEPT ![a] = l]]
    BY <2>h
  <2>3. \A i \in DOMAIN l.lines : l.lines[i].at \in 1..2
    <3> DEFINE long == [i \in 1..(Bk!MaxLines + 1) |-> [at |-> 1, outcome |-> "success"]]
    <3>1. ASSUME NEW m, NEW s \in [1..m -> Bk!Entry], l = Bk!File("read", s) PROVE \A i \in DOMAIN l.lines : l.lines[i].at \in 1..2
      BY <3>1 DEF Bk!File, Bk!Entry
    <3>2. ASSUME l = Bk!File("read", long) PROVE \A i \in DOMAIN l.lines : l.lines[i].at \in 1..2
      BY <3>2 DEF Bk!File
    <3>3. ASSUME l \in {Bk!Absent, Bk!Unsafe} PROVE \A i \in DOMAIN l.lines : l.lines[i].at \in 1..2
      BY <3>3 DEF Bk!File, Bk!Absent, Bk!Unsafe
    <3> DEFINE short == UNION {[1..n -> Bk!Entry] : n \in 0..Bk!MaxLines}
               logs == short \cup {long}
    <3>4. Bk!Histories = {Bk!Absent, Bk!Unsafe} \cup {Bk!File("read", s) : s \in logs}
      BY DEF Bk!Histories
    <3>5. \A s \in logs : s = long \/ \E n \in 0..Bk!MaxLines : s \in [1..n -> Bk!Entry]
      OBVIOUS
    <3> HIDE DEF long, short, logs
    <3>6. CASE l \in {Bk!Absent, Bk!Unsafe}
      BY <3>3, <3>6
    <3>7. ASSUME NEW s \in logs, l = Bk!File("read", s) PROVE \A i \in DOMAIN l.lines : l.lines[i].at \in 1..2
      BY <3>1, <3>2, <3>5, <3>7
    <3> QED
      BY <3>4, <3>6, <3>7
  <2>4. \A b \in Bk!Tools : \A i \in DOMAIN host.log[b].lines : host.log[b].lines[i].at \in 1..2
    BY <2>2, <2>3 DEF Bk!All, Bk!Absent, Bk!File
  <2> QED
    BY <1>1, <2>1, <2>4, BkTools DEF BkLogs
<1> QED
    BY <1>2, <1>3, <1>4, <1>5, <1>6 DEF BkReports

\* Every step preserves it.
LEMMA BkReportsNext == BkInv /\ BkReports /\ Bk!Next => BkReports'
<1> SUFFICES ASSUME BkInv, BkReports, Bk!Next PROVE BkReports'
    OBVIOUS
<1>1. cmd' = cmd /\ BkSaid /\ cmd \in {"inventory", "status", "history"}
    BY BkStays DEF BkReports
<1>2. CASE cmd = "inventory"
  <2>1. BkInventory /\ BkRead
    BY <1>2 DEF BkInv, BkReports
  <2>2. BkRead' /\ BkSaid'
    BY <1>1, <1>2, <2>1, BkReadNext
  <2> QED
    BY <1>1, <1>2, <2>2 DEF BkReports
<1>3. CASE cmd = "status"
  <2>1. BkUnits' /\ BkSaid'
    BY <1>1, <1>3, BkUnitsNext DEF BkReports
  <2> QED
    BY <1>1, <1>3, <2>1 DEF BkReports
<1>4. CASE cmd = "history"
  <2>1. BkLogs' /\ BkSaid'
    BY <1>1, <1>4, BkLogsNext DEF BkReports
  <2> QED
    BY <1>1, <1>4, <2>1 DEF BkReports
<1> QED
    BY <1>1, <1>2, <1>3, <1>4

\* What is promised follows.
LEMMA BkReportsSafe == BkReports => Bk!NothingLost /\ Bk!PassIsEarned
BY DEF BkReports, BkSaid

-----------------------------------------------------------------------------
(* Baseline.  A check that was made says what the host has, and the others are still to be made. *)

\* What the checks of two parts may find, and the numbers that are compared.
BlTyped(h) ==
    /\ {"config", "aslr", "rp", "pending"} \subseteq DOMAIN h
    /\ h.aslr \in {"equal", "mismatch", "unread"} /\ h.rp \in {"equal", "mismatch", "unread"}
    /\ h.pending \in Int /\ h.config.maximum \in Int

\* It is so after one more field was given a value of those it may have.
LEMMA BlVaried ==
    ASSUME NEW hosts, NEW values, \A h \in hosts : BlTyped(h), "config" \notin DOMAIN values,
           \A f \in {"aslr", "rp"} \cap DOMAIN values : values[f] \subseteq {"equal", "mismatch", "unread"},
           "pending" \in DOMAIN values => values["pending"] \subseteq Int
    PROVE  \A h \in Bl!Varied(hosts, values) : BlTyped(h)
<1> SUFFICES ASSUME NEW g \in Bl!Varied(hosts, values), g \notin hosts PROVE BlTyped(g)
    OBVIOUS
<1>1. PICK h \in hosts, f \in DOMAIN values : g \in {[h EXCEPT ![f] = v] : v \in values[f]}
    BY DEF Bl!Varied
<1>2. PICK v \in values[f] : g = [h EXCEPT ![f] = v]
    BY <1>1
<1>3. BlTyped(h)
    OBVIOUS
<1> QED
    BY <1>2, <1>3 DEF BlTyped

\* It is so of every host that a run may find.
LEMMA BlHosts == \A h \in Bl!Hosts : BlTyped(h)
<1> DEFINE program == {"absent", "exits", "fails"}
           values == [platform |-> {"unsupported", "unread"}, sync |-> {"no"} \cup program,
                      passwd |-> {"absent", "unsafe"}, shadow |-> {"absent", "unsafe"},
                      aslr |-> {"mismatch", "unread"}, rp |-> {"mismatch", "unread"},
                      sshd |-> {"lax"} \cup program, pending |-> {1, 2, Bl!Unread},
                      ssh |-> {"inactive", "absent"}, cron |-> {"inactive", "absent"}]
<1>1. /\ values.aslr = {"mismatch", "unread"} /\ values.rp = {"mismatch", "unread"} /\ values.pending \subseteq Int
      /\ "config" \notin DOMAIN values
    BY DEF Bl!Unread
<1>2. BlTyped(Bl!Usual)
    BY DEF BlTyped, Bl!Usual
<1>3. Bl!Machines = Bl!Varied(Bl!Varied({Bl!Usual}, values), values)
    BY DEF Bl!Machines
<1> HIDE DEF values
<1>4. \A f \in {"aslr", "rp"} \cap DOMAIN values : values[f] \subseteq {"equal", "mismatch", "unread"}
    BY <1>1
<1>5. \A h \in Bl!Varied({Bl!Usual}, values) : BlTyped(h)
    BY <1>1, <1>2, <1>4, BlVaried
<1>6. \A h \in Bl!Machines : BlTyped(h)
    BY <1>1, <1>3, <1>4, <1>5, BlVaried
<1>7. \A s \in Bl!Settings : s.maximum \in Int
    BY DEF Bl!Settings
<1>8. ASSUME NEW s \in Bl!Settings PROVE BlTyped([Bl!Usual EXCEPT !.config = s])
    BY <1>2, <1>7 DEF BlTyped
<1> QED
    BY <1>6, <1>8 DEF Bl!Hosts

\* What a check that passes says of the host.
BlHolds(id) ==
    /\ id = "time-sync" => host.sync = "yes"
    /\ id = "filesystem-ownership" => host.passwd = "trusted" /\ host.shadow = "trusted"
    /\ id = "kernel-controls" => host.aslr = "equal" /\ host.rp = "equal"
    /\ id = "ssh-posture" => host.sshd = "secure"
    /\ id = "package-state" => host.pending <= host.config.maximum
    /\ id = "required-services" => host.ssh = "active" /\ host.cron = "active"

\* A check is right about the host, and has an error if it could not be made.
BlRight(c) ==
    /\ c.status \in {"pass", "info"} => BlHolds(c.id)
    /\ c.status = "skipped" => \E e \in got.errors : e.check = c.id
    /\ c.id = "kernel-controls" /\ "unread" \in {host.aslr, host.rp} => \E e \in got.errors : e.check = c.id

\* What is still to be made and what was made are the checks that are wanted.
BlCovered ==
    \A id : (\E n \in got.todo : Bl!compiledCheckIDs[n] = id) \/ (\E c \in got.checks : c.id = id)
              <=> id \in Bl!Compiled /\ Bl!Wanted(id)

\* The checks that were made are right, and none is forgotten.
BlReports == cmd = "check" =>
    /\ BlTyped(host)
    /\ pc \in {"platform", "checks"} => BlCovered
    /\ \A c \in got.checks : BlRight(c)
    /\ pc = "start" => got.checks = {}
    /\ got.service \in {"ssh", "cron"} /\ (got.service = "cron" => host.ssh = "active")
    /\ reply.status = "pass" => pc = "done"
    /\ Bl!NothingLost /\ Bl!PassIsEarned

\* It holds at the start.
LEMMA BlReportsInit == Bl!Init => BlReports
<1> SUFFICES ASSUME Bl!Init PROVE BlReports
    OBVIOUS
<1>1. /\ got = [todo |-> {}, service |-> "ssh", checks |-> {}, errors |-> {}] /\ host \in Bl!Hosts
      /\ pc = "start" /\ reply = Bl!NoReply
    BY DEF Bl!Init, Bl!Starts
<1> QED
    BY <1>1, BlHosts DEF BlReports, Bl!NoReply, Bl!NothingLost, Bl!PassIsEarned

\* What is selected is what is wanted.
LEMMA BlCoveredFirst ==
    ASSUME Bl!selectedChecks(host.config) # {}
    PROVE  \A id : (\E n \in Bl!selectedChecks(host.config) : Bl!compiledCheckIDs[n] = id)
                     <=> id \in Bl!Compiled /\ Bl!Wanted(id)
<1> DEFINE s == host.config
           candidates == IF s.enabled = <<>> THEN Bl!Compiled ELSE Bl!Range(s.enabled)
           wanted == {n \in DOMAIN Bl!compiledCheckIDs : Bl!compiledCheckIDs[n] \in candidates \ Bl!Range(s.disabled)}
           ids == Bl!compiledCheckIDs
<1>1. Bl!selectedChecks(s) = {} \/ Bl!selectedChecks(s) = wanted
    BY Zenon DEF Bl!selectedChecks
<1>2. \A id \in Bl!Compiled : Bl!Wanted(id) <=> id \in candidates \ Bl!Range(s.disabled)
    BY DEF Bl!Wanted
<1>3. Bl!Compiled = {ids[n] : n \in DOMAIN ids}
    BY DEF Bl!Compiled, Bl!Range
<1> HIDE DEF candidates, s, ids
<1>4. Bl!selectedChecks(s) = {n \in DOMAIN ids : ids[n] \in candidates \ Bl!Range(s.disabled)}
    BY <1>1 DEF s, ids
<1> QED
    BY <1>2, <1>3, <1>4 DEF s, ids

\* A check that ends keeps it, if it is right about the host.
LEMMA BlEndedReports ==
    ASSUME BlWorst, BlReports, cmd = "check", NEW id, Bl!Now(id), NEW status, NEW errors, Bl!Ended(status, errors),
           status \in {"pass", "info"} => BlHolds(id),
           status = "skipped" => errors # {},
           id = "kernel-controls" /\ "unread" \in {host.aslr, host.rp} => errors # {}
    PROVE  BlReports'
<1> DEFINE n == Bl!Min(got.todo)
           new == Bl!Chk(id, status)
           said == {[check |-> id, code |-> e] : e \in errors}
<1>1. n \in got.todo
    BY Least DEF Bl!Min, Bl!Now, BlWorst
<1>2. id = Bl!compiledCheckIDs[n] /\ id = Bl!Current /\ pc = "checks"
    BY DEF Bl!Now, Bl!Current
<1>3. /\ got'.todo = got.todo \ {n} /\ got'.checks = got.checks \cup {new} /\ got'.errors = got.errors \cup said
      /\ got'.service = got.service /\ pc' = "checks" /\ UNCHANGED <<reply, host, cmd>>
    BY <1>2 DEF Bl!Ended, Bl!GoTo, Bl!Others, BlWorst
<1>4. new.id = id /\ new.status = status /\ (errors # {} => \E e \in said : e.check = id)
  <2>1. new.id = id /\ new.status = status
    BY DEF Bl!Chk
  <2>2. ASSUME errors # {} PROVE \E e \in said : e.check = id
    <3>1. PICK e : e \in errors
      BY <2>2
    <3>2. [check |-> id, code |-> e] \in said
      BY <3>1
    <3>3. [check |-> id, code |-> e].check = id
      OBVIOUS
    <3> QED
      BY <3>2, <3>3
  <2> QED
    BY <2>1, <2>2
<1> HIDE DEF n, new, said
<1>5. \A x : Bl!Wanted(x)' <=> Bl!Wanted(x)
    BY <1>3 DEF Bl!Wanted
<1>6. BlCovered'
  <2>1. BlCovered
    BY <1>2 DEF BlReports
  <2>2. ASSUME NEW x PROVE (\E m \in got'.todo : Bl!compiledCheckIDs[m] = x) \/ (\E c \in got'.checks : c.id = x)
                             <=> (\E m \in got.todo : Bl!compiledCheckIDs[m] = x) \/ (\E c \in got.checks : c.id = x)
    BY <1>1, <1>2, <1>3, <1>4
  <2>3. Bl!compiledCheckIDs' = Bl!compiledCheckIDs /\ Bl!Compiled' = Bl!Compiled
    BY DEF Bl!compiledCheckIDs, Bl!Compiled, Bl!Range
  <2> QED
    BY <1>5, <2>1, <2>2, <2>3 DEF BlCovered
<1>7. \A c \in got'.checks : BlRight(c)'
  <2>1. \A x : BlHolds(x)' <=> BlHolds(x)
    BY <1>3 DEF BlHolds
  <2>2. ASSUME NEW c \in got.checks PROVE BlRight(c)'
    <3>1. BlRight(c)
      BY DEF BlReports
    <3> QED
      BY <1>3, <2>1, <3>1 DEF BlRight
  <2>3. BlRight(new)'
    <3>1. new' = new
      BY DEF new, Bl!Chk
    <3> QED
      BY <1>3, <1>4, <2>1, <3>1 DEF BlRight
  <2> QED
    BY <1>3, <2>2, <2>3
<1>8. reply.exit # "ok" /\ reply.status # "pass"
    BY <1>2 DEF BlWorst, BlReports
<1> QED
    BY <1>3, <1>6, <1>7, <1>8 DEF BlReports, Bl!NothingLost, Bl!PassIsEarned

\* Every step preserves it.
LEMMA BlReportsNext == BlWorst /\ BlReports /\ Bl!Next => BlReports'
<1> SUFFICES ASSUME BlWorst, BlReports, Bl!Next, cmd' = "check" PROVE BlReports'
    BY DEF BlReports
<1> USE DEF Bl!Others, Bl!Answer, Bl!GoTo
<1>a. cmd = "check" /\ UNCHANGED host
    BY DEF Bl!Next, Bl!Step, Bl!Configure, Bl!Detect, Bl!supportedOSCheck, Bl!timeSyncCheck,
           Bl!filesystemOwnershipCheck, Bl!kernelControlsCheck, Bl!sshPostureCheck, Bl!packageStateCheck,
           Bl!requiredServicesCheck, Bl!baselineResult, Bl!Expire, Bl!Ended, Bl!TimedOut,
           Bl!unavailableCheck, Bl!localInspectionError
<1>w. /\ \A x : Bl!Wanted(x)' <=> Bl!Wanted(x)
      /\ UNCHANGED got /\ (\A c \in got.checks : BlRight(c)) => \A c \in got'.checks : BlRight(c)'
      /\ Bl!compiledCheckIDs' = Bl!compiledCheckIDs /\ Bl!Compiled' = Bl!Compiled
    BY <1>a DEF Bl!Wanted, BlRight, BlHolds, Bl!compiledCheckIDs, Bl!Compiled, Bl!Range
<1>f. \A code : code # "ok" => Bl!Failure(code).exit # "ok" /\ Bl!Failure(code).status = "none"
    BY DEF Bl!Failure, Bl!NoReply
<1>b. CASE /\ reply'.exit # "ok" /\ reply'.status = "none" /\ pc' = "done" /\ UNCHANGED got
    BY <1>a, <1>b, <1>w DEF BlReports, Bl!NothingLost, Bl!PassIsEarned
<1>t. Bl!TimedOut => reply'.exit # "ok" /\ reply'.status = "none" /\ pc' = "done" /\ UNCHANGED got
    BY <1>f DEF Bl!TimedOut
<1>q. pc # "done" => reply.exit # "ok" /\ reply.status # "pass"
    BY <1>a DEF BlWorst, BlReports
<1>1. CASE Bl!Configure
  <2>1. CASE Bl!Answer(Bl!Failure("arguments")) \/ Bl!Answer(Bl!Failure("configuration"))
    BY <1>b, <1>f, <1>1, <2>1 DEF Bl!Configure
  <2>2. CASE /\ Bl!selectedChecks(host.config) # {} /\ got' = [got EXCEPT !.todo = Bl!selectedChecks(host.config)]
             /\ pc' = "platform" /\ UNCHANGED reply
    <3>1. pc = "start" /\ got.checks = {}
      BY <1>1, <1>a DEF Bl!Configure, BlReports
    <3>2. got'.todo = Bl!selectedChecks(host.config) /\ got'.checks = {} /\ got'.service = got.service
      BY <1>a, <2>2, <3>1 DEF BlWorst
    <3>3. BlCovered'
      BY <1>w, <2>2, <3>2, BlCoveredFirst DEF BlCovered
    <3> QED
      BY <1>a, <1>q, <2>2, <3>1, <3>2, <3>3 DEF BlReports, Bl!NothingLost, Bl!PassIsEarned
  <2> QED
    BY <1>1, <2>1, <2>2 DEF Bl!Configure
<1>2. CASE Bl!Detect
  <2>1. pc = "platform" /\ UNCHANGED got
    BY <1>2 DEF Bl!Detect
  <2>2. CASE reply' = Bl!Failure("dependency") /\ pc' = "done"
    BY <1>b, <1>f, <2>1, <2>2
  <2>3. CASE pc' = "checks" /\ UNCHANGED reply
    <3>1. BlCovered'
      BY <1>a, <1>w, <2>1 DEF BlReports, BlCovered
    <3> QED
      BY <1>a, <1>q, <1>w, <2>1, <2>3, <3>1 DEF BlReports, Bl!NothingLost, Bl!PassIsEarned
  <2> QED
    BY <1>a, <1>2, <2>2, <2>3 DEF Bl!Detect
<1>3. CASE Bl!supportedOSCheck
  <2>1. BlHolds("supported-os")
    BY DEF BlHolds
  <2> QED
    BY <1>a, <1>3, <2>1, BlEndedReports DEF Bl!supportedOSCheck
<1>4. CASE Bl!timeSyncCheck
  <2>1. CASE Bl!TimedOut
    BY <1>b, <1>t, <2>1
  <2>2. CASE host.sync \in {"yes", "no"} /\ Bl!Ended(IF host.sync = "yes" THEN "pass" ELSE "warning", {})
    <3>1. (IF host.sync = "yes" THEN "pass" ELSE "warning") \in {"pass", "info"} => BlHolds("time-sync")
      BY DEF BlHolds
    <3> QED
      BY <1>a, <1>4, <2>2, <3>1, BlEndedReports DEF Bl!timeSyncCheck
  <2>3. CASE Bl!unavailableCheck(host.sync)
    BY <1>a, <1>4, <2>3, BlEndedReports DEF Bl!timeSyncCheck, Bl!unavailableCheck
  <2> QED
    BY <1>4, <2>1, <2>2, <2>3 DEF Bl!timeSyncCheck
<1>5. CASE Bl!filesystemOwnershipCheck
  <2>1. CASE Bl!localInspectionError
    BY <1>a, <1>5, <2>1, BlEndedReports DEF Bl!filesystemOwnershipCheck, Bl!localInspectionError
  <2>2. CASE Bl!Ended("critical", {})
    BY <1>a, <1>5, <2>2, BlEndedReports DEF Bl!filesystemOwnershipCheck
  <2>3. CASE (IF host.passwd # "trusted" THEN host.passwd ELSE host.shadow) = "trusted" /\ Bl!Ended("pass", {})
    <3>1. BlHolds("filesystem-ownership")
      BY <2>3 DEF BlHolds
    <3> QED
      BY <1>a, <1>5, <2>3, <3>1, BlEndedReports DEF Bl!filesystemOwnershipCheck
  <2> QED
    BY <1>5, <2>1, <2>2, <2>3 DEF Bl!filesystemOwnershipCheck
<1>6. CASE Bl!kernelControlsCheck
  <2> DEFINE read == {host.aslr, host.rp}
             status == CASE "mismatch" \in read -> "warning"
                         [] "mismatch" \notin read /\ "unread" \in read -> "skipped"
                         [] OTHER -> "pass"
             errors == IF "unread" \in read THEN {"local_probe_failed"} ELSE {}
  <2>1. Bl!Now("kernel-controls") /\ Bl!Ended(status, errors)
    BY <1>6 DEF Bl!kernelControlsCheck
  <2>2. status \in {"pass", "info"} => BlHolds("kernel-controls")
    BY <1>a DEF BlHolds, BlReports, BlTyped
  <2>3. (status = "skipped" => errors # {}) /\ ("unread" \in {host.aslr, host.rp} => errors # {})
    OBVIOUS
  <2> HIDE DEF status, errors
  <2> QED
    BY <1>a, <2>1, <2>2, <2>3, BlEndedReports
<1>7. CASE Bl!sshPostureCheck
  <2>1. CASE Bl!TimedOut
    BY <1>b, <1>t, <2>1
  <2>2. CASE host.sshd \in {"secure", "lax"} /\ Bl!Ended(IF host.sshd = "secure" THEN "pass" ELSE "warning", {})
    <3>1. (IF host.sshd = "secure" THEN "pass" ELSE "warning") \in {"pass", "info"} => BlHolds("ssh-posture")
      BY DEF BlHolds
    <3> QED
      BY <1>a, <1>7, <2>2, <3>1, BlEndedReports DEF Bl!sshPostureCheck
  <2>3. CASE Bl!unavailableCheck(host.sshd)
    BY <1>a, <1>7, <2>3, BlEndedReports DEF Bl!sshPostureCheck, Bl!unavailableCheck
  <2> QED
    BY <1>7, <2>1, <2>2, <2>3 DEF Bl!sshPostureCheck
<1>8. CASE Bl!packageStateCheck
  <2>1. CASE Bl!localInspectionError
    BY <1>a, <1>8, <2>1, BlEndedReports DEF Bl!packageStateCheck, Bl!localInspectionError
  <2>2. CASE Bl!Ended(IF host.pending > host.config.maximum THEN "warning" ELSE "pass", {})
    <3>1. (IF host.pending > host.config.maximum THEN "warning" ELSE "pass") \in {"pass", "info"} => BlHolds("package-state")
      BY <1>a DEF BlHolds, BlReports, BlTyped
    <3> QED
      BY <1>a, <1>8, <2>2, <3>1, BlEndedReports DEF Bl!packageStateCheck
  <2> QED
    BY <1>8, <2>1, <2>2 DEF Bl!packageStateCheck
<1>9. CASE Bl!requiredServicesCheck
  <2>0. pc = "checks" /\ Bl!Now("required-services")
    BY <1>9 DEF Bl!requiredServicesCheck, Bl!Now
  <2>1. CASE host[got.service] = "active" /\ got.service = "ssh" /\ got' = [got EXCEPT !.service = "cron"] /\ pc' = "checks" /\ UNCHANGED reply
    <3>2. /\ got'.todo = got.todo /\ got'.checks = got.checks /\ got'.errors = got.errors /\ got'.service = "cron"
          /\ host.ssh = "active"
      BY <1>a, <2>1 DEF BlWorst
    <3>3. BlCovered'
      BY <1>a, <1>w, <2>0, <3>2 DEF BlReports, BlCovered
    <3>4. \A c \in got'.checks : BlRight(c)'
      BY <1>a, <3>2 DEF BlReports, BlRight, BlHolds
    <3> QED
      BY <1>a, <1>q, <2>0, <2>1, <3>2, <3>3, <3>4 DEF BlReports, Bl!NothingLost, Bl!PassIsEarned
  <2>2. CASE Bl!TimedOut
    BY <1>b, <1>t, <2>2
  <2>3. CASE Bl!unavailableCheck("absent")
    BY <1>a, <2>0, <2>3, BlEndedReports DEF Bl!unavailableCheck
  <2>4. CASE Bl!Ended("warning", {})
    BY <1>a, <2>0, <2>4, BlEndedReports
  <2>5. CASE host[got.service] = "active" /\ got.service = "cron" /\ Bl!Ended("pass", {})
    <3>1. BlHolds("required-services")
      BY <1>a, <2>5 DEF BlHolds, BlReports
    <3> QED
      BY <1>a, <2>0, <2>5, <3>1, BlEndedReports
  <2> QED
    BY <1>9, <2>1, <2>2, <2>3, <2>4, <2>5 DEF Bl!requiredServicesCheck
<1>10. CASE Bl!baselineResult
  <2>1. /\ reply' = Bl!Built(got.checks, got, got.errors) /\ pc' = "done" /\ pc = "checks" /\ got.todo = {}
        /\ UNCHANGED got
    BY <1>10 DEF Bl!baselineResult
  <2>2. reply'.checks = got.checks /\ reply'.errors = got.errors /\ reply'.status = Bl!classify(got.checks, got.errors)
    BY <2>1, BlReply
  <2>3. reply'.status = "pass" => \A c \in got.checks : c.status \in {"pass", "info"}
    BY <2>2 DEF Bl!classify
  <2>4. \A id : (\E c \in got.checks : c.id = id) <=> id \in Bl!Compiled /\ Bl!Wanted(id)
    BY <1>a, <2>1 DEF BlReports, BlCovered
  <2>5. \A c \in got.checks : BlRight(c)
    BY <1>a DEF BlReports
  <2>6. {"time-sync", "filesystem-ownership", "kernel-controls", "ssh-posture", "package-state", "required-services"} \subseteq Bl!Compiled
    <3>1. /\ Bl!compiledCheckIDs[2] = "time-sync" /\ Bl!compiledCheckIDs[3] = "filesystem-ownership"
          /\ Bl!compiledCheckIDs[4] = "kernel-controls" /\ Bl!compiledCheckIDs[5] = "ssh-posture"
          /\ Bl!compiledCheckIDs[6] = "package-state" /\ Bl!compiledCheckIDs[7] = "required-services"
      BY DEF Bl!compiledCheckIDs
    <3> QED
      BY <3>1, BlCompiled DEF Bl!Compiled, Bl!Range
  <2>7. reply'.status = "pass" => \A id \in Bl!Compiled : Bl!Wanted(id) => BlHolds(id)
    BY <2>3, <2>4, <2>5 DEF BlRight
  <2>8. Bl!PassIsEarned'
    BY <1>a, <1>w, <2>6, <2>7 DEF Bl!PassIsEarned, BlHolds
  <2>9. Bl!NothingLost'
    <3>1. {c.id : c \in got.checks} = {c \in Bl!Compiled : Bl!Wanted(c)}
      BY <2>4
    <3>2. \A c \in got.checks : c.status = "skipped" => \E e \in got.errors : e.check = c.id
      BY <2>5 DEF BlRight
    <3>3. Bl!Wanted("kernel-controls") /\ "unread" \in {host.aslr, host.rp} => \E e \in got.errors : e.check = "kernel-controls"
      BY <2>4, <2>5, <2>6 DEF BlRight
    <3>4. {c \in Bl!Compiled' : Bl!Wanted(c)'} = {c \in Bl!Compiled : Bl!Wanted(c)}
      BY <1>w
    <3> QED
      BY <1>a, <1>w, <2>2, <3>1, <3>2, <3>3, <3>4 DEF Bl!NothingLost
  <2>10. \A c \in got'.checks : BlRight(c)'
    BY <1>w, <2>1, <2>5
  <2> QED
    BY <1>a, <2>1, <2>8, <2>9, <2>10 DEF BlReports
<1>11. CASE Bl!Expire
  <2>1. UNCHANGED <<pc, got, reply>>
    BY <1>11 DEF Bl!Expire
  <2>2. pc = "checks"
    BY <1>11 DEF Bl!Expire
  <2>3. BlCovered'
    BY <1>a, <1>w, <2>1, <2>2 DEF BlReports, BlCovered
  <2>4. \A c \in got'.checks : BlRight(c)'
    BY <1>a, <1>w, <2>1 DEF BlReports
  <2> QED
    BY <1>a, <1>q, <2>1, <2>2, <2>3, <2>4 DEF BlReports, Bl!NothingLost, Bl!PassIsEarned
<1> QED
    BY <1>1, <1>2, <1>3, <1>4, <1>5, <1>6, <1>7, <1>8, <1>9, <1>10, <1>11 DEF Bl!Next, Bl!Step

-----------------------------------------------------------------------------
(* Docker.  An output that is whole shows what runs all the time. *)

\* An output that is whole shows what runs all the time.
DShown == \A i \in DOMAIN got.outputs : got.outputs[i].what = "whole" => hist.always \subseteq got.outputs[i].shows

\* What runs all the time runs now; the client ran as often as the command asks for, and the requests
\* so far were all redirected to the same host.
DReports ==
    /\ hist.always \subseteq host.containers
    /\ cmd \in ClientCommands => DShown /\ (pc = "parse" => got.i = Len(D!Formats[cmd]))
    /\ cmd = "find" => host.tree \subseteq D!Entries
    /\ pc = "registry" => cmd = "registry"
    /\ cmd = "registry" /\ pc \in {"start", "registry"} =>
         got.i < 5 /\ \A i \in 1..got.i : host.hops[i] = "same"
    /\ reply.status = "pass" => pc = "done"
    /\ D!NothingLost /\ D!PassIsEarned

\* An entry that is not too deep is walked.
LEMMA DWalked ==
    ASSUME NEW t \in SUBSET D!Entries, NEW e \in t, Len(e.path) <= 2
    PROVE  D!Walked(t, e)
<1> SUFFICES ASSUME NEW d \in t, Len(d.path) < Len(e.path) PROVE Len(d.path) <= 1
    BY DEF D!Walked, D!MaxDepth
<1>1. \A p \in {<<"a">>, <<"a", "a">>, <<"b">>, <<"a", "a", "a">>} : p \in Seq({"a", "b"})
  <2>1. "a" \in {"a", "b"} /\ "b" \in {"a", "b"}
    OBVIOUS
  <2>2. <<"a">> \in Seq({"a", "b"})
    BY <2>1
  <2>3. <<"b">> \in Seq({"a", "b"})
    BY <2>1
  <2>4. <<"a", "a">> \in Seq({"a", "b"})
    BY <2>1
  <2>5. <<"a", "a", "a">> \in Seq({"a", "b"})
    BY <2>1
  <2> QED
    BY <2>2, <2>3, <2>4, <2>5, Zenon
<1>2. d \in D!Entries /\ e \in D!Entries
    OBVIOUS
<1>3. d.path \in Seq({"a", "b"}) /\ e.path \in Seq({"a", "b"})
    BY <1>1, <1>2 DEF D!Entries
<1> QED
    BY <1>3

\* A whole output shows all that runs.
LEMMA DWhole ==
    ASSUME NEW format, NEW o \in D!Outputs(format)
    PROVE  o.what = "whole" => o.shows = host.containers
<1>1. \/ o = [what |-> "whole", shows |-> host.containers]
      \/ o = [what |-> "junk", shows |-> {}] \/ o = [what |-> "cut within", shows |-> {}]
      \/ \E s : o = [what |-> "cut at a line", shows |-> s]
    BY Zenon DEF D!Outputs
<1>2. CASE o.what # "whole"
    BY <1>2
<1>3. CASE o = [what |-> "whole", shows |-> host.containers]
    BY <1>3
<1>4. o = [what |-> "junk", shows |-> {}] => o.what = "junk"
    OBVIOUS
<1>5. PICK v, w : v = "cut within" /\ w = "cut at a line"
    BY Zenon
<1>8. v # "whole" /\ w # "whole"
    BY <1>5, Zenon
<1>6. o = [what |-> v, shows |-> {}] => o.what = v
    OBVIOUS
<1>7. \A s : o = [what |-> w, shows |-> s] => o.what = w
    OBVIOUS
<1> QED
    BY <1>1, <1>2, <1>3, <1>4, <1>5, <1>6, <1>7, <1>8, Zenon

\* The last output of these commands is read line by line.
LEMMA DLast == \A c \in {"ps", "usage", "diff"} : D!Formats[c][Len(D!Formats[c])] = "lines of json"
<1>1. D!Formats["ps"] = <<"lines of json">> /\ D!Formats["usage"] = <<"lines of json">>
    BY DEF D!Formats
<1>2. D!Formats["diff"] = <<"json", "lines of json">>
    BY DEF D!Formats
<1>4. PICK lines, json : lines = "lines of json" /\ json = "json"
    BY Zenon
<1>5. D!Formats["ps"] = <<lines>> /\ D!Formats["usage"] = <<lines>> /\ D!Formats["diff"] = <<json, lines>>
    BY <1>1, <1>2, <1>4, Zenon
<1>6. D!Formats["ps"][Len(D!Formats["ps"])] = lines
    BY <1>5
<1>7. D!Formats["usage"][Len(D!Formats["usage"])] = lines
    BY <1>5
<1>8. D!Formats["diff"][Len(D!Formats["diff"])] = lines
    BY <1>5
<1> QED
    BY <1>4, <1>6, <1>7, <1>8, Zenon

\* It holds at the start.
LEMMA DReportsInit == D!Init => DReports
<1> SUFFICES ASSUME D!Init PROVE DReports
    OBVIOUS
<1>1. /\ got = [i |-> 0, outputs |-> <<>>] /\ pc = "start" /\ reply = D!NoReply
    BY DEF D!Init, D!Starts
<1>2. hist.always \subseteq host.containers
    BY DEF D!Init, D!Starts
<1>3. cmd = "find" => host.tree \in D!Trees
    BY DEF D!Init, D!Starts, D!Formats
<1>4. \A t \in D!Trees : t \subseteq D!Entries
    BY Zenon DEF D!Trees, D!kSubset
<1>5. reply.status # "pass"
    BY <1>1 DEF D!NoReply
<1>6. DShown
    BY <1>1 DEF DShown
<1>7. D!NothingLost
    BY <1>5 DEF D!NothingLost
<1>8. D!PassIsEarned
    BY <1>1, <1>5 DEF D!PassIsEarned, D!MaxRequests
<1>9. got.i = 0 /\ 1..0 = {}
    BY <1>1
<1> QED
    BY <1>1, <1>2, <1>3, <1>4, <1>5, <1>6, <1>7, <1>8, <1>9 DEF DReports

\* Every step preserves it.
LEMMA DReportsNext == DInv /\ DReports /\ D!Next => DReports'
<1> SUFFICES ASSUME DInv, DReports, D!Next PROVE DReports'
    OBVIOUS
<1> USE DEF D!Others, D!Answer, D!GoTo
<1>c. cmd' = cmd
    BY DEF D!Next, D!Step, D!Configure, D!RunClient, D!RunClientFails, D!Parse, D!findComposeFiles,
           D!Redirect, D!probeRegistry, D!Change, D!Changes, D!Deadline
<1>k. /\ D!Formats' = D!Formats /\ D!Entries' = D!Entries /\ DOMAIN D!Formats = ClientCommands /\ ClientCommands' = ClientCommands
      /\ D!MaxRequests = 5 /\ D!MaxRequests' = 5 /\ D!MaxDepth = 1 /\ D!MaxDepth' = 1
    BY DEF D!Formats, D!Entries, ClientCommands, D!MaxRequests, D!MaxDepth
<1>n. cmd \notin ClientCommands
      /\ (reply'.status = "pass" /\ cmd = "find" =>
            \A e \in host'.tree : e.kind = "compose" /\ Len(e.path) <= 2 => e \in reply'.data)
      => D!NothingLost'
  <2> SUFFICES ASSUME cmd \notin ClientCommands, reply'.status = "pass",
                      cmd = "find" => \A e \in host'.tree : e.kind = "compose" /\ Len(e.path) <= 2 => e \in reply'.data
               PROVE  D!NothingLost'
    BY DEF D!NothingLost
  <2>1. cmd' \notin DOMAIN D!Formats' /\ cmd' \notin {"ps", "usage", "diff"}
    BY <1>c, <1>k, DCommands
  <2>2. (D!MaxDepth + 1)' = 2
    BY <1>k
  <2> QED
    BY <1>c, <2>1, <2>2 DEF D!NothingLost
<1>t. "find" \notin ClientCommands /\ "registry" \notin ClientCommands
    BY DCommands
<1>a. CASE UNCHANGED <<host, hist, got>> /\ pc' = "done" /\ reply'.status # "pass"
  <2>1. D!NothingLost'
    BY <1>a DEF D!NothingLost
  <2>2. D!PassIsEarned'
    BY <1>a, <1>c, <1>k DEF DReports, D!PassIsEarned
  <2> QED
    BY <1>a, <1>c, <1>k, <2>1, <2>2 DEF DReports, DShown
<1>p. \A kind : D!failure(kind).status # "pass" /\ D!Failure(kind).status # "pass"
    BY DAnswers
<1>1. CASE D!Configure
  <2>1. /\ pc = "start" /\ UNCHANGED <<host, hist, got>>
        /\ \/ pc' = "done" /\ reply'.status # "pass"
           \/ cmd = "find" /\ pc' = "find" /\ UNCHANGED reply
           \/ cmd = "registry" /\ pc' = "registry" /\ UNCHANGED reply
           \/ cmd \notin {"find", "registry"} /\ pc' = "run" /\ UNCHANGED reply
    BY <1>1, <1>p DEF D!Configure
  <2>2. CASE UNCHANGED reply /\ pc' \in {"find", "registry", "run"}
    <3>1. reply'.status # "pass"
      BY <2>1, <2>2 DEF DReports
    <3>2. D!NothingLost' /\ D!PassIsEarned'
      BY <1>c, <1>k, <2>1, <3>1 DEF DReports, D!NothingLost, D!PassIsEarned
    <3> QED
      BY <1>c, <1>k, <2>1, <2>2, <3>1, <3>2 DEF DReports, DShown
  <2> QED
    BY <1>a, <2>1, <2>2
<1>2. CASE D!RunClient
  <2>1. PICK o \in D!Outputs(D!Formats[cmd][got.i + 1]) :
          got' = [i |-> got.i + 1, outputs |-> Append(got.outputs, o)]
    BY <1>2 DEF D!RunClient
  <2>2. /\ pc = "run" /\ UNCHANGED <<host, hist, reply>>
        /\ pc' = IF got'.i = Len(D!Formats[cmd]) THEN "parse" ELSE "run"
    BY <1>2 DEF D!RunClient
  <2>3. cmd \in ClientCommands
    BY <2>2 DEF DInv
  <2>4. o.what = "whole" => o.shows = host.containers
    BY <2>1, DWhole
  <2>5. /\ got.outputs \in Seq([what : Outcomes, shows : SUBSET D!Containers])
        /\ got.i = Len(got.outputs)
    BY <2>3 DEF DInv
  <2>6. got'.outputs = Append(got.outputs, o) /\ got'.i = got.i + 1
    BY <2>1
  <2>7. DShown'
    <3>1. \A i \in DOMAIN got'.outputs : (i \in DOMAIN got.outputs /\ got'.outputs[i] = got.outputs[i]) \/ got'.outputs[i] = o
      BY <2>5, <2>6
    <3> QED
      BY <2>2, <2>3, <2>4, <3>1 DEF DReports, DShown
  <2>8. reply'.status # "pass"
    BY <2>2 DEF DReports
  <2>9. D!NothingLost' /\ D!PassIsEarned'
    BY <1>c, <1>t, <2>3, <2>8 DEF D!NothingLost, D!PassIsEarned
  <2> QED
    BY <1>c, <1>k, <1>t, <2>2, <2>3, <2>7, <2>8, <2>9 DEF DReports
<1>3. CASE D!RunClientFails
  <2>1. reply'.status # "pass"
    BY <1>3, <1>p DEF D!RunClientFails, D!commandError
  <2> QED
    BY <1>3, <1>a, <2>1 DEF D!RunClientFails
<1>4. CASE D!Parse
  <2>1. pc = "parse" /\ pc' = "done" /\ UNCHANGED <<host, hist, got>>
    BY <1>4 DEF D!Parse
  <2>2. CASE \A i \in 1..got.i : D!Parses(D!Formats[cmd][i], got.outputs[i])
    <3>1. reply'.data = got.outputs[got.i].shows
      BY <1>4, <2>2, DAnswers DEF D!Parse
    <3>2. /\ cmd \in ClientCommands /\ got.i = Len(D!Formats[cmd]) /\ got.i > 0 /\ got.i \in Nat /\ DShown
          /\ got.i \in DOMAIN got.outputs
      BY <2>1 DEF DReports, DInv
    <3>3. got.outputs[got.i].what = "whole" => hist.always \subseteq reply'.data
      BY <3>1, <3>2 DEF DShown
    <3>4. cmd \in {"ps", "usage", "diff"} => D!Formats[cmd][got.i] = "lines of json"
      BY <3>2, DLast
    <3>5. \A o : D!Parses("lines of json", o) => o.what \in {"whole", "cut at a line"}
      BY DEF D!Parses
    <3>6. D!Parses(D!Formats[cmd][got.i], got.outputs[got.i])
      BY <2>2, <3>2
    <3>7. cmd \in {"ps", "usage", "diff"} => got.outputs[got.i].what \in {"whole", "cut at a line"}
      BY <3>4, <3>5, <3>6
    <3>8. D!NothingLost'
      BY <1>c, <1>k, <1>t, <2>1, <3>2, <3>3, <3>7 DEF D!NothingLost
    <3>9. D!PassIsEarned'
      BY <1>c, <1>k, <1>t, <2>1, <3>2 DEF D!PassIsEarned
    <3> QED
      BY <1>c, <1>k, <1>t, <2>1, <3>2, <3>8, <3>9 DEF DReports, DShown
  <2>3. CASE ~ \A i \in 1..got.i : D!Parses(D!Formats[cmd][i], got.outputs[i])
    BY <1>4, <1>a, <1>p, <2>1, <2>3 DEF D!Parse
  <2> QED
    BY <2>2, <2>3
<1>5. CASE D!findComposeFiles
  <2>0. pc = "find" /\ pc' = "done" /\ UNCHANGED <<host, hist, got>>
    BY <1>5 DEF D!findComposeFiles
  <2>1. \/ reply' = D!failure("general") \/ reply' = D!success(D!Found(host.tree))
    BY <1>5, Zenon DEF D!findComposeFiles
  <2>2. CASE reply' = D!failure("general")
    BY <1>a, <1>p, <2>0, <2>2
  <2>3. CASE reply' = D!success(D!Found(host.tree))
    <3>1. reply'.data = D!Found(host.tree)
      BY <2>3, DAnswers
    <3>2. cmd \notin ClientCommands
      BY <2>0 DEF DInv
    <3>3. cmd = "find" => \A e \in host.tree : e.kind = "compose" /\ Len(e.path) <= 2 => e \in reply'.data
      BY <3>1, DWalked DEF DReports, D!Found
    <3>4. D!NothingLost'
      BY <1>n, <2>0, <3>2, <3>3
    <3>5. D!PassIsEarned'
      BY <1>c, <1>k, <2>0, <3>2 DEF DReports, D!PassIsEarned
    <3> QED
      BY <1>c, <1>k, <2>0, <3>2, <3>4, <3>5 DEF DReports
  <2> QED
    BY <2>1, <2>2, <2>3
<1>6. CASE D!Redirect
  <2>1. /\ pc = "registry" /\ pc' = "registry" /\ UNCHANGED <<host, hist, reply>>
        /\ host.hops[got.i + 1] = "same" /\ got.i + 1 < 5 /\ got' = [got EXCEPT !.i = @ + 1]
    BY <1>6, <1>k DEF D!Redirect
  <2>2. got'.i = got.i + 1 /\ got.i \in Nat /\ cmd \notin ClientCommands /\ got'.outputs = got.outputs
    BY <2>1 DEF DInv
  <2>3. reply'.status # "pass"
    BY <2>1 DEF DReports
  <2>4. cmd = "registry" => \A i \in 1..got'.i : host.hops[i] = "same"
    BY <2>1, <2>2 DEF DReports
  <2>5. D!PassIsEarned'
    BY <1>c, <1>k, <2>1, <2>2, <2>3, <2>4 DEF D!PassIsEarned
  <2>6. D!NothingLost'
    BY <1>n, <2>2, <2>3
  <2> QED
    BY <1>c, <1>k, <1>t, <2>1, <2>2, <2>3, <2>4, <2>5, <2>6 DEF DReports
<1>7. CASE D!probeRegistry
  <2>1. pc = "registry" /\ pc' = "done" /\ UNCHANGED <<host, hist>> /\ got' = [got EXCEPT !.i = @ + 1]
    BY <1>7 DEF D!probeRegistry
  <2>2. got'.i = got.i + 1 /\ got.i \in Nat /\ cmd = "registry"
    BY <2>1 DEF DInv, DReports
  <2>3. cmd = "registry"  => got.i < 5 /\ \A i \in 1..got.i : host.hops[i] = "same"
    BY <2>1 DEF DReports
  <2>4. D!NothingLost'
    BY <1>n, <1>t, <2>2
  <2>5. D!PassIsEarned'
    BY <1>c, <1>k, <1>t, <2>1, <2>2, <2>3 DEF D!PassIsEarned
  <2> QED
    BY <1>c, <1>k, <1>t, <2>1, <2>2, <2>4, <2>5 DEF DReports
<1>8. CASE D!Change
  <2>1. PICK s \in SUBSET D!Containers :
          pc = "run" /\ D!Changes([host EXCEPT !.containers = s],
                                  [always |-> hist.always \cap s, ever |-> hist.ever \cup s])
    BY <1>8 DEF D!Change
  <2>2. /\ pc = "run" /\ UNCHANGED <<pc, got, reply>> /\ host'.containers = s /\ hist'.always = hist.always \cap s
    BY <2>1 DEF D!Changes, DInv
  <2>3. cmd \in ClientCommands /\ reply'.status # "pass"
    BY <2>2 DEF DReports, DInv
  <2>4. D!NothingLost' /\ D!PassIsEarned'
    BY <1>c, <1>t, <2>3 DEF D!NothingLost, D!PassIsEarned
  <2> QED
    BY <1>c, <1>k, <1>t, <2>2, <2>3, <2>4 DEF DReports, DShown
<1>9. CASE D!Deadline
  <2>1. UNCHANGED <<host, hist, pc, got, reply>>
    BY <1>9 DEF D!Deadline
  <2> QED
    BY <1>c, <1>k, <2>1 DEF DReports, DShown, D!NothingLost, D!PassIsEarned
<1> QED
    BY <1>1, <1>2, <1>3, <1>4, <1>5, <1>6, <1>7, <1>8, <1>9 DEF D!Next, D!Step

-----------------------------------------------------------------------------
(* Files.  What is read is the file that was inspected. *)

\* A file has one of two sizes; the one that was inspected, and that nobody moved, is within the limit.
FReports ==
    /\ {"size", "trust", "file", "dir", "kind"} \subseteq DOMAIN host
    /\ host.size \in [F!Nodes -> {F!Limit, F!Limit + 1}]
    /\ {"inspected", "opened"} \subseteq DOMAIN got
    /\ pc = "read" => got.opened \in F!Nodes
    /\ pc \in {"open", "read"} /\ cmd = "config" /\ ~ hist.moved => host.size[got.inspected] <= F!Limit
    /\ reply.status = "pass" => pc = "done"
    /\ F!PassIsEarned

\* It holds at the start.
LEMMA FReportsInit == F!Init => FReports
<1> SUFFICES ASSUME F!Init PROVE FReports
    OBVIOUS
<1>1. /\ host \in [dir : {"real", "symlink", "absent"}, file : {"n1", F!NoNode},
                   kind : [F!Nodes -> {"regular", "symlink", "other"}],
                   size : [F!Nodes -> {F!Limit, F!Limit + 1}], trust : [F!Nodes -> BOOLEAN]]
      /\ got = [inspected |-> F!NoNode, opened |-> F!NoNode] /\ pc = "start" /\ reply = F!NoReply
    BY DEF F!Init, F!Starts
<1> QED
    BY <1>1 DEF FReports, F!NoReply, F!PassIsEarned

\* Every step preserves it.
LEMMA FReportsNext == FInv /\ FReports /\ F!Next => FReports'
<1> SUFFICES ASSUME FInv, FReports, F!Next PROVE FReports'
    OBVIOUS
<1> USE DEF FReports, F!PassIsEarned, F!Others, F!Answer, F!GoTo
<1>r. CASE F!Refuse /\ UNCHANGED <<host, got, cmd>>
    BY <1>r, FFailure DEF F!Refuse
<1>a. F!Absent => pc' = "done" /\ reply'.status # "pass"
    BY FFailure DEF F!Absent, F!Refuse, F!Result
<1>f. F!Refuse => pc' = "done" /\ reply'.status # "pass"
    BY FFailure DEF F!Refuse
<1>1. CASE F!LstatDir
    BY <1>1, <1>a, <1>f DEF F!LstatDir
<1>2. CASE F!LstatFile
    BY <1>2, <1>a, <1>f DEF F!LstatFile, F!Acceptable
<1>3. CASE F!Open
  <2>1. F!Present # F!NoNode => F!Present \in F!Nodes
    BY DEF FInv, F!Present
  <2> QED
    BY <1>3, <1>f, <2>1 DEF F!Open, F!Nodes
<1>4. CASE F!StatOpened
  <2>1. got.inspected \in F!Nodes /\ cmd # "config"
    BY <1>4 DEF FInv, F!StatOpened
  <2> QED
    BY <1>4, <1>f, <2>1 DEF F!StatOpened, F!SameFile
<1>5. CASE F!ReadAll
  <2>1. CASE F!Refuse
    BY <1>5, <1>f, <2>1 DEF F!ReadAll
  <2>2. CASE ~ F!TooLarge /\ F!Answer(F!Result("pass", {}, [node |-> got.opened, size |-> host.size[got.opened]], {}))
    <3>1. reply'.data.size = host.size[got.opened] /\ host.size[got.opened] \in {F!Limit, F!Limit + 1}
      BY <1>5, <2>2 DEF F!Result, F!ReadAll
    <3>2. cmd # "config" => host.size[got.opened] <= F!Limit
      BY <2>2, <3>1 DEF F!TooLarge, F!Limit
    <3>3. cmd = "config" /\ ~ hist.moved => host.size[got.opened] <= F!Limit
      BY <1>5 DEF F!ReadAll, FInv, Unmoved
    <3> QED
      BY <1>5, <2>2, <3>1, <3>2, <3>3 DEF F!ReadAll
  <2> QED
    BY <1>5, <2>1, <2>2 DEF F!ReadAll
<1>6. CASE F!Change
  <2>1. PICK f \in F!Nodes \cup {F!NoNode}, d \in {"real", "symlink", "absent"}, n \in F!Nodes, t \in BOOLEAN,
             s \in {F!Limit, F!Limit + 1} :
          LET new == [host EXCEPT !.file = f, !.dir = d, !.size[n] = s, !.trust[n] = t]
          IN  /\ 1 = F!Cardinality({x \in DOMAIN host : host[x] # new[x]})
              /\ F!Changes(new, [moved |-> TRUE])
    BY <1>6 DEF F!Change
  <2>2. host'.size \in [F!Nodes -> {F!Limit, F!Limit + 1}] /\ DOMAIN host' = DOMAIN host
    BY <2>1 DEF F!Changes
  <2>3. hist'.moved /\ pc # "done" /\ UNCHANGED <<cmd, pc, got, reply>>
    BY <2>1 DEF F!Changes, F!Done
  <2> QED
    BY <2>2, <2>3
<1> QED
    BY <1>1, <1>2, <1>3, <1>4, <1>5, <1>6 DEF F!Next, F!Step

-----------------------------------------------------------------------------
(* Runner.  A runner that runs all the time is found, or the processes could not be read. *)

\* A runner that runs all the time is still to be looked at, or found, or there is an error of the
\* processes; what the programs said is kept, and an error of each that said nothing.
GStatusReports ==
    /\ {"version", "unit", "at"} \subseteq DOMAIN host
    /\ {"errors", "version", "unit", "pids", "found"} \subseteq DOMAIN got
    /\ hist.always \subseteq Pids /\ \A p \in hist.always : host.at[p] = "gitlab-runner"
    /\ pc \in {"unit", "processes", "comm", "uid", "report"} => (host.version = "invalid" => "version" \in got.errors)
    /\ pc \in {"processes", "comm", "uid", "report"} => /\ host.unit = "invalid" => "unit" \in got.errors
                                                        /\ host.unit = "failed" => got.unit = "failed"
    /\ pc \in {"comm", "uid"} => hist.always \subseteq got.pids \cup got.found
    /\ pc = "report" => "processes" \in got.errors
    /\ reply.exit = "ok" \/ reply.status = "pass" => pc = "done"
    /\ reply.exit = "ok" => hist.always \subseteq reply.data \/ "processes" \in reply.errors
    /\ reply.status = "pass" => /\ reply.errors = {} /\ "invalid" \notin {host.version, host.unit}
                                /\ host.unit = "failed" => hist.ever # {}

\* Only `status` is spoken of.
GReports == cmd = "status" => GStatusReports

\* It says that nothing is lost and that a pass is earned.
LEMMA GReportsSafe == GReports => G!NothingLost /\ G!PassIsEarned
BY DEF GReports, GStatusReports, G!NothingLost, G!PassIsEarned

\* What is said of a built answer.
LEMMA GBuilds ==
    ASSUME NEW checks, NEW data, NEW errors
    PROVE  LET r == G!Built(checks, data, errors) IN
           /\ r.exit = "ok" /\ r.errors = errors /\ r.data = data
           /\ r.status = "pass" <=> errors = {} /\ \A c \in checks : c.status \in {"pass", "info"}
<1>1. G!classify(checks, errors) = "pass" <=> errors = {} /\ \A c \in checks : c.status \in {"pass", "info"}
    BY DEF G!classify
<1> QED
    BY <1>1 DEF G!Built, G!Build, G!Result

\* It holds at the start.
LEMMA GReportsInit == G!Init => GReports
<1> SUFFICES ASSUME G!Init, cmd = "status" PROVE GStatusReports
    BY DEF GReports
<1>0. host \in [version : {"1.2.3", "absent", "invalid"}, unit : {"active", "failed", "not-found", "absent", "invalid"},
               at : [Pids -> {G!Nobody, "gitlab-runner", "other", "locked"}]]
    BY DEF G!Init, G!Starts
<1>1. /\ DOMAIN host = {"version", "unit", "at"} /\ pc = "start" /\ reply = G!NoReply
      /\ hist = [always |-> {p \in Pids : host.at[p] = "gitlab-runner"},
                 ever |-> {p \in Pids : host.at[p] = "gitlab-runner"}]
  <2>1. pc = "start" /\ reply = G!NoReply
    BY DEF G!Init, G!Starts
  <2>2. hist = [always |-> {p \in Pids : host.at[p] = "gitlab-runner"},
                 ever |-> {p \in Pids : host.at[p] = "gitlab-runner"}]
    BY DEF G!Init, G!Starts
  <2> QED
    BY <1>0, <2>1, <2>2
<1>2. got = [i |-> 0, errors |-> {}, version |-> "", unit |-> "", pids |-> {}, found |-> {}]
    BY DEF G!Init, G!Starts
<1> QED
    BY <1>1, <1>2 DEF GStatusReports, G!NoReply

\* Every step preserves it.
LEMMA GReportsNext == GInv /\ GReports /\ G!Next => GReports'
<1>u. G!Next => UNCHANGED cmd
    BY DEF G!Next, G!Step, G!readConfig, G!statusTimeout, G!collectVersion, G!collectUnit, G!ReadProc,
       G!ReadComm, G!ReadUid, G!Report, G!Change, G!Changes, G!Deadline, G!Others
<1> SUFFICES ASSUME GStatus, GStatusReports, cmd = "status", G!Next PROVE GStatusReports'
    BY <1>u DEF GInv, GReports
<1> USE DEF GStatusReports, G!Others, G!Answer, G!GoTo
<1>q. pc # "done" => reply.exit # "ok" /\ reply.status # "pass"
    OBVIOUS
<1>1. CASE G!statusTimeout
  <2>1. reply'.exit # "ok" /\ reply'.status # "pass"
    BY <1>1 DEF G!statusTimeout, G!Failure, G!NoReply
  <2> QED
    BY <1>1, <2>1 DEF G!statusTimeout
<1>2. CASE G!collectVersion
  <2>1. /\ pc = "start" /\ pc' = "unit" /\ UNCHANGED <<host, hist, reply>> /\ DOMAIN got' = DOMAIN got
        /\ host.version = "invalid" => got'.errors = got.errors \cup {"version"}
    BY <1>2 DEF G!collectVersion, G!ProgramOf
  <2> QED
    BY <1>q, <2>1
<1>3. CASE G!collectUnit
  <2>1. /\ pc = "unit" /\ pc' = "processes" /\ UNCHANGED <<host, hist, reply>> /\ DOMAIN got' = DOMAIN got
        /\ got'.unit = IF host.unit \in {"absent", "invalid"} THEN "" ELSE host.unit
        /\ got'.errors = IF host.unit = "invalid" THEN got.errors \cup {"unit"} ELSE got.errors
    BY <1>3 DEF G!collectUnit, G!ProgramOf
  <2> QED
    BY <1>q, <2>1
<1>4. CASE G!ReadProc
  <2>1. /\ pc = "processes" /\ pc' = "comm" /\ UNCHANGED <<host, hist, reply>> /\ DOMAIN got' = DOMAIN got
        /\ got'.pids = {p \in Pids : host.at[p] # G!Nobody}
        /\ got'.unit = got.unit /\ got'.errors = got.errors
    BY <1>4 DEF G!ReadProc
  <2>2. "gitlab-runner" # G!Nobody
    BY DEF G!Nobody
  <2> QED
    BY <1>q, <2>1, <2>2
<1>p. ASSUME G!ProcessesFail, pc \in {"comm", "uid"}, UNCHANGED <<host, hist>> PROVE GStatusReports'
  <2>1. DOMAIN got' = DOMAIN got /\ got'.errors = got.errors \cup {"processes"} /\ got'.unit = got.unit
        /\ pc' = "report" /\ UNCHANGED reply
    BY <1>p DEF G!ProcessesFail
  <2> QED
    BY <1>p, <1>q, <2>1
<1>5. CASE G!ReadComm
  <2> DEFINE p == G!Pid
  <2>1. pc = "comm" /\ UNCHANGED <<host, hist>>
    BY <1>5 DEF G!ReadComm
  <2>2. \/ G!ProcessesFail
        \/ UNCHANGED got /\ G!GoTo("uid")
        \/ host.at[p] # "gitlab-runner" /\ got' = [got EXCEPT !.pids = @ \ {p}] /\ G!GoTo("comm")
    BY <1>5 DEF G!ReadComm
  <2> HIDE DEF p
  <2>3. CASE G!ProcessesFail
    BY <1>p, <2>1, <2>3
  <2>4. CASE UNCHANGED got /\ G!GoTo("uid")
    BY <1>q, <2>1, <2>4
  <2>5. CASE host.at[p] # "gitlab-runner" /\ got' = [got EXCEPT !.pids = @ \ {p}] /\ G!GoTo("comm")
    <3>1. /\ DOMAIN got' = DOMAIN got /\ got'.pids = got.pids \ {p} /\ got'.found = got.found
          /\ got'.unit = got.unit /\ got'.errors = got.errors
      BY <2>5
    <3> QED
      BY <1>q, <2>1, <2>5, <3>1
  <2> QED
    BY <2>2, <2>3, <2>4, <2>5
<1>6. CASE G!ReadUid
  <2> DEFINE p == G!Pid
  <2>1. pc = "uid" /\ UNCHANGED <<host, hist>>
    BY <1>6 DEF G!ReadUid
  <2>2. \/ G!ProcessesFail
        \/ got' = [got EXCEPT !.pids = @ \ {p}, !.found = @ \cup {p}] /\ G!GoTo("comm")
    BY <1>6 DEF G!ReadUid
  <2> HIDE DEF p
  <2>3. CASE G!ProcessesFail
    BY <1>p, <2>1, <2>3
  <2>4. CASE got' = [got EXCEPT !.pids = @ \ {p}, !.found = @ \cup {p}] /\ G!GoTo("comm")
    <3>1. /\ DOMAIN got' = DOMAIN got /\ got'.pids = got.pids \ {p} /\ got'.found = got.found \cup {p}
          /\ got'.unit = got.unit /\ got'.errors = got.errors
      BY <2>4
    <3> QED
      BY <1>q, <2>1, <2>4, <3>1
  <2> QED
    BY <2>2, <2>3, <2>4
<1>7. CASE G!Report
  <2> DEFINE status == IF ~ G!Installed THEN "info"
                       ELSE IF got.unit \notin {"", "active"} /\ got.found = {} THEN "warning" ELSE "pass"
             checks == {G!Chk("status", status)}
  <2>1. /\ pc = "report" \/ (pc = "comm" /\ got.pids = {})
        /\ pc' = "done" /\ UNCHANGED <<host, hist, got>>
        /\ reply' = G!Built(checks, got.found, got.errors)
    BY <1>7 DEF G!Report
  <2>2. got.unit = "failed" /\ got.found = {} => \E c \in checks : c.status = "warning"
    BY DEF G!Installed, G!Chk
  <2> HIDE DEF checks
  <2>3. /\ reply'.data = got.found /\ reply'.errors = got.errors
        /\ reply'.status = "pass" => got.errors = {} /\ \A c \in checks : c.status \in {"pass", "info"}
    BY <2>1, GBuilds
  <2>4. got.found # {} => hist.ever # {}
    BY DEF GStatus
  <2>5. reply'.status = "pass" => pc = "comm" /\ (got.unit = "failed" => hist.ever # {})
    BY <2>1, <2>2, <2>3, <2>4
  <2> QED
    BY <2>1, <2>3, <2>5
<1>8. CASE G!Change
  <2>1. PICK p \in Pids, v \in {G!Nobody, "gitlab-runner", "other", "locked"} :
          G!Changes([host EXCEPT !.at[p] = v],
             [always |-> hist.always \ {p},
              ever |-> IF v = "gitlab-runner" THEN hist.ever \cup {p} ELSE hist.ever])
    BY <1>8 DEF G!Change
  <2>2. /\ UNCHANGED <<pc, got, reply>> /\ pc # "done" /\ DOMAIN host' = DOMAIN host
        /\ host'.version = host.version /\ host'.unit = host.unit /\ hist'.always = hist.always \ {p}
        /\ \A q \in Pids : q # p => host'.at[q] = host.at[q]
    BY <2>1 DEF G!Changes, G!Done, GStatus
  <2> QED
    BY <1>q, <2>2
<1>9. CASE G!Deadline
    BY <1>9 DEF G!Deadline
<1>10. ~ G!readConfig
    BY DEF G!readConfig
<1> QED
    BY <1>1, <1>2, <1>3, <1>4, <1>5, <1>6, <1>7, <1>8, <1>9, <1>10 DEF G!Next, G!Step

-----------------------------------------------------------------------------
(* Incident.  Every probe that was made is read or has an error. *)

\* What a probe gives is no evidence.
IFails(p) == host[p] # "read" /\ ~ (p = "journal" /\ host[p] = "malformed")

\* The probes that were made.
IMade == {I!Probes[k] : k \in 1..got.i}

\* The evidence and the errors are of the probes that were made.
IReports ==
    /\ {"i", "read", "errors"} \subseteq DOMAIN got
    /\ got.i \in 0..7
    /\ got.read = {p \in IMade : ~ IFails(p)} /\ got.errors = {p \in IMade : IFails(p)}
    /\ cmd = "timeline" => \E n \in Nat : Len(host.journalLines) = n /\ DOMAIN host.journalLines = 1..n
    /\ pc \in {"start", "done", cmd}
    /\ cmd \in {"snapshot", "services", "timeline"}
    /\ reply.exit = "ok" \/ reply.status = "pass" => pc = "done"
    /\ I!NothingLost /\ I!PassIsEarned

\* There are seven probes.
LEMMA IProbes ==
    /\ Len(I!Probes) = 7 /\ I!Range(I!Probes) = {I!Probes[k] : k \in 1..7}
    /\ I!Range(I!Probes) = {"os", "load", "memory", "disk", "listeners", "services", "journal"}
<1>1. /\ I!Probes[1] = "os" /\ I!Probes[2] = "load" /\ I!Probes[3] = "memory" /\ I!Probes[4] = "disk"
      /\ I!Probes[5] = "listeners" /\ I!Probes[6] = "services" /\ I!Probes[7] = "journal"
    BY DEF I!Probes
<1>2. Len(I!Probes) = 7 /\ DOMAIN I!Probes = 1..7
    BY DEF I!Probes
<1>3. I!Range(I!Probes) = {I!Probes[k] : k \in 1..7}
    BY <1>2 DEF I!Range
<1>4. 1..7 = {1, 2, 3, 4, 5, 6, 7}
    OBVIOUS
<1>5. {I!Probes[k] : k \in 1..7} = {"os", "load", "memory", "disk", "listeners", "services", "journal"}
    BY <1>1, <1>4
<1> QED
    BY <1>2, <1>3, <1>5

\* The module counts as usual.
LEMMA ICardinality == ASSUME NEW S PROVE I!Cardinality(S) = Cardinality(S)
BY Zenon DEF I!Cardinality, Cardinality

\* What has evidence and what has not add up.
LEMMA ICounts ==
    ASSUME NEW E, E \subseteq I!Range(I!Probes)
    PROVE  7 - I!Cardinality(E) = I!Cardinality(I!Range(I!Probes) \ E)
<1> DEFINE P3 == {"os", "load", "memory"}
           P4 == P3 \cup {"disk"}
           P5 == P4 \cup {"listeners"}
           P6 == P5 \cup {"services"}
           P7 == P6 \cup {"journal"}
<1>1. IsFiniteSet({"os"}) /\ Cardinality({"os"}) = 1
    BY FS_Singleton
<1>2. IsFiniteSet({"os", "load"}) /\ Cardinality({"os", "load"}) = 2
  <2>1. {"os", "load"} = {"os"} \cup {"load"} /\ "load" \notin {"os"}
    OBVIOUS
  <2> QED
    BY <1>1, <2>1, FS_AddElement
<1>3. IsFiniteSet(P3) /\ Cardinality(P3) = 3
  <2>1. P3 = {"os", "load"} \cup {"memory"} /\ "memory" \notin {"os", "load"}
    OBVIOUS
  <2> QED
    BY <1>2, <2>1, FS_AddElement
<1>4. IsFiniteSet(P4) /\ Cardinality(P4) = 4
    BY <1>3, FS_AddElement
<1>5. IsFiniteSet(P5) /\ Cardinality(P5) = 5
    BY <1>4, FS_AddElement
<1>6. IsFiniteSet(P6) /\ Cardinality(P6) = 6
    BY <1>5, FS_AddElement
<1>7. IsFiniteSet(P7) /\ Cardinality(P7) = 7
    BY <1>6, FS_AddElement
<1>8. I!Range(I!Probes) = P7
    BY IProbes
<1> HIDE DEF P7
<1>9. Cardinality(P7 \ E) = Cardinality(P7) - Cardinality(P7 \cap E)
    BY <1>7, FS_Difference
<1>10. P7 \cap E = E
    BY <1>8
<1>11. IsFiniteSet(E) /\ Cardinality(E) \in Nat /\ Cardinality(P7 \ E) \in Nat
    BY <1>7, <1>8, FS_Subset, FS_Difference, FS_CardinalityType
<1> QED
    BY <1>7, <1>8, <1>9, <1>10, <1>11, ICardinality

\* It holds at the start.
LEMMA IReportsInit == I!Init => IReports
<1> SUFFICES ASSUME I!Init PROVE IReports
    OBVIOUS
<1>1. /\ got = [i |-> 0, read |-> {}, errors |-> {}] /\ pc = "start" /\ reply = I!NoReply
      /\ cmd \in {"snapshot", "services", "timeline"}
    BY DEF I!Init, I!Starts
<1>2. cmd = "timeline" => host \in {[journal |-> r, journalLines |-> j] : r \in {"read", "unread"}, j \in I!Journals}
    BY DEF I!Init, I!Starts
<1>3. \A j \in I!Journals : \E n \in Nat : Len(j) = n /\ DOMAIN j = 1..n
  <2> SUFFICES ASSUME NEW j \in I!Journals PROVE \E n \in Nat : Len(j) = n /\ DOMAIN j = 1..n
    OBVIOUS
  <2>1. PICK n \in 0..(I!MaxEvents + 1) : j \in [1..n -> I!JournalLines]
    BY DEF I!Journals
  <2>2. n \in Nat
    BY DEF I!MaxEvents
  <2> QED
    BY <2>1, <2>2
<1>4. cmd = "timeline" => \E n \in Nat : Len(host.journalLines) = n /\ DOMAIN host.journalLines = 1..n
    BY <1>2, <1>3
<1>5. 1..got.i = {}
    BY <1>1
<1> QED
    BY <1>1, <1>4, <1>5 DEF IReports, IMade, I!NoReply, I!NothingLost, I!PassIsEarned

\* Every step preserves it.
LEMMA IReportsNext == IReports /\ I!Next => IReports'
<1> SUFFICES ASSUME IReports, I!Next PROVE IReports'
    OBVIOUS
<1> USE DEF I!Others, I!Answer, I!GoTo
<1>a. CASE /\ UNCHANGED <<cmd, host, got>> /\ pc' = "done" /\ reply'.status # "pass" /\ reply'.exit # "ok"
    BY <1>a DEF IReports, IMade, IFails, I!NothingLost, I!PassIsEarned
<1>q. pc # "done" => reply.exit # "ok" /\ reply.status # "pass"
    BY DEF IReports
<1>f. \A code : code # "ok" => I!Failure(code).status # "pass" /\ I!Failure(code).exit # "ok"
    BY DEF I!Failure, I!NoReply
<1>b. \A checks, data, errors : LET r == I!Built(checks, data, errors) IN
         r.status = I!classify(checks, errors) /\ r.data = data /\ r.errors = errors
    BY DEF I!Built, I!Build, I!Result
<1>1. CASE I!Dispatch
  <2>1. CASE \E code \in {"arguments", "timeout"} : reply' = I!Failure(code) /\ pc' = "done"
    BY <1>1, <1>a, <1>f, <2>1 DEF I!Dispatch
  <2>2. CASE pc' = cmd /\ UNCHANGED reply
    <3>1. pc = "start" /\ UNCHANGED <<cmd, host, got>>
      BY <1>1 DEF I!Dispatch
    <3> QED
      BY <1>q, <2>2, <3>1 DEF IReports, IMade, IFails, I!NothingLost, I!PassIsEarned
  <2> QED
    BY <1>1, <2>1, <2>2 DEF I!Dispatch
<1>2. CASE I!ReadEvidence \/ I!runBounded
  <2>1. PICK p : I!Snapshot(p) /\ I!Evidence(p, host[p])
    BY <1>2 DEF I!ReadEvidence, I!runBounded
  <2>2. UNCHANGED <<cmd, host, reply>> /\ pc' = "snapshot"
    BY <1>2 DEF I!ReadEvidence, I!runBounded
  <2>3. pc = "snapshot" /\ got.i \in 0..6 /\ p = I!Probes[got.i + 1]
    BY <2>1, IProbes DEF I!Snapshot, IReports
  <2>4. /\ got'.i = got.i + 1 /\ DOMAIN got' = DOMAIN got
        /\ got'.read = IF IFails(p) THEN got.read ELSE got.read \cup {p}
        /\ got'.errors = IF IFails(p) THEN got.errors \cup {p} ELSE got.errors
    BY <2>1 DEF I!Evidence, IFails, IReports
  <2>5. IMade' = IMade \cup {p}
    <3>1. 1..(got.i + 1) = (1..got.i) \cup {got.i + 1}
      BY <2>3
    <3> QED
      BY <2>3, <2>4, <3>1 DEF IMade
  <2>6. \A q : IFails(q)' = IFails(q)
    BY <2>2 DEF IFails
  <2>7. got'.read = {q \in IMade' : ~ IFails(q)} /\ got'.errors = {q \in IMade' : IFails(q)}
    BY <2>4, <2>5 DEF IReports
  <2>8. got'.read = {q \in IMade' : ~ IFails(q)'} /\ got'.errors = {q \in IMade' : IFails(q)'}
    BY <2>6, <2>7
  <2> QED
    BY <1>q, <2>2, <2>3, <2>4, <2>8 DEF IReports, I!NothingLost, I!PassIsEarned
<1>3. CASE I!contextFailure
    BY <1>3, <1>a, <1>f DEF I!contextFailure
<1>4. CASE I!ReportSnapshot
  <2> DEFINE all == I!Range(I!Probes)
  <2>1. /\ reply'.status = I!classify({I!Chk("snapshot", "pass")}, got.errors) /\ reply'.errors = got.errors
        /\ reply'.data.read = got.read /\ reply'.data.available = 7 - I!Cardinality(got.errors)
    BY <1>4, <1>b, IProbes DEF I!ReportSnapshot
  <2>2. pc = "snapshot" /\ got.i = 7 /\ UNCHANGED <<cmd, host, got>> /\ pc' = "done"
    BY <1>4, IProbes DEF I!ReportSnapshot
  <2>3. IMade = all
    BY <2>2, IProbes DEF IMade
  <2>4. got.read = {p \in all : ~ IFails(p)} /\ got.errors = {p \in all : IFails(p)}
    BY <2>3 DEF IReports
  <2>5. I!Files \subseteq all /\ "journal" \notin I!Files
    BY IProbes DEF I!Files
  <2>6. got.read = all \ got.errors /\ got.errors \subseteq all
    BY <2>4
  <2>7. reply'.data.available = I!Cardinality(got.read)
    BY <2>1, <2>6, ICounts
  <2>8. cmd = "snapshot"
    BY <2>2 DEF IReports
  <2>9. reply'.status = "pass" => got.errors = {}
    BY <2>1 DEF I!classify, I!Chk
  <2> HIDE DEF all
  <2>10. \A p \in I!Files : host[p] # "read" => p \in got.errors
    BY <2>4, <2>5 DEF IFails
  <2>11. I!NothingLost'
    BY <2>1, <2>2, <2>6, <2>7, <2>8, <2>10 DEF I!NothingLost, all
  <2>12. reply'.status = "pass" => \A p \in all : host[p] = "read" \/ (p = "journal" /\ host[p] = "malformed")
    BY <2>4, <2>9 DEF IFails
  <2>13. I!PassIsEarned'
    BY <2>2, <2>8, <2>12 DEF I!PassIsEarned, all
  <2> QED
    BY <2>2, <2>11, <2>13 DEF IReports, IMade, IFails
<1>5. CASE I!executeServices
  <2>1. pc = "services" /\ UNCHANGED <<cmd, host, got>> /\ pc' = "done" /\ cmd = "services"
    BY <1>5 DEF I!executeServices, IReports
  <2> QED
    BY <2>1 DEF IReports, IMade, IFails, I!NothingLost, I!PassIsEarned
<1>6. CASE I!executeTimeline
  <2> DEFINE lines == host.journalLines
             t == I!parseTimeline(lines)
             data == [i \in DOMAIN t.lines |-> I!journalCategory(t.lines[i])]
  <2>1. pc = "timeline" /\ UNCHANGED <<cmd, host, got>> /\ pc' = "done" /\ cmd = "timeline"
    BY <1>6 DEF I!executeTimeline, IReports
  <2>2. t.lines = lines /\ (t.ok => Len(lines) <= I!MaxEvents)
    BY DEF I!parseTimeline
  <2>3. PICK n \in Nat : Len(lines) = n /\ DOMAIN lines = 1..n
    BY <2>1 DEF IReports
  <2>4. Len(data) = n
    BY <2>2, <2>3
  <2> HIDE DEF lines, data, t
  <2>5. CASE /\ host.journal = "read" /\ t.ok
             /\ reply' = I!Built({I!Chk("timeline", "pass")}, data, {})
    BY <1>b, <2>1, <2>2, <2>3, <2>4, <2>5 DEF IReports, IMade, IFails, I!NothingLost, I!PassIsEarned, lines
  <2>6. CASE reply' = I!Built({I!Chk("timeline", "partial")}, <<>>, {"timeline"})
    <3>1. reply'.status = "partial" /\ reply'.errors = {"timeline"}
      BY <1>b, <2>6 DEF I!classify, I!Chk
    <3> QED
      BY <2>1, <3>1 DEF IReports, IMade, IFails, I!NothingLost, I!PassIsEarned
  <2> QED
    BY <1>6, <2>5, <2>6 DEF I!executeTimeline, t, data, lines
<1>7. CASE I!Deadline
    BY <1>7 DEF I!Deadline, IReports, IMade, IFails, I!NothingLost, I!PassIsEarned
<1> QED
    BY <1>1, <1>2, <1>3, <1>4, <1>5, <1>6, <1>7 DEF I!Next, I!Step

-----------------------------------------------------------------------------
(* Java.  A process that runs all the time is still to be looked at, or listed. *)

\* A Java process that runs all the time is still to be looked at, or listed.
JListed == \A i \in Pids \ host.links :
             J!IsJava(hist.always[i]) => i \in got.pids \/ \E r \in got.found : r.pid = i

\* What was looked at so far has no issue that hides a process; the client answered all three times.
JReports ==
    /\ {"at", "links", "safe", "client"} \subseteq DOMAIN host
    /\ DOMAIN hist.always = Pids
    /\ \A i \in Pids : hist.always[i] = J!Nobody \/ hist.always[i] = host.at[i]
    /\ pc \in {"comm", "cmdline"} => host.safe /\ (got.issues = {} => JListed)
    /\ pc = "cmdline" /\ hist.always[J!Pid] # J!Nobody => got.comm = host.at[J!Pid]
    /\ pc = "parse" => Len(got.outputs) = 3 /\ host.client \in {"works", "malformed"}
    /\ reply.exit = "ok" \/ reply.status = "pass" => pc = "done"
    /\ J!NothingLost /\ J!PassIsEarned

\* What is said of a built answer.
LEMMA JBuilds ==
    ASSUME NEW checks, NEW data, NEW errors
    PROVE  LET r == J!Built(checks, data, errors) IN
           /\ r.exit = "ok" /\ r.errors = errors /\ r.data = data
           /\ r.status = "pass" <=> errors = {} /\ \A c \in checks : c.status \in {"pass", "info"}
<1>1. J!classify(checks, errors) = "pass" <=> errors = {} /\ \A c \in checks : c.status \in {"pass", "info"}
    BY DEF J!classify
<1> QED
    BY <1>1 DEF J!Built, J!Build, J!Result

\* It holds at the start.
LEMMA JReportsInit == J!Init => JReports
<1> SUFFICES ASSUME J!Init PROVE JReports
    OBVIOUS
<1>1. pc = "start" /\ reply = J!NoReply /\ hist = [always |-> host.at, mixed |-> {}]
    BY DEF J!Init, J!Starts
<1>2. {"at", "links", "safe", "client"} \subseteq DOMAIN host /\ DOMAIN host.at = Pids
    BY DEF J!Init, J!Starts
<1> QED
    BY <1>1, <1>2 DEF JReports, J!NoReply, J!NothingLost, J!PassIsEarned

\* Every step preserves it.
LEMMA JReportsNext == JInv /\ JReports /\ J!Next => JReports'
<1> SUFFICES ASSUME JInv, JReports, J!Next PROVE JReports'
    OBVIOUS
<1> USE DEF J!Others, J!Answer, J!GoTo
<1>c. cmd' = cmd
    BY DEF J!Next, J!Step, J!Dispatch, J!enumeratePIDs, J!EnumerationFails, J!ReadComm, J!readProcess,
           J!ListProcesses, J!collectRuntime, J!runJcmd, J!runJcmdFails, J!ParseInspection,
           J!Change, J!Changes, J!Deadline
<1>f. \A code : code # "ok" => J!Failure(code).exit # "ok" /\ J!Failure(code).status # "pass"
    BY DEF J!Failure, J!NoReply
<1>a. CASE /\ UNCHANGED <<host, hist, got>> /\ pc' = "done" /\ reply'.exit # "ok" /\ reply'.status # "pass"
    BY <1>a, <1>c DEF JReports, J!NothingLost, J!PassIsEarned
<1>q. pc # "done" => reply.exit # "ok" /\ reply.status # "pass"
    BY DEF JReports
<1>k. \A i \in Pids : J!IsJava(hist.always[i]) => hist.always[i] # J!Nobody
    BY DEF J!IsJava, J!Processes, J!Nobody
<1>1. CASE J!Dispatch
  <2>1. CASE J!Answer(J!Failure("arguments"))
    BY <1>1, <1>a, <1>f, <2>1 DEF J!Dispatch
  <2>2. CASE J!GoTo([processes |-> "enumerate", runtime |-> "runtime", inspect |-> "jcmd"][cmd])
    <3>1. pc' \in {"enumerate", "runtime", "jcmd"} /\ UNCHANGED <<host, hist, got, reply>> /\ pc = "start"
      BY <1>1, <2>2 DEF J!Dispatch, JInv
    <3> QED
      BY <1>c, <1>q, <3>1 DEF JReports, J!NothingLost, J!PassIsEarned
  <2> QED
    BY <1>1, <2>1, <2>2 DEF J!Dispatch
<1>2. CASE J!enumeratePIDs
  <2> DEFINE present == {i \in Pids : host.at[i] # J!Nobody}
             fits == J!Cardinality(present) <= J!MaxEntries
  <2>1. PICK entries \in SUBSET present :
          /\ IF fits THEN entries = present ELSE J!Cardinality(entries) = J!MaxEntries
          /\ got' = [got EXCEPT
               !.pids = entries \ host.links,
               !.issues = (IF fits THEN {} ELSE {"process_list_truncated"})
                          \cup (IF entries \cap host.links # {} THEN {"unsafe_proc_entry"} ELSE {})]
    BY <1>2 DEF J!enumeratePIDs
  <2>2. /\ pc = "enumerate" /\ pc' = "comm" /\ UNCHANGED <<host, hist, reply>> /\ host.safe
    BY <1>2 DEF J!enumeratePIDs
  <2>3. got'.pids = entries \ host.links
        /\ got'.issues = (IF fits THEN {} ELSE {"process_list_truncated"})
                          \cup (IF entries \cap host.links # {} THEN {"unsafe_proc_entry"} ELSE {})
    BY <2>1 DEF JInv
  <2>4. got'.issues = {} => fits
    BY <2>3
  <2>5. got'.issues = {} => entries = present
    BY <2>1, <2>4
  <2> HIDE DEF present
  <2>6. got'.issues = {} => JListed'
    <3> SUFFICES ASSUME got'.issues = {}, NEW i \in Pids \ host.links, J!IsJava(hist.always[i]) PROVE i \in got'.pids
      BY <2>2 DEF JListed
    <3>1. host.at[i] # J!Nobody
      BY <1>k DEF JReports
    <3> QED
      BY <2>3, <2>5, <3>1 DEF present
  <2> QED
    BY <1>c, <1>q, <2>2, <2>6 DEF JReports, J!NothingLost, J!PassIsEarned
<1>3. CASE J!EnumerationFails
    BY <1>3, <1>a, <1>f DEF J!EnumerationFails, J!contextFailure
<1>4. CASE J!ReadComm
  <2>1. /\ pc = "comm" /\ pc' = "cmdline" /\ UNCHANGED <<host, hist, reply>>
        /\ got'.pids = got.pids /\ got'.found = got.found /\ got'.issues = got.issues /\ got'.comm = host.at[J!Pid]
    BY <1>4 DEF J!ReadComm, JInv
  <2>2. J!Pid' = J!Pid
    BY <2>1 DEF J!Pid
  <2>3. JListed => JListed'
    BY <2>1 DEF JListed
  <2> QED
    BY <1>c, <1>q, <2>1, <2>2, <2>3 DEF JReports, J!NothingLost, J!PassIsEarned
<1>5. CASE J!readProcess
  <2> DEFINE now == host.at[J!Pid]
             args == IF now = J!Nobody THEN <<>> ELSE J!argv(now)
             isJava == \/ got.comm # J!Nobody /\ J!comm(got.comm) = "java"
                       \/ now # J!Nobody /\ args[1] = "java"
             new == [pid |-> J!Pid, args |-> J!redactJavaArguments(args)]
  <2>0. J!Pid \in Pids
    BY <1>5, JPid, PidsAssumption DEF J!readProcess, JInv
  <2>1. /\ pc = "cmdline" /\ pc' = "comm" /\ UNCHANGED <<host, hist, reply>>
        /\ got'.pids = got.pids \ {J!Pid}
        /\ got'.issues = IF "locked" \in {got.comm, now} THEN got.issues \cup {"process_metadata_unavailable"} ELSE got.issues
        /\ got'.found = IF "locked" \notin {got.comm, now} /\ isJava THEN got.found \cup {new} ELSE got.found
    BY <1>5 DEF J!readProcess, JInv
  <2>2. new.pid = J!Pid
    OBVIOUS
  <2>3. J!IsJava(hist.always[J!Pid]) => isJava
    <3> SUFFICES ASSUME J!IsJava(hist.always[J!Pid]) PROVE isJava
      OBVIOUS
    <3>1. got.comm = now /\ now # J!Nobody /\ J!IsJava(now)
      BY <1>k, <2>0, <2>1 DEF JReports
    <3> QED
      BY <3>1 DEF J!IsJava
  <2> HIDE DEF isJava, new
  <2>4. got'.issues = {} => JListed'
    <3> SUFFICES ASSUME got'.issues = {}, NEW i \in Pids \ host.links, J!IsJava(hist.always[i])
                 PROVE  i \in got'.pids \/ \E r \in got'.found : r.pid = i
      BY <2>1 DEF JListed
    <3>1. got.issues = {} /\ "locked" \notin {got.comm, now}
      BY <2>1
    <3>2. i \in got.pids \/ \E r \in got.found : r.pid = i
      BY <2>1, <3>1 DEF JReports, JListed
    <3>3. CASE i = J!Pid
      <4>1. new \in got'.found
        BY <2>1, <2>3, <3>1, <3>3
      <4> QED
        BY <2>2, <3>3, <4>1
    <3>4. CASE i # J!Pid
      BY <2>1, <3>2, <3>4
    <3> QED
      BY <3>3, <3>4
  <2> QED
    BY <1>c, <1>q, <2>1, <2>4 DEF JReports, J!NothingLost, J!PassIsEarned
<1>6. CASE J!ListProcesses
  <2>1. CASE J!Answer(J!contextFailure)
    BY <1>6, <1>a, <1>f, <2>1 DEF J!ListProcesses, J!contextFailure
  <2>2. CASE /\ got.pids = {}
             /\ J!Answer(J!Built({J!Chk("java.processes", IF got.found = {} THEN "info" ELSE "pass")}, got.found, got.issues))
    <3>1. /\ reply'.errors = got.issues /\ reply'.data = got.found
          /\ reply'.status = "pass" => got.issues = {}
      BY <2>2, JBuilds
    <3>2. pc = "comm" /\ pc' = "done" /\ UNCHANGED <<host, hist, got>> /\ cmd = "processes" /\ host.safe
      BY <1>6, <2>2 DEF J!ListProcesses, JReports, JInv
    <3>3. got.issues = {} => JListed
      BY <3>2 DEF JReports
    <3>4. J!NothingLost'
      BY <1>c, <2>2, <3>1, <3>2, <3>3 DEF J!NothingLost, JListed
    <3>5. J!PassIsEarned'
      BY <1>c, <2>2, <3>1, <3>2 DEF J!PassIsEarned
    <3> QED
      BY <1>c, <3>2, <3>4, <3>5 DEF JReports
  <2> QED
    BY <1>6, <2>1, <2>2 DEF J!ListProcesses
<1>7. CASE J!collectRuntime
  <2>1. pc = "runtime" /\ cmd = "runtime" /\ pc' = "done" /\ UNCHANGED <<host, hist, got>>
    BY <1>7 DEF J!collectRuntime, JInv
  <2>2. CASE host.client = "works"
    BY <1>c, <2>1, <2>2 DEF JReports, J!NothingLost, J!PassIsEarned
  <2>3. CASE host.client # "works"
    BY <1>7, <1>a, <1>f, <2>1, <2>3 DEF J!collectRuntime, J!contextFailure
  <2> QED
    BY <2>2, <2>3
<1>8. CASE J!runJcmd
  <2>1. /\ pc = "jcmd" /\ UNCHANGED <<host, hist, reply>> /\ host.client \in {"works", "malformed"}
        /\ pc' \in {"jcmd", "parse"} /\ (pc' = "parse" => Len(got'.outputs) = Len(J!Operations))
    BY <1>8 DEF J!runJcmd
  <2>2. Len(J!Operations) = 3
    BY DEF J!Operations
  <2> QED
    BY <1>c, <1>q, <2>1, <2>2 DEF JReports, J!NothingLost, J!PassIsEarned
<1>9. CASE J!runJcmdFails
  <2>1. \E code \in {"timeout", "dependency", "privilege", "general"} : reply' = J!Failure(code)
    BY <1>9 DEF J!runJcmdFails, J!contextFailure
  <2> QED
    BY <1>9, <1>a, <1>f, <2>1 DEF J!runJcmdFails
<1>10. CASE J!ParseInspection
  <2>1. CASE host.client = "malformed"
    BY <1>10, <1>a, <1>f, <2>1 DEF J!ParseInspection
  <2>2. CASE host.client # "malformed"
    <3>1. /\ pc = "parse" /\ pc' = "done" /\ UNCHANGED <<host, hist, got>> /\ cmd = "inspect"
          /\ reply'.data = got.outputs
      BY <1>10, <2>2, JBuilds DEF J!ParseInspection, JInv
    <3>2. Len(got.outputs) = 3 /\ host.client = "works"
      BY <2>2, <3>1 DEF JReports
    <3>3. Len(J!Operations) = 3
      BY DEF J!Operations
    <3> QED
      BY <1>c, <3>1, <3>2, <3>3 DEF JReports, J!NothingLost, J!PassIsEarned
  <2> QED
    BY <2>1, <2>2
<1>11. CASE J!Change
  <2>1. PICK i \in Pids, p \in {J!Nobody, "jvm", "shell"} :
          /\ pc \in {"comm", "cmdline", "jcmd"} /\ p # host.at[i]
          /\ J!Changes([host EXCEPT !.at[i] = p],
                       [always |-> [hist.always EXCEPT ![i] = J!Nobody],
                        mixed |-> IF pc \in {"cmdline", "jcmd"} THEN hist.mixed \cup {i} ELSE hist.mixed])
    BY <1>11 DEF J!Change
  <2>2. /\ UNCHANGED <<cmd, pc, got, reply>> /\ pc \notin {"done", "parse"} /\ DOMAIN host' = DOMAIN host
        /\ host'.links = host.links /\ host'.safe = host.safe
        /\ \A q \in Pids : host'.at[q] = IF q = i THEN p ELSE host.at[q]
        /\ DOMAIN hist'.always = Pids
        /\ \A q \in Pids : hist'.always[q] = IF q = i THEN J!Nobody ELSE hist.always[q]
    BY <2>1 DEF J!Changes, J!Done, JInv, JReports
  <2>3. J!Pid' = J!Pid
    BY <2>2 DEF J!Pid
  <2>4. pc = "cmdline" => J!Pid \in Pids
    BY JPid, PidsAssumption DEF JInv
  <2>5. ~ J!IsJava(J!Nobody)
    BY DEF J!IsJava, J!Processes, J!Nobody
  <2>6. JListed => JListed'
    BY <2>2, <2>5 DEF JListed
  <2> QED
    BY <1>q, <2>2, <2>3, <2>4, <2>6 DEF JReports, J!NothingLost, J!PassIsEarned
<1>12. CASE J!Deadline
  <2>1. UNCHANGED <<cmd, host, hist, pc, got, reply>>
    BY <1>12 DEF J!Deadline
  <2>2. J!Pid' = J!Pid
    BY <2>1 DEF J!Pid
  <2> QED
    BY <2>1, <2>2 DEF JReports, JListed, J!NothingLost, J!PassIsEarned
<1> QED
    BY <1>1, <1>2, <1>3, <1>4, <1>5, <1>6, <1>7, <1>8, <1>9, <1>10, <1>11, <1>12 DEF J!Next, J!Step

-----------------------------------------------------------------------------
(* Kafka.  Brokers, configurations and directories are still to be looked at, or reported. *)

\* A broker that runs all the time is still to be looked at, or found.
KaStatusReports ==
    /\ {"at", "packages", "unit"} \subseteq DOMAIN host
    /\ hist.always \subseteq Pids /\ \A p \in hist.always : host.at[p] = "kafka"
    /\ pc \in {"comm", "cmdline"} => hist.always \subseteq got.todo \cup got.found /\ host.packages # "unsafe"
    /\ reply.exit = "ok" \/ reply.status = "pass" => pc = "done"
    /\ reply.exit = "ok" => hist.always \subseteq reply.data
    /\ reply.status = "pass" => host.unit # "fails" /\ host.packages # "unsafe"

\* A file that is there all the time is still to be read, or found.
KaConfigReports ==
    /\ "files" \in DOMAIN host /\ DOMAIN host.files = Ka!Candidates
    /\ {"todo", "found"} \subseteq DOMAIN got
    /\ DOMAIN hist.always = Ka!Candidates
    /\ \A i \in Ka!Candidates : hist.always[i].state # "absent" =>
         hist.always[i] = host.files[i] /\ i \in got.todo \cup got.found
    /\ got.todo \subseteq Ka!Candidates
    /\ pc \in {"start", "files", "done"}
    /\ reply.exit = "ok" \/ reply.status = "pass" => pc = "done"
    /\ reply.exit = "ok" => \A i \in Ka!Candidates : hist.always[i].state # "absent" => i \in reply.data

\* The directories of the file that was selected are still to be opened, or counted with their entries.
KaStorageReports ==
    /\ {"files", "dirs", "tool"} \subseteq DOMAIN host
    /\ pc = "select" \/ pc = "start" => got.count = [d \in {} |-> 0]
    /\ pc \in {"lstat", "open"} => host.files[got.config].dirs = got.todo \cup DOMAIN got.count
    /\ \A d \in Ka!Dirs \ hist.moved : d \in DOMAIN got.count => got.count[d].entries = host.dirs[d].entries
    /\ reply.exit = "ok" \/ reply.status = "pass" => pc = "done"
    /\ reply.exit = "ok" => host.files[got.config].dirs = DOMAIN reply.data
    /\ reply.status = "pass" => "works" \in {host.tool.sh, host.tool.plain}

\* One invariant for each of the commands.
KaReports ==
    /\ cmd \in {"status", "config", "storage"}
    /\ cmd = "status" => KaStatusReports
    /\ cmd = "config" => KaConfigReports
    /\ cmd = "storage" => KaStorageReports

\* It says that nothing is lost and that a pass is earned.
LEMMA KaReportsSafe == KaInv /\ KaReports => Ka!NothingLost /\ Ka!PassIsEarned
<1> SUFFICES ASSUME KaInv, KaReports PROVE Ka!NothingLost /\ Ka!PassIsEarned
    OBVIOUS
<1>1. CASE cmd = "status"
    BY <1>1 DEF KaReports, KaStatusReports, Ka!NothingLost, Ka!PassIsEarned
<1>2. CASE cmd = "config"
    BY <1>2 DEF KaReports, KaConfigReports, Ka!NothingLost, Ka!PassIsEarned
<1>3. CASE cmd = "storage"
    BY <1>3 DEF KaReports, KaStorageReports, KaInv, KaStorage, Ka!NothingLost, Ka!PassIsEarned
<1> QED
    BY <1>1, <1>2, <1>3 DEF KaReports

\* What is said of a built answer.
LEMMA KaBuilds ==
    ASSUME NEW checks, NEW data, NEW errors
    PROVE  LET r == Ka!Built(checks, data, errors) IN
           /\ r.exit = "ok" /\ r.errors = errors /\ r.data = data
           /\ r.status = "pass" <=> errors = {} /\ \A c \in checks : c.status \in {"pass", "info"}
<1>1. Ka!classify(checks, errors) = "pass" <=> errors = {} /\ \A c \in checks : c.status \in {"pass", "info"}
    BY DEF Ka!classify
<1> QED
    BY <1>1 DEF Ka!Built, Ka!Build, Ka!Result

\* A failure is no answer of a Result, and no pass.
LEMMA KaFails ==
    /\ Ka!Dependency => pc' = "done" /\ reply'.exit # "ok" /\ reply'.status # "pass"
    /\ Ka!Timeout => pc' = "done" /\ reply'.exit # "ok" /\ reply'.status # "pass"
BY DEF Ka!Dependency, Ka!Timeout, Ka!Answer, Ka!Failure, Ka!NoReply

\* It holds at the start.
LEMMA KaReportsInit == Ka!Init => KaReports
<1> SUFFICES ASSUME Ka!Init PROVE KaReports
    OBVIOUS
<1>0. cmd \in {"status", "config", "storage"} /\ pc = "start" /\ reply = Ka!NoReply
    BY DEF Ka!Init, Ka!Starts
<1>r. reply.exit # "ok" /\ reply.status # "pass"
    BY <1>0 DEF Ka!NoReply
<1>1. ASSUME cmd = "status" PROVE KaStatusReports
  <2>1. /\ DOMAIN host = {"at", "packages", "unit"}
        /\ hist.always = {p \in Pids : host.at[p] = "kafka"}
    BY <1>1 DEF Ka!Init, Ka!Starts
  <2> QED
    BY <1>0, <1>r, <2>1 DEF KaStatusReports
<1>2. ASSUME cmd = "config" PROVE KaConfigReports
  <2>1. /\ DOMAIN host = {"files"} /\ DOMAIN host.files = Ka!Candidates /\ hist.always = host.files
        /\ got = [todo |-> Ka!Candidates, found |-> {}]
    BY <1>2 DEF Ka!Init, Ka!Starts
  <2> QED
    BY <1>0, <1>r, <2>1 DEF KaConfigReports
<1>3. ASSUME cmd = "storage" PROVE KaStorageReports
  <2>1. /\ DOMAIN host = {"files", "dirs", "tool"}
        /\ got = [config |-> 0, todo |-> {}, lstat |-> "", count |-> [d \in {} |-> 0], errors |-> {}]
    BY <1>3 DEF Ka!Init, Ka!Starts, Ka!Stores
  <2> QED
    BY <1>0, <1>r, <2>1 DEF KaStorageReports
<1> QED
    BY <1>0, <1>1, <1>2, <1>3 DEF KaReports

\* The steps of `status`.
LEMMA KaStatusReportsNext ==
    KaStatus /\ KaStatusReports /\ cmd = "status" /\ Ka!Next => KaStatusReports'
<1> SUFFICES ASSUME KaStatus, KaStatusReports, cmd = "status", Ka!Next PROVE KaStatusReports'
    OBVIOUS
<1> USE DEF KaStatusReports, Ka!Others, Ka!Answer, Ka!GoTo
<1>q. pc # "done" => reply.exit # "ok" /\ reply.status # "pass"
    OBVIOUS
<1>1. CASE Ka!Dispatch
  <2>1. [status |-> "packages", config |-> "files", storage |-> "select"][cmd] = "packages"
    OBVIOUS
  <2> QED
    BY <1>1, <2>1, KaFails DEF Ka!Dispatch
<1>2. CASE Ka!collectPackages
  <2>1. pc = "packages" /\ UNCHANGED <<host, hist>>
    BY <1>2 DEF Ka!collectPackages
  <2>2. CASE Ka!Dependency /\ UNCHANGED got
    BY <2>1, <2>2, KaFails
  <2>3. CASE /\ host.packages # "unsafe" /\ got' = [got EXCEPT !.todo = {p \in Pids : host.at[p] # Ka!Nobody}]
             /\ Ka!GoTo("comm")
    <3>1. got'.todo = {p \in Pids : host.at[p] # Ka!Nobody} /\ got'.found = got.found
      BY <2>3 DEF KaStatus
    <3>2. "kafka" # Ka!Nobody
      BY DEF Ka!Nobody
    <3> QED
      BY <1>q, <2>1, <2>3, <3>1, <3>2
  <2> QED
    BY <1>2, <2>2, <2>3 DEF Ka!collectPackages
<1>3. CASE Ka!collectProcessesFails
    BY <1>3, KaFails DEF Ka!collectProcessesFails
<1>4. CASE Ka!ReadComm
  <2> DEFINE p == Ka!Next1(got.todo)
  <2>0. pc = "comm" /\ UNCHANGED <<host, hist>>
    BY <1>4 DEF Ka!ReadComm
  <2>1. \/ UNCHANGED got /\ Ka!GoTo("cmdline")
        \/ host.at[p] # "kafka" /\ got' = [got EXCEPT !.todo = @ \ {p}] /\ Ka!GoTo("comm")
    BY <1>4 DEF Ka!ReadComm
  <2> HIDE DEF p
  <2>2. CASE UNCHANGED got /\ Ka!GoTo("cmdline")
    BY <1>q, <2>0, <2>2
  <2>3. CASE host.at[p] # "kafka" /\ got' = [got EXCEPT !.todo = @ \ {p}] /\ Ka!GoTo("comm")
    <3>1. got'.todo = got.todo \ {p} /\ got'.found = got.found
      BY <2>3 DEF KaStatus
    <3> QED
      BY <1>q, <2>0, <2>3, <3>1
  <2> QED
    BY <2>1, <2>2, <2>3
<1>5. CASE Ka!ReadCmdline
  <2> DEFINE p == Ka!Next1(got.todo)
  <2>1. pc = "cmdline" /\ pc' = "comm" /\ UNCHANGED <<host, hist, reply>> /\ got'.todo = got.todo \ {p}
        /\ got'.found = IF host.at[p] = "kafka" THEN got.found \cup {p} ELSE got.found
    BY <1>5 DEF Ka!ReadCmdline, KaStatus
  <2> HIDE DEF p
  <2> QED
    BY <1>q, <2>1
<1>6. CASE Ka!collectUnit
  <2> DEFINE fails == host.unit = "fails"
             installed == host.packages = "kafka" \/ got.found # {} \/ host.unit = "loaded"
             checks == {Ka!Chk("installation", IF installed THEN "pass" ELSE "info"),
                        Ka!Chk("systemd", IF fails THEN "skipped" ELSE "pass")}
             errors == IF fails THEN {"unit"} ELSE {}
  <2>1. pc = "comm" /\ got.todo = {} /\ pc' = "done" /\ UNCHANGED <<host, hist, got>>
    BY <1>6 DEF Ka!collectUnit, Ka!Timeout
  <2>2. CASE reply' = Ka!Built(checks, got.found, errors)
    <3>1. errors = {} => ~ fails
      OBVIOUS
    <3> HIDE DEF checks, errors
    <3>2. reply'.data = got.found /\ (reply'.status = "pass" => errors = {})
      BY <2>2, KaBuilds
    <3> QED
      BY <2>1, <3>1, <3>2
  <2>3. CASE Ka!Timeout
    BY <2>1, <2>3, KaFails
  <2> QED
    BY <1>6, <2>2, <2>3 DEF Ka!collectUnit
<1>7. CASE Ka!Change
  <2>1. PICK p \in Pids, v \in {Ka!Nobody, "kafka", "java"} :
          Ka!Changes([host EXCEPT !.at[p] = v],
                     [always |-> hist.always \ {p},
                      ever |-> IF v = "kafka" THEN hist.ever \cup {p} ELSE hist.ever])
    BY <1>7 DEF Ka!Change
  <2>2. /\ UNCHANGED <<cmd, pc, got, reply>> /\ pc # "done" /\ DOMAIN host' = DOMAIN host
        /\ host'.packages = host.packages /\ hist'.always = hist.always \ {p}
        /\ \A q \in Pids : q # p => host'.at[q] = host.at[q]
    BY <2>1 DEF Ka!Changes, Ka!Done, KaStatus
  <2> QED
    BY <1>q, <2>2
<1>8. CASE Ka!Deadline
    BY <1>8 DEF Ka!Deadline, Ka!Done
<1> QED
    BY <1>1, <1>2, <1>3, <1>4, <1>5, <1>6, <1>7, <1>8
       DEF Ka!Next, Ka!Step, Ka!ReadConfig, Ka!ReportConfig, Ka!selectStorageConfig, Ka!LstatDir, Ka!OpenDir,
           Ka!runStorageInfo, KaStatus

\* The steps of `config`.
LEMMA KaConfigReportsNext ==
    KaConfigReports /\ cmd = "config" /\ Ka!Next => KaConfigReports'
<1> SUFFICES ASSUME KaConfigReports, cmd = "config", Ka!Next PROVE KaConfigReports'
    OBVIOUS
<1> USE DEF KaConfigReports, Ka!Others, Ka!Answer, Ka!GoTo
<1>q. pc # "done" => reply.exit # "ok" /\ reply.status # "pass"
    OBVIOUS
<1>1. CASE Ka!Dispatch
  <2>1. [status |-> "packages", config |-> "files", storage |-> "select"][cmd] = "files"
    OBVIOUS
  <2> QED
    BY <1>1, <2>1, KaFails DEF Ka!Dispatch
<1>2. CASE Ka!ReadConfig
  <2> DEFINE i == Ka!Next1(got.todo)
             state == host.files[i].state
  <2>0. pc = "files" /\ UNCHANGED <<cmd, host, hist>>
    BY <1>2 DEF Ka!ReadConfig
  <2>1. CASE (Ka!Timeout \/ Ka!Dependency) /\ UNCHANGED got
    BY <2>0, <2>1, KaFails
  <2>2. CASE state = "absent" /\ got' = [got EXCEPT !.todo = @ \ {i}] /\ Ka!GoTo("files")
    <3>1. got'.todo = got.todo \ {i} /\ got'.found = got.found /\ DOMAIN got' = DOMAIN got
      BY <2>2
    <3>2. \A j \in Ka!Candidates : hist.always[j].state # "absent" => j # i
      BY <2>2
    <3> HIDE DEF i, state
    <3> QED
      BY <2>0, <2>2, <3>1, <3>2
  <2>3. CASE got' = [todo |-> got.todo \ {i}, found |-> got.found \cup {i}] /\ Ka!GoTo("files")
    <3> HIDE DEF i
    <3>1. got'.todo = got.todo \ {i} /\ got'.found = got.found \cup {i} /\ DOMAIN got' = {"todo", "found"}
      BY <2>3
    <3>2. got.todo \cup got.found \subseteq got'.todo \cup got'.found
      BY <3>1
    <3> QED
      BY <2>0, <2>3, <3>1, <3>2
  <2>4. \/ (Ka!Timeout \/ Ka!Dependency) /\ UNCHANGED got
        \/ state = "absent" /\ got' = [got EXCEPT !.todo = @ \ {i}] /\ Ka!GoTo("files")
        \/ got' = [todo |-> got.todo \ {i}, found |-> got.found \cup {i}] /\ Ka!GoTo("files")
    BY <1>2, Zenon DEF Ka!ReadConfig
  <2> HIDE DEF i, state
  <2> QED
    BY <2>1, <2>2, <2>3, <2>4
<1>3. CASE Ka!ReportConfig
  <2>1. pc = "files" /\ got.todo = {} /\ UNCHANGED <<cmd, host, hist, got>>
    BY <1>3 DEF Ka!ReportConfig
  <2>2. CASE Ka!Dependency
    BY <2>1, <2>2, KaFails
  <2>3. CASE Ka!Answer(Ka!Built({Ka!Chk("config", "pass")}, got.found, {}))
    <3>1. reply'.data = got.found
      BY <2>3, KaBuilds
    <3> QED
      BY <2>1, <2>3, <3>1
  <2> QED
    BY <1>3, <2>2, <2>3 DEF Ka!ReportConfig
<1>4. CASE Ka!Change
  <2>1. PICK i \in Ka!Candidates, s \in {"absent", "valid"} :
          Ka!Changes([host EXCEPT !.files[i] = Ka!File(s, {})],
                     [always |-> [hist.always EXCEPT ![i] = Ka!File("absent", {})]])
    BY <1>4 DEF Ka!Change
  <2>2. Ka!File("absent", {}).state = "absent"
    BY DEF Ka!File
  <2>3. /\ UNCHANGED <<cmd, pc, got, reply>> /\ pc # "done" /\ DOMAIN host' = DOMAIN host
        /\ DOMAIN host'.files = Ka!Candidates /\ DOMAIN hist'.always = Ka!Candidates
        /\ \A j \in Ka!Candidates : j # i => host'.files[j] = host.files[j] /\ hist'.always[j] = hist.always[j]
        /\ hist'.always[i].state = "absent"
    BY <2>1, <2>2 DEF Ka!Changes, Ka!Done
  <2>4. Ka!Candidates' = Ka!Candidates
    BY DEF Ka!Candidates
  <2> QED
    BY <2>3, <2>4
<1>5. CASE Ka!Deadline
    BY <1>5 DEF Ka!Deadline, Ka!Done
<1> QED
    BY <1>1, <1>2, <1>3, <1>4, <1>5
       DEF Ka!Next, Ka!Step, Ka!collectPackages, Ka!collectProcessesFails, Ka!ReadComm, Ka!ReadCmdline,
           Ka!collectUnit, Ka!selectStorageConfig, Ka!LstatDir, Ka!OpenDir, Ka!runStorageInfo

\* The steps of `storage`.
LEMMA KaStorageReportsNext ==
    KaStorage /\ KaStorageReports /\ cmd = "storage" /\ Ka!Next => KaStorageReports'
<1> SUFFICES ASSUME KaStorage, KaStorageReports, cmd = "storage", Ka!Next PROVE KaStorageReports'
    OBVIOUS
<1> USE DEF KaStorageReports, Ka!Others, Ka!Answer, Ka!GoTo
<1>k. Ka!Dirs' = Ka!Dirs
    BY DEF Ka!Dirs
<1>q. pc # "done" => reply.exit # "ok" /\ reply.status # "pass"
    OBVIOUS
<1>a. CASE (Ka!Timeout \/ Ka!Dependency) /\ UNCHANGED <<host, hist, got>>
    BY <1>a, <1>k, KaFails
<1>1. CASE Ka!Dispatch
  <2>1. [status |-> "packages", config |-> "files", storage |-> "select"][cmd] = "select"
    OBVIOUS
  <2> QED
    BY <1>1, <1>a, <1>k, <2>1 DEF Ka!Dispatch
<1>2. CASE Ka!selectStorageConfig
  <2> DEFINE there == {i \in Ka!Candidates : host.files[i].state # "absent"}
             first == Ka!Next1(there)
  <2>1. \/ Ka!Dependency /\ UNCHANGED got
        \/ got' = [got EXCEPT !.config = first, !.todo = host.files[first].dirs] /\ Ka!GoTo("lstat")
    BY <1>2 DEF Ka!selectStorageConfig
  <2>2. pc = "select" /\ UNCHANGED <<host, hist>>
    BY <1>2 DEF Ka!selectStorageConfig
  <2> HIDE DEF first
  <2>3. CASE got' = [got EXCEPT !.config = first, !.todo = host.files[first].dirs] /\ Ka!GoTo("lstat")
    <3>1. got'.config = first /\ got'.todo = host.files[first].dirs /\ got'.count = got.count
      BY <2>3 DEF KaStorage
    <3>2. DOMAIN got.count = {}
      BY <2>2
    <3> QED
      BY <1>k, <1>q, <2>2, <2>3, <3>1, <3>2
  <2> QED
    BY <1>a, <2>1, <2>2, <2>3
<1>3. CASE Ka!LstatDir
  <2>1. \/ (Ka!Timeout \/ Ka!Dependency) /\ UNCHANGED got
        \/ got' = [got EXCEPT !.lstat = host.dirs[Ka!Dir].node] /\ Ka!GoTo("open")
    BY <1>3, Zenon DEF Ka!LstatDir
  <2>2. pc = "lstat" /\ UNCHANGED <<host, hist>>
    BY <1>3 DEF Ka!LstatDir
  <2>3. CASE got' = [got EXCEPT !.lstat = host.dirs[Ka!Dir].node] /\ Ka!GoTo("open")
    <3>1. got'.config = got.config /\ got'.todo = got.todo /\ got'.count = got.count
      BY <2>3 DEF KaStorage
    <3> QED
      BY <1>k, <1>q, <2>2, <2>3, <3>1
  <2> QED
    BY <1>a, <2>1, <2>2, <2>3
<1>4. CASE Ka!OpenDir
  <2>1. PICK d : d = Ka!Dir
    OBVIOUS
  <2>2. \/ (Ka!Timeout \/ Ka!Dependency) /\ UNCHANGED got
        \/ /\ got' = [got EXCEPT
                !.todo = @ \ {d},
                !.count = [x \in DOMAIN @ \cup {d} |->
                  IF x = d THEN [entries |-> host.dirs[x].entries, node |-> host.dirs[x].node] ELSE @[x]]]
           /\ Ka!GoTo("lstat")
    BY <1>4, <2>1 DEF Ka!OpenDir
  <2>3. pc = "open" /\ UNCHANGED <<host, hist>>
    BY <1>4 DEF Ka!OpenDir
  <2>4. d \in got.todo
    BY <2>1, <2>3 DEF KaStorage, Ka!Dir, Ka!Dirs
  <2>5. CASE /\ got' = [got EXCEPT
                  !.todo = @ \ {d},
                  !.count = [x \in DOMAIN @ \cup {d} |->
                    IF x = d THEN [entries |-> host.dirs[x].entries, node |-> host.dirs[x].node] ELSE @[x]]]
             /\ Ka!GoTo("lstat")
    <3>1. got'.config = got.config /\ got'.todo = got.todo \ {d}
          /\ got'.count = [x \in DOMAIN got.count \cup {d} |->
                  IF x = d THEN [entries |-> host.dirs[x].entries, node |-> host.dirs[x].node] ELSE got.count[x]]
      BY <2>5 DEF KaStorage
    <3>2. DOMAIN got'.count = DOMAIN got.count \cup {d}
      BY <3>1
    <3>3. \A x \in DOMAIN got'.count :
            IF x = d THEN got'.count[x].entries = host.dirs[x].entries ELSE x \in DOMAIN got.count /\ got'.count[x] = got.count[x]
      BY <3>1
    <3>4. got'.todo \cup DOMAIN got'.count = got.todo \cup DOMAIN got.count
      BY <2>4, <3>1, <3>2
    <3> QED
      BY <1>k, <1>q, <2>3, <2>5, <3>1, <3>2, <3>3, <3>4
  <2> QED
    BY <1>a, <2>2, <2>3, <2>5
<1>5. CASE Ka!runStorageInfo
  <2> DEFINE tool == IF host.tool.sh = "absent" THEN host.tool.plain ELSE host.tool.sh
             checks == {Ka!Chk("directories", "pass"), Ka!Chk("info", IF tool = "works" THEN "pass" ELSE "skipped")}
             errors == IF tool = "works" THEN {} ELSE {"info"}
  <2>1. pc = "lstat" /\ got.todo = {} /\ UNCHANGED <<host, hist, got>>
    BY <1>5 DEF Ka!runStorageInfo
  <2>2. CASE Ka!Answer(Ka!Built(checks, got.count, errors))
    <3>1. errors = {} => "works" \in {host.tool.sh, host.tool.plain}
      OBVIOUS
    <3> HIDE DEF checks, errors
    <3>2. reply'.data = got.count /\ (reply'.status = "pass" => errors = {})
      BY <2>2, KaBuilds
    <3> QED
      BY <1>k, <2>1, <2>2, <3>1, <3>2
  <2> QED
    BY <1>5, <1>a, <2>1, <2>2 DEF Ka!runStorageInfo
<1>6. CASE Ka!Change
  <2>1. PICK d \in Ka!Dirs, e \in {Ka!Entry("new dir", 1), Ka!Entry("symlink", 0), Ka!Entry("absent", 0)} :
          Ka!Changes([host EXCEPT !.dirs[d] = e], [moved |-> hist.moved \cup {d}])
    BY <1>6 DEF Ka!Change
  <2>2. /\ UNCHANGED <<cmd, pc, got, reply>> /\ pc # "done" /\ DOMAIN host' = DOMAIN host
        /\ host'.files = host.files /\ hist'.moved = hist.moved \cup {d}
        /\ \A x \in Ka!Dirs : x # d => host'.dirs[x] = host.dirs[x]
    BY <2>1 DEF Ka!Changes, Ka!Done, KaStorage
  <2> QED
    BY <1>k, <1>q, <2>2
<1>7. CASE Ka!Deadline
    BY <1>7, <1>k DEF Ka!Deadline, Ka!Done
<1> QED
    BY <1>1, <1>2, <1>3, <1>4, <1>5, <1>6, <1>7
       DEF Ka!Next, Ka!Step, Ka!ReadConfig, Ka!ReportConfig, Ka!collectPackages, Ka!collectProcessesFails,
           Ka!ReadComm, Ka!ReadCmdline, Ka!collectUnit, KaStorage

\* Every step preserves it.
LEMMA KaReportsNext == KaInv /\ KaReports /\ Ka!Next => KaReports'
<1>1. Ka!Next => UNCHANGED cmd
    BY DEF Ka!Next, Ka!Step, Ka!Dispatch, Ka!collectPackages, Ka!collectProcessesFails, Ka!ReadComm,
           Ka!ReadCmdline, Ka!collectUnit, Ka!ReadConfig, Ka!ReportConfig, Ka!selectStorageConfig, Ka!LstatDir,
           Ka!OpenDir, Ka!runStorageInfo, Ka!Change, Ka!Changes, Ka!Deadline, Ka!Others
<1> QED
    BY <1>1, KaStatusReportsNext, KaConfigReportsNext, KaStorageReportsNext DEF KaInv, KaReports

-----------------------------------------------------------------------------
(* Kubernetes.  Kubelets, contexts and manifests are still to be looked at, or reported. *)

\* A kubelet that runs all the time is still to be looked at, or found, or there is an error of the processes.
KuStatusReports ==
    /\ {"client", "unit", "at", "proc"} \subseteq DOMAIN host
    /\ {"todo", "found", "unit", "checks", "errors"} \subseteq DOMAIN got
    /\ hist.always \subseteq Pids /\ \A p \in hist.always : host.at[p] = "kubelet"
    /\ pc \in {"unit", "processes", "comm", "report"} => (got.errors = {} => host.client = "works")
    /\ pc \in {"processes", "comm", "report"} => (got.errors = {} => got.unit)
    /\ pc = "comm" => hist.always \subseteq got.todo \cup got.found
    /\ pc = "report" => \E e \in got.errors : e.code = "processes"
    /\ reply.exit = "ok" \/ reply.status = "pass" => pc = "done"
    /\ reply.exit = "ok" => hist.always \subseteq reply.data \/ \E e \in reply.errors : e.code = "processes"
    /\ reply.status = "pass" => host.client = "works" /\ got.unit /\ reply.errors = {}

\* A file that is as it was is still to be read, or found; one that is to be refused is still to be read.
KuContextsReports ==
    /\ "files" \in DOMAIN host /\ DOMAIN host.files = Ku!Kubeconfigs
    /\ {"todo", "found"} \subseteq DOMAIN got
    /\ DOMAIN hist.always = Ku!Kubeconfigs
    /\ \A i \in Ku!Kubeconfigs : hist.always[i] # "absent" =>
         /\ hist.always[i] = host.files[i]
         /\ i \in got.todo \/ (hist.always[i] = "valid" /\ i \in got.found)
    /\ pc \in {"start", "done"}
    /\ reply.exit = "ok" \/ reply.status = "pass" => pc = "done"
    /\ reply.exit = "ok" => \A i \in Ku!Kubeconfigs : hist.always[i] = "valid" => i \in reply.data
    /\ reply.status = "pass" => \A i \in Ku!Kubeconfigs : hist.always[i] \in {"absent", "valid"}

\* A manifest that is as it was is still to be read, or its documents are collected.
KuManifestsReports ==
    /\ {"dir", "link", "files"} \subseteq DOMAIN host /\ DOMAIN host.files = Ku!ManifestFiles
    /\ {"todo", "found"} \subseteq DOMAIN got
    /\ DOMAIN hist.always = Ku!ManifestFiles
    /\ \A f \in Ku!ManifestFiles : hist.always[f] # <<>> => hist.always[f] = host.files[f]
    /\ pc = "files" => \A f \in Ku!ManifestFiles : hist.always[f] # <<>> =>
         \/ f \in got.todo
         \/ /\ Ku!parseManifestFile(f, hist.always[f]) \subseteq got.found
            /\ "nameless" \notin Ku!Range(hist.always[f])
    /\ pc \in {"start", "files", "done"}
    /\ reply.exit = "ok" \/ reply.status = "pass" => pc = "done"
    /\ reply.status = "pass" /\ host.dir = "directory" =>
         ~ host.link /\ \A f \in Ku!ManifestFiles : "nameless" \notin Ku!Range(hist.always[f])
    /\ reply.exit = "ok" /\ host.dir = "directory" => \A f \in Ku!ManifestFiles :
         hist.always[f] # <<>> => Ku!parseManifestFile(f, hist.always[f]) \subseteq reply.data

\* One invariant for each of the commands.
KuReports ==
    /\ cmd \in {"status", "contexts", "manifests"}
    /\ cmd = "status" => KuStatusReports
    /\ cmd = "contexts" => KuContextsReports
    /\ cmd = "manifests" => KuManifestsReports

\* It says that nothing is lost and that a pass is earned.
LEMMA KuReportsSafe == KuReports => Ku!NothingLost /\ Ku!PassIsEarned
<1> SUFFICES ASSUME KuReports PROVE Ku!NothingLost /\ Ku!PassIsEarned
    OBVIOUS
<1>1. CASE cmd = "status"
    BY <1>1 DEF KuReports, KuStatusReports, Ku!NothingLost, Ku!PassIsEarned
<1>2. CASE cmd = "contexts"
    BY <1>2 DEF KuReports, KuContextsReports, Ku!NothingLost, Ku!PassIsEarned
<1>3. CASE cmd = "manifests"
    BY <1>3 DEF KuReports, KuManifestsReports, Ku!NothingLost, Ku!PassIsEarned
<1> QED
    BY <1>1, <1>2, <1>3 DEF KuReports

\* What is said of a built answer.
LEMMA KuBuilds ==
    ASSUME NEW checks, NEW data, NEW errors
    PROVE  LET r == Ku!Built(checks, data, errors) IN
           /\ r.exit = "ok" /\ r.errors = errors /\ r.data = data
           /\ r.status = "pass" <=> errors = {} /\ \A c \in checks : c.status \in {"pass", "info"}
<1>1. Ku!classify(checks, errors) = "pass" <=> errors = {} /\ \A c \in checks : c.status \in {"pass", "info"}
    BY DEF Ku!classify
<1> QED
    BY <1>1 DEF Ku!Built, Ku!Build, Ku!Result

\* A failure is no answer of a Result, and no pass.
LEMMA KuFails ==
    /\ Ku!configurationFailure => pc' = "done" /\ reply'.exit # "ok" /\ reply'.status # "pass"
    /\ Ku!Timeout => /\ pc' = "done" /\ reply'.exit # "ok" /\ reply'.status # "pass"
                     /\ UNCHANGED <<cmd, host, hist, got>>
BY DEF Ku!configurationFailure, Ku!Timeout, Ku!Answer, Ku!Others, Ku!Failure, Ku!NoReply

\* It holds at the start.
LEMMA KuReportsInit == Ku!Init => KuReports
<1> SUFFICES ASSUME Ku!Init PROVE KuReports
    OBVIOUS
<1>0. cmd \in {"status", "contexts", "manifests"} /\ pc = "start" /\ reply = Ku!NoReply
    BY DEF Ku!Init, Ku!Starts
<1>r. reply.exit # "ok" /\ reply.status # "pass"
    BY <1>0 DEF Ku!NoReply
<1>1. ASSUME cmd = "status" PROVE KuStatusReports
  <2>1. /\ DOMAIN host = {"client", "unit", "at", "proc"}
        /\ hist.always = {p \in Pids : host.at[p] = "kubelet"}
        /\ DOMAIN got = {"todo", "found", "unit", "checks", "errors"}
    BY <1>1 DEF Ku!Init, Ku!Starts
  <2> QED
    BY <1>0, <1>r, <2>1 DEF KuStatusReports
<1>2. ASSUME cmd = "contexts" PROVE KuContextsReports
  <2>1. /\ DOMAIN host = {"files"} /\ DOMAIN host.files = Ku!Kubeconfigs /\ hist.always = host.files
        /\ got = [todo |-> Ku!Kubeconfigs, found |-> {}]
    BY <1>2 DEF Ku!Init, Ku!Starts
  <2> QED
    BY <1>0, <1>r, <2>1 DEF KuContextsReports
<1>3. ASSUME cmd = "manifests" PROVE KuManifestsReports
  <2>0. got = [todo |-> {}, found |-> {}] /\ hist = [always |-> host.files]
    BY <1>3 DEF Ku!Init, Ku!Starts
  <2>1. /\ DOMAIN host = {"dir", "link", "files"}
        /\ \/ host.files \in [Ku!ManifestFiles -> Ku!ManifestDocuments \cup {<<>>}]
           \/ host.files = [f \in Ku!ManifestFiles |-> <<>>]
    BY <1>3 DEF Ku!Init, Ku!Starts
  <2>2. DOMAIN host.files = Ku!ManifestFiles
    BY <2>1
  <2> QED
    BY <1>0, <1>r, <2>0, <2>1, <2>2 DEF KuManifestsReports
<1> QED
    BY <1>0, <1>1, <1>2, <1>3 DEF KuReports

\* The steps of `status`.
LEMMA KuStatusReportsNext ==
    KuStatus /\ KuStatusReports /\ cmd = "status" /\ Ku!Next => KuStatusReports'
<1> SUFFICES ASSUME KuStatus, KuStatusReports, cmd = "status", Ku!Next PROVE KuStatusReports'
    OBVIOUS
<1> USE DEF KuStatusReports, Ku!Others, Ku!Answer, Ku!GoTo
<1>q. pc # "done" => reply.exit # "ok" /\ reply.status # "pass"
    OBVIOUS
<1>1. CASE Ku!Timeout
    BY <1>1, KuFails
<1>2. CASE Ku!collectClientVersion
  <2> DEFINE ok == host.client = "works"
             errors == IF ok THEN {} ELSE {Ku!probeFailure("client", host.client)}
  <2>1. /\ pc = "start" /\ pc' = "unit" /\ UNCHANGED <<host, hist, reply>>
        /\ DOMAIN got' = DOMAIN got /\ got'.errors = errors
    BY <1>2 DEF Ku!collectClientVersion
  <2>2. errors = {} => host.client = "works"
    OBVIOUS
  <2> HIDE DEF errors
  <2> QED
    BY <1>q, <2>1, <2>2
<1>3. CASE Ku!collectKubeletUnit
  <2> DEFINE e == Ku!probeFailure("unit", host.unit)
  <2>1. /\ pc = "unit" /\ pc' = "processes" /\ UNCHANGED <<host, hist, reply>>
        /\ got' = [got EXCEPT !.unit = (host.unit = "works"),
                              !.errors = IF host.unit = "works" THEN @ ELSE @ \cup {e}]
    BY <1>3 DEF Ku!collectKubeletUnit
  <2> HIDE DEF e
  <2>2. CASE host.unit = "works"
    <3>1. got' = [got EXCEPT !.unit = TRUE, !.errors = got.errors]
      BY <2>1, <2>2
    <3>2. DOMAIN got' = DOMAIN got /\ got'.unit /\ got'.errors = got.errors
      BY <3>1
    <3> QED
      BY <1>q, <2>1, <3>2
  <2>3. CASE host.unit # "works"
    <3>1. DOMAIN got' = DOMAIN got /\ e \in got'.errors
      BY <2>1, <2>3
    <3> QED
      BY <1>q, <2>1, <3>1
  <2> QED
    BY <2>2, <2>3
<1>p. ASSUME Ku!ProcessesFail, pc \in {"processes", "comm"}, UNCHANGED <<host, hist>> PROVE KuStatusReports'
  <2>1. Ku!probeFailure("processes", "fails").code = "processes"
    BY DEF Ku!probeFailure
  <2>2. DOMAIN got' = DOMAIN got /\ got'.errors = got.errors \cup {Ku!probeFailure("processes", "fails")}
        /\ pc' = "report" /\ UNCHANGED reply
    BY <1>p DEF Ku!ProcessesFail
  <2> QED
    BY <1>p, <1>q, <2>1, <2>2
<1>4. CASE Ku!ReadProc
  <2>1. pc = "processes" /\ UNCHANGED <<host, hist>>
    BY <1>4 DEF Ku!ReadProc
  <2>2. CASE got' = [got EXCEPT !.todo = {p \in Pids : host.at[p] # Ku!Nobody}] /\ Ku!GoTo("comm")
    <3>1. /\ DOMAIN got' = DOMAIN got /\ got'.todo = {p \in Pids : host.at[p] # Ku!Nobody}
          /\ got'.errors = got.errors /\ got'.unit = got.unit
      BY <2>2
    <3>2. "kubelet" # Ku!Nobody
      BY DEF Ku!Nobody
    <3> QED
      BY <1>q, <2>1, <2>2, <3>1, <3>2
  <2>3. CASE Ku!ProcessesFail
    BY <1>p, <2>1, <2>3
  <2> QED
    BY <1>4, <2>2, <2>3 DEF Ku!ReadProc
<1>5. CASE Ku!ReadComm
  <2> DEFINE p == Ku!Next1(got.todo)
  <2>1. pc = "comm" /\ UNCHANGED <<host, hist>>
    BY <1>5 DEF Ku!ReadComm
  <2>2. CASE /\ got' = [got EXCEPT !.todo = @ \ {p}, !.found = IF host.at[p] = "kubelet" THEN @ \cup {p} ELSE @]
             /\ Ku!GoTo("comm")
    <3> HIDE DEF p
    <3>1. /\ DOMAIN got' = DOMAIN got /\ got'.todo = got.todo \ {p} /\ got'.errors = got.errors /\ got'.unit = got.unit
          /\ got'.found = IF host.at[p] = "kubelet" THEN got.found \cup {p} ELSE got.found
      BY <2>2
    <3> QED
      BY <1>q, <2>1, <2>2, <3>1
  <2>3. CASE Ku!ProcessesFail
    BY <1>p, <2>1, <2>3
  <2> QED
    BY <1>5, <2>2, <2>3 DEF Ku!ReadComm
<1>6. CASE Ku!ReportStatus
  <2>1. /\ pc = "report" \/ (pc = "comm" /\ got.todo = {})
        /\ pc' = "done" /\ UNCHANGED <<host, hist, got>>
        /\ reply' = Ku!Built(got.checks \cup {Ku!KubeletCheck(got.errors)}, got.found, got.errors)
    BY <1>6 DEF Ku!ReportStatus
  <2>2. reply'.data = got.found /\ reply'.errors = got.errors /\ (reply'.status = "pass" => got.errors = {})
    BY <2>1, KuBuilds
  <2> QED
    BY <2>1, <2>2
<1>7. CASE Ku!Change
  <2>1. PICK p \in Pids, v \in {Ku!Nobody, "kubelet"} :
          Ku!Changes([host EXCEPT !.at[p] = v],
                     [always |-> hist.always \ {p},
                      ever |-> IF v = "kubelet" THEN hist.ever \cup {p} ELSE hist.ever])
    BY <1>7 DEF Ku!Change
  <2>2. /\ UNCHANGED <<cmd, pc, got, reply>> /\ pc # "done" /\ DOMAIN host' = DOMAIN host
        /\ host'.client = host.client /\ hist'.always = hist.always \ {p}
        /\ \A q \in Pids : q # p => host'.at[q] = host.at[q]
    BY <2>1 DEF Ku!Changes, Ku!Done, KuStatus
  <2> QED
    BY <1>q, <2>2
<1>8. CASE Ku!Deadline
    BY <1>8 DEF Ku!Deadline, Ku!Done
<1> QED
    BY <1>1, <1>2, <1>3, <1>4, <1>5, <1>6, <1>7, <1>8
       DEF Ku!Next, Ku!Step, Ku!ReadKubeconfig, Ku!ReportContexts, Ku!confinedDirectory, Ku!ReadManifest,
           Ku!ReportManifests, KuStatus

\* The steps of `contexts`.
LEMMA KuContextsReportsNext ==
    KuContextsReports /\ cmd = "contexts" /\ Ku!Next => KuContextsReports'
<1> SUFFICES ASSUME KuContextsReports, cmd = "contexts", Ku!Next PROVE KuContextsReports'
    OBVIOUS
<1> USE DEF KuContextsReports, Ku!Others, Ku!Answer, Ku!GoTo
<1>q. pc # "done" => reply.exit # "ok" /\ reply.status # "pass"
    OBVIOUS
<1>1. CASE Ku!Timeout
    BY <1>1, KuFails
<1>2. CASE Ku!ReadKubeconfig
  <2> DEFINE i == Ku!Next1(got.todo)
  <2>0. pc = "start" /\ UNCHANGED <<cmd, host, hist>>
    BY <1>2 DEF Ku!ReadKubeconfig
  <2>1. CASE Ku!configurationFailure /\ UNCHANGED got
    BY <2>0, <2>1, KuFails
  <2>2. CASE host.files[i] = "absent" /\ got' = [got EXCEPT !.todo = @ \ {i}] /\ Ku!GoTo("start")
    <3>1. got'.todo = got.todo \ {i} /\ got'.found = got.found /\ DOMAIN got' = DOMAIN got
      BY <2>2
    <3>2. \A j \in Ku!Kubeconfigs : hist.always[j] # "absent" => j # i
      BY <2>2
    <3> HIDE DEF i
    <3> QED
      BY <1>q, <2>0, <2>2, <3>1, <3>2
  <2>3. CASE /\ host.files[i] = "valid" /\ got' = [todo |-> got.todo \ {i}, found |-> got.found \cup {i}]
             /\ Ku!GoTo("start")
    <3> HIDE DEF i
    <3>1. got'.todo = got.todo \ {i} /\ got'.found = got.found \cup {i} /\ DOMAIN got' = {"todo", "found"}
      BY <2>3
    <3> QED
      BY <1>q, <2>0, <2>3, <3>1
  <2>4. \/ Ku!configurationFailure /\ UNCHANGED got
        \/ host.files[i] = "absent" /\ got' = [got EXCEPT !.todo = @ \ {i}] /\ Ku!GoTo("start")
        \/ /\ host.files[i] = "valid" /\ got' = [todo |-> got.todo \ {i}, found |-> got.found \cup {i}]
           /\ Ku!GoTo("start")
    BY <1>2, Zenon DEF Ku!ReadKubeconfig
  <2> HIDE DEF i
  <2> QED
    BY <2>1, <2>2, <2>3, <2>4
<1>3. CASE Ku!ReportContexts
  <2>1. pc = "start" /\ got.todo = {} /\ UNCHANGED <<cmd, host, hist, got>> /\ pc' = "done"
    BY <1>3 DEF Ku!ReportContexts
  <2>2. reply'.data = got.found
    BY <1>3, KuBuilds DEF Ku!ReportContexts
  <2> QED
    BY <2>1, <2>2
<1>4. CASE Ku!Change
  <2>1. PICK i \in Ku!Kubeconfigs, v \in {"absent", "valid"} :
          Ku!Changes([host EXCEPT !.files[i] = v], [always |-> [hist.always EXCEPT ![i] = "absent"]])
    BY <1>4 DEF Ku!Change
  <2>2. /\ UNCHANGED <<cmd, pc, got, reply>> /\ pc # "done" /\ DOMAIN host' = DOMAIN host
        /\ DOMAIN host'.files = Ku!Kubeconfigs /\ DOMAIN hist'.always = Ku!Kubeconfigs
        /\ \A j \in Ku!Kubeconfigs : j # i => host'.files[j] = host.files[j] /\ hist'.always[j] = hist.always[j]
        /\ hist'.always[i] = "absent"
    BY <2>1 DEF Ku!Changes, Ku!Done
  <2>3. Ku!Kubeconfigs' = Ku!Kubeconfigs
    BY DEF Ku!Kubeconfigs
  <2> QED
    BY <1>q, <2>2, <2>3
<1>5. CASE Ku!Deadline
    BY <1>5 DEF Ku!Deadline, Ku!Done
<1> QED
    BY <1>1, <1>2, <1>3, <1>4, <1>5
       DEF Ku!Next, Ku!Step, Ku!collectClientVersion, Ku!collectKubeletUnit, Ku!ReadProc, Ku!ReadComm,
           Ku!ReportStatus, Ku!confinedDirectory, Ku!ReadManifest, Ku!ReportManifests

\* The steps of `manifests`.
LEMMA KuManifestsReportsNext ==
    KuManifestsReports /\ cmd = "manifests" /\ Ku!Next => KuManifestsReports'
<1> SUFFICES ASSUME KuManifestsReports, cmd = "manifests", Ku!Next PROVE KuManifestsReports'
    OBVIOUS
<1> USE DEF KuManifestsReports, Ku!Others, Ku!Answer, Ku!GoTo
<1>k. Ku!ManifestFiles' = Ku!ManifestFiles
    BY DEF Ku!ManifestFiles
<1>q. pc # "done" => reply.exit # "ok" /\ reply.status # "pass"
    OBVIOUS
<1>1. CASE Ku!Timeout
    BY <1>1, <1>k, KuFails
<1>2. CASE Ku!confinedDirectory
  <2>1. pc = "start" /\ UNCHANGED <<host, hist>>
    BY <1>2 DEF Ku!confinedDirectory
  <2>2. CASE host.dir # "directory" /\ pc' = "done" /\ UNCHANGED got
    BY <1>k, <2>1, <2>2
  <2>3. CASE /\ got' = [got EXCEPT !.todo = {f \in Ku!ManifestFiles : host.files[f] # <<>>}]
             /\ Ku!GoTo("files")
    <3>1. DOMAIN got' = DOMAIN got /\ got'.todo = {f \in Ku!ManifestFiles : host.files[f] # <<>>}
      BY <2>3
    <3> QED
      BY <1>k, <1>q, <2>1, <2>3, <3>1
  <2>4. CASE Ku!configurationFailure /\ UNCHANGED got
    BY <1>k, <2>1, <2>4, KuFails
  <2> QED
    BY <1>2, <2>2, <2>3, <2>4 DEF Ku!confinedDirectory
<1>3. CASE Ku!ReadManifest
  <2> DEFINE f == Ku!Next1(got.todo)
             all == got.found \cup Ku!parseManifestFile(f, host.files[f])
  <2>1. pc = "files" /\ UNCHANGED <<host, hist>>
    BY <1>3 DEF Ku!ReadManifest
  <2>2. CASE Ku!configurationFailure /\ UNCHANGED got
    BY <1>k, <2>1, <2>2, KuFails
  <2>3. CASE /\ got' = [todo |-> got.todo \ {f}, found |-> all] /\ Ku!GoTo("files")
             /\ "nameless" \notin Ku!Range(host.files[f])
    <3>1. DOMAIN got' = {"todo", "found"} /\ got'.todo = got.todo \ {f}
          /\ got'.found = got.found \cup Ku!parseManifestFile(f, host.files[f])
      BY <2>3
    <3> HIDE DEF f
    <3>2. \A g \in Ku!ManifestFiles : hist.always[g] # <<>> =>
            \/ g \in got'.todo
            \/ /\ Ku!parseManifestFile(g, hist.always[g]) \subseteq got'.found
               /\ "nameless" \notin Ku!Range(hist.always[g])
      <4> SUFFICES ASSUME NEW g \in Ku!ManifestFiles, hist.always[g] # <<>>, g \notin got'.todo
                   PROVE  /\ Ku!parseManifestFile(g, hist.always[g]) \subseteq got'.found
                          /\ "nameless" \notin Ku!Range(hist.always[g])
        OBVIOUS
      <4>1. CASE g = f
        BY <2>3, <3>1, <4>1
      <4>2. CASE g # f
        BY <2>1, <3>1, <4>2
      <4> QED
        BY <4>1, <4>2
    <3> QED
      BY <1>k, <1>q, <2>1, <2>3, <3>1, <3>2
  <2> QED
    BY <1>3, <2>2, <2>3 DEF Ku!ReadManifest
<1>4. CASE Ku!ReportManifests
  <2> DEFINE checks == {Ku!Chk("manifests", "pass")}
  <2>1. /\ pc = "files" /\ got.todo = {} /\ ~ host.link /\ UNCHANGED <<host, hist, got>> /\ pc' = "done"
        /\ reply' = Ku!Built(checks, got.found, {})
    BY <1>4 DEF Ku!ReportManifests
  <2>2. reply'.data = got.found
    <3>1. Ku!Built(checks, got.found, {}).data = got.found
      BY KuBuilds
    <3> HIDE DEF checks
    <3> QED
      BY <2>1, <3>1
  <2>3. ASSUME NEW f \in Ku!ManifestFiles PROVE "nameless" \notin Ku!Range(hist.always[f])
    <3>1. CASE hist.always[f] = <<>>
      <4>1. DOMAIN <<>> = 1..0
        OBVIOUS
      <4>2. 1..0 = {}
        OBVIOUS
      <4> QED
        BY <3>1, <4>1, <4>2, Zenon DEF Ku!Range
    <3>2. CASE hist.always[f] # <<>>
      BY <2>1, <3>2
    <3> QED
      BY <3>1, <3>2
  <2> QED
    BY <1>k, <2>1, <2>2, <2>3
<1>5. CASE Ku!Change
  <2>1. PICK f \in Ku!ManifestFiles, v \in {<<>>, <<"object">>} :
          Ku!Changes([host EXCEPT !.files[f] = v], [always |-> [hist.always EXCEPT ![f] = <<>>]])
    BY <1>5 DEF Ku!Change
  <2>2. /\ UNCHANGED <<cmd, pc, got, reply>> /\ pc # "done" /\ DOMAIN host' = DOMAIN host
        /\ DOMAIN host'.files = Ku!ManifestFiles /\ DOMAIN hist'.always = Ku!ManifestFiles
        /\ \A j \in Ku!ManifestFiles : j # f => host'.files[j] = host.files[j] /\ hist'.always[j] = hist.always[j]
        /\ hist'.always[f] = <<>>
    BY <2>1 DEF Ku!Changes, Ku!Done
  <2> QED
    BY <1>k, <1>q, <2>2
<1>6. CASE Ku!Deadline
    BY <1>6, <1>k DEF Ku!Deadline, Ku!Done
<1> QED
    BY <1>1, <1>2, <1>3, <1>4, <1>5, <1>6
       DEF Ku!Next, Ku!Step, Ku!ReadKubeconfig, Ku!ReportContexts, Ku!collectClientVersion, Ku!collectKubeletUnit,
           Ku!ReadProc, Ku!ReadComm, Ku!ReportStatus

\* Every step preserves it.
LEMMA KuReportsNext == KuInv /\ KuReports /\ Ku!Next => KuReports'
<1>1. Ku!Next => UNCHANGED cmd
    BY DEF Ku!Next, Ku!Step, Ku!Timeout, Ku!ReadKubeconfig, Ku!ReportContexts, Ku!collectClientVersion,
           Ku!collectKubeletUnit, Ku!ReadProc, Ku!ReadComm, Ku!ReportStatus, Ku!confinedDirectory,
           Ku!ReadManifest, Ku!ReportManifests, Ku!Change, Ku!Changes, Ku!Deadline, Ku!Others
<1> QED
    BY <1>1, KuStatusReportsNext, KuContextsReportsNext, KuManifestsReportsNext DEF KuInv, KuReports

-----------------------------------------------------------------------------
(* Monitoring.  The evidence of a product is still to be looked for, or found, or has an error. *)

\* The states of a file.
MFiles == {"absent", "unsafe", "valid", "malformed"}

\* A host with all its fields.
MTyped(h) ==
    /\ DOMAIN h = {"packages", "processes", "listening", "solo", "duo", "duo2", "soloConf", "duo2Conf", "duodConf"}
    /\ \A f \in {"soloConf", "duo2Conf", "duodConf"} : h[f] \in MFiles

\* A probe that is still to be made.
MWaits(w, p, i) == \E n \in got.todo : M!Probes[cmd][n] = M!Probe(w, p, i)

\* There is an error of a product.
MTold(p) == \E i \in got.issues : i.product = p

\* What speaks for a product was found, or the probe that finds it is still to be made.
MSeen(e, p, w, q, i) == <<p, e>> \in got.found \/ MTold(p) \/ MWaits(w, q, i)

\* What speaks for a product all the time is seen.  Of the two units of "duo" only the first one is
\* started or stopped, and of its two files only the first one comes or goes.
MCovered ==
    /\ \A p \in M!Products : "packages" \in hist.always[p] => MSeen("packages", p, "packages", "solo", 0)
    /\ \A p \in M!Products : "processes" \in hist.always[p] => MSeen("processes", p, "processes", "solo", 0)
    /\ "unit" \in hist.always["solo"] => MSeen("unit", "solo", "unit", "solo", 1)
    /\ host.duo2 = "active" => MSeen("unit", "duo", "unit", "duo", 2)
    /\ "unit" \in hist.always["duo"] /\ host.duo2 # "active" => MSeen("unit", "duo", "unit", "duo", 1)
    /\ "file" \in hist.always["solo"] => MSeen("file", "solo", "present", "solo", 1)
    /\ host.duodConf \in {"valid", "malformed"} => MSeen("file", "duo", "present", "duo", 2)
    /\ "file" \in hist.always["duo"] /\ host.duodConf \notin {"valid", "malformed"} =>
         MSeen("file", "duo", "present", "duo", 1)

\* What speaks for a product all the time does so now; what is read is seen, and a file that is
\* malformed has an error.
MReports ==
    /\ MTyped(host)
    /\ {"issues", "configs"} \subseteq DOMAIN got
    /\ DOMAIN hist.always = M!Products
    /\ \A p \in M!Products : hist.always[p] \subseteq M!Evidence(host, p)
    /\ got.issues = {} => \A c \in got.configs : c.valid
    /\ pc = "probe" /\ cmd # "config" => MCovered
    /\ pc \in {"start", "probe", "done"}
    /\ reply.exit = "ok" \/ reply.status = "pass" => pc = "done"
    /\ M!NothingLost /\ M!PassIsEarned

\* What is varied in a value of its kind keeps all fields.
LEMMA MVaried ==
    ASSUME NEW hosts, NEW values, \A h \in hosts : MTyped(h),
           \A f \in {"soloConf", "duo2Conf", "duodConf"} \cap DOMAIN values : values[f] \subseteq MFiles
    PROVE  \A h \in M!Varied(hosts, values) : MTyped(h)
<1> SUFFICES ASSUME NEW g \in M!Varied(hosts, values), g \notin hosts PROVE MTyped(g)
    OBVIOUS
<1>1. PICK h \in hosts, f \in DOMAIN values : g \in {[h EXCEPT ![f] = v] : v \in values[f]}
    BY DEF M!Varied
<1>2. PICK v \in values[f] : g = [h EXCEPT ![f] = v]
    BY <1>1
<1>3. MTyped(h)
    OBVIOUS
<1>4. f \in {"soloConf", "duo2Conf", "duodConf"} => v \in MFiles
    BY <1>1, <1>2
<1>5. DOMAIN g = DOMAIN h /\ \A x \in DOMAIN h : g[x] = IF x = f THEN v ELSE h[x]
    BY <1>2
<1> QED
    BY <1>3, <1>4, <1>5 DEF MTyped

\* The hosts have all fields.
LEMMA MHosts == \A h \in M!Hosts : MTyped(h)
<1> DEFINE usual == [packages |-> "none", processes |-> "none", listening |-> "none",
                     solo |-> "absent", duo |-> "absent", duo2 |-> "absent",
                     soloConf |-> "absent", duo2Conf |-> "absent", duodConf |-> "absent"]
           file == {"unsafe", "valid", "malformed"}
           unit == {"active", "broken", "no systemctl"}
           values == [packages |-> {"solo", "duo", "unread"}, processes |-> {"solo", "duo", "unread", "nameless"},
                      listening |-> {"port", "unread", "no ss"},
                      solo |-> unit, duo |-> unit, duo2 |-> unit,
                      soloConf |-> file, duo2Conf |-> file, duodConf |-> file]
<1>1. MTyped(usual)
    BY DEF MTyped, MFiles
<1>2. \A f \in {"soloConf", "duo2Conf", "duodConf"} \cap DOMAIN values : values[f] \subseteq MFiles
  <2>1. values.soloConf = file /\ values.duo2Conf = file /\ values.duodConf = file
    OBVIOUS
  <2>2. file \subseteq MFiles
    BY DEF MFiles
  <2> HIDE DEF values, file
  <2> QED
    BY <2>1, <2>2
<1>3. M!Hosts = M!Varied(M!Varied({usual}, values), values)
    BY DEF M!Hosts
<1> HIDE DEF usual, values
<1>4. \A h \in M!Varied({usual}, values) : MTyped(h)
    BY <1>1, <1>2, MVaried
<1> QED
    BY <1>2, <1>3, <1>4, MVaried

\* What is in a sequence.
MHas(s, x) == \E i \in DOMAIN s : s[i] = x

\* What is in one of two sequences is in the two together.
LEMMA MBoth ==
    ASSUME NEW S, NEW s \in Seq(S), NEW t \in Seq(S), NEW x, MHas(s, x) \/ MHas(t, x)
    PROVE  MHas(s \o t, x)
<1> DEFINE u == s \o t
<1>1. /\ u \in Seq(S) /\ Len(u) = Len(s) + Len(t)
      /\ \A i \in 1..(Len(s) + Len(t)) : u[i] = IF i <= Len(s) THEN s[i] ELSE t[i - Len(s)]
    BY ConcatProperties
<1> HIDE DEF u
<1>2. DOMAIN s = 1..Len(s) /\ DOMAIN t = 1..Len(t) /\ DOMAIN u = 1..Len(u) /\ Len(s) \in Nat /\ Len(t) \in Nat
    BY <1>1
<1>3. CASE MHas(s, x)
  <2>1. PICK i \in 1..Len(s) : s[i] = x
    BY <1>2, <1>3 DEF MHas
  <2>2. i \in 1..(Len(s) + Len(t)) /\ i <= Len(s)
    BY <1>2
  <2>3. u[i] = x /\ i \in DOMAIN u
    BY <1>1, <1>2, <2>1, <2>2
  <2> QED
    BY <2>3 DEF MHas, u
<1>4. CASE MHas(t, x)
  <2>1. PICK i \in 1..Len(t) : t[i] = x
    BY <1>2, <1>4 DEF MHas
  <2>2. PICK j : j = Len(s) + i
    OBVIOUS
  <2>3. j \in 1..(Len(s) + Len(t)) /\ ~ (j <= Len(s)) /\ j - Len(s) = i
    BY <1>2, <2>2
  <2>4. u[j] = x /\ j \in DOMAIN u
    BY <1>1, <1>2, <2>1, <2>3
  <2> QED
    BY <2>4 DEF MHas, u
<1> QED
    BY <1>3, <1>4

\* The probes of an inventory are made by `inventory` and by `status`.
MInventory == {M!Probe("packages", "solo", 0), M!Probe("processes", "solo", 0),
               M!Probe("unit", "solo", 1), M!Probe("unit", "duo", 1), M!Probe("unit", "duo", 2),
               M!Probe("present", "solo", 1), M!Probe("present", "duo", 1), M!Probe("present", "duo", 2)}

\* None of them is missing.
LEMMA MMade == \A c \in {"inventory", "status"}, x \in MInventory : MHas(M!Probes[c], x)
<1>1. /\ DOMAIN M!Units["solo"] = 1..1 /\ DOMAIN M!Units["duo"] = 1..2
      /\ DOMAIN M!Paths["solo"] = 1..1 /\ DOMAIN M!Paths["duo"] = 1..2
    BY DEF M!Units, M!Paths
<1> DEFINE S == UNION {{M!Probe(w, p, i) : p \in M!Products, i \in 0..2} :
                       w \in {"packages", "processes", "listeners", "unit", "present", "config"}}
           s0 == <<M!Probe("packages", "solo", 0), M!Probe("processes", "solo", 0), M!Probe("listeners", "solo", 0)>>
           u1 == M!All("unit", "solo", M!Units)
           f1 == M!All("present", "solo", M!Paths)
           u2 == M!All("unit", "duo", M!Units)
           f2 == M!All("present", "duo", M!Paths)
           c1 == M!All("config", "solo", M!Paths)
           c2 == M!All("config", "duo", M!Paths)
<1>2. \A w \in {"packages", "processes", "listeners", "unit", "present", "config"}, p \in M!Products, i \in 0..2 :
        M!Probe(w, p, i) \in S
    OBVIOUS
<1> HIDE DEF S
<1>3. s0 \in Seq(S) /\ MHas(s0, M!Probe("packages", "solo", 0)) /\ MHas(s0, M!Probe("processes", "solo", 0))
  <2>1. M!Probe("packages", "solo", 0) \in S /\ M!Probe("processes", "solo", 0) \in S /\ M!Probe("listeners", "solo", 0) \in S
    BY <1>2 DEF M!Products
  <2>2. DOMAIN s0 = 1..3 /\ s0[1] = M!Probe("packages", "solo", 0) /\ s0[2] = M!Probe("processes", "solo", 0)
    OBVIOUS
  <2>3. s0 \in Seq(S)
    BY <2>1
  <2> QED
    BY <2>2, <2>3 DEF MHas
<1>4. ASSUME NEW w \in {"unit", "present", "config"}, NEW p \in M!Products, NEW names, NEW n \in 1..2,
             DOMAIN names[p] = 1..n
      PROVE  M!All(w, p, names) \in Seq(S) /\ \A i \in 1..n : MHas(M!All(w, p, names), M!Probe(w, p, i))
  <2>1. M!All(w, p, names) = [i \in 1..n |-> M!Probe(w, p, i)]
    BY <1>4 DEF M!All
  <2>2. \A i \in 1..n : M!Probe(w, p, i) \in S
    BY <1>2
  <2> QED
    BY <2>1, <2>2 DEF MHas
<1>5. /\ u1 \in Seq(S) /\ u2 \in Seq(S) /\ f1 \in Seq(S) /\ f2 \in Seq(S) /\ c1 \in Seq(S) /\ c2 \in Seq(S)
      /\ MHas(u1, M!Probe("unit", "solo", 1))
      /\ MHas(u2, M!Probe("unit", "duo", 1)) /\ MHas(u2, M!Probe("unit", "duo", 2))
      /\ MHas(f1, M!Probe("present", "solo", 1))
      /\ MHas(f2, M!Probe("present", "duo", 1)) /\ MHas(f2, M!Probe("present", "duo", 2))
  <2>1. {"solo", "duo"} = M!Products /\ 1 \in 1..2 /\ 2 \in 1..2 /\ 1 \in 1..1
    BY DEF M!Products
  <2>2. u1 \in Seq(S) /\ \A i \in 1..1 : MHas(u1, M!Probe("unit", "solo", i))
    BY <1>1, <1>4, <2>1
  <2>3. u2 \in Seq(S) /\ \A i \in 1..2 : MHas(u2, M!Probe("unit", "duo", i))
    BY <1>1, <1>4, <2>1
  <2>4. f1 \in Seq(S) /\ \A i \in 1..1 : MHas(f1, M!Probe("present", "solo", i))
    BY <1>1, <1>4, <2>1
  <2>5. f2 \in Seq(S) /\ \A i \in 1..2 : MHas(f2, M!Probe("present", "duo", i))
    BY <1>1, <1>4, <2>1
  <2>6. c1 \in Seq(S) /\ c2 \in Seq(S)
    BY <1>1, <1>4, <2>1
  <2> QED
    BY <2>1, <2>2, <2>3, <2>4, <2>5, <2>6
<1>6. M!Probes = [inventory |-> (((s0 \o u1) \o f1) \o u2) \o f2, config |-> c1 \o c2,
                  status |-> ((((s0 \o u1) \o f1) \o u2) \o f2) \o (c1 \o c2)]
    BY DEF M!Probes, M!collectInventory, M!collectConfigs
<1> HIDE DEF s0, u1, f1, u2, f2, c1, c2
<1> DEFINE a1 == s0 \o u1
           a2 == a1 \o f1
           a3 == a2 \o u2
           a4 == a3 \o f2
           b == c1 \o c2
           a5 == a4 \o b
<1>7. a1 \in Seq(S) /\ b \in Seq(S)
    BY <1>3, <1>5, ConcatProperties
<1>a. \A x : MHas(s0, x) \/ MHas(u1, x) => MHas(a1, x)
    BY <1>3, <1>5, MBoth
<1> HIDE DEF a1, b
<1>8. a2 \in Seq(S)
    BY <1>5, <1>7, ConcatProperties
<1>b. \A x : MHas(a1, x) \/ MHas(f1, x) => MHas(a2, x)
    BY <1>5, <1>7, MBoth
<1> HIDE DEF a2
<1>9. a3 \in Seq(S)
    BY <1>5, <1>8, ConcatProperties
<1>c. \A x : MHas(a2, x) \/ MHas(u2, x) => MHas(a3, x)
    BY <1>5, <1>8, MBoth
<1> HIDE DEF a3
<1>10. a4 \in Seq(S)
    BY <1>5, <1>9, ConcatProperties
<1>d. \A x : MHas(a3, x) \/ MHas(f2, x) => MHas(a4, x)
    BY <1>5, <1>9, MBoth
<1> HIDE DEF a4
<1>e. \A x : MHas(a4, x) => MHas(a5, x)
    BY <1>7, <1>10, MBoth
<1> HIDE DEF a5
<1>11. \A x \in MInventory : MHas(a4, x)
    BY <1>3, <1>5, <1>a, <1>b, <1>c, <1>d, Zenon DEF MInventory
<1>12. M!Probes["inventory"] = a4 /\ M!Probes["status"] = a5
    BY <1>6 DEF a1, a2, a3, a4, a5, b
<1> QED
    BY <1>11, <1>12, <1>e

\* A probe is done with: what it was to find is found, or told of, and it ends the search of its kind
\* only then.
MFinished(ends) ==
    /\ UNCHANGED <<cmd, host, hist, reply>> /\ pc = "probe" /\ pc' = "probe" /\ got.todo # {}
    /\ {"todo", "found", "issues", "configs"} \subseteq DOMAIN got'
    /\ got.found \subseteq got'.found /\ got.issues \subseteq got'.issues
    /\ got'.issues = {} => \A c \in got'.configs : c.valid
    /\ \A n \in got.todo : n # M!Min(got.todo)
         /\ ~ (ends /\ M!Probes[cmd][n].what = M!Current.what /\ M!Probes[cmd][n].product = M!Current.product)
         => n \in got'.todo

\* What is seen and was not the object of the probe is still seen.
LEMMA MStillSeen ==
    ASSUME NEW ends, MFinished(ends), NEW e, NEW p, NEW w, NEW q, NEW i, MSeen(e, p, w, q, i),
           \/ M!Current # M!Probe(w, q, i) /\ ~ (ends /\ M!Current.what = w /\ M!Current.product = q)
           \/ <<p, e>> \in got'.found
           \/ \E x \in got'.issues : x.product = p
    PROVE  <<p, e>> \in got'.found \/ MTold(p)' \/ (\E n \in got'.todo : M!Probes[cmd][n] = M!Probe(w, q, i))
<1>1. CASE <<p, e>> \in got.found \/ MTold(p)
    BY <1>1 DEF MFinished, MTold
<1>2. CASE MWaits(w, q, i) /\ M!Current # M!Probe(w, q, i) /\ ~ (ends /\ M!Current.what = w /\ M!Current.product = q)
  <2>1. PICK n \in got.todo : M!Probes[cmd][n] = M!Probe(w, q, i)
    BY <1>2 DEF MWaits
  <2>2. n # M!Min(got.todo)
    BY <1>2, <2>1 DEF M!Current
  <2>3. M!Probe(w, q, i).what = w /\ M!Probe(w, q, i).product = q
    BY DEF M!Probe
  <2>4. n \in got'.todo
    BY <1>2, <2>1, <2>2, <2>3 DEF MFinished
  <2> QED
    BY <2>1, <2>4
<1> QED
    BY <1>1, <1>2 DEF MSeen, MTold

\* What the probe is to find, by its kind.
MFinds(ends) ==
    /\ M!Current.what \in {"packages", "processes"} =>
         ~ ends /\ \A p \in M!Products : host[M!Current.what] = p => <<p, M!Current.what>> \in got'.found
    /\ M!Current.what = "unit" =>
         (ends \/ host[M!Units[M!Current.product][M!Current.i]] = "active" => <<M!Current.product, "unit">> \in got'.found)
    /\ M!Current.what = "present" =>
         (ends \/ host[M!Paths[M!Current.product][M!Current.i]] \in {"valid", "malformed"} =>
            <<M!Current.product, "file">> \in got'.found \/ \E x \in got'.issues : x.product = M!Current.product)
    /\ M!Current.what \in {"listeners", "config"} => ~ ends

\* After a probe everything is seen that was.
LEMMA MProbed ==
    ASSUME MInv, MReports, NEW ends \in BOOLEAN, MFinished(ends), MFinds(ends)
    PROVE  MReports'
<1> DEFINE c == M!Current
           Seen(e, p, w, q, i) ==
             <<p, e>> \in got'.found \/ MTold(p)' \/ (\E n \in got'.todo : M!Probes[cmd][n] = M!Probe(w, q, i))
<1>0. /\ UNCHANGED <<cmd, host, hist, reply>> /\ pc = "probe" /\ pc' = "probe"
      /\ {"issues", "configs"} \subseteq DOMAIN got' /\ (got'.issues = {} => \A x \in got'.configs : x.valid)
    BY DEF MFinished
<1>1. c \in MProbe
    BY MCurrent DEF MInv, MFinished
<1>2. c.what \in {"packages", "processes", "listeners", "unit", "present", "config"} /\ c.product \in {"solo", "duo"}
      /\ (c.what = "unit" => c.i \in DOMAIN M!Units[c.product])
      /\ (c.what = "present" => c.i \in DOMAIN M!Paths[c.product])
    BY <1>1 DEF MProbe, M!Products
<1>3. /\ DOMAIN M!Units["solo"] = {1} /\ M!Units["solo"][1] = "solo"
      /\ DOMAIN M!Units["duo"] = {1, 2} /\ M!Units["duo"][1] = "duo" /\ M!Units["duo"][2] = "duo2"
      /\ DOMAIN M!Paths["solo"] = {1} /\ M!Paths["solo"][1] = "soloConf"
      /\ DOMAIN M!Paths["duo"] = {1, 2} /\ M!Paths["duo"][1] = "duo2Conf" /\ M!Paths["duo"][2] = "duodConf"
    BY DEF M!Units, M!Paths
<1>4. \A w, q, i : M!Probe(w, q, i).what = w /\ M!Probe(w, q, i).product = q /\ M!Probe(w, q, i).i = i
    BY DEF M!Probe
<1> HIDE DEF c
<1>s. ASSUME NEW e, NEW p, NEW w, NEW q, NEW i, MSeen(e, p, w, q, i),
             \/ c # M!Probe(w, q, i) /\ ~ (ends /\ c.what = w /\ c.product = q)
             \/ <<p, e>> \in got'.found
             \/ \E x \in got'.issues : x.product = p
      PROVE  Seen(e, p, w, q, i)
    BY <1>s, MStillSeen DEF c
<1>e. \A p \in M!Products : hist.always[p] \subseteq M!Evidence(host, p)
    BY DEF MReports
<1>5. ASSUME NEW w \in {"packages", "processes"}, NEW p \in M!Products, w \in hist.always[p], MSeen(w, p, w, "solo", 0)
      PROVE  Seen(w, p, w, "solo", 0)
  <2>1. host[w] = p
    BY <1>5, <1>e DEF M!Evidence
  <2>2. CASE c.what = w
    <3>1. <<p, w>> \in got'.found
      BY <2>1, <2>2 DEF MFinds, c
    <3> QED
      BY <1>5, <1>s, <3>1
  <2>3. CASE c.what # w
    <3>1. c # M!Probe(w, "solo", 0)
      BY <1>4, <2>3
    <3> QED
      BY <1>5, <1>s, <2>3, <3>1
  <2> QED
    BY <2>2, <2>3
<1>6. ASSUME NEW p \in {"solo", "duo"}, NEW i \in {1, 2}, host[M!Units[p][i]] = "active", MSeen("unit", p, "unit", p, i)
      PROVE  Seen("unit", p, "unit", p, i)
  <2>1. CASE c.what = "unit" /\ c.product = p /\ (ends \/ c.i = i)
    <3>1. <<p, "unit">> \in got'.found
      BY <1>6, <2>1 DEF MFinds, c
    <3> QED
      BY <1>6, <1>s, <3>1
  <2>2. CASE ~ (c.what = "unit" /\ c.product = p /\ (ends \/ c.i = i))
    <3>1. c # M!Probe("unit", p, i) /\ ~ (ends /\ c.what = "unit" /\ c.product = p)
      BY <1>4, <2>2
    <3> QED
      BY <1>6, <1>s, <3>1
  <2> QED
    BY <2>1, <2>2
<1>7. ASSUME NEW p \in {"solo", "duo"}, NEW i \in {1, 2}, host[M!Paths[p][i]] \in {"valid", "malformed"},
             MSeen("file", p, "present", p, i)
      PROVE  Seen("file", p, "present", p, i)
  <2>1. CASE c.what = "present" /\ c.product = p /\ (ends \/ c.i = i)
    <3>1. <<p, "file">> \in got'.found \/ \E x \in got'.issues : x.product = p
      BY <1>7, <2>1 DEF MFinds, c
    <3> QED
      BY <1>7, <1>s, <3>1
  <2>2. CASE ~ (c.what = "present" /\ c.product = p /\ (ends \/ c.i = i))
    <3>1. c # M!Probe("present", p, i) /\ ~ (ends /\ c.what = "present" /\ c.product = p)
      BY <1>4, <2>2
    <3> QED
      BY <1>7, <1>s, <3>1
  <2> QED
    BY <2>1, <2>2
<1>8. \A e, p, w, q, i : Seen(e, p, w, q, i) => MSeen(e, p, w, q, i)'
  <2> SUFFICES ASSUME NEW e, NEW p, NEW w, NEW q, NEW i, Seen(e, p, w, q, i) PROVE MSeen(e, p, w, q, i)'
    OBVIOUS
  <2>1. M!Probes' = M!Probes /\ M!Probe(w, q, i)' = M!Probe(w, q, i)
    BY DEF M!Probes, M!Probe, M!collectInventory, M!collectConfigs, M!All, M!Units, M!Paths
  <2> QED
    BY <1>0, <2>1 DEF MSeen, MWaits, MTold
<1> HIDE DEF Seen
<1>9. ASSUME cmd # "config" PROVE MCovered'
  <2>0. MCovered
    BY <1>0, <1>9 DEF MReports
  <2>1. \A p \in M!Products : "packages" \in hist.always[p] => MSeen("packages", p, "packages", "solo", 0)'
    BY <1>5, <1>8, <2>0 DEF MCovered
  <2>2. \A p \in M!Products : "processes" \in hist.always[p] => MSeen("processes", p, "processes", "solo", 0)'
    BY <1>5, <1>8, <2>0 DEF MCovered
  <2>3. {"solo", "duo"} = M!Products
    BY DEF M!Products
  <2>4. "unit" \in hist.always["solo"] => MSeen("unit", "solo", "unit", "solo", 1)'
    <3> SUFFICES ASSUME "unit" \in hist.always["solo"] PROVE MSeen("unit", "solo", "unit", "solo", 1)'
      OBVIOUS
    <3>1. host[M!Units["solo"][1]] = "active"
      BY <1>3, <1>e, <2>3 DEF M!Evidence
    <3>2. MSeen("unit", "solo", "unit", "solo", 1)
      BY <2>0 DEF MCovered
    <3> QED
      BY <1>6, <1>8, <3>1, <3>2
  <2>5. host.duo2 = "active" => MSeen("unit", "duo", "unit", "duo", 2)'
    <3> SUFFICES ASSUME host.duo2 = "active" PROVE MSeen("unit", "duo", "unit", "duo", 2)'
      OBVIOUS
    <3>1. host[M!Units["duo"][2]] = "active"
      BY <1>3
    <3>2. MSeen("unit", "duo", "unit", "duo", 2)
      BY <2>0 DEF MCovered
    <3> QED
      BY <1>6, <1>8, <3>1, <3>2
  <2>6. "unit" \in hist.always["duo"] /\ host.duo2 # "active" => MSeen("unit", "duo", "unit", "duo", 1)'
    <3> SUFFICES ASSUME "unit" \in hist.always["duo"], host.duo2 # "active" PROVE MSeen("unit", "duo", "unit", "duo", 1)'
      OBVIOUS
    <3>1. host[M!Units["duo"][1]] = "active"
      BY <1>3, <1>e, <2>3 DEF M!Evidence
    <3>2. MSeen("unit", "duo", "unit", "duo", 1)
      BY <2>0 DEF MCovered
    <3> QED
      BY <1>6, <1>8, <3>1, <3>2
  <2>7. "file" \in hist.always["solo"] => MSeen("file", "solo", "present", "solo", 1)'
    <3> SUFFICES ASSUME "file" \in hist.always["solo"] PROVE MSeen("file", "solo", "present", "solo", 1)'
      OBVIOUS
    <3>1. host[M!Paths["solo"][1]] \in {"valid", "malformed"}
      BY <1>3, <1>e, <2>3 DEF M!Evidence
    <3>2. MSeen("file", "solo", "present", "solo", 1)
      BY <2>0 DEF MCovered
    <3> QED
      BY <1>7, <1>8, <3>1, <3>2
  <2>8. host.duodConf \in {"valid", "malformed"} => MSeen("file", "duo", "present", "duo", 2)'
    <3> SUFFICES ASSUME host.duodConf \in {"valid", "malformed"} PROVE MSeen("file", "duo", "present", "duo", 2)'
      OBVIOUS
    <3>1. host[M!Paths["duo"][2]] \in {"valid", "malformed"}
      BY <1>3
    <3>2. MSeen("file", "duo", "present", "duo", 2)
      BY <2>0 DEF MCovered
    <3> QED
      BY <1>7, <1>8, <3>1, <3>2
  <2>9. "file" \in hist.always["duo"] /\ host.duodConf \notin {"valid", "malformed"} =>
          MSeen("file", "duo", "present", "duo", 1)'
    <3> SUFFICES ASSUME "file" \in hist.always["duo"], host.duodConf \notin {"valid", "malformed"}
                 PROVE  MSeen("file", "duo", "present", "duo", 1)'
      OBVIOUS
    <3>1. host[M!Paths["duo"][1]] \in {"valid", "malformed"}
      BY <1>3, <1>e, <2>3 DEF M!Evidence
    <3>2. MSeen("file", "duo", "present", "duo", 1)
      BY <2>0 DEF MCovered
    <3> QED
      BY <1>7, <1>8, <3>1, <3>2
  <2> HIDE DEF MSeen
  <2>10. M!Products' = M!Products
    BY DEF M!Products
  <2> QED
    BY <1>0, <2>1, <2>2, <2>4, <2>5, <2>6, <2>7, <2>8, <2>9, <2>10 DEF MCovered
<1>10. reply'.exit # "ok" /\ reply'.status # "pass"
    BY <1>0 DEF MReports
<1>11. M!Products' = M!Products /\ MTyped(host)' /\ \A p \in M!Products : M!Evidence(host, p)' = M!Evidence(host, p)
    BY <1>0 DEF M!Products, MReports, MTyped, M!Evidence
<1> QED
    BY <1>0, <1>9, <1>10, <1>11 DEF MReports, M!NothingLost, M!PassIsEarned

\* What is said of a built answer.
LEMMA MBuilds ==
    ASSUME NEW checks, NEW data, NEW errors
    PROVE  LET r == M!Built(checks, data, errors) IN
           /\ r.exit = "ok" /\ r.errors = errors /\ r.data = data
           /\ r.status = "pass" <=> errors = {} /\ \A c \in checks : c.status \in {"pass", "info"}
<1>1. M!classify(checks, errors) = "pass" <=> errors = {} /\ \A c \in checks : c.status \in {"pass", "info"}
    BY DEF M!classify
<1> QED
    BY <1>1 DEF M!Built, M!Build, M!Result

\* It holds at the start.
LEMMA MReportsInit == M!Init => MReports
<1> SUFFICES ASSUME M!Init PROVE MReports
    OBVIOUS
<1>1. /\ got = M!NothingRead /\ reply = M!NoReply /\ pc = "start" /\ host \in M!Hosts
      /\ hist = [always |-> [p \in M!Products |-> M!Evidence(host, p)],
                 ever |-> [p \in M!Products |-> M!Evidence(host, p)]]
    BY DEF M!Init, M!Starts
<1>2. MTyped(host)
    BY <1>1, MHosts
<1> QED
    BY <1>1, <1>2 DEF MReports, M!NothingRead, M!NoReply, M!NothingLost, M!PassIsEarned

\* A probe that is finished as it should be.
LEMMA MEnds ==
    ASSUME MInv, MReports, NEW c, c = M!Current, NEW more, NEW issues, NEW ends \in BOOLEAN,
           M!Finished(c, more, issues, ends), pc = "probe", got.todo # {}
    PROVE  /\ MFinished(ends) /\ more \subseteq got'.found /\ issues \subseteq got'.issues
<1>1. /\ UNCHANGED <<cmd, host, hist, reply>> /\ pc' = "probe" /\ DOMAIN got' = DOMAIN got
      /\ got'.todo = {n \in M!Later : ~ (ends /\ M!Probes[cmd][n].what = c.what /\ M!Probes[cmd][n].product = c.product)}
      /\ got'.found = got.found \cup more /\ got'.issues = got.issues \cup issues /\ got'.configs = got.configs
    BY DEF M!Finished, M!GoTo, M!Others, MInv, MReports
<1> QED
    BY <1>1 DEF MFinished, M!Later, MInv, MReports

\* Every step preserves it.
LEMMA MReportsNext == MInv /\ MReports /\ M!Next => MReports'
<1> SUFFICES ASSUME MInv, MReports, M!Next PROVE MReports'
    OBVIOUS
<1> USE DEF M!Others, M!Answer, M!GoTo
<1>k. M!Products' = M!Products
    BY DEF M!Products
<1>q. pc # "done" => reply.exit # "ok" /\ reply.status # "pass"
    BY DEF MReports
<1>a. CASE /\ UNCHANGED <<cmd, host, hist, got>> /\ pc' = "done" /\ reply'.exit # "ok" /\ reply'.status # "pass"
  <2>1. MTyped(host)' /\ \A p \in M!Products : M!Evidence(host, p)' = M!Evidence(host, p)
    BY <1>a DEF MReports, MTyped, M!Evidence
  <2> QED
    BY <1>a, <1>k, <2>1 DEF MReports, M!NothingLost, M!PassIsEarned
<1>f. \A code : code # "ok" => M!Failure(code).exit # "ok" /\ M!Failure(code).status # "pass"
    BY DEF M!Failure, M!NoReply
<1>1. CASE M!Dispatch
  <2>1. CASE M!Answer(M!Failure("arguments")) /\ UNCHANGED got
    BY <1>1, <1>a, <1>f, <2>1 DEF M!Dispatch
  <2>2. CASE got' = [got EXCEPT !.todo = DOMAIN M!Probes[cmd]] /\ M!GoTo("probe")
    <3>1. /\ UNCHANGED <<cmd, host, hist, reply>> /\ pc = "start" /\ pc' = "probe" /\ DOMAIN got' = DOMAIN got
          /\ got'.todo = DOMAIN M!Probes[cmd] /\ got'.issues = got.issues /\ got'.configs = got.configs
      BY <1>1, <2>2 DEF M!Dispatch, MInv, MReports
    <3>2. MTyped(host)' /\ \A p \in M!Products : M!Evidence(host, p)' = M!Evidence(host, p)
      BY <3>1 DEF MReports, MTyped, M!Evidence
    <3>3. ASSUME cmd # "config" PROVE MCovered'
      <4>1. cmd \in {"inventory", "status"}
        BY <3>3 DEF MInv, M!Probes
      <4>2. M!Probes' = M!Probes /\ \A w, p, i : M!Probe(w, p, i)' = M!Probe(w, p, i)
        BY DEF M!Probes, M!Probe, M!collectInventory, M!collectConfigs, M!All, M!Units, M!Paths
      <4>3. ASSUME NEW w, NEW q, NEW i, M!Probe(w, q, i) \in MInventory PROVE MWaits(w, q, i)'
        <5>1. \E n \in DOMAIN M!Probes[cmd] : M!Probes[cmd][n] = M!Probe(w, q, i)
          BY <4>1, <4>3, MMade DEF MHas
        <5> QED
          BY <3>1, <4>2, <5>1 DEF MWaits
      <4>4. ASSUME NEW e, NEW p, NEW w, NEW q, NEW i, M!Probe(w, q, i) \in MInventory PROVE MSeen(e, p, w, q, i)'
        BY <4>3, <4>4 DEF MSeen
      <4> HIDE DEF MSeen
      <4>5. /\ M!Probe("packages", "solo", 0) \in MInventory /\ M!Probe("processes", "solo", 0) \in MInventory
            /\ M!Probe("unit", "solo", 1) \in MInventory /\ M!Probe("unit", "duo", 1) \in MInventory
            /\ M!Probe("unit", "duo", 2) \in MInventory /\ M!Probe("present", "solo", 1) \in MInventory
            /\ M!Probe("present", "duo", 1) \in MInventory /\ M!Probe("present", "duo", 2) \in MInventory
        BY DEF MInventory
      <4> QED
        BY <4>4, <4>5, Zenon DEF MCovered
    <3> QED
      BY <1>k, <1>q, <3>1, <3>2, <3>3 DEF MReports, M!NothingLost, M!PassIsEarned
  <2> QED
    BY <1>1, <2>1, <2>2 DEF M!Dispatch
<1>2. CASE M!contextFailure
    BY <1>2, <1>a, <1>f DEF M!contextFailure
<1>t. ASSUME NEW what \in {"packages", "processes"}, NEW code, M!Table(what, code) PROVE MReports'
  <2> DEFINE more == {<<p, what>> : p \in {q \in M!Products : host[what] = q}}
             issues == IF host[what] = "unread" THEN {M!Issue(code, "all")} ELSE {}
  <2>1. M!Finished(M!Current, more, issues, FALSE) /\ pc = "probe" /\ got.todo # {} /\ M!Current.what = what
    BY <1>t DEF M!Table, M!Now
  <2>2. \A p \in M!Products : host[what] = p => <<p, what>> \in more
    OBVIOUS
  <2> HIDE DEF more, issues
  <2>3. MFinished(FALSE) /\ more \subseteq got'.found
    BY <2>1, MEnds
  <2>4. MFinds(FALSE)
    BY <2>1, <2>2, <2>3 DEF MFinds
  <2> QED
    BY <2>3, <2>4, MProbed
<1>3. CASE M!installedPackages \/ M!monitoringProcesses
    BY <1>3, <1>t DEF M!installedPackages, M!monitoringProcesses
<1>4. CASE M!listeningPorts
  <2>1. /\ pc = "probe" /\ pc' = "probe" /\ got.todo # {} /\ M!Current.what = "listeners"
        /\ UNCHANGED <<cmd, host, hist, reply>>
        /\ got' = [got EXCEPT !.todo = M!Later, !.port = (host.listening = "port"),
                        !.issues = IF host.listening = "unread"
                                   THEN @ \cup {M!Issue("listener_inventory", "all")} ELSE @]
    BY <1>4 DEF M!listeningPorts, M!Now
  <2>2. /\ DOMAIN got' = DOMAIN got /\ got'.todo = M!Later /\ got'.found = got.found /\ got'.configs = got.configs
        /\ got.issues \subseteq got'.issues
    BY <2>1 DEF MInv, MReports
  <2>3. MFinished(FALSE)
    BY <2>1, <2>2 DEF MFinished, M!Later, MInv, MReports
  <2>4. MFinds(FALSE)
    BY <2>1 DEF MFinds
  <2> QED
    BY <2>3, <2>4, MProbed
<1>5. CASE M!unitState
  <2> DEFINE p == M!Current
             state == host[M!Units[p.product][p.i]]
             more == IF state = "active" THEN {<<p.product, "unit">>} ELSE {}
             issues == IF state = "broken" THEN {M!Issue("unit_inventory", p.product)} ELSE {}
             ends == state = "active"
  <2>1. M!Finished(p, more, issues, ends) /\ pc = "probe" /\ got.todo # {} /\ p.what = "unit"
    BY <1>5 DEF M!unitState, M!Now
  <2>2. ends \in BOOLEAN
    OBVIOUS
  <2>3. ends => <<p.product, "unit">> \in more
    OBVIOUS
  <2>4. state = "active" => ends
    OBVIOUS
  <2> HIDE DEF more, issues, ends
  <2>5. MFinished(ends) /\ more \subseteq got'.found
    BY <2>1, <2>2, MEnds
  <2>6. MFinds(ends)
    BY <2>1, <2>3, <2>4, <2>5 DEF MFinds
  <2> QED
    BY <2>2, <2>5, <2>6, MProbed
<1>6. CASE M!productConfigPresent
  <2> DEFINE p == M!Current
             state == host[M!Paths[p.product][p.i]]
             more == IF state \in {"valid", "malformed"} THEN {<<p.product, "file">>} ELSE {}
             issues == IF state = "unsafe" THEN {M!Issue("config_metadata", p.product)} ELSE {}
             ends == state # "absent"
  <2>1. M!Finished(p, more, issues, ends) /\ pc = "probe" /\ got.todo # {} /\ p.what = "present"
    BY <1>6 DEF M!productConfigPresent, M!Now
  <2>2. ends \in BOOLEAN
    OBVIOUS
  <2>t. state \in MFiles
    <3>1. p \in MProbe
      BY <2>1, MCurrent DEF MInv
    <3>2. p.product \in {"solo", "duo"} /\ p.i \in DOMAIN M!Paths[p.product]
      BY <2>1, <3>1 DEF MProbe, M!Products
    <3> HIDE DEF p
    <3>3. /\ DOMAIN M!Paths["solo"] = {1} /\ M!Paths["solo"][1] = "soloConf"
          /\ DOMAIN M!Paths["duo"] = {1, 2} /\ M!Paths["duo"][1] = "duo2Conf" /\ M!Paths["duo"][2] = "duodConf"
      BY DEF M!Paths
    <3>4. M!Paths[p.product][p.i] \in {"soloConf", "duo2Conf", "duodConf"}
      BY <3>2, <3>3
    <3> QED
      BY <3>4 DEF MReports, MTyped
  <2>i. M!Issue("config_metadata", p.product).product = p.product
    BY DEF M!Issue
  <2> HIDE DEF p
  <2>3. state \in {"valid", "malformed"} => ends
    OBVIOUS
  <2>4. ends => <<p.product, "file">> \in more \/ \E x \in issues : x.product = p.product
    BY <2>t, <2>i DEF MFiles
  <2> HIDE DEF more, issues, ends
  <2>5. MFinished(ends) /\ more \subseteq got'.found /\ issues \subseteq got'.issues
    BY <2>1, <2>2, MEnds DEF p
  <2>6. MFinds(ends)
    BY <2>1, <2>3, <2>4, <2>5 DEF MFinds, p
  <2> QED
    BY <2>2, <2>5, <2>6, MProbed
<1>7. CASE M!ReadConfig
  <2>1. PICK p : p = M!Current
    OBVIOUS
  <2> DEFINE path == M!Paths[p.product][p.i]
             state == host[path]
             more == IF state \in {"valid", "malformed"}
                     THEN {[path |-> path, valid |-> state = "valid"]} ELSE {}
             issues == CASE state = "unsafe"    -> {M!Issue("unsafe_config", p.product)}
                         [] state = "malformed" -> {M!Issue("malformed_config", p.product)}
                         [] OTHER               -> {}
  <2>2. /\ pc = "probe" /\ pc' = "probe" /\ got.todo # {} /\ M!Current.what = "config"
        /\ UNCHANGED <<cmd, host, hist, reply>>
        /\ got' = [got EXCEPT !.todo = M!Later,
                     !.configs = IF state \in {"valid", "malformed"}
                                 THEN @ \cup {[path |-> path, valid |-> state = "valid"]} ELSE @,
                     !.issues = @ \cup issues]
    BY <1>7, <2>1 DEF M!ReadConfig, M!Now
  <2>3. /\ DOMAIN got' = DOMAIN got /\ got'.todo = M!Later /\ got'.found = got.found
        /\ got'.configs = IF state \in {"valid", "malformed"}
                          THEN got.configs \cup {[path |-> path, valid |-> state = "valid"]} ELSE got.configs
        /\ got'.issues = got.issues \cup issues
    BY <2>2 DEF MInv, MReports
  <2>4. got'.issues = {} => \A c \in got'.configs : c.valid
    <3> SUFFICES ASSUME got'.issues = {} PROVE \A c \in got'.configs : c.valid
      OBVIOUS
    <3>1. state # "malformed" /\ got.issues = {}
      BY <2>3
    <3>2. \A c \in got.configs : c.valid
      BY <3>1 DEF MReports
    <3>3. CASE state = "valid"
      <4>1. [path |-> path, valid |-> state = "valid"].valid
        BY <3>3
      <4> HIDE DEF path, state
      <4>2. got'.configs = got.configs \cup {[path |-> path, valid |-> state = "valid"]}
        BY <2>3, <3>3
      <4> QED
        BY <3>2, <4>1, <4>2, Zenon
    <3>4. CASE state # "valid"
      <4>1. got'.configs = got.configs
        BY <2>3, <3>1, <3>4
      <4> QED
        BY <3>2, <4>1
    <3> QED
      BY <3>3, <3>4
  <2> HIDE DEF path, state, issues
  <2>5. MFinished(FALSE)
    BY <2>2, <2>3, <2>4 DEF MFinished, M!Later, MInv, MReports
  <2>6. MFinds(FALSE)
    BY <2>2 DEF MFinds
  <2> QED
    BY <2>5, <2>6, MProbed
<1>8. CASE M!Report
  <2>1. /\ pc = "probe" /\ got.todo = {} /\ pc' = "done" /\ UNCHANGED <<cmd, host, hist, got>>
        /\ reply' = M!Built(M!Checks, got, got.issues)
    BY <1>8 DEF M!Report
  <2>2. reply'.data = got /\ reply'.errors = got.issues /\ (reply'.status = "pass" => got.issues = {})
    BY <2>1, MBuilds
  <2>3. MTyped(host)' /\ \A p \in M!Products : M!Evidence(host, p)' = M!Evidence(host, p)
    BY <2>1 DEF MReports, MTyped, M!Evidence
  <2>4. M!PassIsEarned'
    BY <2>1, <2>2 DEF MReports, M!PassIsEarned
  <2>5. M!NothingLost'
    <3> SUFFICES ASSUME cmd # "config", NEW p \in M!Products, hist.always[p] # {}
                 PROVE  M!Installed(got, p) \/ \E i \in got.issues : i.product \in {p, "all"}
      <4>2. \A q : (\E f \in reply'.data.found : f[1] = q) = (\E f \in got.found : f[1] = q)
        BY <2>2
      <4> QED
        BY <1>k, <2>1, <2>2, <4>2 DEF M!NothingLost, M!Installed
    <3>1. MCovered
      BY <2>1 DEF MReports
    <3>2. PICK e \in hist.always[p] : e \in {"packages", "processes", "unit", "file"}
      BY DEF MReports, M!Evidence
    <3>3. \A x, w, q, i : MSeen(x, p, w, q, i) => M!Installed(got, p) \/ MTold(p)
      <4> SUFFICES ASSUME NEW x, NEW w, NEW q, NEW i, MSeen(x, p, w, q, i) PROVE M!Installed(got, p) \/ MTold(p)
        OBVIOUS
      <4>1. ~ MWaits(w, q, i)
        BY <2>1 DEF MWaits
      <4>2. <<p, x>>[1] = p
        OBVIOUS
      <4> QED
        BY <4>1, <4>2 DEF MSeen, M!Installed
    <3> HIDE DEF MSeen
    <3>4. p \in {"solo", "duo"}
      BY DEF M!Products
    <3>5. \E x, w, q, i : MSeen(x, p, w, q, i)
      <4>1. CASE e \in {"packages", "processes"}
        BY <3>1, <3>2, <4>1, Zenon DEF MCovered
      <4>2. CASE e = "unit"
        <5>1. CASE p = "solo"
          <6>1. MSeen("unit", "solo", "unit", "solo", 1)
            BY <3>1, <3>2, <4>2, <5>1, Zenon DEF MCovered
          <6> QED
            BY <5>1, <6>1
        <5>2. CASE p = "duo"
          <6>1. MSeen("unit", "duo", "unit", "duo", 1) \/ MSeen("unit", "duo", "unit", "duo", 2)
            BY <3>1, <3>2, <4>2, <5>2, Zenon DEF MCovered
          <6> QED
            BY <5>2, <6>1
        <5> QED
          BY <3>4, <5>1, <5>2
      <4>3. CASE e = "file"
        BY <3>1, <3>2, <3>4, <4>3, Zenon DEF MCovered
      <4> QED
        BY <3>2, <4>1, <4>2, <4>3
    <3> QED
      BY <3>3, <3>5 DEF MTold
  <2> QED
    BY <1>k, <2>1, <2>3, <2>4, <2>5 DEF MReports
<1>9. CASE M!Change
  <2>0. PICK f \in {"processes", "duo", "soloConf", "duo2Conf"} :
          LET v == [processes |-> "solo", duo |-> "active", soloConf |-> "valid", duo2Conf |-> "unsafe"][f]
              h == [host EXCEPT ![f] = IF @ = v THEN (IF f = "processes" THEN "none" ELSE "absent") ELSE v]
          IN pc = "probe" /\
             M!Changes(h, [always |-> [p \in M!Products |-> hist.always[p] \cap M!Evidence(h, p)],
                           ever |-> [p \in M!Products |-> hist.ever[p] \cup M!Evidence(h, p)]])
    BY <1>9, Zenon DEF M!Change
  <2> DEFINE other == [processes |-> "solo", duo |-> "active", soloConf |-> "valid", duo2Conf |-> "unsafe"][f]
             now == [host EXCEPT ![f] = IF @ = other THEN (IF f = "processes" THEN "none" ELSE "absent") ELSE other]
  <2>v. f \in {"soloConf", "duo2Conf"} => other \in {"valid", "unsafe"}
    OBVIOUS
  <2>n. PICK v, new : v = other /\ new = now
    OBVIOUS
  <2>e. new = [host EXCEPT ![f] = IF @ = v THEN (IF f = "processes" THEN "none" ELSE "absent") ELSE v]
    BY <2>n, Zenon
  <2>w. pc = "probe" /\
        M!Changes(new, [always |-> [p \in M!Products |-> hist.always[p] \cap M!Evidence(new, p)],
                        ever |-> [p \in M!Products |-> hist.ever[p] \cup M!Evidence(new, p)]])
    BY <2>0, <2>n, Zenon
  <2>1. /\ (f \in {"soloConf", "duo2Conf"} => v \in {"valid", "unsafe"})
        /\ new = [host EXCEPT ![f] = IF @ = v THEN (IF f = "processes" THEN "none" ELSE "absent") ELSE v]
        /\ pc = "probe"
        /\ M!Changes(new, [always |-> [p \in M!Products |-> hist.always[p] \cap M!Evidence(new, p)],
                           ever |-> [p \in M!Products |-> hist.ever[p] \cup M!Evidence(new, p)]])
    BY <2>v, <2>n, <2>e, <2>w, Zenon
  <2> HIDE DEF other, now
  <2>2. /\ UNCHANGED <<cmd, pc, got, reply>> /\ host' = new
        /\ DOMAIN hist'.always = M!Products
        /\ \A p \in M!Products : hist'.always[p] = hist.always[p] \cap M!Evidence(new, p)
    BY <2>1 DEF M!Changes
  <2>3. DOMAIN new = DOMAIN host /\ new.duo2 = host.duo2 /\ new.duodConf = host.duodConf
        /\ \A x \in {"soloConf", "duo2Conf"} : new[x] = host[x] \/ new[x] \in {"valid", "unsafe", "absent"}
    BY <2>1 DEF MReports, MTyped
  <2>4. MTyped(host)'
    BY <2>2, <2>3 DEF MReports, MTyped, MFiles
  <2>5. \A p \in M!Products : M!Evidence(host, p)' = M!Evidence(new, p)
    BY <2>2 DEF M!Evidence
  <2>6. ASSUME cmd # "config" PROVE MCovered'
    <3>1. MCovered
      BY <2>1, <2>6 DEF MReports
    <3>2. \A e, p, w, q, i : MSeen(e, p, w, q, i)' = MSeen(e, p, w, q, i)
      <4> SUFFICES ASSUME NEW e, NEW p, NEW w, NEW q, NEW i PROVE MSeen(e, p, w, q, i)' = MSeen(e, p, w, q, i)
        OBVIOUS
      <4>1. M!Probes' = M!Probes /\ M!Probe(w, q, i)' = M!Probe(w, q, i)
        BY DEF M!Probes, M!Probe, M!collectInventory, M!collectConfigs, M!All, M!Units, M!Paths
      <4>2. MWaits(w, q, i)' = MWaits(w, q, i)
        BY <2>2, <4>1 DEF MWaits
      <4>3. MTold(p)' = MTold(p)
        BY <2>2 DEF MTold
      <4> QED
        BY <2>2, <4>2, <4>3 DEF MSeen
    <3>3. \A p \in M!Products : hist'.always[p] \subseteq hist.always[p]
      BY <2>2
    <3>4. "solo" \in M!Products /\ "duo" \in M!Products
      BY DEF M!Products
    <3>5. host'.duo2 = host.duo2 /\ host'.duodConf = host.duodConf
      BY <2>2, <2>3
    <3> HIDE DEF MSeen
    <3> QED
      BY <1>k, <3>1, <3>2, <3>3, <3>4, <3>5 DEF MCovered
  <2> QED
    BY <1>k, <1>q, <2>1, <2>2, <2>4, <2>5, <2>6 DEF MReports, M!NothingLost, M!PassIsEarned
<1>10. CASE M!Deadline
  <2>1. UNCHANGED <<cmd, host, hist, pc, got, reply>>
    BY <1>10 DEF M!Deadline
  <2>2. MReports' = MReports
    <3>1. M!Probes' = M!Probes /\ M!Products' = M!Products
      BY DEF M!Probes, M!Products, M!Probe, M!collectInventory, M!collectConfigs, M!All, M!Units, M!Paths
    <3>2. MTyped(host)' = MTyped(host) /\ \A p : M!Evidence(host, p)' = M!Evidence(host, p)
      BY <2>1 DEF MTyped, M!Evidence
    <3>3. \A e, p, w, q, i : MSeen(e, p, w, q, i)' = MSeen(e, p, w, q, i)
      BY <2>1, <3>1 DEF MSeen, MWaits, MTold, M!Probe
    <3> HIDE DEF MSeen, MTyped
    <3>4. MCovered' = MCovered
      BY <2>1, <3>1, <3>3, Zenon DEF MCovered
    <3>5. M!NothingLost' = M!NothingLost /\ M!PassIsEarned' = M!PassIsEarned
      BY <2>1, <3>1 DEF M!NothingLost, M!PassIsEarned, M!Installed
    <3> QED
      BY <2>1, <3>1, <3>2, <3>4, <3>5, Zenon DEF MReports
  <2> QED
    BY <2>2
<1> QED
    BY <1>1, <1>2, <1>3, <1>4, <1>5, <1>6, <1>7, <1>8, <1>9, <1>10 DEF M!Next, M!Step

-----------------------------------------------------------------------------
(* Network.  A section has what its source shows, or an error. *)

\* What is said of a built answer.
LEMMA NBuilds ==
    ASSUME NEW checks, NEW data, NEW errors
    PROVE  LET r == N!Built(checks, data, errors) IN
           /\ r.exit = "ok" /\ r.errors = errors /\ r.data = data
           /\ r.status = "pass" <=> errors = {} /\ \A c \in checks : c.status \in {"pass", "info"}
<1>1. N!classify(checks, errors) = "pass" <=> errors = {} /\ \A c \in checks : c.status \in {"pass", "info"}
    BY DEF N!classify
<1> QED
    BY <1>1 DEF N!Built, N!Build, N!Result

\* The sections that were collected.
NCollected ==
    {s \in SectionNames : IF cmd = "overview" THEN \E i \in 1..(got.section - 1) : s = N!Sections[i]
                          ELSE s = cmd /\ got.section = 4}

\* A section has a source, or an error that none of its files speaks against.
NSourced(s) ==
    \/ s \in DOMAIN got.from /\ got.from[s] # {}
    \/ s \in got.errors /\ \A f \in N!FilesOf[s] : hist.always[f] # "rows"

\* What was collected so far is sourced; a file that always had rows has them now.
NReports ==
    /\ cmd # "tls" =>
         /\ "errors" \in DOMAIN got
         /\ \A f \in N!KernelFiles : hist.always[f] = "rows" => host.files[f] = "rows"
         /\ pc = "collect" /\ cmd # "overview" => got.section = 4 \/ N!Sections[got.section] = cmd
         /\ pc = "collect" => \A s \in NCollected : NSourced(s)
         /\ reply.exit = "ok" => reply.data = got.from /\ reply.errors = got.errors
    /\ cmd = "tls" => pc \in {"start", "certificates", "done"}
    /\ reply.exit = "ok" => pc = "done"
    /\ N!NothingLost /\ N!PassIsEarned

\* It holds at the start.
LEMMA NReportsInit == N!Init => NReports
<1> SUFFICES ASSUME N!Init PROVE NReports
    OBVIOUS
<1>1. /\ cmd # "tls" => /\ host \in [files : [N!KernelFiles -> {"rows", "absent", "malformed"}], ip : N!Programs, ss : N!Programs]
                        /\ hist = [always |-> host.files]
      /\ got = N!NothingRead /\ pc = "start" /\ reply = N!NoReply
    BY DEF N!Init, N!Starts
<1> QED
    BY <1>1 DEF NReports, N!NothingRead, N!NoReply, N!NothingLost, N!PassIsEarned

\* A source stays one when what always was there is only marked as changed.
LEMMA NSourcedStill ==
    ASSUME NEW s, NSourced(s), UNCHANGED hist, got'.from = got.from, got.errors \subseteq got'.errors
    PROVE  NSourced(s)'
BY DEF NSourced

\* What is certain of the certificates of a file that could be parsed.
LEMMA NParsed ==
    ASSUME NEW blocks, NEW trailing, N!parseCertificates(blocks, trailing).ok
    PROVE  LET c == N!parseCertificates(blocks, trailing).certificates IN
           /\ "private key" \notin N!Range(blocks) /\ "broken" \notin N!Range(blocks)
           /\ (\A i \in DOMAIN c : c[i] = "valid") <=> {"expired", "early"} \cap N!Range(blocks) = {}
<1> DEFINE places == {i \in DOMAIN blocks : blocks[i] \in {"valid", "expired", "early"}}
           c == N!parseCertificates(blocks, trailing).certificates
<1>1. c = N!Restrict(blocks, places) /\ {"private key", "broken"} \cap N!Range(blocks) = {}
    BY DEF N!parseCertificates
<1>2. DOMAIN c = places /\ \A i \in places : c[i] = blocks[i]
    BY <1>1 DEF N!Restrict
<1> HIDE DEF c
<1>3. (\A i \in DOMAIN c : c[i] = "valid") <=> {"expired", "early"} \cap N!Range(blocks) = {}
    BY <1>2 DEF N!Range
<1> QED
    BY <1>1, <1>3 DEF c

\* Every step preserves it.
LEMMA NReportsNext == NInv /\ NReports /\ N!Next => NReports'
<1> SUFFICES ASSUME NInv, NReports, N!Next PROVE NReports'
    OBVIOUS
<1> USE DEF N!Others, N!Answer, N!GoTo
<1>c. UNCHANGED cmd
    BY DEF N!Next, N!Step, N!Dispatch, N!collectSection, N!Report, N!executeTLS, N!Change, N!Changes, N!Deadline
<1>n. cmd # "tls" => cmd \in {"overview"} \cup SectionNames /\ NSections
    BY DEF NInv
<1>x. \A code : code # "ok" => N!Failure(code).exit # "ok"
    BY NFailure
<1>s. N!Sections' = N!Sections /\ N!FilesOf' = N!FilesOf /\ N!KernelFiles' = N!KernelFiles
    BY DEF N!Sections, N!FilesOf, N!KernelFiles, N!SocketFiles
<1>a. CASE /\ UNCHANGED <<host, hist, got>> /\ pc' = "done" /\ reply'.exit # "ok"
    BY <1>a, <1>c DEF NReports, N!NothingLost, N!PassIsEarned
<1>q. pc # "done" => reply.exit # "ok"
    BY DEF NReports
<1>1. CASE N!Dispatch
  <2>1. CASE N!Answer(N!Failure("arguments")) /\ UNCHANGED got
    BY <1>1, <1>a, <1>x, <2>1 DEF N!Dispatch
  <2>2. CASE cmd = "tls" /\ N!GoTo("certificates") /\ UNCHANGED got
    <3>1. pc = "start"
      BY <1>1 DEF N!Dispatch
    <3> QED
      BY <1>c, <1>q, <2>2, <3>1 DEF NReports, N!NothingLost, N!PassIsEarned
  <2>3. CASE cmd = "overview" /\ got' = [got EXCEPT !.section = 1] /\ N!GoTo("collect")
    <3>1. pc = "start" /\ UNCHANGED <<host, hist>>
      BY <1>1 DEF N!Dispatch
    <3>2. got'.section = 1 /\ "errors" \in DOMAIN got'
      BY <1>n, <2>3 DEF NSections, NReports
    <3>3. NCollected' = {}
      <4>1. 1..(1 - 1) = {}
        OBVIOUS
      <4> QED
        BY <1>c, <2>3, <3>2, <4>1 DEF NCollected
    <3> QED
      BY <1>c, <1>q, <2>3, <3>1, <3>2, <3>3 DEF NReports, N!NothingLost, N!PassIsEarned
  <2>4. CASE /\ cmd \notin {"tls", "overview"} /\ N!GoTo("collect")
             /\ got' = [got EXCEPT !.section = CHOOSE i \in DOMAIN N!Sections : N!Sections[i] = cmd]
    <3> DEFINE Place == CHOOSE i \in DOMAIN N!Sections : N!Sections[i] = cmd
    <3>0. Place \in 1..3 /\ N!Sections[Place] = cmd
      BY <1>n, <2>4, NNames
    <3>1. pc = "start" /\ UNCHANGED <<host, hist>>
      BY <1>1 DEF N!Dispatch
    <3>2. got'.section = Place /\ "errors" \in DOMAIN got'
      BY <1>n, <2>4 DEF NSections, NReports
    <3> HIDE DEF Place
    <3>3. NCollected' = {}
      <4>1. cmd' # "overview"
        BY <1>c, <2>4, Zenon
      <4>2. got'.section # 4
        BY <3>0, <3>2
      <4> QED
        BY <4>1, <4>2 DEF NCollected
    <3> QED
      BY <1>c, <1>q, <2>4, <3>0, <3>1, <3>2, <3>3 DEF NReports, N!NothingLost, N!PassIsEarned
  <2> QED
    BY <1>1, <2>1, <2>2, <2>3, <2>4, Zenon DEF N!Dispatch
<1>2. CASE N!collectSection
  <2>s. PICK s : s = N!Sections[got.section]
    OBVIOUS
  <2> DEFINE from == N!Source(s)
  <2>0. cmd # "tls" /\ pc = "collect" /\ UNCHANGED <<host, hist>> /\ got.section \in 1..3
    <3>1. pc = "collect" /\ got.section <= Len(N!Sections) /\ UNCHANGED <<host, hist>>
      BY <1>2 DEF N!collectSection
    <3>2. cmd # "tls"
      BY <3>1 DEF NReports
    <3> QED
      BY <1>n, <3>1, <3>2, NNames DEF NSections
  <2>1. CASE N!contextFailure(s)
    BY <1>2, <1>a, <1>x, <2>s, <2>0, <2>1 DEF N!collectSection
  <2>2. CASE ~ N!contextFailure(s)
    <3> DEFINE next == IF cmd = "overview" THEN got.section + 1 ELSE Len(N!Sections) + 1
               checks == got.checks \cup {N!Chk(s, IF from # {} THEN "pass" ELSE "skipped")}
    <3>1. /\ got' = [got EXCEPT !.section = next,
                       !.from = IF from # {} THEN [x \in DOMAIN got.from \cup {s} |-> IF x = s THEN from ELSE got.from[x]]
                                ELSE got.from,
                       !.checks = checks,
                       !.errors = IF from # {} THEN got.errors ELSE got.errors \cup {s}]
          /\ pc' = "collect" /\ UNCHANGED reply
      BY <1>2, <2>2, <2>s DEF N!collectSection
    <3>2. next = IF cmd = "overview" THEN got.section + 1 ELSE 4
      BY NNames
    <3> HIDE DEF next, checks, from
    <3>3. /\ got'.section = next /\ "errors" \in DOMAIN got'
          /\ got'.from = IF from # {} THEN [x \in DOMAIN got.from \cup {s} |-> IF x = s THEN from ELSE got.from[x]]
                         ELSE got.from
          /\ got'.errors = IF from # {} THEN got.errors ELSE got.errors \cup {s}
      BY <1>n, <2>0, <3>1 DEF NSections, NReports
    <3>4. NCollected' = NCollected \cup {s}
      <4>1. CASE cmd = "overview"
        <5>1. 1..(got.section + 1 - 1) = (1..(got.section - 1)) \cup {got.section}
          BY <2>0
        <5>2. got'.section - 1 = got.section + 1 - 1
          BY <2>0, <3>2, <3>3, <4>1
        <5>3. NCollected' = {x \in SectionNames : \E i \in 1..(got.section + 1 - 1) : x = N!Sections[i]}
          BY <1>c, <1>s, <4>1, <5>2 DEF NCollected
        <5>4. s \in SectionNames
          BY <2>s, <2>0, NNames
        <5> QED
          BY <2>s, <4>1, <5>1, <5>3, <5>4 DEF NCollected
      <4>2. CASE cmd # "overview"
        <5>1. s = cmd /\ got.section # 4
          BY <2>s, <2>0, <4>2 DEF NReports
        <5> QED
          BY <1>c, <1>n, <1>s, <2>0, <3>2, <3>3, <4>2, <5>1 DEF NCollected
      <4> QED
        BY <4>1, <4>2
    <3>5. s \in SectionNames
      BY <2>s, <2>0, NNames
    <3>6. from = {} => \A f \in N!FilesOf[s] : hist.always[f] # "rows"
      <4> SUFFICES ASSUME from = {}, NEW f \in N!FilesOf[s] PROVE hist.always[f] # "rows"
        OBVIOUS
      <4>1. f \in N!KernelFiles
        BY <3>5, NFiles
      <4> DEFINE files == N!Usable(N!FilesOf[s])
      <4>2. files # {} => from = files
        BY Zenon DEF N!Source, from
      <4>3. files = {}
        BY <4>2
      <4>4. host.files[f] # "rows"
        BY <4>3 DEF N!Usable
      <4> QED
        BY <2>0, <4>1, <4>4 DEF NReports
    <3>7. NSourced(s)'
      BY <1>s, <2>0, <3>3, <3>6 DEF NSourced
    <3>8. \A x \in NCollected : NSourced(x)'
      <4> SUFFICES ASSUME NEW x \in NCollected, x # s PROVE NSourced(x)'
        BY <3>7, Zenon
      <4>1. NSourced(x)
        BY <2>0 DEF NReports
      <4> QED
        BY <2>0, <3>3, <4>1 DEF NSourced
    <3>9. \A x \in NCollected' : NSourced(x)'
      BY <3>4, <3>7, <3>8, Zenon
    <3>10. \A f \in N!KernelFiles : hist.always[f] = "rows" => host.files[f] = "rows"
      BY <2>0 DEF NReports
    <3>11. cmd # "overview" => got'.section = 4
      BY <3>2, <3>3
    <3> QED
      BY <1>c, <1>q, <2>0, <3>1, <3>3, <3>9, <3>10, <3>11 DEF NReports, N!NothingLost, N!PassIsEarned
  <2> QED
    BY <2>1, <2>2
<1>3. CASE N!Report
  <2>0. /\ pc = "collect" /\ pc' = "done" /\ UNCHANGED <<host, hist, got>>
        /\ got.section > Len(N!Sections)
        /\ \/ reply' = N!Failure("dependency")
           \/ \E checks : reply' = N!Built(checks, got.from, got.errors)
    BY <1>3 DEF N!Report
  <2>1. cmd # "tls" /\ got.section = 4
    <3>1. cmd # "tls"
      BY <2>0 DEF NReports
    <3>2. got.section \in 1..4
      BY <1>n, <2>0, <3>1 DEF NSections
    <3> QED
      BY <2>0, <3>1, <3>2, NNames
  <2>2. CASE reply' = N!Failure("dependency")
    BY <1>a, <1>x, <2>0, <2>2
  <2>3. CASE \E checks : reply' = N!Built(checks, got.from, got.errors)
    <3>1. reply'.exit = "ok" /\ reply'.data = got.from /\ reply'.errors = got.errors
      BY <2>3, NBuilds
    <3>2. \A s \in NCollected : NSourced(s)
      BY <2>0, <2>1 DEF NReports
    <3>3. NCollected = IF cmd = "overview" THEN N!Range(N!Sections) ELSE {cmd}
      <4>1. got.section - 1 = 3
        BY <2>1
      <4>2. CASE cmd = "overview"
        BY <4>1, <4>2, NNames DEF NCollected, N!Range
      <4>3. CASE cmd # "overview"
        BY <1>n, <2>1, <4>3 DEF NCollected
      <4> QED
        BY <4>2, <4>3
    <3>4. N!NothingLost'
      BY <1>c, <2>0, <3>1, <3>2, <3>3 DEF N!NothingLost, NSourced
    <3>5. \A f \in N!KernelFiles : hist.always[f] = "rows" => host.files[f] = "rows"
      BY <2>1 DEF NReports
    <3> QED
      BY <1>c, <2>0, <2>1, <3>1, <3>4, <3>5 DEF NReports, N!PassIsEarned
  <2> QED
    BY <2>0, <2>2, <2>3
<1>4. CASE N!executeTLS
  <2> DEFINE parsed == N!parseCertificates(host.pem, host.trailing)
             checks == {N!Chk(i, IF parsed.certificates[i] = "valid" THEN "pass" ELSE "warning") : i \in DOMAIN parsed.certificates}
  <2>0. pc = "certificates" /\ pc' = "done" /\ UNCHANGED <<host, hist, got>>
    BY <1>4 DEF N!executeTLS
  <2>1. cmd = "tls"
    BY <1>n, <2>0 DEF NSections
  <2>2. CASE ~ parsed.ok
    BY <1>4, <1>a, <1>x, <2>0, <2>2 DEF N!executeTLS
  <2>3. CASE parsed.ok
    <3>1. reply' = N!Built(checks, parsed.certificates, {})
      BY <1>4, <2>3 DEF N!executeTLS
    <3>2. reply'.status = "pass" <=> \A c \in checks : c.status \in {"pass", "info"}
      BY <3>1, NBuilds
    <3>3. (\A c \in checks : c.status \in {"pass", "info"}) <=> \A i \in DOMAIN parsed.certificates : parsed.certificates[i] = "valid"
      <4> DEFINE c == parsed.certificates
      <4>1. checks = {N!Chk(i, IF c[i] = "valid" THEN "pass" ELSE "warning") : i \in DOMAIN c}
        OBVIOUS
      <4>2. \A i : N!Chk(i, IF c[i] = "valid" THEN "pass" ELSE "warning").status = IF c[i] = "valid" THEN "pass" ELSE "warning"
        BY DEF N!Chk
      <4> HIDE DEF checks, c, parsed
      <4>3. (\A x \in checks : x.status \in {"pass", "info"}) <=> \A i \in DOMAIN c : c[i] = "valid"
        BY <4>1, <4>2
      <4> QED
        BY <4>3 DEF c
    <3> HIDE DEF checks
    <3>4. /\ "private key" \notin N!Range(host.pem) /\ "broken" \notin N!Range(host.pem)
          /\ reply'.status = "pass" <=> {"expired", "early"} \cap N!Range(host.pem) = {}
      <4>1. /\ "private key" \notin N!Range(host.pem) /\ "broken" \notin N!Range(host.pem)
            /\ (\A i \in DOMAIN parsed.certificates : parsed.certificates[i] = "valid")
                 <=> {"expired", "early"} \cap N!Range(host.pem) = {}
        BY <2>3, NParsed
      <4> HIDE DEF parsed
      <4> QED
        BY <3>2, <3>3, <4>1
    <3> HIDE DEF parsed
    <3>5. N!PassIsEarned'
      BY <2>0, <3>4 DEF N!PassIsEarned
    <3> QED
      BY <1>c, <2>0, <2>1, <3>5 DEF NReports, N!NothingLost
  <2> QED
    BY <2>2, <2>3
<1>5. CASE N!Change
  <2>1. PICK f \in N!KernelFiles, v \in {"rows", "absent"} :
          /\ pc = "collect"
          /\ N!Changes([host EXCEPT !.files[f] = v], [always |-> [hist.always EXCEPT ![f] = "changed"]])
    BY <1>5 DEF N!Change
  <2>2. cmd # "tls" /\ UNCHANGED <<cmd, pc, got, reply>>
    BY <2>1 DEF NReports, N!Changes
  <2>3. /\ \A g \in N!KernelFiles : hist'.always[g] = IF g = f THEN "changed" ELSE hist.always[g]
        /\ \A g \in N!KernelFiles : host'.files[g] = IF g = f THEN v ELSE host.files[g]
    BY <1>n, <2>1, <2>2 DEF N!Changes, NSections
  <2>4. \A g \in N!KernelFiles : hist'.always[g] = "rows" => host'.files[g] = "rows"
    BY <2>2, <2>3 DEF NReports
  <2>5. NCollected' = NCollected
    BY <2>2 DEF NCollected
  <2>6. \A s \in NCollected : s \in SectionNames
    BY DEF NCollected
  <2>7. ASSUME NEW s \in NCollected PROVE NSourced(s)'
    <3>1. NSourced(s) /\ N!FilesOf[s] \subseteq N!KernelFiles
      BY <2>1, <2>2, <2>6, NFiles DEF NReports
    <3> QED
      BY <2>2, <2>3, <3>1 DEF NSourced
  <2> QED
    BY <1>q, <2>1, <2>2, <2>4, <2>5, <2>7 DEF NReports, N!NothingLost, N!PassIsEarned
<1>6. CASE N!Deadline
  <2>1. UNCHANGED <<cmd, host, hist, pc, got, reply>>
    BY <1>6 DEF N!Deadline
  <2> QED
    BY <2>1 DEF NReports, NCollected, NSourced, N!NothingLost, N!PassIsEarned
<1> QED
    BY <1>1, <1>2, <1>3, <1>4, <1>5, <1>6 DEF N!Next, N!Step

-----------------------------------------------------------------------------
(* Postgres.  Servers and configurations are still to be looked at, or reported. *)

\* What is said of a built answer.
LEMMA PgBuilds ==
    ASSUME NEW checks, NEW data, NEW errors
    PROVE  LET r == Pg!Built(checks, data, errors) IN
           /\ r.exit = "ok" /\ r.data = data
           /\ r.status = "pass" <=> errors = {} /\ \A c \in checks : c.status \in {"pass", "info"}
<1>1. Pg!classify(checks, errors) = "pass" <=> errors = {} /\ \A c \in checks : c.status \in {"pass", "info"}
    BY DEF Pg!classify
<1> QED
    BY <1>1 DEF Pg!Built, Pg!Build, Pg!Result

\* Each source was read as it is; a process that always was a server is found or still to be looked at.
PgSources ==
    /\ {"list", "unit", "packages", "at", "config"} \subseteq DOMAIN host
    /\ {"clusters", "unit", "packages", "todo", "found"} \subseteq DOMAIN got
    /\ host.unit \in Pg!Units
    /\ hist.always \subseteq Pids /\ \A p \in hist.always : host.at[p] = "postgres"
    /\ pc \in {"unit", "packages", "processes"} => got.clusters = Pg!Clusters(host.list).rows
    /\ pc \in {"packages", "processes"} => got.unit = host.unit
    /\ pc = "processes" =>
         got.packages = host.packages \ {"unread"} /\ hist.always \subseteq got.todo \cup got.found

\* Of the files that nobody moved, those that were looked at are plain files or absent.
PgLooked ==
    /\ Len(got.todo) \in 0..2 /\ \A j \in 1..Len(got.todo) : got.todo[j] = j + 2 - Len(got.todo)
    /\ ~ hist.moved => \A i \in 1..(2 - Len(got.todo)) : host.files[i].state \in {"absent", "regular"}

\* One more file was looked at.
LEMMA PgLookedMore ==
    ASSUME PgLooked, PgConfig, got.todo # <<>>, got'.todo = Tail(got.todo), UNCHANGED <<host, hist>>,
           host.files[Head(got.todo)].state \in {"absent", "regular"}
    PROVE  PgLooked'
<1> DEFINE todo == got.todo
           n == Len(todo)
<1>1. todo \in Seq(1..2) /\ n \in 0..2
    BY DEF PgLooked, PgConfig
<1>2. n \in 1..2 /\ Head(todo) = todo[1] /\ Len(Tail(todo)) = n - 1
      /\ \A j \in 1..(n - 1) : Tail(todo)[j] = todo[j + 1]
    BY <1>1
<1>3. ASSUME NEW j \in 1..n PROVE todo[j] = j + 2 - n
    BY DEF PgLooked
<1>4. ~ hist.moved => \A i \in 1..(2 - n) : host.files[i].state \in {"absent", "regular"}
    BY DEF PgLooked
<1>5. host.files[3 - n].state \in {"absent", "regular"}
  <2>0. 1 \in 1..n
    BY <1>2
  <2> HIDE DEF todo, n
  <2>1. todo[1] = 1 + 2 - n
    BY <1>3, <2>0
  <2>2. todo[1] = 3 - n
    BY <1>2, <2>1
  <2> QED
    BY <1>2, <2>2 DEF todo
<1> DEFINE m == Len(got'.todo)
<1>6. m = n - 1 /\ \A j \in 1..m : got'.todo[j] = j + 2 - m
  <2>1. m = n - 1 /\ got'.todo = Tail(todo)
    BY <1>2
  <2>2. ASSUME NEW j \in 1..m PROVE got'.todo[j] = j + 2 - m
    <3>1. j \in 1..(n - 1) /\ j + 1 \in 1..n
      BY <1>2, <2>1
    <3>2. Tail(todo)[j] = todo[j + 1]
      BY <1>2, <3>1
    <3>3. todo[j + 1] = (j + 1) + 2 - n
      BY <1>3, <3>1
    <3> HIDE DEF todo, n, m
    <3>4. (j + 1) + 2 - n = j + 2 - m
      BY <1>2, <2>1, <3>1
    <3> QED
      BY <2>1, <3>2, <3>3, <3>4
  <2> QED
    BY <2>1, <2>2
<1> HIDE DEF todo, n, m
<1>7. ~ hist.moved => \A i \in 1..(2 - m) : host.files[i].state \in {"absent", "regular"}
  <2>1. \A i \in 1..(2 - m) : i \in 1..(2 - n) \/ i = 3 - n
    BY <1>2, <1>6
  <2> QED
    BY <1>4, <1>5, <2>1
<1>8. m \in 0..2
    BY <1>2, <1>6
<1>9. ~ hist'.moved => \A i \in 1..(2 - m) : host'.files[i].state \in {"absent", "regular"}
    BY <1>7
<1> QED
    BY <1>6, <1>8, <1>9 DEF PgLooked, m

\* What was read so far, for each of the commands.
PgReports ==
    /\ cmd \in {"clusters", "status", "config"}
    /\ cmd = "clusters" => pc \in {"start", "list", "done"}
    /\ cmd = "status" => PgSources
    /\ cmd = "config" => PgLooked
    /\ reply.exit = "ok" \/ reply.status = "pass" => pc = "done"
    /\ Pg!NothingLost /\ Pg!PassIsEarned

\* It holds at the start.
LEMMA PgReportsInit == Pg!Init => PgReports
<1> SUFFICES ASSUME Pg!Init PROVE PgReports
    OBVIOUS
<1>0. /\ cmd \in {"clusters", "status", "config"} /\ pc = "start" /\ reply = Pg!NoReply
      /\ cmd = "config" => got.todo = <<1, 2>>
    BY DEF Pg!Init, Pg!Starts
<1>1. CASE cmd = "status"
  <2>1. /\ DOMAIN host = {"list", "unit", "packages", "at", "config"} /\ host.unit \in Pg!Units
        /\ hist.always = {p \in Pids : host.at[p] = "postgres"}
        /\ got = [clusters |-> {}, unit |-> "unread", packages |-> {}, todo |-> {}, found |-> {}]
    BY <1>1 DEF Pg!Init, Pg!Starts
  <2> QED
    BY <1>0, <1>1, <2>1 DEF PgReports, PgSources, Pg!NoReply, Pg!NothingLost, Pg!PassIsEarned
<1>2. CASE cmd # "status"
  <2>1. Len(<<1, 2>>) = 2 /\ \A j \in 1..2 : <<1, 2>>[j] = j + 2 - 2
    OBVIOUS
  <2>2. cmd = "config" => PgLooked
    <3>1. 1..(2 - 2) = {}
      OBVIOUS
    <3>2. cmd = "config" => Len(got.todo) = 2 /\ \A j \in 1..2 : got.todo[j] = j + 2 - 2
      BY <1>0, <2>1
    <3>3. ASSUME cmd = "config" PROVE ~ hist.moved => \A i \in 1..(2 - Len(got.todo)) : host.files[i].state \in {"absent", "regular"}
      <4>1. Len(got.todo) = 2
        BY <3>2, <3>3
      <4>2. 1..(2 - Len(got.todo)) = {}
        BY <3>1, <4>1
      <4> QED
        BY <4>2
    <3>4. ASSUME cmd = "config"
          PROVE  Len(got.todo) \in 0..2 /\ \A j \in 1..Len(got.todo) : got.todo[j] = j + 2 - Len(got.todo)
      <4> DEFINE n == Len(got.todo)
      <4>1. n = 2 /\ \A j \in 1..2 : got.todo[j] = j + 2 - 2
        BY <3>2, <3>4
      <4> HIDE DEF n
      <4>2. n \in 0..2 /\ \A j \in 1..n : got.todo[j] = j + 2 - n
        BY <4>1
      <4> QED
        BY <4>2 DEF n
    <3> QED
      BY <3>3, <3>4 DEF PgLooked
  <2> QED
    BY <1>0, <1>2, <2>2 DEF PgReports, Pg!NoReply, Pg!NothingLost, Pg!PassIsEarned
<1> QED
    BY <1>1, <1>2

\* Every step preserves it.
LEMMA PgReportsNext == PgInv /\ PgMasked /\ PgReports /\ Pg!Next => PgReports'
<1> SUFFICES ASSUME PgInv, PgMasked, PgReports, Pg!Next PROVE PgReports'
    OBVIOUS
<1> USE DEF Pg!Others, Pg!Answer, Pg!GoTo
<1>c. UNCHANGED cmd
    BY DEF Pg!Next, Pg!Step, Pg!Dispatch, Pg!executeClusters, Pg!StatusClusters, Pg!collectSystemdState,
           Pg!collectPackages, Pg!collectProcesses, Pg!executeStatus, Pg!boundedDirectories, Pg!FileExists,
           Pg!ReadFile, Pg!executeConfig, Pg!Change, Pg!Changes, Pg!Deadline, Pg!Timeout, Pg!Dependency
<1>s. cmd = "status" => PgSources /\ PgStatus
    BY DEF PgReports, PgInv
<1>k. cmd = "config" => PgLooked /\ PgConfig
    BY DEF PgReports, PgMasked
<1>f. \A code : code # "ok" => Pg!Failure(code).exit # "ok" /\ Pg!Failure(code).status # "pass"
    BY DEF Pg!Failure, Pg!NoReply
<1>a. CASE /\ UNCHANGED <<host, hist, got>> /\ pc' = "done" /\ reply'.exit # "ok" /\ reply'.status # "pass"
    BY <1>a, <1>c DEF PgReports, PgSources, PgLooked, Pg!NothingLost, Pg!PassIsEarned
<1>t. CASE (Pg!Timeout \/ Pg!Dependency) /\ UNCHANGED <<host, hist>>
    BY <1>a, <1>f, <1>t DEF Pg!Timeout, Pg!Dependency
<1>q. pc # "done" => reply.exit # "ok" /\ reply.status # "pass"
    BY DEF PgReports
<1>p. CASE /\ UNCHANGED reply /\ pc # "done" /\ pc' # "done" /\ cmd # "clusters"
           /\ (cmd = "status" => PgSources') /\ (cmd = "config" => PgLooked')
    BY <1>c, <1>p, <1>q DEF PgReports, Pg!NothingLost, Pg!PassIsEarned
<1>1. CASE Pg!Dispatch
  <2>0. pc = "start" /\ UNCHANGED <<host, hist, got>>
    BY <1>1 DEF Pg!Dispatch
  <2>1. CASE reply' = Pg!Failure("arguments") /\ pc' = "done"
    BY <1>a, <1>f, <2>0, <2>1
  <2>2. CASE pc' = [clusters |-> "list", status |-> "list", config |-> "tree"][cmd] /\ UNCHANGED reply
    <3>1. pc' = IF cmd = "config" THEN "tree" ELSE "list"
      BY <2>2 DEF PgReports
    <3> QED
      BY <1>c, <1>q, <2>0, <2>2, <3>1 DEF PgReports, PgSources, PgLooked, Pg!NothingLost, Pg!PassIsEarned
  <2> QED
    BY <1>1, <2>1, <2>2 DEF Pg!Dispatch
<1>2. CASE Pg!executeClusters
  <2>1. CASE Pg!Timeout \/ Pg!Dependency
    BY <1>2, <1>t, <2>1 DEF Pg!executeClusters
  <2>2. CASE /\ Pg!Clusters(host.list).ends = "ok" /\ UNCHANGED got
             /\ Pg!Answer(Pg!Built({Pg!Chk("clusters", "pass")}, Pg!Clusters(host.list).rows, {}))
    <3>1. reply'.data = {r \in host.list.rows : Pg!ValidRow(r)} /\ host.list.ends = "ok" /\ reply'.exit = "ok"
      BY <2>2, PgBuilds DEF Pg!Clusters
    <3>2. cmd = "clusters" /\ UNCHANGED <<host, hist>> /\ pc' = "done"
      BY <1>2, <2>2 DEF Pg!executeClusters
    <3>3. {r \in host.list.rows : Pg!ValidRow(r)}' = {r \in host.list.rows : Pg!ValidRow(r)}
      BY <3>2 DEF Pg!ValidRow
    <3> QED
      BY <1>c, <3>1, <3>2, <3>3 DEF PgReports, Pg!NothingLost, Pg!PassIsEarned
  <2> QED
    BY <1>2, <2>1, <2>2 DEF Pg!executeClusters
<1>3. CASE Pg!StatusClusters
  <2>1. CASE Pg!Timeout
    BY <1>3, <1>t, <2>1 DEF Pg!StatusClusters
  <2>2. CASE got' = [got EXCEPT !.clusters = Pg!Clusters(host.list).rows] /\ Pg!GoTo("unit")
    <3>1. cmd = "status" /\ pc = "list" /\ UNCHANGED <<host, hist>>
      BY <1>3 DEF Pg!StatusClusters
    <3>2. got'.clusters = Pg!Clusters(host.list).rows /\ DOMAIN got' = DOMAIN got
      BY <1>s, <2>2, <3>1 DEF PgSources
    <3>3. PgSources'
      BY <1>s, <2>2, <3>1, <3>2 DEF PgSources, Pg!Clusters, Pg!ValidRow
    <3> QED
      BY <1>p, <2>2, <3>1, <3>3
  <2> QED
    BY <1>3, <2>1, <2>2 DEF Pg!StatusClusters
<1>4. CASE Pg!collectSystemdState
  <2>1. CASE Pg!Timeout
    BY <1>4, <1>t, <2>1 DEF Pg!collectSystemdState
  <2>2. CASE got' = [got EXCEPT !.unit = host.unit] /\ Pg!GoTo("packages")
    <3>1. cmd = "status" /\ pc = "unit" /\ UNCHANGED <<host, hist>>
      BY <1>4, <1>k DEF Pg!collectSystemdState, PgConfig, PgReports
    <3>2. got'.unit = host.unit /\ got'.clusters = got.clusters /\ DOMAIN got' = DOMAIN got
      BY <1>s, <2>2, <3>1 DEF PgSources
    <3>3. PgSources'
      BY <1>s, <2>2, <3>1, <3>2 DEF PgSources, Pg!Clusters, Pg!ValidRow
    <3> QED
      BY <1>p, <2>2, <3>1, <3>3
  <2> QED
    BY <1>4, <2>1, <2>2 DEF Pg!collectSystemdState
<1>5. CASE Pg!collectPackages
  <2>1. cmd = "status" /\ pc = "packages" /\ UNCHANGED <<host, hist, reply>> /\ pc' = "processes"
    BY <1>5, <1>k DEF Pg!collectPackages, PgConfig, PgReports
  <2>2. /\ got'.packages = host.packages \ {"unread"} /\ got'.todo = {p \in Pids : host.at[p] # Pg!Nobody}
        /\ got'.unit = got.unit /\ got'.clusters = got.clusters /\ DOMAIN got' = DOMAIN got
    BY <1>s, <1>5, <2>1 DEF PgSources, Pg!collectPackages
  <2>3. hist.always \subseteq got'.todo
    BY <1>s, <2>1, <2>2 DEF PgSources, Pg!Nobody
  <2>4. PgSources'
    BY <1>s, <2>1, <2>2, <2>3 DEF PgSources, Pg!Clusters, Pg!ValidRow
  <2> QED
    BY <1>p, <2>1, <2>4
<1>6. CASE Pg!collectProcesses
  <2> DEFINE p == Pg!Min(got.todo)
  <2>1. cmd = "status" /\ pc = "processes" /\ UNCHANGED <<host, hist, reply>> /\ pc' = "processes"
    BY <1>6, <1>k DEF Pg!collectProcesses, PgConfig, PgReports
  <2>2. /\ got'.todo = got.todo \ {p} /\ got'.found = IF host.at[p] = "postgres" THEN got.found \cup {p} ELSE got.found
        /\ got'.packages = got.packages /\ got'.unit = got.unit /\ got'.clusters = got.clusters /\ DOMAIN got' = DOMAIN got
    BY <1>s, <1>6, <2>1 DEF PgSources, Pg!collectProcesses
  <2> HIDE DEF p
  <2>3. hist.always \subseteq got'.todo \cup got'.found
    BY <1>s, <2>1, <2>2 DEF PgSources
  <2>4. PgSources'
    BY <1>s, <2>1, <2>2, <2>3 DEF PgSources, Pg!Clusters, Pg!ValidRow
  <2> QED
    BY <1>p, <2>1, <2>4
<1>7. CASE Pg!executeStatus
  <2> DEFINE installed == Pg!Installed(got, host.config)
             status == CASE ~ installed -> "info"
                         [] installed /\ Pg!NotActive(got) -> "warning"
                         [] OTHER -> "pass"
  <2>1. /\ cmd = "status" /\ pc = "processes" /\ got.todo = {} /\ UNCHANGED <<host, hist, got>> /\ pc' = "done"
        /\ reply' = Pg!Built({Pg!Chk("status", status)}, [installed |-> installed, found |-> got.found], {})
    BY <1>7, <1>k DEF Pg!executeStatus, PgConfig, PgReports
  <2>2. reply'.data = [installed |-> installed, found |-> got.found]
    BY <2>1, PgBuilds
  <2>3. reply'.status = "pass" => status \in {"pass", "info"}
    <3> HIDE DEF status
    <3>1. Pg!Chk("status", status).status = status
      BY DEF Pg!Chk
    <3> QED
      BY <2>1, <3>1, PgBuilds
  <2>4. reply'.status = "pass" /\ installed => ~ Pg!NotActive(got)
    BY <2>3, Zenon
  <2>5. hist.always \subseteq got.found
    BY <1>s, <2>1 DEF PgSources
  <2>6. got.clusters = Pg!Clusters(host.list).rows /\ got.unit = host.unit /\ got.packages = host.packages \ {"unread"}
    BY <1>s, <2>1 DEF PgSources
  <2>7. hist.always # {} \/ host.packages = {"postgresql"} \/ host.config
              \/ host.list = Pg!Printed({"main"}) \/ host.unit = "loaded active" => installed
    <3>1. host.list = Pg!Printed({"main"}) => "main" \in got.clusters
      BY <2>6 DEF Pg!Printed, Pg!Clusters, Pg!ValidRow
    <3>2. host.packages = {"postgresql"} => "postgresql" \in got.packages
      BY <2>6
    <3>3. hist.always # {} => got.found # {}
      BY <2>5
    <3> QED
      BY <2>6, <3>1, <3>2, <3>3, Zenon DEF Pg!Installed
  <2>8. reply'.status = "pass" /\ installed => hist.ever # {} \/ host.unit \in {"loaded active", "unread"}
    <3>1. got.found \subseteq hist.ever /\ host.unit \in Pg!Units
      BY <1>s, <2>1 DEF PgStatus, PgSources
    <3> HIDE DEF installed
    <3> QED
      BY <2>4, <2>6, <3>1 DEF Pg!NotActive, Pg!Units
  <2>9. PgSources'
    BY <1>s, <2>1 DEF PgSources
  <2> HIDE DEF installed, status
  <2>10. Pg!NothingLost'
    <3>1. reply'.data.found = got.found /\ reply'.data.installed = installed
      BY <2>2
    <3>2. /\ UNCHANGED <<hist, host>> /\ cmd' = "status"
      BY <1>c, <2>1
    <3>3. Pg!Printed({"main"})' = Pg!Printed({"main"})
      BY DEF Pg!Printed
    <3> QED
      BY <2>5, <2>7, <3>1, <3>2, <3>3 DEF Pg!NothingLost
  <2>11. Pg!PassIsEarned'
    <3>1. reply'.data.installed = installed
      BY <2>2
    <3>2. /\ UNCHANGED <<hist, host>> /\ cmd' = "status"
      BY <1>c, <2>1
    <3> QED
      BY <2>8, <3>1, <3>2 DEF Pg!PassIsEarned
  <2> QED
    BY <1>c, <2>1, <2>9, <2>10, <2>11 DEF PgReports
<1>8. CASE Pg!boundedDirectories
  <2>1. CASE Pg!Timeout \/ Pg!Dependency
    BY <1>8, <1>t, <2>1 DEF Pg!boundedDirectories
  <2>2. CASE Pg!GoTo("exists") /\ UNCHANGED got
    <3>1. cmd = "config" /\ pc = "tree" /\ UNCHANGED <<host, hist>>
      BY <1>8, <1>s DEF Pg!boundedDirectories, PgStatus, PgReports
    <3> QED
      BY <1>k, <1>p, <2>2, <3>1 DEF PgLooked
  <2> QED
    BY <1>8, <2>1, <2>2 DEF Pg!boundedDirectories
<1>9. CASE Pg!FileExists
  <2>0. cmd = "config" /\ pc = "exists" /\ got.todo # <<>> /\ UNCHANGED <<host, hist>>
    BY <1>9, <1>s DEF Pg!FileExists, PgStatus, PgReports
  <2>1. CASE Pg!Timeout \/ Pg!Dependency
    BY <2>0, <1>t, <2>1
  <2>2. CASE host.files[Head(got.todo)].state = "absent" /\ got' = [got EXCEPT !.todo = Tail(@)] /\ Pg!GoTo("exists")
    <3>1. got'.todo = Tail(got.todo)
      BY <1>k, <2>0, <2>2 DEF PgConfig
    <3>4. PgLooked'
      BY <1>k, <2>0, <2>2, <3>1, PgLookedMore
    <3> QED
      BY <1>p, <2>0, <2>2, <3>4
  <2>3. CASE Pg!GoTo("read") /\ UNCHANGED got
    BY <1>k, <1>p, <2>0, <2>3 DEF PgLooked
  <2> QED
    BY <1>9, <2>1, <2>2, <2>3 DEF Pg!FileExists
<1>10. CASE Pg!ReadFile
  <2>0. cmd = "config" /\ pc = "read" /\ got.todo # <<>> /\ UNCHANGED <<host, hist>>
    BY <1>10, <1>s, <1>k DEF Pg!ReadFile, PgStatus, PgReports, PgConfig
  <2>1. CASE Pg!Dependency
    BY <2>0, <1>t, <2>1
  <2>2. CASE host.files[Head(got.todo)].state = "regular" /\ got'.todo = Tail(got.todo) /\ Pg!GoTo("exists")
    <3>4. PgLooked'
      BY <1>k, <2>0, <2>2, PgLookedMore
    <3> QED
      BY <1>p, <2>0, <2>2, <3>4
  <2>3. CASE host.files[Head(got.todo)].state # "regular"
    BY <1>10, <2>1, <2>3 DEF Pg!ReadFile
  <2>4. CASE host.files[Head(got.todo)].state = "regular"
    <3> DEFINE shown == got.shown \cup (IF Pg!Names[Head(got.todo)] = "postgresql.conf"
                                        THEN Pg!Settings(host.files[Head(got.todo)].lines) ELSE {})
    <3>1. got' = [todo |-> Tail(got.todo), present |-> TRUE, shown |-> shown] /\ Pg!GoTo("exists")
      BY <1>10, <2>4 DEF Pg!ReadFile
    <3> HIDE DEF shown
    <3>2. got'.todo = Tail(got.todo)
      BY <3>1
    <3> QED
      BY <2>2, <2>4, <3>1, <3>2
  <2> QED
    BY <2>3, <2>4
<1>11. CASE Pg!executeConfig
  <2>0. /\ cmd = "config" /\ pc = "exists" /\ got.todo = <<>> /\ UNCHANGED <<host, hist, got>> /\ pc' = "done"
        /\ \/ reply' = Pg!Failure("dependency")
           \/ reply' = Pg!Built({Pg!Chk("config", "pass")}, got.shown, {})
    BY <1>11, <1>s DEF Pg!executeConfig, PgStatus, PgReports
  <2>1. ~ hist.moved => \A i \in DOMAIN host.files : host.files[i].state \in {"absent", "regular"}
    <3>1. DOMAIN host.files = 1..2
      BY <1>k, <2>0 DEF PgConfig
    <3>2. Len(got.todo) = 0 /\ 2 - 0 = 2
      BY <2>0
    <3> QED
      BY <1>k, <2>0, <3>1, <3>2 DEF PgLooked
  <2>2. PgLooked'
    BY <1>k, <2>0 DEF PgLooked
  <2> QED
    BY <1>c, <2>0, <2>1, <2>2 DEF PgReports, Pg!NothingLost, Pg!PassIsEarned
<1>12. CASE Pg!Change
  <2>1. CASE \E p \in Pids, v \in {Pg!Nobody, "postgres"} :
               /\ cmd = "status" /\ pc = "processes" /\ v # host.at[p]
               /\ Pg!Changes([host EXCEPT !.at[p] = v],
                             [always |-> hist.always \ {p}, ever |-> IF v = Pg!Nobody THEN hist.ever ELSE hist.ever \cup {p}])
    <3>1. PICK p \in Pids, v \in {Pg!Nobody, "postgres"} :
               /\ cmd = "status" /\ pc = "processes"
               /\ Pg!Changes([host EXCEPT !.at[p] = v],
                             [always |-> hist.always \ {p}, ever |-> IF v = Pg!Nobody THEN hist.ever ELSE hist.ever \cup {p}])
      BY <2>1
    <3>2. /\ hist'.always = hist.always \ {p} /\ UNCHANGED <<pc, got, reply>>
          /\ host'.list = host.list /\ host'.unit = host.unit /\ host'.packages = host.packages
          /\ DOMAIN host' = DOMAIN host /\ \A x \in Pids \ {p} : host'.at[x] = host.at[x]
      BY <1>s, <3>1 DEF Pg!Changes, PgSources
    <3>3. PgSources'
      BY <1>s, <3>1, <3>2 DEF PgSources, Pg!Clusters, Pg!ValidRow
    <3> QED
      BY <1>p, <3>1, <3>2, <3>3
  <2>2. CASE \E i \in 1..2, f \in {Pg!Absent, Pg!File("regular", Pg!Line), Pg!File("link", {})} :
               /\ cmd = "config" /\ pc \in {"exists", "read"} /\ f # host.files[i]
               /\ Pg!Changes([host EXCEPT !.files[i] = f], [moved |-> TRUE])
    <3>1. cmd = "config" /\ pc \in {"exists", "read"} /\ hist'.moved /\ UNCHANGED <<pc, got, reply>>
      BY <2>2 DEF Pg!Changes
    <3>2. PgLooked'
      BY <1>k, <3>1 DEF PgLooked
    <3> QED
      BY <1>p, <3>1, <3>2
  <2> QED
    BY <1>12, <2>1, <2>2 DEF Pg!Change
<1>13. CASE Pg!Deadline
  <2>1. UNCHANGED <<cmd, host, hist, pc, got, reply>>
    BY <1>13 DEF Pg!Deadline
  <2> QED
    BY <2>1 DEF PgReports, PgSources, PgLooked, Pg!NothingLost, Pg!PassIsEarned
<1> QED
    BY <1>1, <1>2, <1>3, <1>4, <1>5, <1>6, <1>7, <1>8, <1>9, <1>10, <1>11, <1>12, <1>13 DEF Pg!Next, Pg!Step

-----------------------------------------------------------------------------
(* Runbook.  A document that is there all the time is still to be loaded, or is loaded. *)

\* A document that is there all the time is still to be loaded, or is loaded.
RListed == \A f \in R!FileNames :
             hist.always[f] # R!Nothing /\ R!Candidate(f) => f \in got.entries \/ hist.always[f] \in got.documents

\* What was there all the time is there now, and nothing of it is passed over.
RReports ==
    /\ "files" \in DOMAIN host /\ "dir" \in DOMAIN host /\ "always" \in DOMAIN hist
    /\ DOMAIN hist.always = R!FileNames /\ DOMAIN host.files = R!FileNames
    /\ \A f \in R!FileNames : hist.always[f] = R!Nothing \/ hist.always[f] = host.files[f]
    /\ pc = "load" => RListed
    /\ pc = "report" => host.dir = "absent"
    /\ reply.exit = "ok" => pc = "done"
    /\ R!NothingLost

\* It holds at the start.
LEMMA RReportsInit == R!Init => RReports
<1> SUFFICES ASSUME R!Init PROVE RReports
    OBVIOUS
<1>1. host \in R!Hosts /\ hist = [always |-> host.files] /\ pc = "start" /\ reply = R!NoReply
    BY DEF R!Init, R!Starts
<1>2. "files" \in DOMAIN host /\ "dir" \in DOMAIN host /\ DOMAIN host.files = R!FileNames
    BY <1>1 DEF R!Hosts
<1> QED
    BY <1>1, <1>2 DEF RReports, R!NothingLost, R!Whole, R!NoReply

\* Every step preserves it.
LEMMA RReportsNext == RInv /\ RReports /\ R!Next => RReports'
<1> SUFFICES ASSUME RInv, RReports, R!Next PROVE RReports'
    OBVIOUS
<1> USE DEF R!Others, R!Answer, R!GoTo
<1>c. cmd' = cmd
    BY DEF R!Next, R!Step, R!Dispatch, R!openRunbookDirectory, R!loadDocument, R!Report, R!Change, R!Changes, R!Deadline
<1>f. \A code : code # "ok" => R!Failure(code).exit # "ok"
    BY RFailure
<1>q. pc # "done" => reply.exit # "ok"
    BY DEF RReports
<1>a. CASE UNCHANGED <<host, hist, got>> /\ pc' = "done" /\ reply'.exit # "ok"
    BY <1>a DEF RReports, R!NothingLost, R!Whole
<1>g. R!configurationFailure => pc' = "done" /\ reply'.exit # "ok"
    BY <1>f DEF R!configurationFailure
<1>1. CASE R!Dispatch
  <2>1. CASE R!Answer(R!Failure("arguments"))
    BY <1>1, <1>a, <1>f, <2>1 DEF R!Dispatch
  <2>2. CASE R!GoTo("open")
    BY <1>1, <1>c, <1>q, <2>2 DEF R!Dispatch, RReports, R!NothingLost, R!Whole
  <2> QED
    BY <1>1, <2>1, <2>2 DEF R!Dispatch
<1>2. CASE R!openRunbookDirectory
  <2>1. CASE R!configurationFailure /\ UNCHANGED got
    BY <1>2, <1>a, <1>g, <2>1 DEF R!openRunbookDirectory
  <2>2. CASE host.dir = "absent" /\ R!GoTo("report") /\ UNCHANGED got
    BY <1>2, <1>c, <1>q, <2>2 DEF R!openRunbookDirectory, RReports, R!NothingLost, R!Whole
  <2>3. CASE got' = [got EXCEPT !.entries = {f \in R!FileNames : host.files[f] # R!Nothing}] /\ R!GoTo("load")
    <3>1. got'.entries = {f \in R!FileNames : host.files[f] # R!Nothing}
      BY <2>3 DEF RInv
    <3>2. RListed'
      BY <1>2, <3>1 DEF R!openRunbookDirectory, RReports, RListed
    <3> QED
      BY <1>2, <1>c, <1>q, <2>3, <3>2 DEF R!openRunbookDirectory, RReports, R!NothingLost, R!Whole
  <2> QED
    BY <1>2, <2>1, <2>2, <2>3 DEF R!openRunbookDirectory
<1>3. CASE R!loadDocument
  <2> DEFINE f == R!NextFile
             d == host.files[f]
             fails == ~ R!Live \/ (R!Candidate(f) /\ R!Fails(f, d))
  <2>1. CASE fails
    BY <1>3, <1>a, <1>g, <2>1 DEF R!loadDocument
  <2>2. CASE ~ fails
    <3>1. /\ got'.entries = got.entries \ {f}
          /\ got'.documents = IF R!Candidate(f) /\ d # R!Nothing THEN got.documents \cup {d} ELSE got.documents
      BY <1>3, <2>2 DEF R!loadDocument
    <3>2. pc = "load" /\ pc' = "load" /\ UNCHANGED <<host, hist, reply>>
      BY <1>3, <2>2 DEF R!loadDocument
    <3> HIDE DEF f
    <3>3. RListed'
      <4> SUFFICES ASSUME NEW g \in R!FileNames, hist.always[g] # R!Nothing, R!Candidate(g)
                   PROVE  g \in got'.entries \/ hist.always[g] \in got'.documents
        BY <3>2 DEF RListed
      <4>1. hist.always[g] = host.files[g] /\ (g \in got.entries \/ hist.always[g] \in got.documents)
        BY <3>2 DEF RReports, RListed
      <4> QED
        BY <3>1, <4>1
    <3> QED
      BY <1>c, <1>q, <3>2, <3>3 DEF RReports, R!NothingLost, R!Whole
  <2> QED
    BY <2>1, <2>2
<1>4. CASE R!Report
  <2>1. CASE R!Answer(R!Failure("dependency"))
    BY <1>4, <1>a, <1>f, <2>1 DEF R!Report
  <2>2. CASE R!Answer(R!Built({}, R!Chosen, {}))
    <3>1. reply'.data = R!Chosen /\ pc' = "done" /\ UNCHANGED <<host, hist, got>>
      BY <1>4, <2>2, RBuilt DEF R!Report
    <3>2. cmd = "list" /\ host.dir = "trusted" => RListed /\ got.entries = {} /\ reply'.data = got.documents
      BY <1>4, <3>1 DEF R!Report, RReports, R!Chosen
    <3> QED
      BY <1>c, <3>1, <3>2 DEF RReports, R!NothingLost, R!Whole, RListed
  <2> QED
    BY <1>4, <2>1, <2>2 DEF R!Report
<1>5. CASE R!Change
  <2>1. PICK f \in R!FileNames, d \in {R!Nothing, R!Plain("alpha"), [name |-> "beta", fault |-> "text", size |-> 1]} :
          /\ pc = "load" /\ d # host.files[f]
          /\ R!Changes([host EXCEPT !.files[f] = d], [hist EXCEPT !.always[f] = R!Nothing])
    BY <1>5 DEF R!Change
  <2>2. /\ UNCHANGED <<pc, got, reply>> /\ pc = "load"
        /\ DOMAIN host' = DOMAIN host /\ DOMAIN hist' = DOMAIN hist
        /\ DOMAIN host'.files = R!FileNames /\ DOMAIN hist'.always = R!FileNames
        /\ \A g \in R!FileNames : /\ host'.files[g] = IF g = f THEN d ELSE host.files[g]
                                  /\ hist'.always[g] = IF g = f THEN R!Nothing ELSE hist.always[g]
    BY <2>1 DEF R!Changes, RReports
  <2>3. RListed'
    BY <2>2 DEF RReports, RListed
  <2> QED
    BY <1>q, <2>2, <2>3 DEF RReports, R!NothingLost, R!Whole
<1>6. CASE R!Deadline
  <2>1. UNCHANGED <<host, hist, pc, got, reply>>
    BY <1>6 DEF R!Deadline
  <2> QED
    BY <1>c, <2>1 DEF RReports, RListed, R!NothingLost, R!Whole
<1> QED
    BY <1>1, <1>2, <1>3, <1>4, <1>5, <1>6 DEF R!Next, R!Step

-----------------------------------------------------------------------------
(* All of them: what is lost, and what passes. *)

\* The invariants of the plugins, each of its own runs.
RepliesReport ==
    /\ Is("apt")           => AReports
    /\ Is("backup")        => BkReports
    /\ Is("baseline")      => BlReports
    /\ Is("docker")        => DReports
    /\ Is("file")          => FReports
    /\ Is("gitlab-runner") => GReports
    /\ Is("incident")      => IReports
    /\ Is("java")          => JReports
    /\ Is("kafka")         => KaReports
    /\ Is("kubernetes")    => KuReports
    /\ Is("monitoring")    => MReports
    /\ Is("network")       => NReports
    /\ Is("postgres")      => PgReports
    /\ Is("runbook")       => RReports
    /\ Is("security")      => SeReports
    /\ Is("service")       => SvReports
    /\ Is("storage")       => StReports
    /\ Is("system")        => SyReports

\* They hold when a plugin starts.
LEMMA RepliesReportInit == Init => RepliesReport
BY AReportsInit, BkReportsInit, BlReportsInit, DReportsInit, FReportsInit, GReportsInit,
   IReportsInit, JReportsInit, KaReportsInit, KuReportsInit, MReportsInit, NReportsInit,
   PgReportsInit, RReportsInit, SeReportsInit, SvReportsInit, StReportsInit, SyReportsInit
   DEF Init, Is, RepliesReport

\* Every step of a plugin preserves its own, with what is known of the plugin already.
LEMMA RepliesReportNext ==
    CollectorsInv /\ RepliesMasked /\ RepliesWeighed /\ RepliesReport /\ Next => RepliesReport'
<1> SUFFICES ASSUME CollectorsInv, RepliesMasked, RepliesWeighed, RepliesReport, Next PROVE RepliesReport'
    OBVIOUS
<1>u. \A p : Is(p)' = Is(p)
    BY DEF Next, Is
<1>1. Is("apt") => AReports'
    BY AReportsNext DEF RepliesReport, Next, Is
<1>2. Is("backup") => BkReports'
    BY BkReportsNext DEF CollectorsInv, RepliesReport, Next, Is
<1>3. Is("baseline") => BlReports'
    BY BlReportsNext DEF RepliesWeighed, RepliesReport, Next, Is
<1>4. Is("docker") => DReports'
    BY DReportsNext DEF CollectorsInv, RepliesReport, Next, Is
<1>5. Is("file") => FReports'
    BY FReportsNext DEF CollectorsInv, RepliesReport, Next, Is
<1>6. Is("gitlab-runner") => GReports'
    BY GReportsNext DEF CollectorsInv, RepliesReport, Next, Is
<1>7. Is("incident") => IReports'
    BY IReportsNext DEF RepliesReport, Next, Is
<1>8. Is("java") => JReports'
    BY JReportsNext DEF CollectorsInv, RepliesReport, Next, Is
<1>9. Is("kafka") => KaReports'
    BY KaReportsNext DEF CollectorsInv, RepliesReport, Next, Is
<1>10. Is("kubernetes") => KuReports'
    BY KuReportsNext DEF CollectorsInv, RepliesReport, Next, Is
<1>11. Is("monitoring") => MReports'
    BY MReportsNext DEF CollectorsInv, RepliesReport, Next, Is
<1>12. Is("network") => NReports'
    BY NReportsNext DEF CollectorsInv, RepliesReport, Next, Is
<1>13. Is("postgres") => PgReports'
    BY PgReportsNext DEF CollectorsInv, RepliesMasked, RepliesReport, Next, Is
<1>14. Is("runbook") => RReports'
    BY RReportsNext DEF CollectorsInv, RepliesReport, Next, Is
<1>15. Is("security") => SeReports'
    BY SeReportsNext DEF CollectorsInv, RepliesWeighed, RepliesReport, Next, Is
<1>16. Is("service") => SvReports'
    BY SvReportsNext DEF RepliesReport, Next, Is
<1>17. Is("storage") => StReports'
    BY StReportsNext DEF RepliesReport, Next, Is
<1>18. Is("system") => SyReports'
    BY SyReportsNext DEF RepliesReport, Next, Is
<1> QED
    BY <1>u, <1>1, <1>2, <1>3, <1>4, <1>5, <1>6, <1>7, <1>8, <1>9, <1>10, <1>11, <1>12, <1>13,
       <1>14, <1>15, <1>16, <1>17, <1>18
       DEF RepliesReport, Is

\* They are about the state alone.
LEMMA RepliesReportStutters == RepliesReport /\ UNCHANGED <<vars, plugin>> => RepliesReport'
<1> SUFFICES ASSUME RepliesReport, UNCHANGED <<vars, plugin>> PROVE RepliesReport'
    OBVIOUS
<1>u. UNCHANGED <<cmd, ctx, host, hist, changes, pc, got, reply, plugin>>
    BY DEF vars
<1>1. AReports' = AReports
    BY <1>u DEF AReports, A!NothingLost, A!PassIsEarned, ASources, AStatus, ARead
<1>2. BkReports' = BkReports
    BY <1>u DEF BkReports, BkLogs, BkRead, BkSaid, BkUnits, BkCounted, BkBroken, BkFault, BkLeft,
       BkTold, Bk!NothingLost, Bk!PassIsEarned
<1>3. BlReports' = BlReports
    BY <1>u DEF BlReports, Bl!NothingLost, Bl!PassIsEarned, BlCovered, BlRight, Bl!Wanted, BlHolds
<1>4. DReports' = DReports
    BY <1>u DEF DReports, D!NothingLost, D!PassIsEarned, DShown
<1>5. FReports' = FReports
    BY <1>u DEF FReports, F!PassIsEarned
<1>6. GReports' = GReports
    BY <1>u DEF GReports, GStatusReports
<1>7. IReports' = IReports
    BY <1>u DEF IReports, I!NothingLost, I!PassIsEarned, IFails, IMade
<1>8. JReports' = JReports
    BY <1>u DEF JReports, J!NothingLost, J!PassIsEarned, J!Pid, JListed
<1>9. KaReports' = KaReports
    BY <1>u DEF KaReports, KaConfigReports, KaStatusReports, KaStorageReports
<1>10. KuReports' = KuReports
    BY <1>u DEF KuReports, KuContextsReports, KuManifestsReports, KuStatusReports
<1>11. MReports' = MReports
    BY <1>u DEF MReports, M!NothingLost, M!PassIsEarned, MCovered, MSeen, MTold, MWaits
<1>12. NReports' = NReports
    BY <1>u DEF NReports, N!NothingLost, N!PassIsEarned, NCollected, NSourced
<1>13. PgReports' = PgReports
    BY <1>u DEF PgReports, Pg!NothingLost, Pg!PassIsEarned, PgLooked, PgSources
<1>14. RReports' = RReports
    BY <1>u DEF RReports, R!NothingLost, RListed, R!Whole
<1>15. SeReports' = SeReports
    BY <1>u, SeMissingStill DEF SeReports, Se!NothingLost, Se!PassIsEarned, SeAccounts, SeDaemon, SeFiles,
       SeNft, SeUfw, SeRows
<1>16. SvReports' = SvReports
    BY <1>u DEF SvReports, Sv!PassIsEarned
<1>17. StReports' = StReports
    BY <1>u DEF StReports, St!NothingLost, StAsks
<1>18. SyReports' = SyReports
    BY <1>u DEF SyReports, Sy!NothingLost, Sy!PassIsEarned, SyChecked, Sy!memoryCheck, Sy!osCheck,
       Sy!timeCheck
<1> QED
    BY <1>u, <1>1, <1>2, <1>3, <1>4, <1>5, <1>6, <1>7, <1>8, <1>9, <1>10, <1>11, <1>12, <1>13,
       <1>14, <1>15, <1>16, <1>17, <1>18
       DEF RepliesReport, Is

\* What is promised follows from them.
LEMMA RepliesReportSafe == RepliesReport /\ CollectorsInv => NothingLost /\ PassIsEarned
<1> SUFFICES ASSUME RepliesReport, CollectorsInv PROVE NothingLost /\ PassIsEarned
    OBVIOUS
<1>1. Is("apt") => A!NothingLost /\ A!PassIsEarned
    BY DEF RepliesReport, AReports
<1>2. Is("backup") => Bk!NothingLost /\ Bk!PassIsEarned
    BY BkReportsSafe DEF RepliesReport
<1>3. Is("baseline") => Bl!NothingLost /\ Bl!PassIsEarned
    BY DEF RepliesReport, BlReports, Bl!NothingLost, Bl!PassIsEarned
<1>4. Is("docker") => D!NothingLost /\ D!PassIsEarned
    BY DEF RepliesReport, DReports
<1>5. Is("file") => F!PassIsEarned
    BY DEF RepliesReport, FReports
<1>6. Is("gitlab-runner") => G!NothingLost /\ G!PassIsEarned
    BY GReportsSafe DEF RepliesReport
<1>7. Is("incident") => I!NothingLost /\ I!PassIsEarned
    BY DEF RepliesReport, IReports
<1>8. Is("java") => J!NothingLost /\ J!PassIsEarned
    BY DEF RepliesReport, JReports
<1>9. Is("kafka") => Ka!NothingLost /\ Ka!PassIsEarned
    BY KaReportsSafe DEF RepliesReport, CollectorsInv
<1>10. Is("kubernetes") => Ku!NothingLost /\ Ku!PassIsEarned
    BY KuReportsSafe DEF RepliesReport
<1>11. Is("monitoring") => M!NothingLost /\ M!PassIsEarned
    BY DEF RepliesReport, MReports
<1>12. Is("network") => N!NothingLost /\ N!PassIsEarned
    BY DEF RepliesReport, NReports
<1>13. Is("postgres") => Pg!NothingLost /\ Pg!PassIsEarned
    BY DEF RepliesReport, PgReports
<1>14. Is("runbook") => R!NothingLost
    BY DEF RepliesReport, RReports
<1>15. Is("security") => Se!NothingLost /\ Se!PassIsEarned
    BY DEF RepliesReport, SeReports
<1>16. Is("service") => Sv!PassIsEarned
    BY DEF RepliesReport, SvReports
<1>17. Is("storage") => St!NothingLost
    BY DEF RepliesReport, StReports
<1>18. Is("system") => Sy!NothingLost /\ Sy!PassIsEarned
    BY DEF RepliesReport, SyReports
<1> QED
    BY <1>1, <1>2, <1>3, <1>4, <1>5, <1>6, <1>7, <1>8, <1>9, <1>10, <1>11, <1>12, <1>13, <1>14,
       <1>15, <1>16, <1>17, <1>18 DEF NothingLost, PassIsEarned

\* They hold throughout every run.
LEMMA RepliesReportInvariant == Spec => []RepliesReport
<1>1. Init => RepliesMasked /\ RepliesWeighed /\ RepliesReport
    BY RepliesMaskedInit, RepliesWeighedInit, RepliesReportInit
<1>2. /\ CollectorsInv /\ RepliesMasked /\ RepliesWeighed /\ RepliesReport
      /\ [Next]_<<vars, plugin>>
      => (RepliesMasked /\ RepliesWeighed /\ RepliesReport)'
  <2>1. CASE Next
    BY <2>1, RepliesMaskedNext, RepliesWeighedNext, RepliesReportNext
  <2>2. CASE UNCHANGED <<vars, plugin>>
    BY <2>2, RepliesMaskedStutters, RepliesWeighedStutters, RepliesReportStutters
  <2> QED
    BY <2>1, <2>2
<1>3. Spec => []CollectorsInv
    BY CollectorsInvariant
<1> QED
    BY <1>1, <1>2, <1>3, PTL DEF Spec

\* What is there all the time, and can be read, is in the answer, whatever
\* others start, stop, write and remove meanwhile, and however often.  Of what
\* cannot be read it says what NothingLost says of each plugin: an error tells
\* of it, except of the sources that Collectors.NothingLost names, which the
\* programs pass over.
THEOREM NothingIsLost == Spec => []NothingLost
<1>1. RepliesReport /\ CollectorsInv => NothingLost
    BY RepliesReportSafe
<1>2. Spec => []RepliesReport
    BY RepliesReportInvariant
<1>3. Spec => []CollectorsInv
    BY CollectorsInvariant
<1> QED
    BY <1>1, <1>2, <1>3, PTL

\* No answer passes on what was not looked at: a pass means that every part
\* that was asked for could be read, and that what was read of it is as it
\* should be, whatever of the host changes before and after.
THEOREM PassesAreEarned == Spec => []PassIsEarned
<1>1. RepliesReport /\ CollectorsInv => PassIsEarned
    BY RepliesReportSafe
<1>2. Spec => []RepliesReport
    BY RepliesReportInvariant
<1>3. Spec => []CollectorsInv
    BY CollectorsInvariant
<1> QED
    BY <1>1, <1>2, <1>3, PTL
=============================================================================
