--------------------------------- MODULE Apt ---------------------------------
(***************************************************************************)
(* The apt plugin: `status` counts the records of dpkg and its updates     *)
(* that are not written back yet, `updates` simulates an upgrade,          *)
(* `sources` reads the sources and `history` the log.                      *)
(*                                                                         *)
(* A file is "absent", "unread" (a link, too large, not readable) or has   *)
(* what is in it; several files are a sequence, in the order of names.     *)
(***************************************************************************)
EXTENDS Collector, FiniteSetsExt

MaxFiles == 2      \* sourceFileCount, and the 1024 of dpkg's updates
MaxOutput == 2     \* lines of a simulation; stands for 1 MiB

\* installed and other are the packages of the database; updates are the
\* records of dpkg that it has not merged into it.
Databases == {"absent", "unread", "installed", "other"}
UpdateDirs == {"absent", "unread", "read"}

File(state, kind, lines) == [state |-> state, kind |-> kind, lines |-> lines]
Absent == File("absent", "list", <<>>)
Unread == File("unread", "list", <<>>)
\* An entry of a source file: a repository, with or without a password in its
\* address, or something that is none.
Entries == {"plain", "password", "no entry", "invalid"}
Sources == {Absent, Unread} \cup {File("read", k, l) : k \in {"list", "sources"}, l \in UNION {[1..n -> Entries] : n \in 0..2}}
Ignored == {File("link", "list", <<"plain">>), File("read", "other", <<"plain">>)}
Hosts ==
  {[classic |-> c, directory |-> d, files |-> <<f>>] :
     c \in {Absent, Unread, File("read", "list", <<"password", "no entry">>)},
     d \in {"absent", "link", "read"}, f \in (Sources \ {Absent}) \cup Ignored}
  \cup {[classic |-> Absent, directory |-> "read", files |-> [i \in 1..n |-> File("read", "list", <<"plain">>)]] :
          n \in {MaxFiles, MaxFiles + 1}}

Init ==
  \/ Starts({"status"}, [database : Databases, directory : UpdateDirs, updates : 0..(MaxFiles + 1)],
            LAMBDA h : [other |-> h.database = "other", pending |-> h.directory = "read" /\ h.updates > 0],
            [incomplete |-> FALSE])
  \/ Starts({"updates"}, [apt_get : {"absent", "exits", "fails", "works"}, inst : 0..(MaxOutput + 1)],
            LAMBDA h : [cut |-> FALSE], [incomplete |-> FALSE])
  \/ Starts({"sources"}, Hosts, LAMBDA h : [moved |-> FALSE], [todo |-> {}, sources |-> {}, errors |-> {}])
  \/ Starts({"history"}, [log : {"absent", "unread"} \cup {"read"}, items : UNION {[1..n -> {"(", ",", ")", "x"}] : n \in 0..4}],
            LAMBDA h : [moved |-> FALSE], [incomplete |-> FALSE])

Dispatch ==
  /\ pc = "start"
  /\ \/ Answer(Failure("arguments"))
     \/ GoTo([status |-> "database", updates |-> "simulate", sources |-> "classic", history |-> "log"][cmd])
  /\ UNCHANGED got /\ Others

----------------------------------------------------------------------------
(* status.go *)

collectStatus ==
  /\ pc = "database"
  /\ CASE host.database = "absent" -> Answer(Failure("dependency")) /\ UNCHANGED got
       [] host.database = "unread" -> Answer(Failure("general")) /\ UNCHANGED got
       [] OTHER -> got' = [incomplete |-> host.database = "other"] /\ GoTo("pending")
  /\ Others

\* The updates cannot be counted, or are more than are counted.
PendingError == host.directory = "unread" \/ (host.directory = "read" /\ host.updates > MaxFiles)

countRegularFiles ==
  /\ pc = "pending"
  /\ LET pending == IF host.directory = "read" /\ ~ PendingError THEN host.updates ELSE 0
     IN Answer(Built({Chk("dpkg-status", IF got.incomplete \/ pending > 0 THEN "warning" ELSE "pass")},
                     pending, IF PendingError THEN {"dpkg_updates_unavailable"} ELSE {}))
  /\ UNCHANGED got /\ Others

----------------------------------------------------------------------------
(* updates.go: that the output was cut is not looked at. *)

collectUpdates ==
  /\ pc = "simulate"
  /\ CASE ~ Live -> Answer(Failure("timeout"))
       [] Live /\ host.apt_get = "absent" -> Answer(Failure("dependency"))
       [] Live /\ host.apt_get \in {"exits", "fails"} -> Answer(Failure("general"))
       [] OTHER -> Answer(Built({Chk("updates", "pass")}, Min({host.inst, MaxOutput}), {}))
  /\ UNCHANGED got /\ Others

----------------------------------------------------------------------------
(* sources.go *)

\* mutant: an address is published as it is
sanitizeURI_Raw(entry) == entry

sanitizeURI(entry) == CASE entry = "password" -> "stripped" [] entry = "invalid" -> "[invalid-uri]" [] OTHER -> entry

\* parseListSources and parseDeb822Sources: lines or stanzas that are none
\* are passed over.
Parsed(file) == {sanitizeURI(e) : e \in Range(file.lines) \ {"no entry"}}

Read(file) ==
  got' = [todo |-> got.todo \ {Min(got.todo)},
          sources |-> IF file.state = "read" THEN got.sources \cup Parsed(file) ELSE got.sources,
          errors |-> IF file.state = "read" THEN got.errors ELSE got.errors \cup {"apt_source_unavailable"}]

ReadClassic ==
  /\ pc = "classic"
  /\ got' = [got EXCEPT
       !.sources = IF host.classic.state = "read" THEN Parsed(host.classic) ELSE {},
       !.errors = IF host.classic.state = "unread" THEN {"apt_source_unavailable"} ELSE {}]
  /\ GoTo("directory") /\ Others

Regular(file) == file.state # "link" /\ file.kind # "other"

\* The directory is not listed at all when there are too many files in it.
regularFiles ==
  /\ pc = "directory"
  /\ LET files == {i \in DOMAIN host.files : Regular(host.files[i])}
         fails == host.directory = "link" \/ (host.directory = "read" /\ Cardinality(files) > MaxFiles)
     IN got' = [got EXCEPT !.todo = IF host.directory = "read" /\ ~ fails THEN files ELSE {},
                           !.errors = IF fails THEN @ \cup {"apt_source_unavailable"} ELSE @]
  /\ GoTo("files") /\ Others

ReadSource ==
  /\ pc = "files" /\ got.todo # {}
  /\ Read(host.files[Min(got.todo)])
  /\ GoTo("files") /\ Others

collectSources ==
  /\ pc = "files" /\ got.todo = {}
  /\ Answer(Built({Chk("sources", IF got.errors = {} THEN "pass" ELSE "partial")}, got.sources, got.errors))
  /\ UNCHANGED got /\ Others

----------------------------------------------------------------------------
(* history.go *)

\* The items of an action are parted by the commas outside of parentheses; a
\* closing one without its opening one does not count.
countTopLevelItems(text) ==
  LET read(at, c) == CASE c = "(" -> [at EXCEPT !.depth = @ + 1]
                       [] c = ")" -> [at EXCEPT !.depth = IF @ > 0 THEN @ - 1 ELSE 0]
                       [] c = "," -> [at EXCEPT !.count = IF at.depth = 0 THEN @ + 1 ELSE @]
                       [] OTHER   -> at
      after[i \in 0..Len(text)] == IF i = 0 THEN [count |-> 1, depth |-> 0] ELSE read(after[i - 1], text[i])
  IN IF text = <<>> THEN 0 ELSE after[Len(text)].count

collectHistory ==
  /\ pc = "log"
  /\ Answer(Built({Chk("history", IF host.log = "unread" THEN "partial" ELSE "pass")},
                  IF host.log = "read" THEN countTopLevelItems(host.items) ELSE 0,
                  IF host.log = "unread" THEN {"apt_history_unavailable"} ELSE {}))
  /\ UNCHANGED got /\ Others

----------------------------------------------------------------------------
\* dpkg merges its updates into the database, or breaks off in a run; a source
\* file is replaced.
Change ==
  \/ /\ cmd = "status" /\ pc \in {"database", "pending"} /\ host.directory = "read" /\ host.database # "absent"
     /\ \E d \in {"installed", "other"}, u \in {0, 1} :
          Changes([host EXCEPT !.database = d, !.updates = u],
                  [other |-> hist.other /\ d = "other", pending |-> hist.pending /\ u > 0])
  \/ /\ cmd = "sources" /\ pc \in {"directory", "files"}
     /\ \E f \in {Unread, File("read", "list", <<"password">>)} :
          Changes([host EXCEPT !.files[1] = f], [moved |-> TRUE])

Step == Dispatch \/ collectStatus \/ countRegularFiles \/ collectUpdates \/ ReadClassic \/ regularFiles
        \/ ReadSource \/ collectSources \/ collectHistory
Next == Step \/ Change \/ Deadline

----------------------------------------------------------------------------
\* A record that is incomplete all the time, in the database or beside it, is
\* warned of or has an error; a source file that is there is published whole or
\* has an error (status.go:15-52, sources.go:28-77).
NothingLost ==
  reply.exit = "ok" =>
    /\ cmd = "status" /\ (hist.other \/ hist.pending) => reply.status \in {"warning", "partial"}
    /\ cmd = "sources" /\ ~ hist.moved /\ reply.errors = {} =>
         \A i \in DOMAIN host.files :
           host.directory = "read" /\ Regular(host.files[i]) =>
             Parsed(host.files[i]) \subseteq reply.data

\* A pass was given to nothing that could not be read: no file of the sources that
\* stayed as it was, and no log of the history (status.go, sources.go, history.go).
PassIsEarned ==
  reply.status = "pass" =>
    /\ reply.errors = {}
    /\ cmd = "sources" /\ ~ hist.moved =>
         Unread \notin {host.classic} /\ (host.directory = "read" => Unread \notin Range(host.files))
    /\ cmd = "history" => host.log # "unread"

\* No source is printed with the password of its URI (sources.go, sanitizeURI).
SecretsMasked == reply.exit = "ok" /\ cmd = "sources" => "password" \notin reply.data
=============================================================================
