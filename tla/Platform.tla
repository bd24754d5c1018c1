------------------------------ MODULE Platform ------------------------------
(***************************************************************************)
(* platform.Detect, as the plugins that depend on the operating system     *)
(* call it: the path of os-release is validated, opened and parsed, one    *)
(* after the other, while others replace the file.                         *)
(*                                                                         *)
(* host.at is what is at etc/os-release; cmd tells whether the root is the *)
(* root of the system or a directory.  A line of the file is a key with a  *)
(* value; "" stands for an empty one, "?" for one that is not well formed. *)
(***************************************************************************)
EXTENDS Collector, Functions

MaxRelease == 4     \* lines; stands for maxReleaseSize

L(key, value) == [key |-> key, value |-> value]
ID(v) == L("ID", v)
Version(v) == L("VERSION_ID", v)
\* The files there usually are, and others.
Releases == {<<ID(i), Version(v)>> : i \in {"debian", "ubuntu"}, v \in {"9", "12", "24.04"}}
Contents ==
  {<<>>, <<ID("debian")>>, <<ID("debian"), Version("")>>, <<L("NAME", "?"), ID("debian"), Version("12")>>,
   <<ID("debian"), ID("ubuntu"), Version("12")>>, <<L("NAME", "x"), L("NAME", "x"), ID("debian"), Version("12")>>,
   <<L("comment", ""), ID("debian"), Version("12")>>, <<L("no key", ""), ID("debian"), Version("12")>>,
   <<ID("ubuntu"), Version("24.04"), L("A", ""), L("B", ""), L("C", "")>>}
    \cup Releases

Good == <<ID("debian"), Version("12")>>
Node(kind, lines) == [kind |-> kind, lines |-> lines]
Nodes == {Node("file", c) : c \in Contents}
           \cup {Node(k, Good) : k \in {"absent", "link", "link outside", "link to directory", "dangling link", "device"}}

Init == Starts({"system root", "fixture root", "relative root"}, Nodes,
               LAMBDA h : [ever |-> {h}], [resolved |-> FALSE])

IsRoot == cmd = "system root"
isLink(h) == h.kind \in {"link", "link outside", "link to directory", "dangling link"}

Refuse == Answer(Failure("dependency"))

Root ==
  /\ pc = "start"
  /\ IF cmd = "relative root" THEN Refuse ELSE GoTo("lstat")
  /\ UNCHANGED got /\ Others

\* A link is refused below any root but that of the system.
validateReleasePath ==
  /\ pc = "lstat"
  /\ IF host.kind = "absent" \/ (isLink(host) /\ ~ IsRoot) THEN Refuse ELSE GoTo("resolve")
  /\ UNCHANGED got /\ Others

\* What the path leads to is a regular file below the root; for the root of
\* the system everything is.
validateReleaseTarget ==
  /\ pc = "resolve"
  /\ IF \/ host.kind \in {"absent", "dangling link", "link to directory", "device"}
        \/ host.kind = "link outside" /\ ~ IsRoot
     THEN Refuse ELSE GoTo("open")
  /\ UNCHANGED got /\ Others

----------------------------------------------------------------------------
validKey(line) == line.key # "no key"

\* The assignments, or one that says that a line is refused: a line without
\* a valid key, a key that comes twice, a value that is not well formed.
parseRelease(lines) ==
  LET kept == {i \in DOMAIN lines : lines[i].key # "comment"}
  IN IF /\ \A i \in kept : validKey(lines[i]) /\ lines[i].value # "?"
        /\ \A i, j \in kept : lines[i].key = lines[j].key => i = j
     THEN {lines[i] : i \in kept} ELSE {L("refused", "")}

supported(id, version) ==
  \/ id = "debian" /\ version \in {"10", "11", "12", "13"}
  \/ id = "ubuntu" /\ version \in {"20.04", "22.04", "24.04"}

\* What is opened is not compared with what was validated.
Detect ==
  /\ pc = "open"
  /\ LET values == parseRelease(host.lines)
         of(key) == {l.value : l \in {v \in values : v.key = key}} \ {""}
     IN IF \/ host.kind \in {"absent", "dangling link", "link to directory"}
           \/ Len(host.lines) > MaxRelease \/ of("ID") = {} \/ of("VERSION_ID") = {}
        THEN Refuse
        ELSE LET id == CHOOSE v \in of("ID") : TRUE
                 version == CHOOSE v \in of("VERSION_ID") : TRUE
             IN Answer(Result("pass", {}, [id |-> id, version |-> version, supported |-> supported(id, version)], {}))
  /\ UNCHANGED got /\ Others

\* The file is replaced.
Change ==
  \E n \in {Node("file", <<ID("ubuntu"), Version("24.04")>>), Node("link", Good), Node("absent", Good)} :
    /\ pc \in {"lstat", "resolve", "open"} /\ n # host
    /\ Changes(n, [ever |-> hist.ever \cup {n}])

Step == Root \/ validateReleasePath \/ validateReleaseTarget \/ Detect
Next == Step \/ Change

----------------------------------------------------------------------------
\* The name and the version come from one file that was in place, and each is
\* assigned once in it; a link is followed below the root of the system only,
\* unless the file became one after it was validated (platform.go:27-75).
NothingInvented ==
  reply.exit = "ok" =>
    \E h \in hist.ever :
      /\ {i \in DOMAIN h.lines : h.lines[i].key = "ID"} = {i \in DOMAIN h.lines : h.lines[i] = ID(reply.data.id)}
      /\ Version(reply.data.version) \in Range(h.lines)
      /\ isLink(h) => IsRoot \/ Cardinality(hist.ever) > 1
=============================================================================
