------------------------------ MODULE LocalFile ------------------------------
(***************************************************************************)
(* How the plugins read one local file while others replace, grow or       *)
(* chmod it: probe.Local.Read (cmd "probe"), the loader of a runbook       *)
(* ("runbook"), config.Load ("config") and the file of `tls inspect`       *)
(* ("tls").  Each inspects the path, opens it, and reads; they differ in   *)
(* what they compare afterwards.                                           *)
(*                                                                         *)
(* The path has a directory and a file in it: host.dir is what stands at   *)
(* the first ("real", "symlink", "absent"), host.file the file at the      *)
(* second.  A file is an identity whose kind is fixed; its size and trust  *)
(* are not.                                                                *)
(***************************************************************************)
EXTENDS Collector

Nodes == {"n1", "n2"}
NoNode == "no file"
Limit == 1

Init == Starts({"probe", "runbook", "config", "tls"},
               [dir : {"real", "symlink", "absent"}, file : {"n1", NoNode},
                kind : [Nodes -> {"regular", "symlink", "other"}],
                size : [Nodes -> {Limit, Limit + 1}], trust : [Nodes -> BOOLEAN]],
               LAMBDA h : [moved |-> FALSE],
               [inspected |-> NoNode, opened |-> NoNode])

Present == IF host.dir = "absent" THEN NoNode ELSE host.file

Refuse ==
  Answer(Failure(CASE cmd = "probe" -> "general" [] cmd = "tls" -> "arguments" [] OTHER -> "configuration"))

\* A file that is not there: the default configuration, no runbooks, or an
\* error the caller tells from the others.
Absent == IF cmd = "tls" THEN Refuse ELSE Answer(Result("info", {}, NoData, {}))

\* confinedPath and openRunbookDirectory walk the components; the directory
\* of a configuration file is not looked at.
LstatDir ==
  /\ pc = "start"
  /\ \/ cmd = "config" /\ GoTo("file")
     \/ cmd # "config" /\ host.dir = "absent" /\ Absent
     \/ cmd # "config" /\ host.dir = "symlink" /\ Refuse
     \/ cmd # "config" /\ host.dir = "real" /\ GoTo("file")
  /\ UNCHANGED got /\ Others

Trusted(n) == cmd \in {"probe", "tls"} \/ host.trust[n]
Acceptable(n) == host.kind[n] = "regular" /\ host.size[n] <= Limit /\ Trusted(n)

LstatFile ==
  /\ pc = "file"
  /\ got' = [got EXCEPT !.inspected = Present] /\ hist' = [moved |-> FALSE]
  /\ \/ Present = NoNode /\ Absent
     \/ Present # NoNode /\ ~ Acceptable(Present) /\ Refuse
     \/ Present # NoNode /\ Acceptable(Present) /\ GoTo("open")
  /\ UNCHANGED <<cmd, ctx, host, changes>>

\* A symbolic link that took the place of the file is followed, wherever it
\* leads.
Open ==
  /\ pc = "open"
  /\ IF Present = NoNode
     THEN Refuse /\ UNCHANGED got
     ELSE /\ \E n \in IF host.kind[Present] = "symlink" THEN Nodes ELSE {Present} :
               got' = [got EXCEPT !.opened = n]
          /\ GoTo(IF cmd = "config" THEN "read" ELSE "stat")
  /\ Others

\* mutant: the opened file is not compared with the inspected one
SameFile_Unchecked == TRUE

SameFile == got.opened = got.inspected

\* The descriptor is compared with the Lstat; the runbook loader looks at
\* owner and mode again.
StatOpened ==
  /\ pc = "stat"
  /\ IF SameFile /\ host.kind[got.opened] = "regular" /\ (cmd = "runbook" => host.trust[got.opened])
     THEN GoTo("read") ELSE Refuse
  /\ UNCHANGED got /\ Others

\* One byte more than the limit is asked for, to tell a file that has grown;
\* os.ReadFile of the configuration reads it all.
TooLarge == cmd # "config" /\ host.size[got.opened] > Limit

ReadAll ==
  /\ pc = "read"
  /\ IF TooLarge \/ host.kind[got.opened] # "regular" THEN Refuse
     ELSE Answer(Result("pass", {}, [node |-> got.opened, size |-> host.size[got.opened]], {}))
  /\ UNCHANGED got /\ Others

\* Others rename another file into place, move the directory, write or chmod.
Change ==
  \E f \in Nodes \cup {NoNode}, d \in {"real", "symlink", "absent"}, n \in Nodes, t \in BOOLEAN,
     s \in {Limit, Limit + 1} :
    LET new == [host EXCEPT !.file = f, !.dir = d, !.size[n] = s, !.trust[n] = t]
    IN /\ 1 = Cardinality({x \in DOMAIN host : host[x] # new[x]})
       /\ Changes(new, [moved |-> TRUE])

Step == LstatDir \/ LstatFile \/ Open \/ StatOpened \/ ReadAll
Next == Step \/ Change

----------------------------------------------------------------------------
\* What is returned is the content of the regular file that was inspected,
\* whatever took its place meanwhile (probe.go:58-73, loader.go:159-180);
\* config.Load has this of a file that nobody replaces while it is loaded.
NothingInvented ==
  reply.status = "pass" /\ (cmd = "config" => ~ hist.moved) =>
    reply.data.node = got.inspected /\ host.kind[reply.data.node] = "regular"

\* A file that outgrew the limit after it was inspected is refused, and never
\* cut (probe.go:75-81); with the same exception.
PassIsEarned ==
  reply.status = "pass" /\ (cmd = "config" => ~ hist.moved) => reply.data.size <= Limit
=============================================================================
