------------------------------- MODULE Docker -------------------------------
(***************************************************************************)
(* The docker plugin: one or two runs of the docker client and the parsing *)
(* of what they print, the search for Compose files, and the request to a  *)
(* registry.                                                               *)
(*                                                                         *)
(* host.containers are the containers that run, host.client how the client *)
(* behaves, host.tree the directory that is searched, host.hops what the   *)
(* registry answers, one element for each request.                         *)
(***************************************************************************)
EXTENDS Collector, FiniteSetsExt

Containers == {"c1", "c2"}

\* How the output of each command is read.
Formats == [status |-> <<"json">>, info |-> <<"json">>, inspect |-> <<"json">>,
            health |-> <<"json">>, ps |-> <<"lines of json">>, usage |-> <<"lines of json">>,
            logs |-> <<"text">>, validate |-> <<"text">>, composeInspect |-> <<"json">>,
            diff |-> <<"json", "lines of json">>]

Clients == {"works", "absent", "exits", "denied", "slow"}

----------------------------------------------------------------------------
(* compose find.  An entry is its path below the root, a sequence of       *)
(* names, and its kind: "dir", "locked" (a directory that cannot be read), *)
(* "compose" (a regular file with one of the four names), "file", "link".  *)

Parent(path) == SubSeq(path, 1, Len(path) - 1)
Entries == [path : {<<"a">>, <<"a", "a">>, <<"b">>, <<"a", "a", "a">>},
            kind : {"dir", "locked", "compose", "link"}]
IsTree(t) ==
  \A e \in t : /\ \A f \in t : f.path = e.path => f = e
               /\ Len(e.path) > 1 => \E d \in t : d.path = Parent(e.path) /\ d.kind = "dir"
Trees == {t \in UNION {kSubset(n, Entries) : n \in 0..3} : IsTree(t)}

MaxDepth == 1   \* search_max_depth and search_max_files of the configuration
MaxFiles == 1

\* WalkDir: a directory deeper than the limit is skipped, with all in it.
Walked(t, e) ==
  \A d \in t : d.kind = "dir" /\ Len(d.path) < Len(e.path) /\ SubSeq(e.path, 1, Len(d.path)) = d.path
                => Len(d.path) <= MaxDepth
Found(t) == {e \in t : e.kind = "compose" /\ Walked(t, e)}
Unreadable(t) == \E e \in t : e.kind = "locked" /\ Walked(t, e) /\ Len(e.path) <= MaxDepth

----------------------------------------------------------------------------
(* registry-test.  A hop is an answer: "final", a redirect to the same     *)
(* host ("same"), to another one ("other"), or to plain HTTP ("http").     *)

MaxRequests == 5
Hops == {[i \in 1..n |-> IF i < n THEN "same" ELSE last] : last \in {"final", "other", "http"}, n \in 1..(MaxRequests + 2)}

----------------------------------------------------------------------------
success(data) == Result("pass", {}, data, {})
failure(kind) == Result(IF kind = "dependency" THEN "skipped" ELSE "error", {}, NoData, {kind})

commandError(client) ==
  failure([absent |-> "dependency", slow |-> "timeout", denied |-> "privilege",
           exits |-> "general"][client])

Init ==
  /\ \/ Starts(DOMAIN Formats,
               [containers : SUBSET Containers, client : Clients, tree : {{}}, hops : {<<>>}],
               LAMBDA h : [always |-> h.containers, ever |-> h.containers],
               [i |-> 0, outputs |-> <<>>])
     \/ Starts({"find"}, [containers : {{}}, client : {"works"}, tree : Trees, hops : {<<>>}],
               LAMBDA h : [always |-> {}, ever |-> {}], [i |-> 0, outputs |-> <<>>])
     \/ Starts({"registry"}, [containers : {{}}, client : {"works"}, tree : {{}}, hops : Hops],
               LAMBDA h : [always |-> {}, ever |-> {}], [i |-> 0, outputs |-> <<>>])

\* The configuration is read whatever the command; it is refused when it
\* cannot be loaded or its ranges are wrong.
Configure ==
  /\ pc = "start"
  /\ \/ Answer(Failure("configuration"))
     \/ Answer(Failure("arguments"))     \* the object or file is not acceptable
     \/ GoTo(CASE cmd = "find" -> "find" [] cmd = "registry" -> "registry" [] OTHER -> "run")
  /\ UNCHANGED got /\ Others

\* What a run of the client prints: everything, nothing because there is
\* nothing, everything up to the limit of bytes (cut at the end of a line,
\* or within), or something else.
Outputs(format) ==
  {[what |-> "whole", shows |-> host.containers], [what |-> "junk", shows |-> {}],
   [what |-> "cut within", shows |-> {}]}
  \cup {[what |-> "cut at a line", shows |-> s] : s \in SUBSET host.containers}

RunClient ==
  /\ pc = "run" /\ host.client = "works" /\ Live
  /\ \E o \in Outputs(Formats[cmd][got.i + 1]) :
       got' = [i |-> got.i + 1, outputs |-> Append(got.outputs, o)]
  /\ GoTo(IF got'.i = Len(Formats[cmd]) THEN "parse" ELSE "run")
  /\ Others

RunClientFails ==
  /\ pc = "run"
  /\ \/ ~ Live /\ Answer(commandError("slow"))
     \/ Live /\ host.client \notin {"works", "slow"} /\ Answer(commandError(host.client))
  /\ UNCHANGED got /\ Others

\* Text is taken as it is; a document that was cut is no document; of lines
\* that were cut at the end of one, those before it are taken.
Parses(format, o) ==
  CASE format = "text" -> TRUE
    [] format = "lines of json" -> o.what \in {"whole", "cut at a line"}
    [] OTHER -> o.what = "whole"

\* mutant: a line that is no JSON is skipped
Parse_SkipsLines ==
  /\ pc = "parse"
  /\ Answer(success(got.outputs[got.i].shows))
  /\ UNCHANGED got /\ Others

Parse ==
  /\ pc = "parse"
  /\ IF \A i \in 1..got.i : Parses(Formats[cmd][i], got.outputs[i])
     THEN Answer(success(got.outputs[got.i].shows))
     ELSE Answer(failure("general"))
  /\ UNCHANGED got /\ Others

findComposeFiles ==
  /\ pc = "find"
  /\ Answer(IF Unreadable(host.tree) \/ Cardinality(Found(host.tree)) > MaxFiles
            THEN failure("general") ELSE success(Found(host.tree)))
  /\ UNCHANGED got /\ Others

\* CheckRedirect is asked before each further request, with the requests
\* made so far.
Redirect ==
  /\ pc = "registry" /\ Live
  /\ host.hops[got.i + 1] = "same" /\ got.i + 1 < MaxRequests
  /\ got' = [got EXCEPT !.i = @ + 1] /\ GoTo("registry") /\ Others

probeRegistry ==
  /\ pc = "registry"
  /\ got' = [got EXCEPT !.i = @ + 1]
  /\ IF Live /\ host.hops[got.i + 1] = "final"
     THEN Answer(success("status code"))
     ELSE /\ ~ Live \/ host.hops[got.i + 1] # "same" \/ got.i + 1 >= MaxRequests
          /\ Answer(failure("general"))
  /\ Others

Change ==
  \E s \in SUBSET Containers :
    /\ pc = "run" /\ s # host.containers
    /\ Changes([host EXCEPT !.containers = s],
               [always |-> hist.always \cap s, ever |-> hist.ever \cup s])

Step == Configure \/ RunClient \/ RunClientFails \/ Parse \/ findComposeFiles \/ Redirect \/ probeRegistry
Next == Step \/ Change \/ Deadline
----------------------------------------------------------------------------
\* A container that runs during the whole command is in the answer to `ps`,
\* `usage` and the running side of `compose diff`, and in that of `logs` its
\* lines, unless the output was cut at the end of a line, which the plugin
\* does not look at (plugin.go:239-271).  A pass of `compose find` lists every
\* Compose file in the directories that are not too deep.
NothingLost ==
  reply.status = "pass" =>
    /\ got.i > 0 /\ pc = "done" /\ cmd \in DOMAIN Formats =>
         LET last == got.outputs[got.i].what
         IN last = "whole" => hist.always \subseteq reply.data
    /\ cmd \in {"ps", "usage", "diff"} => got.outputs[got.i].what \in {"whole", "cut at a line"}
    /\ cmd = "find" => \A e \in host.tree :
         e.kind = "compose" /\ Len(e.path) <= MaxDepth + 1 => e \in reply.data

\* What is listed was running at some time of the command.
NothingInvented ==
  reply.status = "pass" /\ cmd \in DOMAIN Formats => reply.data \subseteq hist.ever

\* Every request of a test went to the host that was named, over HTTPS, and
\* there were no more than MaxRequests of them; nothing passes after the
\* deadline.
PassIsEarned ==
  /\ cmd = "registry" => got.i <= MaxRequests
  /\ cmd = "registry" /\ got.i > 1 => \A i \in 1..(got.i - 1) : host.hops[i] = "same"
  /\ reply.status = "pass" /\ cmd \in DOMAIN Formats => got.i = Len(Formats[cmd])
=============================================================================
