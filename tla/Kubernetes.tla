----------------------------- MODULE Kubernetes -----------------------------
(***************************************************************************)
(* The k8s plugin: `status` asks kubectl for its version, systemctl for    *)
(* the state of the kubelet and /proc for its processes; `contexts` reads  *)
(* fixed kubeconfig files and `manifests` the files of one directory.      *)
(***************************************************************************)
EXTENDS Collector, Functions

Nobody == "nobody"
Programs == {"works", "absent", "exits", "cut", "malformed"}

\* A file is what reading it gives; a kubeconfig is valid or not, a manifest
\* is a sequence of documents.
Kubeconfigs == 1..2     \* two of the four paths
KubeFiles == {"absent", "unsafe", "valid", "aliases", "two documents", "duplicate context"}

ManifestFiles == 1..2
ManifestDocuments == UNION {[1..n -> {"object", "empty", "nameless"}] : n \in 1..2}
MaxDocuments == 2       \* maxManifestDocuments

Init ==
  \/ Starts({"status"}, [client : Programs, unit : Programs, at : [Pids -> {Nobody, "kubelet", "locked"}], proc : BOOLEAN],
            LAMBDA h : [always |-> {p \in Pids : h.at[p] = "kubelet"}, ever |-> {p \in Pids : h.at[p] = "kubelet"}],
            [todo |-> {}, found |-> {}, unit |-> FALSE, checks |-> {}, errors |-> {}])
  \/ Starts({"contexts"}, [files : [Kubeconfigs -> KubeFiles]],
            LAMBDA h : [always |-> h.files], [todo |-> Kubeconfigs, found |-> {}])
  \/ Starts({"manifests"},
            [dir : {"directory"}, link : BOOLEAN, files : [ManifestFiles -> ManifestDocuments \cup {<<>>}]] \cup
            [dir : {"absent", "symlink"}, link : {FALSE}, files : {[f \in ManifestFiles |-> <<>>]}],
            LAMBDA h : [always |-> h.files], [todo |-> {}, found |-> {}])

configurationFailure == Answer(Failure(IF Live THEN "configuration" ELSE "timeout"))

Timeout ==
  /\ pc # "done" /\ pc # "report" /\ ~ Live
  /\ Answer(Failure("timeout")) /\ UNCHANGED got /\ Others

Next1(set) == CHOOSE i \in set : \A j \in set : i <= j

----------------------------------------------------------------------------
(* executeStatus *)

\* probeFailure: the kind of the error tells an absent program.
probeFailure(code, outcome) ==
  [code |-> code, kind |-> IF outcome = "absent" THEN "dependency" ELSE "general"]

collectClientVersion ==
  /\ cmd = "status" /\ pc = "start" /\ Live
  /\ LET ok == host.client = "works"
     IN got' = [got EXCEPT !.checks = {Chk("client", IF ok THEN "pass" ELSE "skipped")},
                           !.errors = IF ok THEN {} ELSE {probeFailure("client", host.client)}]
  /\ GoTo("unit") /\ Others

collectKubeletUnit ==
  /\ pc = "unit" /\ Live
  /\ LET ok == host.unit = "works"
     IN got' = [got EXCEPT !.unit = ok, !.errors = IF ok THEN @ ELSE @ \cup {probeFailure("unit", host.unit)}]
  /\ GoTo("processes") /\ Others

ProcessesFail ==
  /\ got' = [got EXCEPT !.found = {}, !.todo = {}, !.errors = @ \cup {probeFailure("processes", "fails")}]
  /\ GoTo("report")

ReadProc ==
  /\ pc = "processes" /\ Live
  /\ IF host.proc THEN got' = [got EXCEPT !.todo = {p \in Pids : host.at[p] # Nobody}] /\ GoTo("comm")
     ELSE ProcessesFail
  /\ Others

\* A process that is gone is passed over; one that cannot be read leaves none.
ReadComm ==
  /\ pc = "comm" /\ Live /\ got.todo # {}
  /\ LET p == Next1(got.todo)
     IN IF host.at[p] = "locked" THEN ProcessesFail
        ELSE got' = [got EXCEPT !.todo = @ \ {p}, !.found = IF host.at[p] = "kubelet" THEN @ \cup {p} ELSE @]
             /\ GoTo("comm")
  /\ Others

KubeletCheck(errors) ==
  Chk("kubelet", IF \E e \in errors : e.code \in {"unit", "processes"} THEN "partial" ELSE "pass")

ReportStatus ==
  /\ cmd = "status" /\ (pc = "report" \/ (pc = "comm" /\ got.todo = {}))
  /\ Answer(Built(got.checks \cup {KubeletCheck(got.errors)}, got.found, got.errors))
  /\ UNCHANGED got /\ Others

----------------------------------------------------------------------------
(* executeContexts *)

ReadKubeconfig ==
  /\ cmd = "contexts" /\ pc = "start" /\ Live /\ got.todo # {}
  /\ LET i == Next1(got.todo)
     IN CASE host.files[i] = "absent" -> got' = [got EXCEPT !.todo = @ \ {i}] /\ GoTo("start")
          [] host.files[i] = "valid"  -> got' = [todo |-> got.todo \ {i}, found |-> got.found \cup {i}] /\ GoTo("start")
          [] OTHER -> configurationFailure /\ UNCHANGED got
  /\ Others

ReportContexts ==
  /\ cmd = "contexts" /\ pc = "start" /\ got.todo = {}
  /\ Answer(Built({Chk("contexts", IF got.found = {} THEN "info" ELSE "pass")}, got.found, {}))
  /\ UNCHANGED got /\ Others

----------------------------------------------------------------------------
(* executeManifests *)

confinedDirectory ==
  /\ cmd = "manifests" /\ pc = "start" /\ Live
  /\ CASE host.dir = "absent" -> Answer(Built({Chk("manifests", "info")}, {}, {})) /\ UNCHANGED got
       [] host.dir = "symlink" -> configurationFailure /\ UNCHANGED got
       [] OTHER -> /\ got' = [got EXCEPT !.todo = {f \in ManifestFiles : host.files[f] # <<>>}]
                   /\ GoTo("files")
  /\ Others

\* A document is its file and its number in it, empty ones counted.
parseManifestFile(f, docs) == {<<f, i>> : i \in {j \in DOMAIN docs : docs[j] = "object"}}

\* A file that is gone when it is read, or has become a link, is an error of
\* the whole, as is a link in the directory, beside files or alone.
ReadManifest ==
  /\ pc = "files" /\ Live /\ (host.link \/ got.todo # {})
  /\ LET f == Next1(got.todo)
         docs == host.files[f]
         all == got.found \cup parseManifestFile(f, docs)
     IN IF \/ host.link
           \/ docs = <<>>
           \/ "nameless" \in Range(docs)
           \/ Cardinality(all) > MaxDocuments
        THEN configurationFailure /\ UNCHANGED got
        ELSE got' = [todo |-> got.todo \ {f}, found |-> all] /\ GoTo("files")
  /\ Others

ReportManifests ==
  /\ pc = "files" /\ got.todo = {} /\ ~ host.link
  /\ Answer(Built({Chk("manifests", "pass")}, got.found, {}))
  /\ UNCHANGED got /\ Others

----------------------------------------------------------------------------
Change ==
  \/ \E p \in Pids, v \in {Nobody, "kubelet"} :
       /\ cmd = "status" /\ pc = "comm" /\ v # host.at[p]
       /\ Changes([host EXCEPT !.at[p] = v],
                  [always |-> hist.always \ {p},
                   ever |-> IF v = "kubelet" THEN hist.ever \cup {p} ELSE hist.ever])
  \/ \E i \in Kubeconfigs, v \in {"absent", "valid"} :
       /\ cmd = "contexts" /\ pc = "start" /\ v # host.files[i]
       /\ Changes([host EXCEPT !.files[i] = v], [always |-> [hist.always EXCEPT ![i] = "absent"]])
  \/ \E f \in ManifestFiles, v \in {<<>>, <<"object">>} :
       /\ cmd = "manifests" /\ pc = "files" /\ v # host.files[f]
       /\ Changes([host EXCEPT !.files[f] = v], [always |-> [hist.always EXCEPT ![f] = <<>>]])

Step == Timeout \/ collectClientVersion \/ collectKubeletUnit \/ ReadProc \/ ReadComm \/ ReportStatus
        \/ ReadKubeconfig \/ ReportContexts \/ confinedDirectory \/ ReadManifest \/ ReportManifests
Next == Step \/ Change \/ Deadline

----------------------------------------------------------------------------
\* A kubelet process, a valid kubeconfig and a manifest that are there all the
\* time are in the answer, or an error of the processes is (status.go:294-340,
\* contexts.go:51-97, manifests.go:62-112).
NothingLost ==
  reply.exit = "ok" =>
    /\ cmd = "status" =>
         hist.always \subseteq reply.data \/ \E e \in reply.errors : e.code = "processes"
    /\ cmd = "contexts" => \A i \in Kubeconfigs : hist.always[i] = "valid" => i \in reply.data
    /\ cmd = "manifests" /\ host.dir = "directory" => \A f \in ManifestFiles :
         hist.always[f] # <<>> => parseManifestFile(f, hist.always[f]) \subseteq reply.data

\* No process of another program is taken for a kubelet, and a collection of
\* manifests stays within its limit (status.go:294-340, manifests.go:62-112).
NothingInvented ==
  reply.exit = "ok" =>
    /\ cmd = "status" => reply.data \subseteq hist.ever
    /\ cmd = "manifests" => Cardinality(reply.data) <= MaxDocuments

\* A pass of `status` has the client, the unit and the processes; none of the
\* files of `contexts` that stayed as it was is one to be refused, and neither
\* is the directory of `manifests` or one of its files, wherever in the
\* directory the link or the file is (manifests.go:84-110).
PassIsEarned ==
  reply.status = "pass" =>
    /\ cmd = "status" => host.client = "works" /\ got.unit /\ reply.errors = {}
    /\ cmd = "contexts" => \A i \in Kubeconfigs : hist.always[i] \in {"absent", "valid"}
    /\ cmd = "manifests" /\ host.dir = "directory" =>
         ~ host.link /\ \A f \in ManifestFiles : "nameless" \notin Range(hist.always[f])

\* The check of the kubelet says whether both its sources were read.
StatusIsWorst ==
  reply.exit = "ok" /\ cmd = "status" =>
    (Chk("kubelet", "pass") \in reply.checks <=> \A e \in reply.errors : e.code = "client")
=============================================================================
