------------------------------ MODULE Incident ------------------------------
(***************************************************************************)
(* The incident plugin: `snapshot` makes seven probes that may fail on     *)
(* their own, `services` and `timeline` one.                               *)
(*                                                                         *)
(* host[p] is what probe p gives: something to read, nothing, or an output *)
(* that is cut or malformed; host.journal is the journal, a sequence of    *)
(* lines, each the set of the words in it that are looked for.             *)
(***************************************************************************)
EXTENDS Collector, Functions, TLC

\* The probes in their order: three files, and then four programs.
Probes == <<"os", "load", "memory", "disk", "listeners", "services", "journal">>
Files == {"os", "load", "memory"}
Programs == {"disk", "listeners", "services", "journal"}

MaxEvents == 2      \* maxTimelineEvents

Words == {"oom", "unit failure", "authentication", "kernel"}
Bad == "no timestamp"
JournalLines == {{}, {"oom"}, {"oom", "kernel"}, {"unit failure", "kernel"}, {"authentication"}, {"kernel"}, {Bad}}
Journals == UNION {[1..n -> JournalLines] : n \in 0..(MaxEvents + 1)}

Reads == {"read", "unread", "malformed"}
Init ==
  \/ Starts({"snapshot", "services"},
            {[p \in Range(Probes) |-> IF p \in bad THEN how ELSE "read"] @@ [journalLines |-> j] :
               bad \in SUBSET Range(Probes), how \in {"unread", "malformed"}, j \in {<<>>, <<{"oom"}, {}>>}},
            LAMBDA h : [always |-> {}], [i |-> 0, read |-> {}, errors |-> {}])
  \/ Starts({"timeline"},
            {[journal |-> r, journalLines |-> j] : r \in {"read", "unread"}, j \in Journals},
            LAMBDA h : [always |-> {}], [i |-> 0, read |-> {}, errors |-> {}])

\* An argument that the plan or the execution refuses, and a deadline that
\* has passed before the first probe.
Dispatch ==
  /\ pc = "start"
  /\ \/ Answer(Failure("arguments"))
     \/ ~ Live /\ Answer(Failure("timeout"))
     \/ Live /\ GoTo(cmd)
  /\ UNCHANGED got /\ Others

\* The evidence of one probe, or its failure; the journal is never malformed.
Evidence(p, value) ==
  LET fails == value # "read" /\ ~ (p = "journal" /\ value = "malformed")
  IN got' = [got EXCEPT !.i = @ + 1, !.read = IF fails THEN @ ELSE @ \cup {p},
                        !.errors = IF fails THEN @ \cup {p} ELSE @]

Snapshot(p) == pc = "snapshot" /\ got.i < Len(Probes) /\ p = Probes[got.i + 1]

\* A file is read whether or not the deadline has passed.
ReadEvidence ==
  /\ \E p \in Files : Snapshot(p) /\ Evidence(p, host[p])
  /\ GoTo("snapshot") /\ Others

runBounded ==
  /\ Live
  /\ \E p \in Programs : Snapshot(p) /\ Evidence(p, host[p])
  /\ GoTo("snapshot") /\ Others

\* A program that the deadline ends, ends the snapshot.
contextFailure ==
  /\ ~ Live
  /\ \/ pc \in {"services", "timeline"}
     \/ \E p \in Programs : Snapshot(p)
  /\ Answer(Failure("timeout")) /\ UNCHANGED got /\ Others

ReportSnapshot ==
  /\ pc = "snapshot" /\ got.i = Len(Probes)
  /\ Answer(Built({Chk("snapshot", "pass")},
                  [read |-> got.read, available |-> Len(Probes) - Cardinality(got.errors),
                   events |-> IF "journal" \in got.read THEN Len(host.journalLines) ELSE 0],
                  got.errors))
  /\ UNCHANGED got /\ Others

executeServices ==
  /\ pc = "services" /\ Live
  /\ LET fails == host.services # "read"
     IN Answer(Built({Chk("services", IF fails THEN "partial" ELSE "pass")}, NoData,
                     IF fails THEN {"services"} ELSE {}))
  /\ UNCHANGED got /\ Others

parseTimeline(lines) ==
  [ok |-> Len(lines) <= MaxEvents /\ {Bad} \notin Range(lines), lines |-> lines]

\* The first word that is found in a line, in this order, is its category.
journalCategory(line) ==
  CASE "oom" \in line -> "out-of-memory"
    [] "oom" \notin line /\ "unit failure" \in line -> "service-failure"
    [] {"oom", "unit failure"} \cap line = {} /\ "authentication" \in line -> "authentication"
    [] {"oom", "unit failure", "authentication"} \cap line = {} /\ "kernel" \in line -> "kernel"
    [] OTHER -> "error"

executeTimeline ==
  /\ pc = "timeline" /\ Live
  /\ LET t == parseTimeline(host.journalLines)
     IN IF host.journal = "read" /\ t.ok
        THEN Answer(Built({Chk("timeline", "pass")}, [i \in DOMAIN t.lines |-> journalCategory(t.lines[i])], {}))
        ELSE Answer(Built({Chk("timeline", "partial")}, <<>>, {"timeline"}))
  /\ UNCHANGED got /\ Others

Step == Dispatch \/ ReadEvidence \/ runBounded \/ contextFailure \/ ReportSnapshot
        \/ executeServices \/ executeTimeline
Next == Step \/ Deadline

----------------------------------------------------------------------------
\* A snapshot counts the evidence it has, and names what it has not; a
\* timeline has every line of the journal, or none (snapshot.go:73-163,
\* timeline.go:104-131).
NothingLost ==
  reply.exit = "ok" =>
    /\ cmd = "snapshot" =>
         /\ reply.data.read \cup reply.errors = Range(Probes)
         /\ reply.data.available = Cardinality(reply.data.read)
         /\ \A p \in Files : host[p] # "read" => p \in reply.errors
    /\ cmd = "timeline" /\ reply.errors = {} => Len(reply.data) = Len(host.journalLines)

\* A pass has all seven probes, and every one of its programs ended in time.
PassIsEarned ==
  reply.status = "pass" =>
    /\ cmd = "snapshot" => \A p \in Range(Probes) : host[p] = "read" \/ (p = "journal" /\ host[p] = "malformed")
    /\ cmd = "timeline" => host.journal = "read" /\ Len(host.journalLines) <= MaxEvents
=============================================================================
