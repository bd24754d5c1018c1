------------------------------- MODULE Runbook -------------------------------
(***************************************************************************)
(* The runbook plugin: list, inspect and validate the documents of one     *)
(* directory, all or none.  How one file is opened is LocalFile's matter;  *)
(* here a file is loaded in one step, and the directory changes between    *)
(* two of them.                                                            *)
(*                                                                         *)
(* host.files says what has each file name: nothing, or a document with    *)
(* the name in it, whether its metadata is trusted and its text valid      *)
(* (strict YAML without aliases, anchors and tags, one document, fields    *)
(* within their limits), and its size.                                     *)
(***************************************************************************)
EXTENDS Collector, FiniteSetsExt, TLC

Names == {"alpha", "beta"}
FileNames == {"alpha.yaml", "alpha.yml", "beta.yml", "notes.txt"}
Stem == ("alpha.yaml" :> "alpha") @@ ("alpha.yml" :> "alpha") @@ ("beta.yml" :> "beta")
             @@ ("notes.txt" :> "notes")
Extension == ("alpha.yaml" :> ".yaml") @@ ("alpha.yml" :> ".yml") @@ ("beta.yml" :> ".yml")
             @@ ("notes.txt" :> ".txt")
Nothing == [name |-> "none", fault |-> "none", size |-> 0]

Documents == [name : Names, fault : {"none", "metadata", "text"}, size : {1, 2}]
Plain(n) == [name |-> n, fault |-> "none", size |-> 1]
MaxTotal == 2       \* maxRunbookTotal
MaxFiles == 3       \* maxRunbookFiles, of the entries of the directory

Start == [entries |-> {}, documents |-> {}, total |-> 0]

Hosts == [dir : {"trusted", "absent", "unsafe"},
          files : [FileNames -> {Nothing, Plain("alpha"), Plain("beta"),
                                 [name |-> "beta", fault |-> "metadata", size |-> 1],
                                 [name |-> "beta", fault |-> "none", size |-> 2]}]]

Init == Starts({"list", "inspect", "validate"},
               {h \in Hosts : h.dir # "trusted" => \A f \in FileNames : h.files[f] = Nothing},
               LAMBDA h : [always |-> h.files], Start)

Candidate(f) == Extension[f] \in {".yaml", ".yml"}

Dispatch ==
  /\ pc = "start"
  /\ \/ cmd # "list" /\ Answer(Failure("arguments"))
     \/ GoTo("open")
  /\ UNCHANGED got /\ Others

configurationFailure == Answer(Failure(IF Live THEN "configuration" ELSE "timeout"))

openRunbookDirectory ==
  /\ pc = "open"
  /\ LET present == {f \in FileNames : host.files[f] # Nothing}
     IN \/ ~ Live /\ configurationFailure /\ UNCHANGED got
        \/ Live /\ host.dir = "absent" /\ GoTo("report") /\ UNCHANGED got
        \/ /\ Live
           /\ \/ host.dir = "unsafe"
              \/ Cardinality(present) > MaxFiles
           /\ configurationFailure /\ UNCHANGED got
        \/ /\ Live /\ host.dir = "trusted" /\ Cardinality(present) <= MaxFiles
           /\ got' = [got EXCEPT !.entries = present] /\ GoTo("load")
  /\ Others

\* Documents are loaded in the order of their file names.
Order == <<"alpha.yaml", "alpha.yml", "beta.yml", "notes.txt">>
NextFile == Order[Min({i \in DOMAIN Order : Order[i] \in got.entries})]

validateDocument(f, d) == d # Nothing /\ d.fault = "none" /\ d.name = Stem[f]

\* Whatever is wrong with one file is wrong with the collection; so are two
\* documents of one name, and too many bytes in all.
Fails(f, d) ==
  \/ ~ validateDocument(f, d)
  \/ got.total + d.size > MaxTotal
  \/ d.name \in {x.name : x \in got.documents}

loadDocument ==
  /\ pc = "load" /\ got.entries # {}
  /\ LET f == NextFile
         d == host.files[f]
     IN IF ~ Live \/ (Candidate(f) /\ Fails(f, d))
        THEN configurationFailure /\ UNCHANGED got
        ELSE /\ got' = [entries |-> got.entries \ {f},
                        documents |-> IF Candidate(f) /\ d # Nothing THEN got.documents \cup {d} ELSE got.documents,
                        total |-> IF Candidate(f) /\ d # Nothing THEN got.total + d.size ELSE got.total]
             /\ GoTo("load")
  /\ Others

Chosen == IF cmd = "list" THEN got.documents
         ELSE {d \in got.documents : d.name = "alpha"}

\* `inspect` and `validate NAME` of a name that no document has.
Report ==
  /\ pc = "report" \/ (pc = "load" /\ got.entries = {})
  /\ IF cmd # "list" /\ Chosen = {}
     THEN Answer(Failure("dependency"))
     ELSE Answer(Built({}, Chosen, {}))
  /\ UNCHANGED got /\ Others

\* The administrator edits the collection.
Change ==
  \E f \in FileNames, d \in {Nothing, Plain("alpha"), [name |-> "beta", fault |-> "text", size |-> 1]} :
    /\ pc = "load" /\ d # host.files[f]
    /\ Changes([host EXCEPT !.files[f] = d],
               [hist EXCEPT !.always[f] = Nothing])

Step == Dispatch \/ openRunbookDirectory \/ loadDocument \/ Report
Next == Step \/ Change \/ Deadline

----------------------------------------------------------------------------
Whole == reply.exit = "ok" /\ cmd = "list" /\ host.dir = "trusted"

\* A list that is returned has every document that was there all the time
\* (loader.go:43-99: one bad file is an error of the collection).
NothingLost ==
  Whole => \A f \in FileNames : hist.always[f] # Nothing /\ Candidate(f) => hist.always[f] \in reply.data

\* All that is returned is valid and trusted, and of two documents of one
\* name none is.
NothingInvented ==
  reply.exit = "ok" =>
    \A d, e \in reply.data : d.fault = "none" /\ (d.name = e.name => d = e)
=============================================================================
