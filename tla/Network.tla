------------------------------ MODULE Network ------------------------------
(***************************************************************************)
(* The network plugin: interfaces, routes and listeners from files of the  *)
(* kernel, or from a program when the files cannot be used; `overview` has *)
(* all three.  `tls inspect` judges the certificates of a file (how it is  *)
(* opened is LocalFile's matter).                                          *)
(*                                                                         *)
(* host.files says of each kernel file what reading it, under /proc/net or *)
(* under the entry of the process, gives: rows, nothing or no rows that    *)
(* can be parsed; host.programs the same of `ip` and `ss`.                 *)
(***************************************************************************)
EXTENDS Collector, Functions

Sections == <<"interfaces", "routes", "listeners">>
SocketFiles == {"tcp", "udp"}               \* of the four
FilesOf == [interfaces |-> {"dev"}, routes |-> {"route"}, listeners |-> SocketFiles]
ProgramOf == [interfaces |-> "ip", routes |-> "ip", listeners |-> "ss"]
KernelFiles == {"dev", "route"} \cup SocketFiles
Programs == {"works", "absent", "exits", "cut", "malformed", "slow"}

\* A certificate block and what it is at the time of the inspection.
Blocks == {"valid", "expired", "early", "broken", "parameters", "private key"}
Chains == UNION {[1..n -> Blocks] : n \in 0..3}

NothingRead == [section |-> 0, from |-> [s \in {} |-> ""], errors |-> {}, checks |-> {}]

Init ==
  \/ Starts({"overview", "interfaces", "routes", "listeners"},
            [files : [KernelFiles -> {"rows", "absent", "malformed"}], ip : Programs, ss : Programs],
            LAMBDA h : [always |-> h.files], NothingRead)
  \/ Starts({"tls"}, [pem : Chains, trailing : BOOLEAN], LAMBDA h : [always |-> {}], NothingRead)

Dispatch ==
  /\ pc = "start"
  /\ \/ Answer(Failure("arguments")) /\ UNCHANGED got
     \/ cmd = "tls" /\ GoTo("certificates") /\ UNCHANGED got
     \/ cmd = "overview" /\ got' = [got EXCEPT !.section = 1] /\ GoTo("collect")
     \/ cmd \notin {"tls", "overview"} /\ GoTo("collect")
        /\ got' = [got EXCEPT !.section = CHOOSE i \in DOMAIN Sections : Sections[i] = cmd]
  /\ Others

\* The files of a section that can be used: one is enough.
Usable(files) == {f \in files : host.files[f] = "rows"}

\* What a section was taken from: its files, the program, or nothing.
Source(section) ==
  LET files == Usable(FilesOf[section])
      program == IF ProgramOf[section] = "ip" THEN host.ip ELSE host.ss
  IN IF files # {} THEN files
     ELSE IF program = "works" /\ Live THEN {ProgramOf[section]} ELSE {}

\* The program was needed, and the deadline ended it.
contextFailure(section) ==
  Usable(FilesOf[section]) = {} /\ (~ Live \/ (IF ProgramOf[section] = "ip" THEN host.ip ELSE host.ss) = "slow")

collectSection ==
  /\ pc = "collect" /\ got.section <= Len(Sections)
  /\ LET s == Sections[got.section]
         ok == Source(s) # {}
     IN IF contextFailure(s) THEN Answer(Failure("timeout")) /\ UNCHANGED got
        ELSE /\ got' = [got EXCEPT
                  !.section = IF cmd = "overview" THEN @ + 1 ELSE Len(Sections) + 1,
                  !.from = IF ok THEN [x \in DOMAIN @ \cup {s} |-> IF x = s THEN Source(s) ELSE @[x]] ELSE @,
                  !.checks = @ \cup {Chk(s, IF ok THEN "pass" ELSE "skipped")},
                  !.errors = IF ok THEN @ ELSE @ \cup {s}]
             /\ GoTo("collect")
  /\ Others

\* A narrow command has no checks, and fails without its section.
Report ==
  /\ pc = "collect" /\ got.section > Len(Sections)
  /\ IF cmd # "overview" /\ got.errors # {} THEN Answer(Failure("dependency"))
     ELSE Answer(Built(IF cmd = "overview" THEN got.checks ELSE {}, got.from, got.errors))
  /\ UNCHANGED got /\ Others

----------------------------------------------------------------------------
(* tls inspect *)

\* The certificates, each by its place among the blocks.  No block at all is
\* read as one DER certificate, which it may be.
parseCertificates(blocks, trailing) ==
  LET places == {i \in DOMAIN blocks : blocks[i] \in {"valid", "expired", "early"}}
  IN [ok |-> /\ {"private key", "broken"} \cap Range(blocks) = {}
             /\ ~ trailing
             /\ blocks # <<>> => places # {},
      certificates |-> Restrict(blocks, places)]

executeTLS ==
  /\ pc = "certificates"
  /\ LET parsed == parseCertificates(host.pem, host.trailing)
     IN IF ~ parsed.ok THEN Answer(Failure("arguments"))
        ELSE Answer(Built({Chk(i, IF parsed.certificates[i] = "valid" THEN "pass" ELSE "warning") :
                             i \in DOMAIN parsed.certificates}, parsed.certificates, {}))
  /\ UNCHANGED got /\ Others

----------------------------------------------------------------------------
Change ==
  \E f \in KernelFiles, v \in {"rows", "absent"} :
    /\ pc = "collect" /\ v # host.files[f]
    /\ Changes([host EXCEPT !.files[f] = v], [always |-> [hist.always EXCEPT ![f] = "changed"]])

Step == Dispatch \/ collectSection \/ Report \/ executeTLS
Next == Step \/ Change \/ Deadline

----------------------------------------------------------------------------
\* A section is there unless none of its sources could be used, and then the
\* result says so; of two socket tables one is silently enough
\* (collect.go:156-208, plugin.go:160-211).
NothingLost ==
  reply.exit = "ok" /\ cmd # "tls" =>
    \A s \in (IF cmd = "overview" THEN Range(Sections) ELSE {cmd}) :
      \/ s \in DOMAIN reply.data /\ reply.data[s] # {}
      \/ s \in reply.errors /\ \A f \in FilesOf[s] : hist.always[f] # "rows"

\* A section comes from one kind of source, and never from rows that could not
\* be parsed.
NothingInvented ==
  reply.exit = "ok" /\ cmd # "tls" =>
    \A s \in DOMAIN reply.data :
      \/ reply.data[s] \subseteq FilesOf[s] /\ \A f \in reply.data[s] : hist.always[f] \in {"rows", "changed"}
      \/ reply.data[s] = {ProgramOf[s]} /\ (IF ProgramOf[s] = "ip" THEN host.ip ELSE host.ss) = "works"

\* An inspection that passes has a certificate that is in force in each place,
\* and no private key was in the file (tls.go:39-67, 123-156).
PassIsEarned ==
  cmd = "tls" /\ reply.exit = "ok" =>
    /\ "private key" \notin Range(host.pem) /\ "broken" \notin Range(host.pem)
    /\ reply.status = "pass" <=> {"expired", "early"} \cap Range(host.pem) = {}
=============================================================================
