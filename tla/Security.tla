------------------------------ MODULE Security ------------------------------
(***************************************************************************)
(* The security plugin: `accounts`, `ssh` and `firewall` collect one       *)
(* section each, `audit` all three in this order.  A section is a set of   *)
(* checks and errors, whether anything of it could be used, and the code   *)
(* to exit with when nothing could.                                        *)
(*                                                                         *)
(* host.passwd is Unread or the rows of the file; so are the others.       *)
(***************************************************************************)
EXTENDS Collector, FiniteSetsExt

Unread == {"unread"}

\* root and toor have the user identifier 0; the home of guest may be
\* writable by others; the two other rows are not well formed.
Rows == {"root", "toor", "guest", "short row", "bad number"}
ZeroUID == {"root", "toor"}
Malformed == {"short row", "bad number"}
NoRow == {}

\* main and the two files of the drop-in directory: what each sets
\* PermitRootLogin to, "none" when it sets nothing that is looked at.
Files == {"unread", "yes", "no", "none"}
Programs == {"absent", "fails", "denied", "exits"}

Usual == [passwd |-> {"root"}, shadow |-> {"root"}, group |-> {"root"}, writable |-> FALSE,
          main |-> "no", directory |-> "read", dropins |-> <<"none">>, sshd |-> "no",
          nft |-> "works", ufw |-> "works", platform |-> "supported"]
\* What else each of them can be.
Unusual ==
  [passwd |-> {Unread, NoRow} \cup {{"root", r} : r \in Rows},
   shadow |-> {Unread, NoRow, {"root", "short row"}},
   group |-> {Unread} \cup {{"root", r} : r \in Malformed},
   writable |-> {TRUE}, main |-> Files,
   directory |-> {"absent", "link", "unread", "too many"},
   dropins |-> {<<>>, <<"link">>, <<"unread", "no">>, <<"yes", "no">>, <<"no", "yes">>},
   sshd |-> {"yes", "none"} \cup Programs, nft |-> Programs, ufw |-> Programs,
   platform |-> {"unsupported", "unread"}]
Hosts ==
  Varied(Varied({Usual}, Unusual), Unusual)
    \cup {[Usual EXCEPT !.main = "unread", !.sshd = "absent", !.dropins = d] :
            d \in {<<>>, <<"unread", "no">>, <<"no", "yes">>}}
    \cup {[Usual EXCEPT !.passwd = {"root", "toor"}, !.shadow = Unread]}

Init == Starts({"audit", "accounts", "ssh", "firewall"}, Hosts,
               LAMBDA h : [always |-> h.passwd, ever |-> h.passwd],
               [passwd |-> {}, accounts |-> {}, locked |-> {}, configured |-> "absent", effective |-> "absent",
                checks |-> {}, errors |-> {}, usable |-> FALSE, denied |-> FALSE])

\* An error is its code and what it is about, when it is about a row or a program.
Err(code) == <<code, "">>

Audit == cmd = "audit"
Dependency == Failure("dependency")

Dispatch ==
  /\ pc = "start"
  /\ \/ Answer(Failure("arguments"))
     \/ GoTo([audit |-> "passwd", accounts |-> "passwd", ssh |-> "config", firewall |-> "nft"][cmd])
  /\ UNCHANGED got /\ Others

Timeout ==
  /\ ~ Live /\ pc \in {"passwd", "sshd", "nft", "ufw"}
  /\ Answer(Failure("timeout")) /\ UNCHANGED got /\ Others

----------------------------------------------------------------------------
(* accounts.go *)

\* parsePasswd: a row that is not well formed is left out with an error.
collectAccounts ==
  /\ pc = "passwd" /\ Live
  /\ IF host.passwd = Unread
     THEN /\ got' = [got EXCEPT !.errors = @ \cup {Err("passwd_unavailable")}]
          /\ IF Audit THEN GoTo("config") ELSE Answer(Dependency)
     ELSE /\ got' = [got EXCEPT !.passwd = host.passwd, !.usable = TRUE]
          /\ GoTo("shadow")
  /\ Others

\* A row with too few fields is left out without an error.
readShadowMetadata ==
  /\ pc = "shadow"
  /\ got' = IF host.shadow = Unread THEN [got EXCEPT !.errors = @ \cup {Err("shadow_unavailable")}]
            ELSE [got EXCEPT !.locked = host.shadow \ Malformed]
  /\ GoTo("homes") /\ Others

parsePasswd ==
  /\ pc = "homes"
  /\ got' = [got EXCEPT !.accounts = got.passwd \ Malformed,
                        !.errors = @ \cup {<<"malformed_passwd_entry", r>> : r \in got.passwd \cap Malformed}]
  /\ GoTo("group") /\ Others

accountChecks(accounts) ==
  {Chk("uid-zero", IF Cardinality(accounts \cap ZeroUID) > 1 THEN "warning" ELSE "pass")}
  \cup {Chk("home-permissions", "warning") : a \in {x \in accounts : x = "guest" /\ host.writable}}

\* A row with too few fields has an error; one whose number is none is left
\* out without.
readGroups ==
  /\ pc = "group"
  /\ got' = [got EXCEPT
       !.checks = @ \cup accountChecks(got.accounts),
       !.errors = @ \cup (IF host.group = Unread THEN {Err("group_unavailable")}
                          ELSE {<<"malformed_group_entry", r>> : r \in host.group \cap {"short row"}})]
  /\ GoTo(IF Audit THEN "config" ELSE "report") /\ Others

----------------------------------------------------------------------------
(* ssh.go *)

\* mergeSSHDirectives, file after file: a later one replaces what an earlier one set.
mergeSSHDirectives(files) ==
  LET set == {i \in DOMAIN files : files[i] # "none"} IN IF set = {} THEN "none" ELSE files[Max(set)]

DropinErrors ==
  CASE host.directory = "absent"   -> {}
    [] host.directory = "link"     -> {Err("sshd_dropins_unsafe")}
    [] host.directory = "unread"   -> {Err("sshd_dropins_unavailable")}
    [] host.directory = "too many" -> {Err("sshd_dropins_exceeded")}
    [] host.directory = "read"     ->
         IF "unread" \in Range(host.dropins) THEN {Err("sshd_dropin_unavailable")} ELSE {}

\* The main file that cannot be read is like one that is not there; a
\* drop-in that can be read is enough to be configured.
Configured ==
  \/ host.main # "unread"
  \/ host.directory = "read" /\ ~ Range(host.dropins) \subseteq {"link", "unread"}

readSSHConfiguration ==
  /\ pc = "config"
  /\ LET dropins == IF host.directory = "read"
                    THEN SelectSeq(host.dropins, LAMBDA f : f \notin {"link", "unread"}) ELSE <<>>
         files == (IF host.main = "unread" THEN <<>> ELSE <<host.main>>) \o dropins
     IN got' = [got EXCEPT
          !.configured = IF Configured THEN mergeSSHDirectives(files) ELSE "absent",
          !.errors = @ \cup DropinErrors \cup (IF Configured THEN {} ELSE {Err("sshd_config_unavailable")}),
          !.usable = @ \/ Configured]
  /\ GoTo("sshd") /\ Others

\* What is checked: the effective configuration when there is one.  One that
\* sets nothing that is looked at gives no check.
sshChecks(effective, configured) ==
  LET value == IF effective = "absent" THEN configured ELSE effective
  IN CASE value = "yes" -> {Chk("root-login", "warning")}
       [] value = "no"  -> {Chk("posture", "pass")}
       [] OTHER         -> {}

SshdError == [absent |-> "sshd_unavailable", fails |-> "sshd_probe_failed",
              exits |-> "sshd_probe_failed", denied |-> "sshd_probe_denied"]

collectSSH ==
  /\ pc = "sshd" /\ Live
  /\ LET works == host.sshd \notin Programs
         effective == IF works THEN host.sshd ELSE "absent"
     IN /\ got' = [got EXCEPT
             !.effective = effective, !.usable = @ \/ works,
             !.checks = @ \cup sshChecks(effective, got.configured),
             !.errors = IF works THEN @ ELSE @ \cup {Err(SshdError[host.sshd])}]
        /\ IF Audit THEN GoTo("nft")
           ELSE IF got'.usable THEN GoTo("report") ELSE Answer(Dependency)
  /\ Others

----------------------------------------------------------------------------
(* firewall.go *)

firewallProbe(name) ==
  got' = [got EXCEPT
    !.usable = @ \/ host[name] = "works", !.denied = @ \/ host[name] = "denied",
    !.checks = IF host[name] = "works" THEN @ \cup {Chk("firewall", "pass")} ELSE @,
    !.errors = IF host[name] = "works" THEN @ ELSE @ \cup {<<name, host[name]>>}]

nft == pc = "nft" /\ Live /\ firewallProbe("nft") /\ GoTo("ufw") /\ Others

ufw ==
  /\ pc = "ufw" /\ Live /\ firewallProbe("ufw")
  /\ IF Audit \/ got'.usable THEN GoTo("report")
     ELSE Answer(Failure(IF got'.denied THEN "privilege" ELSE "dependency"))
  /\ Others

----------------------------------------------------------------------------

\* executeAudit: with an error of any section, no warning of any section is
\* more than a partial check.
Weakened(checks, errors) ==
  {IF errors # {} /\ c.status = "warning" THEN Chk(c.id, "partial") ELSE c : c \in checks}

\* buildResult: the platform is looked at last.
buildResult ==
  /\ pc = "report"
  /\ LET checks == IF Audit THEN Weakened(got.checks, got.errors) ELSE got.checks
     IN Answer(Built(checks \cup (IF host.platform = "unsupported" THEN {Chk("platform", "warning")} ELSE {}),
                     got,
                     got.errors \cup (IF host.platform = "unread" THEN {Err("platform_unavailable")} ELSE {})))
  /\ UNCHANGED got /\ Others

\* An account is added or removed.
Change ==
  LET rows == IF "toor" \in host.passwd THEN host.passwd \ {"toor"} ELSE host.passwd \cup {"toor"}
  IN /\ pc \in {"passwd", "shadow", "homes", "group"} /\ host.passwd # Unread
     /\ Changes([host EXCEPT !.passwd = rows],
                [always |-> hist.always \cap rows, ever |-> hist.ever \cup rows])

Step == Dispatch \/ Timeout \/ collectAccounts \/ readShadowMetadata \/ parsePasswd \/ readGroups
        \/ readSSHConfiguration \/ collectSSH \/ nft \/ ufw \/ buildResult
Next == Step \/ Change \/ Deadline

----------------------------------------------------------------------------
\* The errors that name what a section could not read or left out: all of it,
\* but a row of shadow or group that is left out without one.
MissingAccounts ==
  IF host.passwd = Unread THEN {Err("passwd_unavailable")}
  ELSE (IF host.shadow = Unread THEN {Err("shadow_unavailable")} ELSE {})
       \cup (IF host.group = Unread THEN {Err("group_unavailable")} ELSE {})
       \cup {<<"malformed_passwd_entry", r>> : r \in Malformed \cap hist.always}
       \cup {<<"malformed_group_entry", r>> : r \in {"short row"} \cap host.group}
MissingSSH ==
  DropinErrors \cup (IF Configured THEN {} ELSE {Err("sshd_config_unavailable")})
               \cup {Err(SshdError[p]) : p \in Programs \cap {host.sshd}}
MissingFirewall == {<<f, host[f]>> : f \in {x \in {"nft", "ufw"} : host[x] # "works"}}

\* A finding does not get lost behind what could not be read: it stays a check
\* of its own, at least a partial one, and what a section could not read has
\* its error whatever the other sections come to (accounts.go:32-60,
\* ssh.go:29-91, firewall.go:18-75, audit.go:9-41).  Nothing is said of a
\* main file of sshd that cannot be read beside drop-ins that can, nor of the
\* rows of shadow and group that are skipped without one (accounts.go:83 and
\* 161-163), though docs/plugins/en/security-base.md:104 has an error for each.
NothingLost ==
  LET found(id) == \E c \in reply.checks : c.id = id /\ c.status \in {"warning", "partial"}
  IN reply.exit = "ok" =>
       /\ cmd \in {"audit", "accounts"} =>
            /\ ZeroUID \subseteq hist.always => found("uid-zero")
            /\ "guest" \in hist.always /\ host.writable => found("home-permissions")
            /\ MissingAccounts \subseteq reply.errors
       /\ cmd \in {"audit", "ssh"} =>
            /\ host.sshd = "yes" => found("root-login")
            /\ MissingSSH \subseteq reply.errors
       /\ cmd \in {"audit", "firewall"} => MissingFirewall \subseteq reply.errors
       /\ host.platform = "unread" => Err("platform_unavailable") \in reply.errors

\* An account is reported only if it was there at some time of the run
\* (accounts.go:32-60), though passwd and shadow are read one after the other.
NothingInvented ==
  reply.exit = "ok" /\ cmd \in {"audit", "accounts"} => reply.data.accounts \subseteq hist.ever

\* A pass has read what it speaks of; of the firewalls, one.
PassIsEarned ==
  reply.status = "pass" =>
    /\ reply.errors = {}
    /\ cmd \in {"audit", "accounts"} => host.shadow # Unread /\ ~ ZeroUID \subseteq hist.always
    /\ cmd \in {"audit", "ssh"} => host.sshd \in {"no", "none"}
    /\ cmd \in {"audit", "firewall"} => "works" \in {host.nft, host.ufw}

\* In a report that is not complete nothing but the platform is a warning.
StatusIsWorst ==
  reply.exit = "ok" /\ Audit /\ got.errors # {} =>
    /\ \A c \in reply.checks : c.status = "warning" => c.id = "platform"
    /\ reply.status \in {"partial", "warning"}
    /\ reply.status = "warning" => host.platform = "unsupported"
=============================================================================
