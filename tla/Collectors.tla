----------------------------- MODULE Collectors -----------------------------
(***************************************************************************)
(* All the plugins that only read, and the detection of the platform, one  *)
(* run of one of them at a time: it is chosen at the start.  What they     *)
(* promise is stated of each in its own module, and put together here.     *)
(***************************************************************************)
EXTENDS Collector

VARIABLE plugin

A  == INSTANCE Apt
Bk == INSTANCE Backup
Bl == INSTANCE Baseline
D  == INSTANCE Docker
F  == INSTANCE LocalFile
G  == INSTANCE GitlabRunner
I  == INSTANCE Incident
J  == INSTANCE Java
Ka == INSTANCE Kafka
Ku == INSTANCE Kubernetes
M  == INSTANCE Monitoring
N  == INSTANCE Network
P  == INSTANCE Platform
Pg == INSTANCE Postgres
R  == INSTANCE Runbook
Se == INSTANCE Security
Sv == INSTANCE ServiceInfo
St == INSTANCE Storage
Sy == INSTANCE SystemInfo

Plugins == {"apt", "backup", "baseline", "docker", "file", "gitlab-runner", "incident",
            "java", "kafka", "kubernetes", "monitoring", "network", "platform",
            "postgres", "runbook", "security", "service", "storage", "system"}

Is(p) == plugin = p

Init ==
  \/ plugin = "apt"           /\ A!Init
  \/ plugin = "backup"        /\ Bk!Init
  \/ plugin = "baseline"      /\ Bl!Init
  \/ plugin = "docker"        /\ D!Init
  \/ plugin = "file"          /\ F!Init
  \/ plugin = "gitlab-runner" /\ G!Init
  \/ plugin = "incident"      /\ I!Init
  \/ plugin = "java"          /\ J!Init
  \/ plugin = "kafka"         /\ Ka!Init
  \/ plugin = "kubernetes"    /\ Ku!Init
  \/ plugin = "monitoring"    /\ M!Init
  \/ plugin = "network"       /\ N!Init
  \/ plugin = "platform"      /\ P!Init
  \/ plugin = "postgres"      /\ Pg!Init
  \/ plugin = "runbook"       /\ R!Init
  \/ plugin = "security"      /\ Se!Init
  \/ plugin = "service"       /\ Sv!Init
  \/ plugin = "storage"       /\ St!Init
  \/ plugin = "system"        /\ Sy!Init

Next ==
  /\ \/ Is("apt")           /\ A!Next
     \/ Is("backup")        /\ Bk!Next
     \/ Is("baseline")      /\ Bl!Next
     \/ Is("docker")        /\ D!Next
     \/ Is("file")          /\ F!Next
     \/ Is("gitlab-runner") /\ G!Next
     \/ Is("incident")      /\ I!Next
     \/ Is("java")          /\ J!Next
     \/ Is("kafka")         /\ Ka!Next
     \/ Is("kubernetes")    /\ Ku!Next
     \/ Is("monitoring")    /\ M!Next
     \/ Is("network")       /\ N!Next
     \/ Is("platform")      /\ P!Next
     \/ Is("postgres")      /\ Pg!Next
     \/ Is("runbook")       /\ R!Next
     \/ Is("security")      /\ Se!Next
     \/ Is("service")       /\ Sv!Next
     \/ Is("storage")       /\ St!Next
     \/ Is("system")        /\ Sy!Next
  /\ UNCHANGED plugin

Spec == Init /\ [][Next]_<<vars, plugin>>

----------------------------------------------------------------------------
\* The answers have the shape they should, and a run that is over has one.
TypeOK == plugin \in Plugins /\ changes \in 0..MaxChanges /\ ctx \in {"live", "done"} /\ ReplyOK

\* What is there all the time, and can be read, is reported.  What cannot be
\* read has an error as far as the module of its plugin says; without one are
\* passed over the optional sources of `postgres status`, a process of kafka or
\* monitoring whose name cannot be read, one of two socket tables of network,
\* the sshd_config of security beside drop-ins that can be read, and the rows of
\* shadow and group that are skipped.
NothingLost ==
  /\ Is("apt")           => A!NothingLost
  /\ Is("backup")        => Bk!NothingLost
  /\ Is("baseline")      => Bl!NothingLost
  /\ Is("docker")        => D!NothingLost
  /\ Is("gitlab-runner") => G!NothingLost
  /\ Is("incident")      => I!NothingLost
  /\ Is("java")          => J!NothingLost
  /\ Is("kafka")         => Ka!NothingLost
  /\ Is("kubernetes")    => Ku!NothingLost
  /\ Is("monitoring")    => M!NothingLost
  /\ Is("network")       => N!NothingLost
  /\ Is("postgres")      => Pg!NothingLost
  /\ Is("runbook")       => R!NothingLost
  /\ Is("security")      => Se!NothingLost
  /\ Is("storage")       => St!NothingLost
  /\ Is("system")        => Sy!NothingLost

\* What is reported was there at some time of the run; what backup makes of a
\* bad answer to a probe is an exception that its module states.
NothingInvented ==
  /\ Is("backup")        => Bk!NothingInvented
  /\ Is("docker")        => D!NothingInvented
  /\ Is("file")          => F!NothingInvented
  /\ Is("gitlab-runner") => G!NothingInvented
  /\ Is("java")          => J!NothingInvented
  /\ Is("kafka")         => Ka!NothingInvented
  /\ Is("kubernetes")    => Ku!NothingInvented
  /\ Is("monitoring")    => M!NothingInvented
  /\ Is("network")       => N!NothingInvented
  /\ Is("platform")      => P!NothingInvented
  /\ Is("postgres")      => Pg!NothingInvented
  /\ Is("runbook")       => R!NothingInvented
  /\ Is("security")      => Se!NothingInvented

\* A run that passes has read what it speaks of, and found it in order.
PassIsEarned ==
  /\ Is("apt")           => A!PassIsEarned
  /\ Is("backup")        => Bk!PassIsEarned
  /\ Is("baseline")      => Bl!PassIsEarned
  /\ Is("docker")        => D!PassIsEarned
  /\ Is("file")          => F!PassIsEarned
  /\ Is("gitlab-runner") => G!PassIsEarned
  /\ Is("incident")      => I!PassIsEarned
  /\ Is("java")          => J!PassIsEarned
  /\ Is("kafka")         => Ka!PassIsEarned
  /\ Is("kubernetes")    => Ku!PassIsEarned
  /\ Is("monitoring")    => M!PassIsEarned
  /\ Is("network")       => N!PassIsEarned
  /\ Is("postgres")      => Pg!PassIsEarned
  /\ Is("security")      => Se!PassIsEarned
  /\ Is("service")       => Sv!PassIsEarned
  /\ Is("system")        => Sy!PassIsEarned

\* No finding hides behind another one that weighs less.
StatusIsWorst ==
  /\ Is("baseline")      => Bl!StatusIsWorst
  /\ Is("kubernetes")    => Ku!StatusIsWorst
  /\ Is("security")      => Se!StatusIsWorst
  /\ Is("storage")       => St!StatusIsWorst
  /\ Is("system")        => Sy!StatusIsWorst

\* No secret is published.
SecretsMasked ==
  /\ Is("apt")           => A!SecretsMasked
  /\ Is("java")          => J!SecretsMasked
  /\ Is("postgres")      => Pg!SecretsMasked
  /\ Is("service")       => Sv!SecretsMasked
=============================================================================
