------------------------------ MODULE SetupPlan ------------------------------
(***************************************************************************)
(* internal/serversetup: what a check says of an object, and the plan that *)
(* BuildSetupPlan makes of the checks.  Operators only: SetupSession reads *)
(* the host with them, one object after the other.                         *)
(***************************************************************************)
EXTENDS Integers, Sequences

CONSTANTS
    Objects,    \* the objects of the compiled profile
    Kind,       \* the kind of each: the prefix of its check ID
    Profile,    \* the objects in the order of changePriority and name
    Accounts    \* the groups and users that the check of an object looks up

Kinds == {"package", "group", "user", "directory", "file", "sysctl", "unit"}

\* "absent" is also a disabled unit; "old" exists and is not as compiled, or is
\* a package with a newer version in the cache.
Values == {"absent", "old", "new"}

\* Statuses with the summaries that tell one warning from another in a digest.
Verdicts == {"pass", "warning", "missing", "misowned", "skipped"}

changePriority(o) ==
    CASE Kind[o] = "package" -> 0
      [] Kind[o] = "group" -> 1
      [] Kind[o] = "user" -> 2
      [] Kind[o] = "directory" -> 3
      [] Kind[o] = "file" -> 4
      [] Kind[o] = "sysctl" -> 5
      [] Kind[o] = "unit" -> 6

ASSUME ProfileAssumption ==
    /\ Kind \in [Objects -> Kinds]
    /\ Profile \in Seq(Objects)
    /\ \A o \in Objects : \E n \in 1..Len(Profile) : Profile[n] = o
    /\ \A m, n \in 1..Len(Profile) :
          m < n => /\ Profile[m] # Profile[n]
                   /\ changePriority(Profile[m]) <= changePriority(Profile[n])
    /\ Accounts \in [Objects -> SUBSET Objects]
    /\ \A o \in Objects : \A a \in Accounts[o] :    \* and they come before it
          Kind[a] \in {"group", "user"} /\ changePriority(a) < changePriority(o)

Position(o) == CHOOSE n \in 1..Len(Profile) : Profile[n] = o

\* Objects are read, and changed, in the order of the profile.
First(os, o) == o \in os /\ \A p \in os : Position(o) <= Position(p)

\* One command or one file answers for all packages, groups and users.
ReadTogether(o) ==
    IF Kind[o] \in {"package", "group", "user"}
    THEN {p \in Objects : Kind[p] = Kind[o]} ELSE {o}

\* What the check of o says, when the reading has found the accounts `known`.
\* A user or an owner that is fine is not recognised without its group.
Verdict(host, known, o) ==
    CASE Kind[o] = "package" -> IF host[o] = "absent" THEN "warning" ELSE "pass"
      [] Kind[o] = "user" ->
            IF host[o] = "new" /\ Accounts[o] \subseteq known THEN "pass" ELSE "warning"
      [] Kind[o] \in {"group", "unit"} -> IF host[o] = "new" THEN "pass" ELSE "warning"
      [] Kind[o] \in {"directory", "file", "sysctl"} ->
            CASE host[o] = "absent" -> "missing"
              [] host[o] = "old" -> "warning"
              [] host[o] = "new" ->
                    IF Accounts[o] \subseteq known THEN "pass" ELSE "misowned"

\* The accounts an intact /etc/group or /etc/passwd holds, conforming or not.
AccountsRead(host, os) == {o \in os : Kind[o] \in {"group", "user"} /\ host[o] # "absent"}

needsChange(v) == v \in {"warning", "missing", "misowned"}

\* apt-get --simulate --only-upgrade: installed packages with a newer version.
CachedUpgrades(host) == {o \in Objects : Kind[o] = "package" /\ host[o] = "old"}

\* The objects of plan.Changes.  The upgrade mode replaces the rule for packages
\* and keeps the others.
Changes(mode, seen, upgrades) ==
    {o \in Objects : IF Kind[o] = "package" /\ mode = "upgrade"
                     THEN o \in upgrades ELSE needsChange(seen[o])}

\* The digest covers the command, the checks and the changes.
BuildSetupPlan(mode, seen, upgrades) ==
    [mode |-> mode, checks |-> seen, changes |-> Changes(mode, seen, upgrades)]

\* A skipped check refuses the plan.
Complete_Always(seen) == TRUE    \* mutant: plans from incomplete checks
Complete(seen) == \A o \in Objects : seen[o] # "skipped"

\* Change.Action.
Action(mode, o) ==
    CASE Kind[o] = "package" -> IF mode = "upgrade" THEN "upgrade-cached" ELSE "install-cached"
      [] Kind[o] \in {"group", "user"} -> "create"
      [] Kind[o] = "directory" -> "ensure"
      [] Kind[o] = "file" -> "replace"
      [] Kind[o] = "sysctl" -> "set"
      [] Kind[o] = "unit" -> "enable"

classify_AsSkipped(seen) ==    \* mutant: the status of a skipped check is the result's
    IF \E o \in Objects : seen[o] \notin {"pass", "skipped"} THEN "warning"
    ELSE IF Complete(seen) THEN "pass" ELSE "skipped"

\* resultbuilder.classify, for results whose errors come with skipped checks and
\* that have no critical one.
classify(seen) ==
    IF \E o \in Objects : seen[o] \notin {"pass", "skipped"} THEN "warning"
    ELSE IF Complete(seen) THEN "pass" ELSE "partial"
=============================================================================
