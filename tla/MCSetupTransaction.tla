------------------------- MODULE MCSetupTransaction -------------------------
\* The plans of the compiled profile, one object of each kind, for TLC.
EXTENDS SetupTransaction

MCAction == [o \in Objects |->
    CASE o = "package" -> "install-cached"
      [] o = "upgrade" -> "upgrade-cached"
      [] o \in {"group", "user"} -> "create"
      [] o = "directory" -> "ensure"
      [] o = "file" -> "replace"
      [] o = "sysctl" -> "set"
      [] o = "unit" -> "enable"]

\* `setup apply` on a new host, in the order of changePriority.
ApplyPlan == <<"package", "group", "user", "directory", "file", "sysctl">>
ApplyObjects == {"package", "group", "user", "directory", "file", "sysctl"}

\* `setup upgrade`, which also plans what else does not conform.
UpgradePlan == <<"upgrade", "group", "directory", "file", "sysctl", "unit">>
UpgradeObjects == {"upgrade", "group", "directory", "file", "sysctl", "unit"}

\* A disabled unit among what does not conform.
UnitPlan == <<"group", "unit">>
UnitObjects == {"group", "unit"}

ProfileNeeds == {<<"user", "group">>, <<"directory", "user">>, <<"file", "directory">>}
ProfilePins == {<<"user", "group">>, <<"file", "directory">>}

MCNeeds == {d \in ProfileNeeds : d[1] \in Objects /\ d[2] \in Objects}
MCPins == {d \in ProfilePins : d[1] \in Objects /\ d[2] \in Objects}
=============================================================================
