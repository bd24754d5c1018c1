--------------------------- MODULE MCSetupSession ---------------------------
\* A small profile whose objects depend on each other, and overlapping sessions.
EXTENDS SetupSession

MCObjects == {"package", "group", "user"}
MCKind == [o \in MCObjects |-> o]
MCProfile == <<"package", "group", "user">>
MCAccounts == [o \in MCObjects |->
    CASE o = "user" -> {"group"} [] o = "directory" -> {"user", "group"} [] OTHER -> {}]
MCNeeds == {<<"user", "group">>}
MCPins == {<<"user", "group">>}

\* Session 1 with another one of each command.
MCModes == {m \in [{1, 2} -> {"check", "apply", "upgrade"}] : m[1] = "apply"}
UpgradeAlone == {[s \in {1} |-> "upgrade"]}

\* Somebody else, for the sessions whose own interleavings are few.
MCDrift == [m \in MCModes |-> IF m[2] = "check" THEN 1 ELSE 0]
AloneDrift == [m \in UpgradeAlone |-> 0]

\* The digest of session 1 may be executed twice.
AloneRuns == [s \in {1} |-> 1]
MCRuns == [s \in {1, 2} |-> IF s = 1 THEN 2 ELSE 1]
=============================================================================
