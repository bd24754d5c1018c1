---- MODULE MCGitlabRunner ----
\* The gitlab-runner plugin on its own.
EXTENDS GitlabRunner

Spec == Init /\ [][Next]_vars
====
