---- MODULE MCBackup ----
\* The backup plugin on its own.
EXTENDS Backup

Spec == Init /\ [][Next]_vars
====
