------------------------------- MODULE MCExec -------------------------------
\* A command and two descendants, an output of up to twice the limit.
EXTENDS Exec

CONSTANTS d1, d2

MCDescendants == {d1, d2}
=============================================================================
