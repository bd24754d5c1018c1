-------------------------- MODULE MCServiceRestart --------------------------
\* Two runs that may overlap in any way, and a unit that also changes by itself.
EXTENDS ServiceRestart

CONSTANTS r1, r2

MCRuns == {r1, r2}
=============================================================================
