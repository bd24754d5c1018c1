---- MODULE MCCollectors ----
EXTENDS Collectors
====
