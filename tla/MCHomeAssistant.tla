---------------------------- MODULE MCHomeAssistant ----------------------------
EXTENDS HomeAssistant

CONSTANTS k1, k2

\* Two zones of one system, the second with a flag.
OneSystem == [k \in Keys |-> "A"]
SomeValid == {<<k2, 1>>}
=============================================================================
