--------------------------- MODULE MCThreatIntel ---------------------------
(* An instance of ThreatIntel for TLC: a call and a job of two lookups.    *)
EXTENDS ThreatIntel

MCAsked == [c \in Calls |-> 2]
=============================================================================
