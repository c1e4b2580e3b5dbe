----------------------------- MODULE MCMediation -----------------------------
(* Three calls in flight: two through gate, one through mediate.             *)
EXTENDS Mediation

CONSTANTS c1, c2, c3

MCCall == {c1, c2, c3}
MCModeOf == [c \in MCCall |-> IF c = c1 THEN "mediate" ELSE "gate"]
==============================================================================
