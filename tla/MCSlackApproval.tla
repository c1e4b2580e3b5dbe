---------------------------- MODULE MCSlackApproval ----------------------------
(* Two prompts, one of a proxied and one of a gated call.                    *)
EXTENDS SlackApproval

CONSTANTS c1, c2

MCCall == {c1, c2}
MCModeOf == [c \in MCCall |-> IF c = c1 THEN "mediate" ELSE "gate"]
==============================================================================
