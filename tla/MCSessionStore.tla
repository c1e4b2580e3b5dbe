---------------------------- MODULE MCSessionStore ----------------------------
(* Two daemon instances and three runs: two of one instance and one of the   *)
(* other on the same session.                                                *)
EXTENDS SessionStore, TLC

CONSTANTS d1, d2, r1, r2, r3, s1

MCInstance == {d1, d2}
MCRun == {r1, r2, r3}
MCSession == {s1}
MCSessionOf == [r \in MCRun |-> s1]
MCInstanceOf == [r \in MCRun |-> IF r = r3 THEN d2 ELSE d1]
==============================================================================
