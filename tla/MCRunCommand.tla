----------------------------- MODULE MCRunCommand -----------------------------
(* Runs in environments that lack at most one of the things a live session   *)
(* in containers with Slack approvals needs, with Slack and without.         *)
EXTENDS RunCommand

Full == [f \in Flag |-> TRUE]
Lacking == {Full} \cup {[Full EXCEPT ![f] = FALSE] : f \in Flag}
MCEnvironment ==
  {<<[e EXCEPT !["slack"] = s], h>> : e \in Lacking, s \in BOOLEAN, h \in Harness}
===============================================================================
