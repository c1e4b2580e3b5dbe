------------------------------- MODULE MCSandbox -------------------------------
(* Successive spawns with one session id, under every configuration.        *)
EXTENDS Sandbox
================================================================================
