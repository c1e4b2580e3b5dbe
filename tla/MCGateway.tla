------------------------------- MODULE MCGateway -------------------------------
(* Two hooks that may carry the same id, and one other process.             *)
EXTENDS Gateway

CONSTANTS h1, h2, p1, c1, c2

MCHooks == {h1, h2}
MCPeers == {p1}
MCCalls == {c1, c2}
================================================================================
