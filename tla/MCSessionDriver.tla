--------------------------- MODULE MCSessionDriver ---------------------------
(* The instances of SessionDriver that are checked.                          *)
EXTENDS SessionDriver, TLC

CONSTANTS d1, d2, r1, r2, r3, s1, a1, a2, b1, b2, e1, e2

MCRun == {r1, r2, r3}
MCSession == {s1}
MCSessionOf == [r \in MCRun |-> s1]
MCDriverOf == r1 :> "live" @@ r2 :> "mediated" @@ r3 :> "scripted"
MCIdentityOf == r1 :> "off" @@ r2 :> "warn" @@ r3 :> "enforce"

(* One daemon drives a session of any kind, with two calls.                  *)
SoloInstance == {d1}
SoloInstanceOf == [r \in MCRun |-> d1]
SoloCall == {a1, a2, b1, b2, e1, e2}
SoloRunOf == a1 :> r1 @@ a2 :> r1 @@ b1 :> r2 @@ b2 :> r2 @@ e1 :> r3 @@ e2 :> r3

(* One daemon drives a live or mediated session with one call, and a second  *)
(* daemon sweeps the store and takes the session over.                       *)
DuoInstance == {d1, d2}
DuoInstanceOf == r1 :> d1 @@ r2 :> d1 @@ r3 :> d2
DuoCall == {a1, b1}
DuoIdentityOf == [r \in MCRun |-> "off"]
DuoRunOf == a1 :> r1 @@ b1 :> r2
==============================================================================
