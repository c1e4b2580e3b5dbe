------------------------------ MODULE MCJournal ------------------------------
(* Two processes with one journal, four events.                              *)
EXTENDS Journal

CONSTANTS w1, w2

MCWriter == {w1, w2}
==============================================================================
