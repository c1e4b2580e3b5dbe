----------------------------- MODULE AppendOnlyLog -----------------------------
(****************************************************************************)
(* What a journal promises its readers and writers, whatever its files look *)
(* like: one sequence of events, or a refusal to read it.  It grows at its  *)
(* end, an event at a time; an append that returns has its event in it; and *)
(* once it refuses it refuses for good, so that nothing is read that had    *)
(* something missing.  The file itself may be tampered with, once.          *)
(****************************************************************************)
EXTENDS Naturals, Sequences

VARIABLES log,       \* what a reader gets
          readable,  \* or it gets nothing but an error
          acked,     \* the events whose append returned
          tampered   \* the file was changed behind the journal's back

logVars == <<log, readable, acked, tampered>>

InLog(e) == \E n \in 1..Len(log) : log[n] = e

LogInit == log = <<>> /\ readable = TRUE /\ acked = {} /\ tampered = FALSE

\* One event more, at the end; those before it keep their places.
Grow ==
  /\ readable /\ readable'
  /\ Len(log') = Len(log) + 1
  /\ \A n \in 1..Len(log) : log'[n] = log[n]
  /\ UNCHANGED <<acked, tampered>>

\* An append returns.  A journal that can be read has its event.
Acknowledge ==
  /\ \E e \in acked' : acked' = acked \cup {e} /\ (readable => InLog(e))
  /\ UNCHANGED <<log, readable, tampered>>

\* The journal cannot be read any more.
Refuse ==
  /\ readable /\ ~readable' /\ log' = <<>>
  /\ UNCHANGED <<acked, tampered>>

\* Somebody else changes the file: anything may be read of it.
Tamper ==
  /\ ~tampered /\ tampered'
  /\ UNCHANGED acked

LogNext == Grow \/ Acknowledge \/ Refuse \/ Tamper

LogSpec == LogInit /\ [][LogNext]_logVars
================================================================================
