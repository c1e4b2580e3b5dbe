-------------------------------- MODULE Journal --------------------------------
(****************************************************************************)
(* The signed journal (src/journal/journal.ts): a file of hash-chained      *)
(* events and a signed head checkpoint beside it, appended to by the        *)
(* processes that share them, and what the offline verifier                 *)
(* (src/journal/verify.ts) says of the two files.                           *)
(*                                                                          *)
(* Journal.append reads the whole file, seals the next event, appends its   *)
(* line, and rewrites the head: three file operations, so three actions;    *)
(* the process may die, or the operation throw, before, inside or after     *)
(* each.  Within one process append is synchronous.                         *)
(*                                                                          *)
(* Every sealed event is new (its timestamp and payload are in the hashed   *)
(* bytes) and is named by a serial number, which stands for its hash; the   *)
(* hash is collision-free and only the key holder signs, so the hash and    *)
(* signature checks of the verifier are true of every line here, and its    *)
(* verdict rests on the links, the parse and the head.                      *)
(****************************************************************************)
EXTENDS Naturals, Sequences

CONSTANTS Writer,    \* the processes with this journal path
          MaxSeals,  \* bound: how many events are sealed
          Resume     \* may the daemon append again after the file was damaged?

ASSUME JournalAssumption == MaxSeals \in Nat /\ Resume \in BOOLEAN

NoEvent == [seq |-> 0, prev |-> 0, hash |-> 0]
Event == [seq : Nat \ {0}, prev : Nat, hash : Nat \ {0}]  \* prev = 0: null
Garbage == [seq |-> 0, prev |-> 0, hash |-> 1]  \* a line that is not an event
TornHead == [seq |-> 0, hash |-> 1]             \* a head that is not JSON
NoHead == [seq |-> 0, hash |-> 0]

VARIABLES lines,     \* the file, line by line
          unended,   \* the last line lacks its newline
          head,      \* the head checkpoint
          pc,        \* each writer: "idle", "sealed" or "written"
          draft,     \* the event it is appending
          serial,    \* how many events were sealed
          returned,  \* history: the events whose append returned
          damaged,   \* history: the file lost or moved lines
          crowded    \* history: two appends overlapped

vars == <<lines, unended, head, pc, draft, serial, returned, damaged, crowded>>

Init ==
  /\ lines = <<>> /\ unended = FALSE /\ head = NoHead
  /\ pc = [w \in Writer |-> "idle"]
  /\ draft = [w \in Writer |-> NoEvent]
  /\ serial = 0 /\ returned = {} /\ damaged = FALSE /\ crowded = FALSE

\* readEvents parses every line, or throws.
Readable == \A n \in 1..Len(lines) : lines[n] # Garbage

LastLine == IF lines = <<>> THEN NoEvent ELSE lines[Len(lines)]

\* Mutant of Appended: the file is written anew from what append had read of it.
AppendedAnew(l) == Append(SubSeq(lines, 1, l.seq - 1), l)

\* Mutant of Appended: a last line without newline is written over.
AppendedOver(l) ==
  IF unended THEN [lines EXCEPT ![Len(lines)] = l] ELSE Append(lines, l)

\* The file after text is appended: on its own line, or on the end of the last.
Appended(l) ==
  IF unended THEN [lines EXCEPT ![Len(lines)] = Garbage] ELSE Append(lines, l)

Goto(w, l) == pc' = [pc EXCEPT ![w] = l]

\* The event sealed after l.
Sealed(l) == [seq |-> l.seq + 1, prev |-> l.hash, hash |-> serial + 1]

\* append, up to its first write: read the file, link, hash, sign, screen.
Seal(w) ==
  /\ pc[w] = "idle" /\ Readable
  /\ damaged => Resume
  /\ serial < MaxSeals
  /\ draft' = [draft EXCEPT ![w] = Sealed(LastLine)]
  /\ serial' = serial + 1
  /\ crowded' = (crowded \/ \E q \in Writer : pc[q] # "idle")
  /\ Goto(w, "sealed")
  /\ UNCHANGED <<lines, unended, head, returned, damaged>>

\* appendFileSync writes the line.
Write(w) ==
  /\ pc[w] = "sealed"
  /\ lines' = Appended(draft[w])
  /\ unended' = FALSE
  /\ Goto(w, "written")
  /\ UNCHANGED <<head, draft, serial, returned, damaged, crowded>>

\* It wrote a part of the line, or all of it but the newline; the append ends.
TearLine(w) ==
  /\ pc[w] = "sealed"
  /\ \E l \in {Garbage, draft[w]} : lines' = Appended(l)
  /\ unended' = TRUE
  /\ Goto(w, "idle")
  /\ UNCHANGED <<head, draft, serial, returned, damaged, crowded>>

\* Mutant of WriteHead: append returns before the head is rewritten.
WriteHeadLater(w) ==
  /\ pc[w] = "written"
  /\ returned' = returned \cup {draft[w]}
  /\ Goto(w, "idle")
  /\ UNCHANGED <<lines, unended, head, draft, serial, damaged, crowded>>

\* writeHead pins the event; append returns.
WriteHead(w) ==
  /\ pc[w] = "written"
  /\ head' = [seq |-> draft[w].seq, hash |-> draft[w].hash]
  /\ returned' = returned \cup {draft[w]}
  /\ Goto(w, "idle")
  /\ UNCHANGED <<lines, unended, draft, serial, damaged, crowded>>

\* The process dies while the head file is truncated or half written.
TearHead(w) ==
  /\ pc[w] = "written"
  /\ head' = TornHead
  /\ Goto(w, "idle")
  /\ UNCHANGED <<lines, unended, draft, serial, returned, damaged, crowded>>

\* The process dies (the screen or a write throws) between two operations.
Stop(w) ==
  /\ pc[w] # "idle"
  /\ Goto(w, "idle")
  /\ UNCHANGED <<lines, unended, head, draft, serial, returned, damaged, crowded>>

Cut(n) == SubSeq(lines, 1, n)
Without(n) == SubSeq(lines, 1, n - 1) \o SubSeq(lines, n + 1, Len(lines))
Swapped(n) == [lines EXCEPT ![n] = lines[n + 1], ![n + 1] = lines[n]]
Doubled(n) == SubSeq(lines, 1, n) \o SubSeq(lines, n, Len(lines))

\* The file is damaged at rest: its tail lost, a line dropped, doubled or moved.
Damage ==
  /\ ~damaged /\ \A w \in Writer : pc[w] = "idle"
  /\ \/ \E n \in 1..Len(lines) : lines' \in {Cut(n - 1), Without(n), Doubled(n)}
     \/ \E n \in 1..(Len(lines) - 1) : lines' = Swapped(n)
  /\ damaged' = TRUE
  /\ unended' = FALSE
  /\ UNCHANGED <<head, pc, draft, serial, returned, crowded>>

Next ==
  \/ \E w \in Writer :
       Seal(w) \/ Write(w) \/ TearLine(w) \/ WriteHead(w) \/ TearHead(w) \/ Stop(w)
  \/ Damage

Spec == Init /\ [][Next]_vars

------------------------------------------------------------------------------
(* The offline verifier.                                                    *)

\* verifyEvents reports nothing: seq counts from 1, each prevHash is the hash of
\* the event before it.
Links ==
  \A n \in 1..Len(lines) :
    /\ lines[n].seq = n
    /\ lines[n].prev = IF n = 1 THEN 0 ELSE lines[n - 1].hash

\* Mutant of HeadMatches: a missing head, or one past the tail, is let pass.
HeadMatchesLoosely ==
  head # TornHead /\ (head # NoHead => head.seq >= LastLine.seq)

\* The head exists, parses, and pins the last event.
HeadMatches ==
  /\ head \notin {NoHead, TornHead}
  /\ lines # <<>>
  /\ LastLine.seq = head.seq /\ LastLine.hash = head.hash

\* verifyJournalFile(...).ok
Verifies == Readable /\ Links /\ HeadMatches

------------------------------------------------------------------------------
(* What the journal promises.                                               *)

Holds(e) == \E n \in 1..Len(lines) : lines[n] = e

\* An event whose append returned is in the file, or the file has become
\* unreadable and no append, hence no tool call, gets through any more: whatever
\* died half way, and whoever else was writing.
NothingLostSilently ==
  ~damaged /\ Readable => \A e \in returned : Holds(e)

\* A journal that verifies holds every event whose append returned, whatever
\* died half way and whatever the file lost: "the signed head pins the expected
\* tail so the offline verifier catches it" (journal.ts:7-9).  (Of a file that two
\* writers had forked, a branch that is lost later is not missed.)
VerifiedMeansKept ==
  Verifies /\ (damaged => ~crowded) => \A e \in returned : Holds(e)

\* An append that returns, with no other under way, leaves a journal that
\* verifies, even if one before it died before its head: or the file holds a
\* torn line.
AppendHeals ==
  [][returned' # returned /\ ~damaged /\ ~crowded => Verifies' \/ ~Readable']_vars

\* To those who read and append, the two files are one log that grows at its end
\* ("Events append as JSONL", journal.ts:2): no writer changes or moves an event, an event
\* whose append returned is among those read, and a file that cannot be parsed
\* stays so.
Log == INSTANCE AppendOnlyLog WITH
  log <- IF Readable THEN lines ELSE <<>>,
  readable <- Readable,
  acked <- returned,
  tampered <- damaged

ImplementsLog == Log!LogSpec

==============================================================================
