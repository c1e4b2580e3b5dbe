---------------------------- MODULE JournalProofs ----------------------------
(****************************************************************************)
(* Theorems about Journal, for any number of writers and of events: no      *)
(* event whose append returned is lost unnoticed, a journal that verifies   *)
(* holds them all, and an append that returns heals the head.               *)
(*                                                                          *)
(* While appends have overlapped, only this is left: a line is never        *)
(* changed but into one that cannot be parsed.  While they have not, and    *)
(* the file is undamaged (Orderly), an event stands on the line of its seq. *)
(****************************************************************************)
EXTENDS Journal, SequenceTheorems, TLAPS

------------------------------------------------------------------------------
(* The invariant.                                                           *)

Line == Event \cup {Garbage}

Types ==
  /\ lines \in Seq(Line) /\ unended \in BOOLEAN
  /\ head \in [seq : Nat, hash : Nat]
  /\ pc \in [Writer -> {"idle", "sealed", "written"}]
  /\ draft \in [Writer -> Event \cup {NoEvent}]
  /\ serial \in Nat /\ returned \subseteq Event
  /\ damaged \in BOOLEAN /\ crowded \in BOOLEAN
  /\ \A w \in Writer : pc[w] # "idle" => draft[w] \in Event
  /\ unended => lines # <<>>

\* What is written stays, or the file becomes unreadable.
Kept ==
  /\ ~damaged /\ Readable => \A e \in returned : Holds(e)
  /\ Readable => \A w \in Writer : pc[w] = "written" => Holds(draft[w])

\* A daemon that does not resume writes no more to a damaged file.
Frozen == damaged /\ ~Resume => \A w \in Writer : pc[w] = "idle"

Orderly == ~damaged /\ ~crowded

Alone == \A w, q \in Writer : pc[w] # "idle" /\ pc[q] # "idle" => w = q

Linked(n) ==
  /\ lines[n].seq = n
  /\ lines[n].prev = IF n = 1 THEN 0 ELSE lines[n - 1].hash

\* Only the last line may be unreadable.
Chain ==
  \A n \in 1..Len(lines) : \/ n = Len(lines) /\ lines[n] = Garbage
                           \/ lines[n] # Garbage /\ Linked(n)

\* A returned event stands at its seq, and never on a line without newline.
Placed ==
  \A e \in returned :
    /\ e.seq <= Len(lines) => lines[e.seq] = e
    /\ Readable => e.seq <= Len(lines)
    /\ unended => e.seq < Len(lines)

\* A sealed event continues the file.
SealedNext ==
  \A w \in Writer : pc[w] = "sealed" =>
    /\ Readable
    /\ draft[w].seq = Len(lines) + 1 /\ draft[w].prev = LastLine.hash

\* A written one is its last line, or has run into a line without newline.
WrittenLast ==
  \A w \in Writer : pc[w] = "written" =>
    /\ ~unended
    /\ \A e \in returned : e.seq < draft[w].seq
    /\ \/ Readable /\ lines # <<>> /\ LastLine = draft[w] /\ draft[w].seq = Len(lines)
       \/ ~Readable /\ draft[w].seq > Len(lines)

\* A head that parses is not behind any returned event.
Pinned == head # TornHead => \A e \in returned : e.seq <= head.seq

IInv ==
  /\ Types /\ Kept /\ Frozen
  /\ Orderly => Alone /\ Chain /\ Placed /\ SealedNext /\ WrittenLast /\ Pinned
  /\ ~Resume => VerifiedMeansKept

------------------------------------------------------------------------------
(* The file and its lines.                                                  *)

LEMMA Records ==
  /\ Garbage \notin Event /\ NoEvent \notin Event
  /\ Garbage \in Line
  /\ \A e \in Event : e \in Line /\ e.seq \in Nat /\ e.seq > 0 /\ e.prev \in Nat /\ e.hash \in Nat
  /\ NoEvent.seq = 0 /\ NoEvent.hash = 0
  BY DEF Garbage, NoEvent, Event, Line

LEMMA LinesType ==
  ASSUME Types
  PROVE  /\ Len(lines) \in Nat
         /\ \A n \in 1..Len(lines) : lines[n] \in Line
         /\ lines # <<>> <=> Len(lines) > 0
  BY LenProperties, ElementOfSeq, EmptySeq DEF Types

LEMMA LastLineType ==
  ASSUME Types, Readable
  PROVE  /\ LastLine \in Event \cup {NoEvent}
         /\ LastLine.seq \in Nat /\ LastLine.hash \in Nat
  <1>1. CASE lines = <<>>
    BY <1>1, Records DEF LastLine
  <1>2. CASE lines # <<>>
    <2>1. Len(lines) \in 1..Len(lines) /\ LastLine = lines[Len(lines)]
      BY <1>2, LinesType DEF LastLine
    <2>2. LastLine \in Event
      BY <2>1, LinesType DEF Readable, Line
    <2>3. QED
      BY <2>2, Records
  <1>3. QED
    BY <1>1, <1>2

\* A line after a complete one.
LEMMA OnItsOwn ==
  ASSUME Types, ~unended, NEW l \in Line, lines' = Appended(l)
  PROVE  /\ lines' \in Seq(Line) /\ Len(lines') = Len(lines) + 1 /\ lines' # <<>>
         /\ lines'[Len(lines) + 1] = l
         /\ \A n \in 1..Len(lines) : lines'[n] = lines[n]
         /\ LastLine' = l
         /\ Readable' <=> Readable /\ l # Garbage
  <1> DEFINE t == Append(lines, l)
  <1>1. lines' = t /\ lines \in Seq(Line)
    BY DEF Appended, Types
  <1>2. /\ t \in Seq(Line) /\ Len(t) = Len(lines) + 1
        /\ \A n \in 1..Len(lines) : t[n] = lines[n]
        /\ t[Len(lines) + 1] = l
    BY <1>1, AppendProperties
  <1> HIDE DEF t
  <1>3. Len(lines) \in Nat
    BY LinesType
  <1>4. lines' # <<>>
    BY <1>1, <1>2, <1>3, EmptySeq
  <1>5. LastLine' = l
    BY <1>1, <1>2, <1>4 DEF LastLine
  <1>6. Readable' <=> Readable /\ l # Garbage
    <2>1. \A n \in 1..Len(lines) + 1 : n \in 1..Len(lines) \/ n = Len(lines) + 1
      BY <1>3
    <2>2. /\ Len(lines) + 1 \in 1..Len(lines) + 1
          /\ \A n \in 1..Len(lines) : n \in 1..Len(lines) + 1
      BY <1>3
    <2>3. QED
      BY <1>1, <1>2, <2>1, <2>2 DEF Readable
  <1>7. QED
    BY <1>1, <1>2, <1>4, <1>5, <1>6

\* A line that runs into one without newline.
LEMMA RunsIn ==
  ASSUME Types, unended, NEW l, lines' = Appended(l)
  PROVE  /\ lines' \in Seq(Line) /\ Len(lines') = Len(lines) /\ lines' # <<>>
         /\ lines'[Len(lines)] = Garbage
         /\ \A n \in 1..Len(lines) : n # Len(lines) => lines'[n] = lines[n]
         /\ ~Readable'
  <1> DEFINE m == Len(lines)
             t == [lines EXCEPT ![m] = Garbage]
  <1>1. lines' = t /\ lines \in Seq(Line) /\ m \in 1..Len(lines)
    BY LinesType DEF Appended, Types
  <1>2. /\ t \in Seq(Line) /\ Len(t) = Len(lines)
        /\ \A n \in 1..Len(lines) : t[n] = IF n = m THEN Garbage ELSE lines[n]
    BY <1>1, Records, ExceptSeq
  <1> HIDE DEF t
  <1>3. lines' # <<>>
    BY <1>1, <1>2, EmptySeq
  <1>4. ~Readable'
    BY <1>1, <1>2 DEF Readable
  <1>5. QED
    BY <1>1, <1>2, <1>3, <1>4

\* In a file that stays readable the lines stay.
LEMMA StaysHeld ==
  ASSUME Types, NEW l \in Line, lines' = Appended(l), Readable'
  PROVE  /\ Readable
         /\ \A e : Holds(e) => Holds(e)'
         /\ Holds(l)'
  <1>1. ~unended
    BY RunsIn
  <1>2. /\ Len(lines') = Len(lines) + 1
        /\ \A n \in 1..Len(lines) : lines'[n] = lines[n]
        /\ lines'[Len(lines) + 1] = l /\ Readable
    BY <1>1, OnItsOwn
  <1>3. Len(lines) \in Nat
    BY LinesType
  <1>4. /\ Len(lines) + 1 \in 1..Len(lines')
        /\ \A n \in 1..Len(lines) : n \in 1..Len(lines')
    BY <1>2, <1>3
  <1>5. QED
    BY <1>2, <1>4 DEF Holds

\* The links of an orderly, readable file.
LEMMA TailIsLinked ==
  ASSUME Types, Chain, Readable
  PROVE  /\ Links
         /\ LastLine.seq = Len(lines)
         /\ lines # <<>> => LastLine = lines[Len(lines)]
  <1>1. Links
    BY DEF Links, Chain, Linked, Readable
  <1>2. CASE lines = <<>>
    BY <1>1, <1>2, Records DEF LastLine
  <1>3. CASE lines # <<>>
    <2>1. Len(lines) \in 1..Len(lines) /\ LastLine = lines[Len(lines)]
      BY <1>3, LinesType DEF LastLine
    <2>2. QED
      BY <1>1, <2>1 DEF Links
  <1>4. QED
    BY <1>1, <1>2, <1>3

------------------------------------------------------------------------------
(* The steps of an append.                                                  *)

Order == Alone /\ Chain /\ Placed /\ SealedNext /\ WrittenLast /\ Pinned

\* A writer's step: what is left to show of it.
LEMMA WriterStep ==
  ASSUME IInv, NEW w \in Writer, damaged' = damaged,
         pc[w] # "idle" \/ (damaged => Resume),
         Types', Kept', Orderly' => Order'
  PROVE  IInv'
  <1>1. damaged => Resume
    BY DEF IInv, Frozen
  <1>2. Frozen'
    BY <1>1 DEF Frozen
  <1>3. ~damaged => VerifiedMeansKept'
    BY DEF VerifiedMeansKept, Verifies, Kept
  <1>4. ~Resume => VerifiedMeansKept'
    BY <1>1, <1>3 DEF IInv, Types
  <1>5. QED
    BY <1>2, <1>4 DEF IInv, Order

LEMMA Here == IInv => Types /\ Kept /\ (Orderly => Order)
  BY DEF IInv, Order

\* While appends do not overlap, the others are idle.
LEMMA OthersIdle ==
  ASSUME Alone, NEW w \in Writer, pc[w] # "idle"
  PROVE  \A q \in Writer \ {w} : pc[q] = "idle"
  BY DEF Alone

\* The file is as it was.
LEMMA SameFile ==
  ASSUME lines' = lines
  PROVE  /\ Readable' <=> Readable
         /\ LastLine' = LastLine
         /\ \A e : Holds(e)' <=> Holds(e)
         /\ Chain' <=> Chain
  BY DEF Readable, LastLine, Holds, Chain, Linked

LEMMA SealIInv ==
  ASSUME IInv, NEW w \in Writer, Seal(w)
  PROVE  IInv'
  <1> DEFINE e == Sealed(LastLine)
  <1>1. /\ pc[w] = "idle" /\ Readable /\ (damaged => Resume)
        /\ draft' = [draft EXCEPT ![w] = e]
        /\ pc' = [pc EXCEPT ![w] = "sealed"]
        /\ serial' = serial + 1
        /\ crowded' = (crowded \/ \E q \in Writer : pc[q] # "idle")
        /\ UNCHANGED <<lines, unended, head, returned, damaged>>
    BY DEF Seal, Goto
  <1>2. /\ e \in Event /\ e.seq = LastLine.seq + 1 /\ e.prev = LastLine.hash
    <2>1. LastLine.seq \in Nat /\ LastLine.hash \in Nat /\ serial \in Nat
      BY <1>1, Here, LastLineType DEF Types
    <2>2. /\ LastLine.seq + 1 \in Nat \ {0} /\ serial + 1 \in Nat \ {0}
          /\ e = [seq |-> LastLine.seq + 1, prev |-> LastLine.hash, hash |-> serial + 1]
      BY <2>1 DEF Sealed
    <2>3. QED
      BY <2>1, <2>2 DEF Event
  <1> HIDE DEF e
  <1>3. /\ draft'[w] = e /\ pc'[w] = "sealed"
        /\ \A q \in Writer \ {w} : draft'[q] = draft[q] /\ pc'[q] = pc[q]
    BY <1>1, Here DEF Types
  <1>4. Types'
    <2>1. crowded' \in BOOLEAN
      BY <1>1
    <2>2. draft' \in [Writer -> Event \cup {NoEvent}] /\ serial' \in Nat
      BY <1>1, <1>2, Here DEF Types
    <2>3. pc' \in [Writer -> {"idle", "sealed", "written"}]
      BY <1>1, Here DEF Types
    <2>4. QED
      BY <1>1, <1>2, <1>3, <2>1, <2>2, <2>3, Here DEF Types
  <1>5. Kept'
    BY <1>1, <1>3, Here, SameFile DEF Kept
  <1>6. ASSUME Orderly' PROVE Order'
    <2>1. Orderly /\ \A q \in Writer : pc[q] = "idle"
      BY <1>1, <1>6 DEF Orderly
    <2>2. \A q \in Writer \ {w} : pc'[q] = "idle"
      BY <1>3, <2>1
    <2>3. Alone'
      BY <2>2 DEF Alone
    <2>4. Chain' /\ Placed' /\ Pinned'
      BY <1>1, <2>1, Here, SameFile DEF Order, Placed, Pinned
    <2>5. SealedNext'
      <3>1. LastLine.seq = Len(lines)
        BY <1>1, <2>1, Here, TailIsLinked DEF Order
      <3>2. QED
        BY <1>1, <1>2, <1>3, <2>2, <3>1, SameFile DEF SealedNext
    <2>6. WrittenLast'
      BY <1>3, <2>2 DEF WrittenLast
    <2>7. QED
      BY <2>3, <2>4, <2>5, <2>6 DEF Order
  <1>7. QED
    BY <1>1, <1>4, <1>5, <1>6, WriterStep

\* What the file's growth keeps of the invariant.
LEMMA GrowthKeeps ==
  ASSUME IInv, NEW w \in Writer, NEW l \in Line, lines' = Appended(l),
         UNCHANGED <<draft, returned, damaged>>,
         \A q \in Writer \ {w} : pc'[q] = pc[q],
         pc'[w] = "written" => l = draft[w]
  PROVE  Kept'
  <1> SUFFICES ASSUME Readable'
               PROVE  /\ ~damaged' => \A e \in returned' : Holds(e)'
                      /\ \A q \in Writer : pc'[q] = "written" => Holds(draft[q])'
    BY DEF Kept, Holds
  <1>1. Readable /\ Holds(l)' /\ \A e : Holds(e) => Holds(e)'
    BY Here, StaysHeld
  <1>2. /\ ~damaged => \A e \in returned : Holds(e)
        /\ \A q \in Writer : pc[q] = "written" => Holds(draft[q])
    BY <1>1, Here DEF Kept
  <1>3. QED
    BY <1>1, <1>2

LEMMA ChainGrows ==
  ASSUME Types, Chain, Readable, NEW l \in Line, lines' = Appended(l),
         l = Garbage \/ (l.seq = Len(lines) + 1 /\ l.prev = LastLine.hash)
  PROVE  Chain'
  <1>1. Len(lines) \in Nat
    BY LinesType
  <1>2. \A n \in 1..Len(lines) : lines[n] # Garbage /\ Linked(n)
    BY DEF Chain, Readable
  <1>3. CASE ~unended
    <2>1. /\ Len(lines') = Len(lines) + 1 /\ lines'[Len(lines) + 1] = l
          /\ \A n \in 1..Len(lines) : lines'[n] = lines[n]
      BY <1>3, OnItsOwn
    <2>2. ASSUME NEW n \in 1..Len(lines)
          PROVE  lines'[n] # Garbage /\ Linked(n)'
      <3>1. n # 1 => n - 1 \in 1..Len(lines)
        BY <1>1
      <3>2. QED
        BY <1>2, <2>1, <3>1 DEF Linked
    <2>3. ASSUME l # Garbage, NEW n, n = Len(lines) + 1
          PROVE  Linked(n)'
      <3>1. CASE n = 1
        <4>1. LastLine.hash = 0
          BY <1>1, <2>3, <3>1, LinesType, Records DEF LastLine
        <4>2. QED
          BY <2>1, <2>3, <3>1, <4>1 DEF Linked
      <3>2. CASE n # 1
        <4>1. n - 1 = Len(lines) /\ n - 1 \in 1..Len(lines) /\ lines # <<>>
          BY <1>1, <2>3, <3>2, LinesType
        <4>2. LastLine = lines'[n - 1]
          BY <2>1, <4>1 DEF LastLine
        <4>3. QED
          BY <2>1, <2>3, <3>2, <4>2 DEF Linked
      <3>3. QED
        BY <3>1, <3>2
    <2>4. \A n \in 1..Len(lines') : n \in 1..Len(lines) \/ n = Len(lines')
      BY <1>1, <2>1
    <2>5. QED
      BY <2>1, <2>2, <2>3, <2>4 DEF Chain
  <1>4. CASE unended
    <2>1. /\ Len(lines') = Len(lines) /\ lines'[Len(lines)] = Garbage
          /\ \A n \in 1..Len(lines) : n # Len(lines) => lines'[n] = lines[n]
      BY <1>4, RunsIn
    <2> SUFFICES ASSUME NEW n \in 1..Len(lines), n # Len(lines)
                 PROVE  lines'[n] # Garbage /\ Linked(n)'
      BY <2>1 DEF Chain
    <2>2. n # 1 => n - 1 \in 1..Len(lines) /\ n - 1 # Len(lines)
      BY <1>1
    <2>3. QED
      BY <1>2, <2>1, <2>2 DEF Linked
  <1>5. QED
    BY <1>3, <1>4

LEMMA PlacedStays ==
  ASSUME Types, Placed, Readable, NEW l \in Line, lines' = Appended(l), returned' = returned
  PROVE  Placed'
  <1>1. Len(lines) \in Nat
    BY LinesType
  <1>2. ASSUME NEW e \in returned
        PROVE  /\ e.seq \in 1..Len(lines) /\ lines[e.seq] = e
               /\ unended => e.seq < Len(lines)
    BY Records DEF Types, Placed
  <1>3. CASE ~unended
    <2>1. /\ Len(lines') = Len(lines) + 1
          /\ \A n \in 1..Len(lines) : lines'[n] = lines[n]
      BY <1>3, OnItsOwn
    <2>2. QED
      BY <1>1, <1>2, <2>1 DEF Placed
  <1>4. CASE unended
    <2>1. /\ Len(lines') = Len(lines)
          /\ \A n \in 1..Len(lines) : n # Len(lines) => lines'[n] = lines[n]
      BY <1>4, RunsIn
    <2>2. QED
      BY <1>1, <1>2, <1>4, <2>1 DEF Placed
  <1>5. QED
    BY <1>3, <1>4

LEMMA WriteIInv ==
  ASSUME IInv, NEW w \in Writer, Write(w)
  PROVE  IInv'
  <1> DEFINE l == draft[w]
  <1>1. /\ pc[w] = "sealed" /\ pc' = [pc EXCEPT ![w] = "written"]
        /\ lines' = Appended(l) /\ unended' = FALSE
        /\ UNCHANGED <<head, draft, serial, returned, damaged, crowded>>
    BY DEF Write, Goto
  <1>2. l \in Event /\ l \in Line /\ l # Garbage /\ l.seq \in Nat
    BY <1>1, Here, Records DEF Types
  <1>3. pc'[w] = "written" /\ \A q \in Writer \ {w} : pc'[q] = pc[q]
    BY <1>1, Here DEF Types
  <1>4. lines' \in Seq(Line) /\ lines' # <<>>
    <2>1. Types
      BY Here
    <2>2. CASE unended
      BY <1>1, <2>1, <2>2, RunsIn
    <2>3. CASE ~unended
      BY <1>1, <1>2, <2>1, <2>3, OnItsOwn
    <2>4. QED
      BY <2>2, <2>3
  <1>5. Types'
    BY <1>1, <1>2, <1>3, <1>4, Here DEF Types
  <1>6. Kept'
    BY <1>1, <1>2, <1>3, GrowthKeeps
  <1>7. ASSUME Orderly' PROVE Order'
    <2>1. Orderly /\ Types /\ Order /\ Len(lines) \in Nat
      BY <1>1, <1>7, Here, LinesType DEF Orderly
    <2>2. \A q \in Writer \ {w} : pc'[q] = "idle"
      BY <1>1, <1>3, <2>1, OthersIdle DEF Order
    <2>3. Readable /\ l.seq = Len(lines) + 1 /\ l.prev = LastLine.hash
      BY <1>1, <2>1 DEF Order, SealedNext
    <2>4. \A e \in returned : e \in Event /\ e.seq \in Nat /\ e.seq > 0 /\ e.seq <= Len(lines)
                              /\ lines[e.seq] = e
      BY <2>1, <2>3, Records DEF Order, Placed, Types
    <2>5. Alone' /\ Pinned'
      BY <1>1, <1>3, <2>1, <2>2 DEF Order, Alone, Pinned
    <2>6. SealedNext'
      BY <1>3, <2>2 DEF SealedNext
    <2>7. Chain' /\ Placed'
      BY <1>1, <1>2, <2>1, <2>3, ChainGrows, PlacedStays DEF Order
    <2>8. WrittenLast'
      <3>1. CASE ~unended
        <4>1. Len(lines') = Len(lines) + 1 /\ LastLine' = l /\ Readable'
          BY <1>1, <1>2, <2>1, <2>3, <3>1, OnItsOwn
        <4>2. QED
          BY <1>1, <1>3, <1>4, <2>1, <2>2, <2>3, <2>4, <4>1 DEF WrittenLast
      <3>2. CASE unended
        <4>1. Len(lines') = Len(lines) /\ ~Readable'
          BY <1>1, <2>1, <3>2, RunsIn
        <4>2. QED
          BY <1>1, <1>3, <2>1, <2>2, <2>3, <2>4, <4>1 DEF WrittenLast
      <3>3. QED
        BY <3>1, <3>2
    <2>9. QED
      BY <2>5, <2>6, <2>7, <2>8 DEF Order
  <1>8. QED
    BY <1>1, <1>5, <1>6, <1>7, WriterStep

LEMMA TearLineIInv ==
  ASSUME IInv, NEW w \in Writer, TearLine(w)
  PROVE  IInv'
  <1>1. /\ pc[w] = "sealed" /\ pc' = [pc EXCEPT ![w] = "idle"]
        /\ unended' = TRUE
        /\ UNCHANGED <<head, draft, serial, returned, damaged, crowded>>
    BY DEF TearLine, Goto
  <1>2. PICK l \in {Garbage, draft[w]} : lines' = Appended(l)
    BY DEF TearLine
  <1>3. l \in Line
    BY <1>1, Here, Records DEF Types
  <1>4. pc'[w] = "idle" /\ \A q \in Writer \ {w} : pc'[q] = pc[q]
    BY <1>1, Here DEF Types
  <1>5. lines' \in Seq(Line) /\ lines' # <<>>
    <2>1. Types
      BY Here
    <2>2. CASE unended
      BY <1>2, <2>1, <2>2, RunsIn
    <2>3. CASE ~unended
      BY <1>2, <1>3, <2>1, <2>3, OnItsOwn
    <2>4. QED
      BY <2>2, <2>3
  <1>6. Types'
    BY <1>1, <1>4, <1>5, Here DEF Types
  <1>7. Kept'
    BY <1>1, <1>2, <1>3, <1>4, GrowthKeeps
  <1>8. ASSUME Orderly' PROVE Order'
    <2>1. Orderly /\ Types /\ Order
      BY <1>1, <1>8, Here DEF Orderly
    <2>2. \A q \in Writer : pc'[q] = "idle"
      BY <1>1, <1>4, <2>1, OthersIdle DEF Order
    <2>3. Readable /\ draft[w].seq = Len(lines) + 1 /\ draft[w].prev = LastLine.hash
      BY <1>1, <2>1 DEF Order, SealedNext
    <2>4. Chain' /\ Placed'
      BY <1>1, <1>2, <1>3, <2>1, <2>3, ChainGrows, PlacedStays DEF Order
    <2>5. Pinned'
      BY <1>1, <2>1 DEF Order, Pinned
    <2>6. Alone' /\ SealedNext' /\ WrittenLast'
      BY <2>2 DEF Alone, SealedNext, WrittenLast
    <2>7. QED
      BY <2>4, <2>5, <2>6 DEF Order
  <1>9. QED
    BY <1>1, <1>6, <1>7, <1>8, WriterStep

LEMMA WriteHeadIInv ==
  ASSUME IInv, NEW w \in Writer, WriteHead(w)
  PROVE  IInv'
  <1> DEFINE e == draft[w]
  <1>1. /\ pc[w] = "written" /\ pc' = [pc EXCEPT ![w] = "idle"]
        /\ head' = [seq |-> e.seq, hash |-> e.hash]
        /\ returned' = returned \cup {e}
        /\ UNCHANGED <<lines, unended, draft, serial, damaged, crowded>>
    BY DEF WriteHead, Goto
  <1>2. e \in Event /\ e.seq \in Nat /\ e.hash \in Nat
    BY <1>1, Here, Records DEF Types
  <1>3. pc'[w] = "idle" /\ \A q \in Writer \ {w} : pc'[q] = pc[q]
    BY <1>1, Here DEF Types
  <1>4. Types'
    BY <1>1, <1>2, <1>3, Here DEF Types
  <1>5. Kept'
    <2> SUFFICES ASSUME Readable'
                 PROVE  /\ ~damaged' => \A d \in returned' : Holds(d)'
                        /\ \A q \in Writer : pc'[q] = "written" => Holds(draft[q])'
      BY DEF Kept, Holds
    <2>1. /\ ~damaged => \A d \in returned : Holds(d)
          /\ \A q \in Writer : pc[q] = "written" => Holds(draft[q])
      BY <1>1, Here, SameFile DEF Kept
    <2>2. \A d : Holds(d) => Holds(d)'
      BY <1>1, SameFile
    <2>3. ASSUME NEW q \in Writer, pc'[q] = "written" PROVE Holds(draft[q])'
      <3>1. pc[q] = "written" /\ draft'[q] = draft[q]
        BY <1>1, <1>3, <2>3
      <3>2. QED
        BY <1>1, <2>1, <3>1 DEF Holds
    <2>4. QED
      BY <1>1, <2>1, <2>2, <2>3
  <1>6. ASSUME Orderly' PROVE Order'
    <2>1. Orderly /\ Types /\ Order
      BY <1>1, <1>6, Here DEF Orderly
    <2>2. \A q \in Writer : pc'[q] = "idle"
      BY <1>1, <1>3, <2>1, OthersIdle DEF Order
    <2>3. Alone' /\ SealedNext' /\ WrittenLast'
      BY <2>2 DEF Alone, SealedNext, WrittenLast
    <2>4. /\ ~unended
          /\ \A d \in returned : d.seq < e.seq
          /\ \/ Readable /\ lines # <<>> /\ LastLine = e /\ e.seq = Len(lines)
             \/ ~Readable /\ e.seq > Len(lines)
      BY <1>1, <2>1 DEF Order, WrittenLast
    <2>5. Chain'
      BY <1>1, <2>1, SameFile DEF Order
    <2>6. Placed'
      <3>1. Len(lines) \in Nat
        BY <2>1, LinesType
      <3>2. Placed
        BY <2>1 DEF Order
      <3>3. e.seq <= Len(lines) => lines[e.seq] = e
        BY <1>2, <2>1, <2>4, <3>1, TailIsLinked DEF Order
      <3>4. Readable => e.seq <= Len(lines)
        BY <2>4, <3>1
      <3>5. Readable' <=> Readable
        BY <1>1, SameFile
      <3> HIDE DEF e
      <3>6. QED
        BY <1>1, <2>4, <3>2, <3>3, <3>4, <3>5 DEF Placed
    <2>7. Pinned'
      <3>1. \A d \in returned : d.seq \in Nat
        BY <2>1, Records DEF Types
      <3>2. head'.seq = e.seq
        BY <1>1
      <3> HIDE DEF e
      <3>3. \A d \in returned' : d.seq <= head'.seq
        BY <1>1, <1>2, <2>4, <3>1, <3>2
      <3>4. QED
        BY <3>3 DEF Pinned
    <2>8. QED
      BY <2>3, <2>5, <2>6, <2>7 DEF Order
  <1>7. QED
    BY <1>1, <1>4, <1>5, <1>6, WriterStep

\* The append ends, or its process does; a head may be torn.
LEMMA CutShortIInv ==
  ASSUME IInv, NEW w \in Writer, Stop(w) \/ TearHead(w)
  PROVE  IInv'
  <1>1. /\ pc[w] # "idle" /\ pc' = [pc EXCEPT ![w] = "idle"]
        /\ head' \in {head, TornHead}
        /\ UNCHANGED <<lines, unended, draft, serial, returned, damaged, crowded>>
    BY DEF Stop, TearHead, Goto
  <1>2. pc'[w] = "idle" /\ \A q \in Writer \ {w} : pc'[q] = pc[q]
    BY <1>1, Here DEF Types
  <1>3. Types'
    BY <1>1, <1>2, Here DEF Types, TornHead
  <1>4. Kept'
    BY <1>1, <1>2, Here, SameFile DEF Kept
  <1>5. ASSUME Orderly' PROVE Order'
    <2>1. Orderly /\ Types /\ Order
      BY <1>1, <1>5, Here DEF Orderly
    <2>2. \A q \in Writer : pc'[q] = "idle"
      BY <1>1, <1>2, <2>1, OthersIdle DEF Order
    <2>3. Alone' /\ SealedNext' /\ WrittenLast'
      BY <2>2 DEF Alone, SealedNext, WrittenLast
    <2>4. Chain' /\ Placed' /\ Pinned'
      BY <1>1, <2>1, SameFile DEF Order, Placed, Pinned
    <2>5. QED
      BY <2>3, <2>4 DEF Order
  <1>6. QED
    BY <1>1, <1>3, <1>4, <1>5, WriterStep

------------------------------------------------------------------------------
(* Damage at rest.                                                          *)

\* Whatever is lost, doubled or moved, the lines left are lines of the file.
LEMMA DamagedLines ==
  ASSUME Types, Damage
  PROVE  /\ lines' \in Seq(Line)
         /\ \A i \in 1..Len(lines') : \E m \in 1..Len(lines) : lines'[i] = lines[m]
  <1>1. lines \in Seq(Line) /\ Len(lines) \in Nat
        /\ \A n \in 1..Len(lines) : lines[n] \in Line
    BY LinesType DEF Types
  <1> DEFINE From(s) == /\ s \in Seq(Line)
                        /\ \A i \in 1..Len(s) : \E m \in 1..Len(lines) : s[i] = lines[m]
  <1>2. ASSUME NEW a \in 1..Len(lines) + 1, NEW b \in 0..Len(lines)
        PROVE  From(SubSeq(lines, a, b))
    <2> DEFINE s == SubSeq(lines, a, b)
    <2>1. \A i \in a..b : lines[i] \in Line
      BY <1>1
    <2>2. /\ s \in Seq(Line)
          /\ Len(s) = IF a <= b THEN b - a + 1 ELSE 0
          /\ \A i \in 1..b - a + 1 : s[i] = lines[a + i - 1]
      BY <1>1, <2>1, SubSeqProperties
    <2> HIDE DEF s
    <2>3. ASSUME NEW i \in 1..Len(s)
          PROVE  \E m \in 1..Len(lines) : s[i] = lines[m]
      <3>1. a <= b /\ i \in 1..b - a + 1 /\ a + i - 1 \in 1..Len(lines)
        BY <1>1, <2>2
      <3>2. QED
        BY <2>2, <3>1
    <2>4. QED
      BY <2>2, <2>3 DEF s
  <1>3. ASSUME NEW s, NEW t, From(s), From(t)
        PROVE  From(s \o t)
    <2> DEFINE z == s \o t
    <2>1. /\ z \in Seq(Line) /\ Len(z) = Len(s) + Len(t)
          /\ \A i \in 1..Len(s) + Len(t) : z[i] = IF i <= Len(s) THEN s[i] ELSE t[i - Len(s)]
      BY <1>3, ConcatProperties
    <2>2. Len(s) \in Nat /\ Len(t) \in Nat
      BY <1>3, LenProperties
    <2> HIDE DEF z
    <2>3. ASSUME NEW i \in 1..Len(z)
          PROVE  \E m \in 1..Len(lines) : z[i] = lines[m]
      <3>1. CASE i <= Len(s)
        BY <1>3, <2>1, <2>2, <3>1
      <3>2. CASE i > Len(s)
        <4>1. i - Len(s) \in 1..Len(t) /\ z[i] = t[i - Len(s)]
          BY <2>1, <2>2, <3>2
        <4>2. QED
          BY <1>3, <4>1
      <3>3. QED
        BY <2>1, <2>2, <3>1, <3>2
    <2>4. QED
      BY <2>1, <2>3 DEF z
  <1>4. ASSUME NEW n \in 1..(Len(lines) - 1)
        PROVE  From(Swapped(n))
    <2> DEFINE s == [lines EXCEPT ![n] = lines[n + 1]]
               t == [s EXCEPT ![n + 1] = lines[n]]
    <2>1. n \in 1..Len(lines) /\ n + 1 \in 1..Len(lines)
      BY <1>1
    <2>2. /\ s \in Seq(Line) /\ Len(s) = Len(lines)
          /\ \A i \in 1..Len(lines) : s[i] = IF i = n THEN lines[n + 1] ELSE lines[i]
      BY <1>1, <2>1, ExceptSeq
    <2>3. Swapped(n) = t
      BY DEF Swapped
    <2> HIDE DEF s
    <2>4. /\ t \in Seq(Line) /\ Len(t) = Len(lines)
          /\ \A i \in 1..Len(lines) : t[i] = IF i = n + 1 THEN lines[n] ELSE s[i]
      BY <1>1, <2>1, <2>2, ExceptSeq
    <2> HIDE DEF t
    <2>5. QED
      BY <2>1, <2>2, <2>3, <2>4
  <1> HIDE DEF From
  <1>5. ASSUME NEW n \in 1..Len(lines)
        PROVE  From(Cut(n - 1)) /\ From(Without(n)) /\ From(Doubled(n))
    <2>1. /\ n - 1 \in 0..Len(lines) /\ n \in 0..Len(lines) /\ Len(lines) \in 0..Len(lines)
          /\ 1 \in 1..Len(lines) + 1 /\ n \in 1..Len(lines) + 1 /\ n + 1 \in 1..Len(lines) + 1
      BY <1>1
    <2>2. /\ From(SubSeq(lines, 1, n - 1)) /\ From(SubSeq(lines, n + 1, Len(lines)))
          /\ From(SubSeq(lines, 1, n)) /\ From(SubSeq(lines, n, Len(lines)))
      BY <1>2, <2>1
    <2>3. QED
      BY <1>3, <2>2 DEF Cut, Without, Doubled
  <1>6. From(lines')
    BY <1>4, <1>5 DEF Damage
  <1>7. QED
    BY <1>6 DEF From

\* A damaged file that still links up is a beginning of the file it was.
LEMMA DamagedPrefix ==
  ASSUME Types, Chain, Damage, Readable', Links', NEW i \in 1..Len(lines')
  PROVE  i \in 1..Len(lines) /\ lines'[i] = lines[i]
  <1>1. PICK m \in 1..Len(lines) : lines'[i] = lines[m]
    BY DamagedLines
  <1>2. lines[m] # Garbage
    BY <1>1 DEF Readable
  <1>3. lines[m].seq = m
    BY <1>2 DEF Chain, Linked
  <1>4. lines'[i].seq = i
    BY DEF Links
  <1>5. QED
    BY <1>1, <1>3, <1>4

LEMMA DamageIInv ==
  ASSUME IInv, Damage
  PROVE  IInv'
  <1>1. /\ ~damaged /\ damaged' = TRUE /\ unended' = FALSE
        /\ \A w \in Writer : pc[w] = "idle"
        /\ UNCHANGED <<head, pc, draft, serial, returned, crowded>>
    BY DEF Damage
  <1>2. Types'
    BY <1>1, Here, DamagedLines DEF Types
  <1>3. Kept' /\ Frozen' /\ ~Orderly'
    BY <1>1 DEF Kept, Frozen, Orderly
  <1>4. VerifiedMeansKept'
    <2> SUFFICES ASSUME Verifies', ~crowded, NEW e \in returned
                 PROVE  Holds(e)'
      BY <1>1 DEF VerifiedMeansKept, Holds
    <2>1. Types /\ Order
      BY <1>1, Here DEF Orderly
    <2>2. Readable' /\ Links' /\ HeadMatches'
      BY DEF Verifies
    <2>3. Len(lines') \in Nat /\ Len(lines') \in 1..Len(lines')
      <3>1. lines' # <<>>
        BY <2>2 DEF HeadMatches
      <3>2. QED
        BY <1>2, <3>1, LenProperties, EmptySeq DEF Types
    <2>4. head.seq = Len(lines') /\ head # TornHead
      <3>1. LastLine' = lines'[Len(lines')]
        BY <2>2 DEF HeadMatches, LastLine
      <3>2. LastLine'.seq = Len(lines')
        BY <2>2, <2>3, <3>1 DEF Links
      <3>3. QED
        BY <1>1, <2>2, <3>2 DEF HeadMatches
    <2>5. e.seq \in 1..Len(lines')
      BY <2>1, <2>3, <2>4, Records DEF Order, Pinned, Types
    <2>6. e.seq \in 1..Len(lines) /\ lines'[e.seq] = lines[e.seq]
      BY <2>1, <2>2, <2>5, DamagedPrefix DEF Order
    <2>7. lines[e.seq] = e
      BY <2>1, <2>6, LinesType DEF Order, Placed
    <2>8. QED
      BY <2>5, <2>6, <2>7 DEF Holds
  <1>5. QED
    BY <1>2, <1>3, <1>4 DEF IInv

------------------------------------------------------------------------------
(* The theorems.                                                            *)

LEMMA InitIInv == Init => IInv
  <1> SUFFICES ASSUME Init PROVE IInv
    OBVIOUS
  <1>1. Len(lines) = 0 /\ lines \in Seq(Line)
    BY EmptySeq DEF Init
  <1>2. Types
    BY <1>1 DEF Init, Types, NoHead
  <1>3. Kept /\ Frozen /\ VerifiedMeansKept
    BY DEF Init, Kept, Frozen, VerifiedMeansKept
  <1>4. Alone /\ Chain /\ Placed /\ SealedNext /\ WrittenLast /\ Pinned
    BY <1>1 DEF Init, Alone, Chain, Placed, SealedNext, WrittenLast, Pinned
  <1>5. QED
    BY <1>2, <1>3, <1>4 DEF IInv

LEMMA StutterIInv ==
  ASSUME IInv, UNCHANGED vars
  PROVE  IInv'
  <1>1. UNCHANGED <<lines, unended, head, pc, draft, serial, returned, damaged, crowded>>
    BY DEF vars
  <1>2. /\ Types' /\ Frozen' /\ (Orderly' <=> Orderly)
        /\ (Orderly => Alone' /\ Placed' /\ SealedNext' /\ WrittenLast' /\ Pinned')
    BY <1>1, SameFile DEF IInv, Types, Frozen, Orderly, Alone, Placed, SealedNext,
       WrittenLast, Pinned
  <1>3. Kept' /\ (Orderly => Chain')
    BY <1>1, SameFile DEF IInv, Kept
  <1>4. VerifiedMeansKept' <=> VerifiedMeansKept
    BY <1>1 DEF VerifiedMeansKept, Verifies, Readable, Links, HeadMatches, LastLine, Holds
  <1>5. QED
    BY <1>2, <1>3, <1>4 DEF IInv

LEMMA NextIInv == IInv /\ [Next]_vars => IInv'
  <1> SUFFICES ASSUME IInv, [Next]_vars PROVE IInv'
    OBVIOUS
  <1>1. ASSUME NEW w \in Writer,
               Seal(w) \/ Write(w) \/ TearLine(w) \/ WriteHead(w) \/ TearHead(w) \/ Stop(w)
        PROVE  IInv'
    BY <1>1, SealIInv, WriteIInv, TearLineIInv, WriteHeadIInv, CutShortIInv
  <1>2. QED
    BY <1>1, DamageIInv, StutterIInv DEF Next

LEMMA SpecIInv == Spec => []IInv
  <1>1. QED
    BY InitIInv, NextIInv, PTL DEF Spec

\* An event whose append returned stays in the file, or the file has become
\* unreadable: for any number of processes that share it, whichever of them dies
\* between or inside its writes.
THEOREM SpecNothingLostSilently == Spec => []NothingLostSilently
  <1>1. IInv => NothingLostSilently
    BY DEF IInv, Kept, NothingLostSilently
  <1>2. QED
    BY <1>1, SpecIInv, PTL

\* A journal that passes the offline verifier holds every event whose append
\* returned, whatever the file lost, as long as the daemon does not append to the
\* damaged file again: the signed head pins the tail.
THEOREM SpecVerifiedMeansKept ==
  ASSUME ~Resume
  PROVE  Spec => []VerifiedMeansKept
  <1>1. IInv => VerifiedMeansKept
    BY DEF IInv
  <1>2. QED
    BY <1>1, SpecIInv, PTL

LEMMA HeadHeals ==
  ASSUME IInv, NEW w \in Writer, WriteHead(w), ~damaged, ~crowded
  PROVE  Verifies' \/ ~Readable'
  <1> SUFFICES ASSUME Readable'
               PROVE  Verifies'
    OBVIOUS
  <1>1. /\ pc[w] = "written" /\ lines' = lines
        /\ head' = [seq |-> draft[w].seq, hash |-> draft[w].hash]
    BY DEF WriteHead
  <1>2. Types /\ Order /\ Readable
    BY <1>1, Here, SameFile DEF Orderly
  <1>3. lines # <<>> /\ LastLine = draft[w] /\ draft[w] \in Event
    BY <1>1, <1>2 DEF Order, WrittenLast, Types
  <1>4. Links'
    <2>1. Links
      BY <1>2, TailIsLinked DEF Order
    <2>2. QED
      BY <1>1, <2>1 DEF Links
  <1>5. HeadMatches'
    <2>1. head'.seq # 0
      BY <1>1, <1>3, Records
    <2>2. head' # NoHead /\ head' # TornHead
      BY <2>1 DEF NoHead, TornHead
    <2>3. LastLine' = draft[w] /\ lines' # <<>>
      BY <1>1, <1>3, SameFile
    <2>4. head'.seq = draft[w].seq /\ head'.hash = draft[w].hash
      BY <1>1
    <2>5. QED
      BY <2>2, <2>3, <2>4 DEF HeadMatches
  <1>6. QED
    BY <1>4, <1>5 DEF Verifies

\* An append that returns, with no other under way, leaves a journal that
\* verifies, whatever its predecessors left half done, or a torn line is in it.
THEOREM SpecAppendHeals == Spec => AppendHeals
  <1>1. ASSUME IInv, [Next]_vars
        PROVE  [returned' # returned /\ ~damaged /\ ~crowded => Verifies' \/ ~Readable']_vars
    <2> SUFFICES ASSUME returned' # returned, ~damaged, ~crowded
                 PROVE  Verifies' \/ ~Readable'
      OBVIOUS
    <2>1. PICK w \in Writer : WriteHead(w)
      BY <1>1 DEF Next, Seal, Write, TearLine, TearHead, Stop, Damage, vars
    <2>2. QED
      BY <1>1, <2>1, HeadHeals
  <1>2. QED
    BY <1>1, SpecIInv, PTL DEF Spec, AppendHeals

------------------------------------------------------------------------------
(* The journal as one log.                                                   *)

\* The log of a file that is as readable as it was.
LEMMA SameLog ==
  ASSUME Readable' <=> Readable, Readable => lines' = lines, UNCHANGED <<returned, damaged>>
  PROVE  UNCHANGED Log!logVars
  <1>1. Readable \in BOOLEAN /\ Readable' \in BOOLEAN
    BY DEF Readable
  <1>2. Readable' = Readable
    BY <1>1
  <1>3. (IF Readable' THEN lines' ELSE <<>>) = (IF Readable THEN lines ELSE <<>>)
    BY <1>2
  <1>4. QED
    BY <1>2, <1>3 DEF Log!logVars

\* A line is added, to the log or to its end of being read.
LEMMA AppendedGrowsOrRefuses ==
  ASSUME Types, NEW l \in Line, lines' = Appended(l), UNCHANGED <<returned, damaged>>
  PROVE  Log!Grow \/ Log!Refuse \/ UNCHANGED Log!logVars
  <1>1. CASE Readable'
    <2>1. ~unended
      BY <1>1, RunsIn
    <2>2. /\ Readable /\ Len(lines') = Len(lines) + 1
          /\ \A n \in 1..Len(lines) : lines'[n] = lines[n]
      BY <1>1, <2>1, OnItsOwn
    <2>3. Log!Grow
      BY <1>1, <2>2 DEF Log!Grow
    <2>4. QED
      BY <2>3
  <1>2. CASE ~Readable' /\ Readable
    BY <1>2 DEF Log!Refuse
  <1>3. CASE ~Readable' /\ ~Readable
    BY <1>3, SameLog
  <1>4. QED
    BY <1>1, <1>2, <1>3

\* A step of the journal is one of the log, or none.
LEMMA LogStep ==
  ASSUME IInv, [Next]_vars
  PROVE  [Log!LogNext]_(Log!logVars)
  <1>1. ASSUME UNCHANGED <<lines, returned, damaged>>
        PROVE  UNCHANGED Log!logVars
    BY <1>1, SameFile, SameLog
  <1>2. ASSUME NEW w \in Writer, Write(w)
        PROVE  [Log!LogNext]_(Log!logVars)
    <2>1. draft[w] \in Line
      BY <1>2, Here, Records DEF Write, Types
    <2>2. lines' = Appended(draft[w]) /\ UNCHANGED <<returned, damaged>>
      BY <1>2 DEF Write
    <2>3. QED
      BY <2>1, <2>2, Here, AppendedGrowsOrRefuses DEF Log!LogNext
  <1>3. ASSUME NEW w \in Writer, TearLine(w)
        PROVE  [Log!LogNext]_(Log!logVars)
    <2>1. PICK l \in {Garbage, draft[w]} : lines' = Appended(l)
      BY <1>3 DEF TearLine
    <2>2. l \in Line /\ UNCHANGED <<returned, damaged>>
      BY <1>3, Here, Records DEF TearLine, Types
    <2>3. QED
      BY <2>1, <2>2, Here, AppendedGrowsOrRefuses DEF Log!LogNext
  <1>4. ASSUME NEW w \in Writer, WriteHead(w)
        PROVE  Log!Acknowledge
    <2>1. /\ pc[w] = "written" /\ returned' = returned \cup {draft[w]}
          /\ UNCHANGED <<lines, damaged>>
      BY <1>4 DEF WriteHead
    <2>2. Readable => Holds(draft[w])
      BY <2>1, Here DEF Kept
    <2>3. Readable => Log!InLog(draft[w])
      BY <2>2 DEF Holds, Log!InLog
    <2>4. draft[w] \in returned'
      BY <2>1
    <2>5. UNCHANGED <<IF Readable THEN lines ELSE <<>>, Readable, damaged>>
      <3>1. Readable \in BOOLEAN /\ Readable' \in BOOLEAN
        BY DEF Readable
      <3>2. Readable' = Readable
        BY <2>1, <3>1, SameFile
      <3>3. QED
        BY <2>1, <3>2
    <2>6. \E e \in returned' : returned' = returned \cup {e} /\ (Readable => Log!InLog(e))
      BY <2>1, <2>3, <2>4
    <2>7. QED
      BY <2>5, <2>6 DEF Log!Acknowledge
  <1>5. ASSUME Damage
        PROVE  Log!Tamper
    BY <1>5 DEF Damage, Log!Tamper
  <1>6. ASSUME NEW w \in Writer, Seal(w) \/ TearHead(w) \/ Stop(w)
        PROVE  UNCHANGED <<lines, returned, damaged>>
    BY <1>6 DEF Seal, TearHead, Stop
  <1>7. CASE UNCHANGED vars
    BY <1>1, <1>7 DEF vars
  <1>8. QED
    BY <1>1, <1>2, <1>3, <1>4, <1>5, <1>6, <1>7 DEF Next, Log!LogNext

\* The lines of a file that parses are an append-only log, whoever died in the
\* middle of an append, also after damage and with overlapping writers.
THEOREM SpecImplementsLog == Spec => ImplementsLog
  <1>1. Init => Log!LogInit
    BY DEF Init, Log!LogInit, Readable
  <1>2. Spec => Log!LogSpec
    BY <1>1, LogStep, SpecIInv, PTL DEF Spec, Log!LogSpec
  <1>3. QED
    BY <1>2 DEF ImplementsLog
================================================================================
