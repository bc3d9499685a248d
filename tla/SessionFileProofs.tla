-------------------------- MODULE SessionFileProofs --------------------------
(***************************************************************************)
(* Theorems of SessionFile, for any number of events, restarts and damaged *)
(* lines: the file keeps the promise of SavedLog, the disk holds a prefix  *)
(* of the process's events, and no marker is re-aimed at another event.    *)
(*                                                                         *)
(* The invariant relates three things that are each written at a different *)
(* moment: what a load would read, what the process holds, and how far the *)
(* record in progress has come.                                            *)
(***************************************************************************)
EXTENDS SessionFile, TLAPS

Found == Read(lines, tail)

Reads(a, b) == a = b \/ a = Unknown

-----------------------------------------------------------------------------
(* What a load reads.                                                      *)

\* What is read is a sequence of events and places that did not read.
LEMMA ReadType ==
    ASSUME NEW ls \in Seq(Seq(Piece)), NEW t \in Seq(Piece)
    PROVE  Read(ls, t) \in Seq(Event \cup {Unknown})
<1>1. ASSUME NEW line \in Seq(Piece)
      PROVE  Parse(line) \in Event \cup {Unknown}
    <2>1. CASE ReadsAsEvent(line)
        <3>1. Len(line) = 1
            BY <2>1, Zenon DEF ReadsAsEvent
        <3>2. line[1] \in Piece
            <4>1. DOMAIN line = 1..Len(line) /\ \A i \in DOMAIN line : line[i] \in Piece
                OBVIOUS
            <4>2. 1 \in DOMAIN line
                BY <3>1, <4>1
            <4> QED BY <4>1, <4>2
        <3>3. line[1].ev \in Event
            BY <3>2 DEF Piece
        <3> QED BY <2>1, <3>3 DEF Parse
    <2>2. CASE ~ReadsAsEvent(line)
        BY <2>2 DEF Parse
    <2> QED BY <2>1, <2>2
<1> DEFINE n == Len(ls) + (IF ReadsAsEvent(t) THEN 1 ELSE 0)
<1>2. n \in Nat
    OBVIOUS
<1>3. \A i \in 1..n : (IF i <= Len(ls) THEN ls[i] ELSE t) \in Seq(Piece)
    OBVIOUS
<1>4. \A i \in 1..n : Parse(IF i <= Len(ls) THEN ls[i] ELSE t) \in Event \cup {Unknown}
    BY <1>1, <1>3
<1>5. Read(ls, t) = [i \in 1..n |-> Parse(IF i <= Len(ls) THEN ls[i] ELSE t)]
    BY DEF Read
<1> HIDE DEF n
<1> QED BY <1>2, <1>4, <1>5

\* How much is read: every line, and a tail that is a whole record.
LEMMA ReadParts ==
    ASSUME NEW ls \in Seq(Seq(Piece)), NEW t \in Seq(Piece)
    PROVE  /\ ~ReadsAsEvent(t) => Len(Read(ls, t)) = Len(ls)
           /\ ReadsAsEvent(t) => /\ Len(Read(ls, t)) = Len(ls) + 1
                                 /\ Read(ls, t)[Len(ls) + 1] = Parse(t)
           /\ \A i \in 1..Len(ls) : Read(ls, t)[i] = Parse(ls[i])
           /\ Len(ls) \in Nat
<1> DEFINE n == Len(ls) + (IF ReadsAsEvent(t) THEN 1 ELSE 0)
<1>1. n \in Nat /\ Len(ls) \in Nat
    OBVIOUS
<1>2. DOMAIN Read(ls, t) = 1..n
    BY DEF Read
<1>3. Len(Read(ls, t)) = n
    BY <1>1, <1>2, ReadType
<1>4. \A i \in 1..n : Read(ls, t)[i] = Parse(IF i <= Len(ls) THEN ls[i] ELSE t)
    BY DEF Read
<1>5. ReadsAsEvent(t) => Len(ls) + 1 \in 1..n /\ ~(Len(ls) + 1 <= Len(ls))
    BY <1>1
<1> QED BY <1>1, <1>3, <1>4, <1>5

\* A tail that does not read makes no difference.
LEMMA ReadTorn ==
    ASSUME NEW ls \in Seq(Seq(Piece)), NEW t, NEW u, ~ReadsAsEvent(t), ~ReadsAsEvent(u)
    PROVE  Read(ls, t) = Read(ls, u)
<1>1. Len(ls) \in Nat
    OBVIOUS
<1> QED BY <1>1 DEF Read

\* Ending a whole record with its newline changes nothing that is read.
LEMMA ReadEnded ==
    ASSUME NEW ls \in Seq(Seq(Piece)), NEW t \in Seq(Piece), ReadsAsEvent(t)
    PROVE  Read(Append(ls, t), << >>) = Read(ls, t)
<1> DEFINE bs == Append(ls, t)
<1>1. bs \in Seq(Seq(Piece)) /\ Len(bs) = Len(ls) + 1 /\ Len(ls) \in Nat
    OBVIOUS
<1>2. \A i \in 1..(Len(ls) + 1) : bs[i] = IF i <= Len(ls) THEN ls[i] ELSE t
    OBVIOUS
<1>3. ~ReadsAsEvent(<< >>)
    BY DEF ReadsAsEvent
<1> HIDE DEF bs
<1>4. Read(bs, << >>) = [i \in 1..(Len(ls) + 1) |-> Parse(bs[i])]
    BY <1>1, <1>3 DEF Read
<1>5. Read(ls, t) = [i \in 1..(Len(ls) + 1) |-> Parse(IF i <= Len(ls) THEN ls[i] ELSE t)]
    BY DEF Read
<1> QED BY <1>2, <1>4, <1>5 DEF bs

-----------------------------------------------------------------------------
(* The inductive invariant.                                                *)

\* What a load would find reads as the first events of s.
ReadsAs(s) == \A i \in DOMAIN Found : i \in DOMAIN s => Reads(Found[i], s[i])

Extra == IF step = "newline" THEN 1 ELSE 0

\* A session that writes has everything it holds on disk, and the event it
\* is part way through recording where the tail says.
InStep ==
    up /\ log =>
        /\ Len(Found) = Len(events) + Extra
        /\ ReadsAs(events)
        /\ step \in {"payload", "newline"} => repair = "none"
        /\ step = "newline" => tail = << Whole(pending) >>
        /\ step # "newline" /\ repair = "none" => tail = << >>

\* A sealed one has a prefix of what it holds, or one event more.
Behind ==
    up /\ ~log => Len(Found) <= Len(events) /\ ReadsAs(events)

\* No more is held, found or in progress than was recorded.
Counted ==
    /\ up => Len(events) + (IF step = "idle" THEN 0 ELSE 1) <= count
    /\ ~up => Len(Found) <= count

FileInv == TypeOK /\ InStep /\ Behind /\ Counted

\* What a process records is an event.
LEMMA NewEventType ==
    ASSUME FileInv, NEW to \in 0..Len(events), CanRecord(to)
    PROVE  NewEvent(to) \in Event /\ to <= Len(events)
<1>1. Len(events) \in Nat /\ count \in 0..MaxEvents /\ events \in Seq(Event \cup {Unknown})
    BY DEF FileInv, TypeOK
<1>2. count < MaxEvents /\ step = "idle" /\ up
    BY DEF CanRecord
<1>3. Len(events) <= count
    BY <1>1, <1>2 DEF FileInv, Counted
<1>4. to # 0 => events[to].n \in 0..MaxEvents
    <2>1. to # 0 => events[to] \in Event \cup {Unknown}
        BY <1>1
    <2>2. \A e \in Event \cup {Unknown} : e.n \in 0..MaxEvents
        BY FileAssumption DEF Event, Unknown
    <2> QED BY <2>1, <2>2
<1>5. to \in 0..MaxEvents /\ count + 1 \in 1..MaxEvents /\ 0 \in 0..MaxEvents
    BY <1>1, <1>2, <1>3, FileAssumption
<1> QED BY <1>1, <1>4, <1>5 DEF NewEvent, Event

\* A failed append leaves the invariant: what is held was all on disk but the
\* event that failed, which may be there too.
LEMMA SealStep ==
    ASSUME FileInv, Seal, up, log, up' = up,
           lines' = lines, tail' \in Seq(Piece), UNCHANGED << count, loads, damage >>,
           step # "idle",
           ReadsAsEvent(tail') <=> ReadsAsEvent(tail), ReadsAsEvent(tail) => tail' = tail
    PROVE  FileInv'
<1> USE DEF FileInv
<1>1. /\ lines \in Seq(Seq(Piece)) /\ tail \in Seq(Piece)
      /\ events \in Seq(Event \cup {Unknown}) /\ pending \in Event
      /\ Len(events) \in Nat /\ count \in 0..MaxEvents
    BY DEF TypeOK
<1>2. Found' = Found
    <2>1. CASE ReadsAsEvent(tail)
        BY <2>1 DEF Found
    <2>2. CASE ~ReadsAsEvent(tail)
        <3>1. Read(lines, tail) = Read(lines, tail')
            BY <1>1, <2>2, ReadTorn
        <3> QED BY <3>1 DEF Found
    <2> QED BY <2>1, <2>2
<1>3. /\ events' = Append(events, pending)
      /\ events' \in Seq(Event \cup {Unknown}) /\ Len(events') = Len(events) + 1
      /\ \A i \in DOMAIN events : events'[i] = events[i]
      /\ events'[Len(events) + 1] = pending
      /\ DOMAIN events = 1..Len(events) /\ DOMAIN events' = 1..(Len(events) + 1)
    BY <1>1 DEF Seal
<1>4. TypeOK'
    <2>1. lines' \in Seq(Seq(Piece) \ {<< >>}) /\ tail' \in Seq(Piece)
        BY DEF TypeOK
    <2>2. up' \in BOOLEAN /\ log' \in BOOLEAN
        BY Zenon DEF TypeOK, Seal
    <2>5. failure' \in Int
        BY <1>1 DEF Seal
    <2>3. repair' = "none" /\ step' = "idle" /\ pending' \in Event \cup {Unknown}
        BY DEF Seal
    <2>4. count' \in 0..MaxEvents /\ loads' \in Nat /\ damage' \in Nat
        BY DEF TypeOK
    <2> QED BY <1>3, <2>1, <2>2, <2>3, <2>4, <2>5 DEF TypeOK
<1>5. InStep' /\ Counted'
    BY <1>1, <1>3 DEF InStep, Counted, Seal
<1>6. Behind'
    <2>1. /\ Len(Found) = Len(events) + Extra /\ ReadsAs(events)
          /\ step = "newline" => tail = << Whole(pending) >>
        BY DEF InStep
    <2>2. Found \in Seq(Event \cup {Unknown})
        BY <1>1, ReadType DEF Found
    <2>3. step = "newline" => Found[Len(events) + 1] = pending
        <3> SUFFICES ASSUME step = "newline" PROVE Found[Len(events) + 1] = pending
            OBVIOUS
        <3>1. ReadsAsEvent(tail) /\ Parse(tail) = pending
            BY <2>1 DEF ReadsAsEvent, Parse, Whole
        <3>2. Len(Found) = Len(lines) + 1 /\ Found[Len(lines) + 1] = Parse(tail)
            BY <1>1, <3>1, ReadParts DEF Found
        <3>3. Len(Found) = Len(events) + 1
            BY <2>1 DEF Extra
        <3> QED BY <1>1, <3>1, <3>2, <3>3, ReadParts
    <2>4. Len(Found') <= Len(events')
        BY <1>1, <1>2, <1>3, <2>1 DEF Extra
    <2>5. ASSUME NEW i \in DOMAIN Found, i \in DOMAIN events'
          PROVE  Reads(Found[i], events'[i])
        <3>1. CASE i \in DOMAIN events
            BY <1>3, <2>1, <3>1 DEF ReadsAs
        <3>2. CASE i = Len(events) + 1
            <4>1. Len(Found) = Len(events) + 1 /\ step = "newline"
                BY <1>1, <2>1, <2>2, <3>2 DEF Extra
            <4> QED BY <1>3, <2>3, <3>2, <4>1 DEF Reads
        <3> QED BY <1>3, <2>5, <3>1, <3>2
    <2> QED BY <1>2, <2>4, <2>5 DEF Behind, ReadsAs
<1> QED BY <1>4, <1>5, <1>6

\* The types the steps below rely on.
LEMMA FileFacts ==
    ASSUME FileInv
    PROVE  /\ lines \in Seq(Seq(Piece)) /\ tail \in Seq(Piece) /\ Len(lines) \in Nat
           /\ lines \in Seq(Seq(Piece) \ {<< >>})
           /\ events \in Seq(Event \cup {Unknown}) /\ Len(events) \in Nat
           /\ DOMAIN events = 1..Len(events)
           /\ Found \in Seq(Event \cup {Unknown}) /\ Len(Found) \in Nat
           /\ DOMAIN Found = 1..Len(Found)
           /\ count \in 0..MaxEvents /\ loads \in Nat /\ damage \in Nat
           /\ failure \in Int
           /\ pending \in Event \cup {Unknown}
           /\ step \in {"idle", "repair", "payload", "newline"}
           /\ repair \in {"none", "separator", "truncate"}
           /\ ~ReadsAsEvent(<< >>)
<1>1. /\ lines \in Seq(Seq(Piece) \ {<< >>}) /\ tail \in Seq(Piece)
      /\ events \in Seq(Event \cup {Unknown})
    BY DEF FileInv, TypeOK
<1>2. lines \in Seq(Seq(Piece))
    BY <1>1
<1>3. Found \in Seq(Event \cup {Unknown})
    BY <1>1, <1>2, ReadType DEF Found
<1>4. ~ReadsAsEvent(<< >>)
    BY DEF ReadsAsEvent
<1>5. /\ count \in 0..MaxEvents /\ loads \in Nat /\ damage \in Nat /\ failure \in Int
      /\ pending \in Event \cup {Unknown}
      /\ step \in {"idle", "repair", "payload", "newline"}
      /\ repair \in {"none", "separator", "truncate"}
    BY DEF FileInv, TypeOK
<1> QED BY <1>1, <1>2, <1>3, <1>4, <1>5

\* The process begins to record, or records in memory only.
LEMMA RecordStep ==
    ASSUME FileInv, NEW to \in 0..Len(events), Record(to) \/ RecordUnsaved(to)
    PROVE  FileInv'
<1> USE FileFacts
<1>1. CanRecord(to) /\ NewEvent(to) \in Event
    BY NewEventType DEF Record, RecordUnsaved
<1>2. count' \in 0..MaxEvents /\ count' = count + 1
    <2>1. count' = count + 1
        BY Zenon DEF Record, RecordUnsaved
    <2>2. count < MaxEvents
        BY <1>1, Zenon DEF CanRecord
    <2> QED BY <2>1, <2>2, FileAssumption
<1>3. CASE Record(to)
    <2>1. TypeOK'
        <3>1. lines' = lines /\ tail' = tail /\ up' = up /\ log' = log /\ up /\ log
            BY <1>3 DEF Record, CanRecord, file
        <3>2. /\ pending' \in Event /\ step' \in {"repair", "payload"}
              /\ step' = "repair" => repair # "none"
            BY <1>1, <1>3 DEF Record
        <3> QED BY <1>2, <1>3, <3>1, <3>2 DEF Record, FileInv, TypeOK
    <2>2. InStep' /\ Behind'
        BY <1>3 DEF Record, CanRecord, FileInv, InStep, Behind, ReadsAs, Found, Extra, file
    <2>3. Counted'
        BY <1>2, <1>3 DEF Record, CanRecord, FileInv, Counted, Found, file
    <2> QED BY <2>1, <2>2, <2>3 DEF FileInv
<1>4. CASE RecordUnsaved(to)
    <2>1. /\ events' \in Seq(Event \cup {Unknown}) /\ Len(events') = Len(events) + 1
          /\ DOMAIN events' = 1..(Len(events) + 1)
          /\ \A i \in DOMAIN events : events'[i] = events[i]
        BY <1>1, <1>4 DEF RecordUnsaved
    <2>2. TypeOK'
        BY <1>2, <1>4, <2>1 DEF RecordUnsaved, FileInv, TypeOK, file
    <2>3. Len(Found) <= Len(events) /\ ReadsAs(events)
        BY <1>4 DEF RecordUnsaved, CanRecord, FileInv, Behind
    <2>4. Found' = Found
        BY <1>4 DEF RecordUnsaved, Found, file
    <2>5. InStep' /\ Behind'
        BY <1>4, <2>1, <2>3, <2>4 DEF RecordUnsaved, InStep, Behind, ReadsAs
    <2>6. Counted'
        BY <1>2, <1>4, <2>1 DEF RecordUnsaved, CanRecord, FileInv, Counted
    <2> QED BY <2>2, <2>5, <2>6 DEF FileInv
<1> QED BY <1>3, <1>4

\* The repair of a torn end changes nothing that is read.
LEMMA RepairStep ==
    ASSUME FileInv, RepairTail
    PROVE  FileInv' /\ Found' = Found
<1> USE FileFacts
<1>1. up /\ log /\ step = "repair" /\ pending \in Event
    BY DEF RepairTail, FileInv, TypeOK
<1>2. lines' \in Seq(Seq(Piece) \ {<< >>}) /\ tail' = << >> /\ Found' = Found
    <2>1. CASE repair = "truncate"
        <3>1. ~ReadsAsEvent(tail) /\ cutAt = Len(lines)
            BY <2>1 DEF FileInv, TypeOK
        <3>2. SubSeq(lines, 1, Len(lines)) = lines
            OBVIOUS
        <3>3. lines' = lines /\ tail' = << >>
            BY <2>1, <3>1, <3>2 DEF RepairTail
        <3> QED BY <3>1, <3>3, ReadTorn DEF Found
    <2>2. CASE repair = "separator"
        <3>1. ReadsAsEvent(tail)
            BY <2>2 DEF FileInv, TypeOK
        <3>2. lines' = Append(lines, tail) /\ tail' = << >>
            BY <2>2 DEF RepairTail
        <3>3. tail # << >>
            BY <3>1
        <3>4. lines' \in Seq(Seq(Piece) \ {<< >>})
            BY <3>2, <3>3
        <3> QED BY <3>1, <3>2, <3>4, ReadEnded DEF Found
    <2> QED BY <2>1, <2>2 DEF RepairTail
<1>3. TypeOK'
    <2>1. up' = up /\ log' = log
        BY DEF RepairTail
    <2> QED BY <1>1, <1>2, <2>1 DEF RepairTail, FileInv, TypeOK
<1>4. InStep' /\ Behind'
    BY <1>1, <1>2 DEF RepairTail, FileInv, InStep, Behind, ReadsAs, Extra
<1>5. Counted'
    BY <1>1 DEF RepairTail, FileInv, Counted
<1> QED BY <1>2, <1>3, <1>4, <1>5 DEF FileInv

\* The payload makes the event readable; the newline makes it held.
LEMMA WriteStep ==
    ASSUME FileInv, WritePayload \/ WriteNewline
    PROVE  FileInv'
<1> USE FileFacts
<1>1. up /\ log /\ pending \in Event /\ up' = up /\ log' = log
    BY DEF WritePayload, WriteNewline, FileInv, TypeOK
<1>2. CASE WritePayload
    <2>1. /\ step = "payload" /\ repair = "none" /\ tail = << >>
          /\ Len(Found) = Len(events) /\ ReadsAs(events)
        BY <1>1, <1>2 DEF WritePayload, FileInv, InStep, Extra
    <2>2. tail' = << Whole(pending) >>
        BY <1>2, <2>1 DEF WritePayload
    <2>3. Whole(pending) \in Piece /\ ReadsAsEvent(tail') /\ Parse(tail') = pending
        BY <1>1, <2>2 DEF Whole, Piece, ReadsAsEvent, Parse
    <2>4. tail' \in Seq(Piece) /\ lines' = lines
        BY <1>2, <2>2, <2>3 DEF WritePayload
    <2>5. TypeOK'
        BY <1>1, <1>2, <2>1, <2>4 DEF WritePayload, FileInv, TypeOK
    <2>6. Len(Found) = Len(lines) /\ \A i \in 1..Len(lines) : Found[i] = Parse(lines[i])
        BY <2>1, ReadParts DEF Found
    <2>7. /\ Len(Found') = Len(events) + 1
          /\ \A i \in 1..Len(lines) : Found'[i] = Parse(lines[i])
        <3>1. Len(Read(lines, tail')) = Len(lines) + 1
            BY <2>3, <2>4, ReadParts
        <3>2. \A i \in 1..Len(lines) : Read(lines, tail')[i] = Parse(lines[i])
            BY <2>4, ReadParts
        <3> QED BY <2>1, <2>4, <2>6, <3>1, <3>2 DEF Found
    <2>8. InStep' /\ Behind'
        BY <1>1, <1>2, <2>1, <2>2, <2>6, <2>7 DEF WritePayload, InStep, Behind, ReadsAs, Extra
    <2>9. Counted'
        BY <1>1, <1>2 DEF WritePayload, FileInv, Counted
    <2> QED BY <2>5, <2>8, <2>9 DEF FileInv
<1>3. CASE WriteNewline
    <2>1. /\ step = "newline" /\ repair = "none" /\ tail = << Whole(pending) >>
          /\ Len(Found) = Len(events) + 1 /\ ReadsAs(events)
        BY <1>1, <1>3 DEF WriteNewline, FileInv, InStep, Extra
    <2>2. ReadsAsEvent(tail) /\ Parse(tail) = pending
        BY <2>1 DEF ReadsAsEvent, Parse, Whole
    <2>3. Found' = Found /\ lines' = Append(lines, tail) /\ tail' = << >>
        BY <1>3, <2>2, ReadEnded DEF WriteNewline, Found
    <2>4. /\ events' \in Seq(Event \cup {Unknown}) /\ Len(events') = Len(events) + 1
          /\ DOMAIN events' = 1..(Len(events) + 1)
          /\ \A i \in DOMAIN events : events'[i] = events[i]
          /\ events'[Len(events) + 1] = pending
        BY <1>1, <1>3 DEF WriteNewline
    <2>5. Found[Len(events) + 1] = pending
        <3>1. Len(Found) = Len(lines) + 1 /\ Found[Len(lines) + 1] = pending
            BY <2>2, ReadParts DEF Found
        <3>2. Len(lines) = Len(events)
            BY <2>1, <3>1
        <3> QED BY <3>1, <3>2
    <2>6. TypeOK'
        <3>1. tail # << >>
            BY <2>1
        <3>2. lines' \in Seq(Seq(Piece) \ {<< >>})
            BY <2>3, <3>1
        <3> QED BY <1>1, <1>3, <2>1, <2>3, <2>4, <3>2 DEF WriteNewline, FileInv, TypeOK
    <2>7. ASSUME NEW i \in DOMAIN Found
          PROVE  Reads(Found[i], events'[i])
        <3>1. i \in DOMAIN events \/ i = Len(events) + 1
            BY <2>1
        <3> QED BY <2>1, <2>4, <2>5, <3>1 DEF ReadsAs, Reads
    <2>8. InStep' /\ Behind'
        BY <1>1, <1>3, <2>1, <2>3, <2>4, <2>7
        DEF WriteNewline, InStep, Behind, ReadsAs, Extra
    <2>9. Counted'
        BY <1>1, <1>3, <2>1, <2>4 DEF WriteNewline, FileInv, Counted
    <2> QED BY <2>6, <2>8, <2>9 DEF FileInv
<1> QED BY <1>2, <1>3

\* A write that fails seals the log.
LEMMA FailStep ==
    ASSUME FileInv, RepairFails \/ PayloadFails \/ NewlineFails
    PROVE  FileInv' /\ Found' = Found
<1> USE FileFacts
<1>1. up /\ log /\ step # "idle" /\ pending \in Event /\ Seal /\ up' = up /\ lines' = lines
    BY DEF RepairFails, PayloadFails, NewlineFails, file, FileInv, TypeOK
<1>2. \/ tail' = tail
      \/ tail = << >> /\ tail' = << Cut(pending) >>
    <2>1. CASE RepairFails \/ NewlineFails
        BY <2>1 DEF RepairFails, NewlineFails, file
    <2>2. CASE PayloadFails
        <3>1. tail = << >>
            BY <1>1, <2>2 DEF PayloadFails, FileInv, InStep
        <3>2. tail' = tail \/ tail' = Append(tail, Cut(pending))
            BY <2>2 DEF PayloadFails
        <3> QED BY <3>1, <3>2
    <2> QED BY <2>1, <2>2
<1>3. /\ tail' \in Seq(Piece)
      /\ ReadsAsEvent(tail') <=> ReadsAsEvent(tail)
      /\ ReadsAsEvent(tail) => tail' = tail
    <2>1. CASE tail' = tail
        BY <2>1
    <2>2. CASE tail = << >> /\ tail' = << Cut(pending) >>
        <3>1. Cut(pending) \in Piece
            BY <1>1 DEF Cut, Piece
        <3>2. ~ReadsAsEvent(<< Cut(pending) >>)
            BY DEF ReadsAsEvent, Cut
        <3> QED BY <2>2, <3>1, <3>2
    <2> QED BY <1>2, <2>1, <2>2
<1>4. UNCHANGED << count, loads, damage >>
    BY DEF RepairFails, PayloadFails, NewlineFails
<1>5. FileInv'
    BY <1>1, <1>3, <1>4, SealStep
<1>6. Found' = Found
    <2>1. CASE ReadsAsEvent(tail)
        BY <1>1, <1>3, <2>1 DEF Found
    <2>2. CASE ~ReadsAsEvent(tail)
        BY <1>1, <1>3, <2>2, ReadTorn DEF Found
    <2> QED BY <2>1, <2>2
<1> QED BY <1>5, <1>6

\* The process dies: nothing but its memory is lost.
LEMMA CrashStep ==
    ASSUME FileInv, Crash
    PROVE  FileInv' /\ Found' = Found
<1> USE FileFacts
<1>1. up /\ up' = FALSE /\ log' = FALSE /\ events' = << >> /\ lines' = lines
    BY DEF Crash
<1>2. tail' = tail \/ (step = "payload" /\ tail' = Append(tail, Cut(pending)))
    BY DEF Crash
<1>3. tail' \in Seq(Piece) /\ Found' = Found
    <2>1. CASE tail' = tail
        BY <1>1, <2>1 DEF Found
    <2>2. CASE step = "payload" /\ tail' = Append(tail, Cut(pending))
        <3>1. up /\ log /\ pending \in Event
            BY <2>2 DEF FileInv, TypeOK
        <3>2. tail = << >>
            BY <2>2, <3>1 DEF FileInv, InStep
        <3>3. Cut(pending) \in Piece
            BY <3>1 DEF Cut, Piece
        <3>4. tail' = << Cut(pending) >>
            BY <2>2, <3>2
        <3>5. ~ReadsAsEvent(tail')
            BY <3>4 DEF ReadsAsEvent, Cut
        <3>6. Read(lines, tail) = Read(lines, tail')
            BY <3>2, <3>5, ReadTorn
        <3> QED BY <1>1, <3>3, <3>4, <3>6 DEF Found
    <2> QED BY <1>2, <2>1, <2>2
<1>4. TypeOK'
    <2>1. events' \in Seq(Event \cup {Unknown})
        BY <1>1
    <2>2. /\ repair' = "none" /\ failure' \in Int /\ step' = "idle"
          /\ pending' \in Event \cup {Unknown}
          /\ count' \in 0..MaxEvents /\ loads' \in Nat /\ damage' \in Nat
        BY DEF Crash
    <2>3. lines' \in Seq(Seq(Piece) \ {<< >>})
        BY <1>1
    <2> QED BY <1>1, <1>3, <2>1, <2>2, <2>3 DEF TypeOK
<1>5. Len(Found) <= count
    <2>1. CASE log
        BY <1>1, <2>1 DEF FileInv, InStep, Extra, Counted
    <2>2. CASE ~log
        BY <1>1, <2>2 DEF FileInv, Behind, Counted
    <2> QED BY <2>1, <2>2
<1>6. InStep' /\ Behind'
    BY <1>1 DEF InStep, Behind
<1>7. Counted'
    BY <1>1, <1>3, <1>5 DEF Crash, Counted
<1> QED BY <1>3, <1>4, <1>6, <1>7 DEF FileInv

\* A load holds what it finds, and notes the end it found.
LEMMA LoadStep ==
    ASSUME FileInv, Load
    PROVE  FileInv' /\ Found' = Found /\ events' = Found
<1> USE FileFacts
<1>1. /\ ~up /\ up' = TRUE /\ log' = TRUE /\ events' = Found
      /\ lines' = lines /\ tail' = tail /\ Found' = Found
    BY DEF Load, Found, file
<1>2. step = "idle"
    BY <1>1 DEF FileInv, TypeOK
<1>3. /\ repair' \in {"none", "separator", "truncate"}
      /\ repair' = "separator" => ReadsAsEvent(tail')
      /\ repair' = "truncate" => /\ tail' # << >> /\ ~ReadsAsEvent(tail')
                                /\ cutAt' = Len(lines')
      /\ repair' = "none" => tail' = << >>
    BY <1>1 DEF Load
<1>4. TypeOK'
    BY <1>1, <1>2, <1>3 DEF Load, FileInv, TypeOK
<1>5. InStep' /\ Behind'
    BY <1>1, <1>2, <1>3 DEF Load, InStep, Behind, ReadsAs, Reads, Extra
<1>6. Counted'
    BY <1>1, <1>2 DEF Load, FileInv, Counted
<1> QED BY <1>1, <1>4, <1>5, <1>6 DEF FileInv

\* A damaged line keeps its place and stops reading.
LEMMA DamageStep ==
    ASSUME FileInv, NEW i \in DOMAIN lines, Damage(i)
    PROVE  /\ FileInv'
           /\ i \in DOMAIN Found
           /\ Found' = [Found EXCEPT ![i] = Unknown]
<1> USE FileFacts
<1> DEFINE bad == << Cut(lines[i][1].ev) >>
<1>1. /\ lines' = [lines EXCEPT ![i] = bad] /\ tail' = tail /\ damage' = damage + 1
      /\ UNCHANGED << up, proc, count, loads >>
    BY DEF Damage
<1>2. lines[i] \in Seq(Piece) /\ lines[i] # << >>
    OBVIOUS
<1>3. lines[i][1] \in Piece
    <2>1. Len(lines[i]) \in Nat /\ Len(lines[i]) # 0 /\ DOMAIN lines[i] = 1..Len(lines[i])
        BY <1>2
    <2>2. 1 \in DOMAIN lines[i]
        BY <2>1
    <2> QED BY <1>2, <2>2
<1>4. bad \in Seq(Piece) /\ bad # << >> /\ ~ReadsAsEvent(bad)
    <2>1. Cut(lines[i][1].ev) \in Piece
        BY <1>3 DEF Cut, Piece
    <2>2. bad[1] = Cut(lines[i][1].ev)
        OBVIOUS
    <2> QED BY <2>1, <2>2 DEF ReadsAsEvent, Cut
<1> HIDE DEF bad
<1>5. /\ lines' \in Seq(Seq(Piece) \ {<< >>}) /\ Len(lines') = Len(lines)
      /\ DOMAIN lines' = DOMAIN lines
      /\ lines'[i] = bad /\ \A j \in DOMAIN lines : j # i => lines'[j] = lines[j]
    BY <1>1, <1>4
<1>6. i \in DOMAIN Found
    BY ReadParts DEF Found
<1>7. Found' = [Found EXCEPT ![i] = Unknown]
    <2> DEFINE n == Len(lines) + (IF ReadsAsEvent(tail) THEN 1 ELSE 0)
    <2>1. n \in Nat /\ i \in 1..Len(lines)
        OBVIOUS
    <2>2. Found = [j \in 1..n |-> Parse(IF j <= Len(lines) THEN lines[j] ELSE tail)]
        BY DEF Found, Read
    <2>3. Found' = [j \in 1..n |-> Parse(IF j <= Len(lines) THEN lines'[j] ELSE tail)]
        BY <1>1, <1>5 DEF Found, Read
    <2>4. Parse(bad) = Unknown
        BY <1>4 DEF Parse
    <2>5. \A j \in 1..n : j # i =>
              (IF j <= Len(lines) THEN lines'[j] ELSE tail)
                  = (IF j <= Len(lines) THEN lines[j] ELSE tail)
        <3> SUFFICES ASSUME NEW j \in 1..n, j # i, j <= Len(lines)
                     PROVE  lines'[j] = lines[j]
            OBVIOUS
        <3>1. j \in DOMAIN lines
            <4> HIDE DEF n
            <4> QED BY <2>1
        <3> QED BY <1>5, <3>1
    <2> HIDE DEF n
    <2>6. i \in 1..n /\ i <= Len(lines)
        BY <1>6, <2>1, <2>2
    <2>7. \A j \in 1..n : Found'[j] = IF j = i THEN Unknown ELSE Found[j]
        BY <1>5, <2>2, <2>3, <2>4, <2>5, <2>6
    <2>8. DOMAIN Found' = 1..n /\ DOMAIN Found = 1..n
        BY <2>2, <2>3
    <2>9. Found' = [j \in 1..n |-> Found'[j]]
        BY <2>3
    <2> QED BY <2>6, <2>7, <2>8, <2>9
<1>8. TypeOK'
    <2>1. lines' \in Seq(Seq(Piece) \ {<< >>}) /\ tail' \in Seq(Piece) /\ damage' \in Nat
        BY <1>1, <1>5
    <2> QED BY <1>1, <1>5, <2>1 DEF proc, FileInv, TypeOK
<1>9. /\ Len(Found') = Len(Found) /\ DOMAIN Found' = DOMAIN Found
      /\ \A j \in DOMAIN Found : Found'[j] = Unknown \/ Found'[j] = Found[j]
    BY <1>6, <1>7
<1>10. InStep' /\ Behind'
    BY <1>1, <1>9 DEF proc, FileInv, InStep, Behind, ReadsAs, Reads, Extra
<1>11. Counted'
    BY <1>1, <1>9 DEF proc, FileInv, Counted
<1> QED BY <1>6, <1>7, <1>8, <1>10, <1>11 DEF FileInv

\* Nothing is on disk when a session begins.
LEMMA FileInit ==
    ASSUME Init
    PROVE  FileInv /\ Found = << >>
<1>1. << >> \in Seq(Seq(Piece) \ {<< >>}) /\ << >> \in Seq(Piece)
      /\ << >> \in Seq(Event \cup {Unknown}) /\ Len(<< >>) = 0
    OBVIOUS
<1>2. TypeOK
    BY <1>1, FileAssumption DEF Init, TypeOK
<1>3. ~ReadsAsEvent(<< >>)
    BY DEF ReadsAsEvent
<1>4. Len(Found) = 0 /\ DOMAIN Found = {} /\ Found = << >>
    <2>1. << >> \in Seq(Seq(Piece))
        OBVIOUS
    <2>2. Found = Read(<< >>, << >>)
        BY DEF Found, Init
    <2>3. Found \in Seq(Event \cup {Unknown})
        BY <1>1, <2>1, <2>2, ReadType
    <2>4. Len(Found) = 0
        BY <1>1, <1>3, <2>1, <2>2, ReadParts
    <2> QED BY <2>3, <2>4
<1>5. InStep /\ Behind /\ Counted
    BY <1>1, <1>4 DEF Init, InStep, Behind, Counted, ReadsAs, Extra
<1> QED BY <1>2, <1>4, <1>5 DEF FileInv

\* Every step keeps the invariant.
LEMMA FileStep ==
    ASSUME FileInv, [Next]_vars
    PROVE  FileInv'
<1>1. CASE \E to \in 0..Len(events) : Record(to) \/ RecordUnsaved(to)
    BY <1>1, RecordStep
<1>2. CASE RepairTail
    BY <1>2, RepairStep
<1>3. CASE WritePayload \/ WriteNewline
    BY <1>3, WriteStep
<1>4. CASE RepairFails \/ PayloadFails \/ NewlineFails
    BY <1>4, FailStep
<1>5. CASE Crash
    BY <1>5, CrashStep
<1>6. CASE Load
    BY <1>6, LoadStep
<1>7. CASE \E i \in DOMAIN lines : Damage(i)
    BY <1>7, DamageStep
<1>8. CASE UNCHANGED vars
    BY <1>8 DEF vars, FileInv, TypeOK, InStep, Behind, Counted, ReadsAs, Found, Extra
<1> QED BY <1>1, <1>2, <1>3, <1>4, <1>5, <1>6, <1>7, <1>8 DEF Next

-----------------------------------------------------------------------------
(* The file keeps the promise of SavedLog.                                 *)

\* A whole record written after the lines is one more event read.
LEMMA ReadMore ==
    ASSUME NEW ls \in Seq(Seq(Piece)), NEW t \in Seq(Piece), NEW u \in Seq(Piece),
           ~ReadsAsEvent(t), ReadsAsEvent(u)
    PROVE  Read(ls, u) = Append(Read(ls, t), Parse(u))
<1> DEFINE S == Event \cup {Unknown}
           a == Read(ls, u)
           b == Read(ls, t)
           x == Parse(u)
           c == Append(b, x)
<1>1. a \in Seq(S) /\ b \in Seq(S)
    BY ReadType
<1>2. Len(a) = Len(ls) + 1 /\ Len(b) = Len(ls) /\ Len(ls) \in Nat /\ a[Len(ls) + 1] = x
    BY ReadParts
<1>3. \A i \in 1..Len(ls) : a[i] = b[i]
    BY ReadParts
<1> HIDE DEF S, a, b, x
<1>4. x \in S
    BY <1>1, <1>2
<1>5. c \in Seq(S) /\ Len(c) = Len(ls) + 1 /\ c[Len(ls) + 1] = x
    BY <1>1, <1>2, <1>4
<1>6. \A i \in 1..Len(ls) : c[i] = b[i]
    BY <1>1, <1>2, <1>4
<1> HIDE DEF c
<1>7. \A i \in 1..(Len(ls) + 1) : a[i] = c[i]
    BY <1>2, <1>3, <1>5, <1>6
<1>8. a = c
    <2>1. DOMAIN a = 1..(Len(ls) + 1) /\ a = [i \in DOMAIN a |-> a[i]]
        BY <1>1, <1>2
    <2>2. DOMAIN c = 1..(Len(ls) + 1) /\ c = [i \in DOMAIN c |-> c[i]]
        BY <1>5
    <2> QED BY <1>7, <2>1, <2>2
<1> QED BY <1>8 DEF a, b, c, x

\* The payload of a record is one more event read.
LEMMA PayloadReads ==
    ASSUME FileInv, WritePayload
    PROVE  Found' = Append(Found, pending) /\ Len(Found) = Len(events) /\ pending \in Event
<1> USE FileFacts
<1>1. up /\ log /\ step = "payload" /\ pending \in Event
    BY DEF WritePayload, FileInv, TypeOK
<1>2. tail = << >> /\ Len(Found) = Len(events)
    BY <1>1 DEF FileInv, InStep, Extra
<1>3. /\ tail' = << Whole(pending) >> /\ lines' = lines
      /\ ReadsAsEvent(tail') /\ Parse(tail') = pending /\ ~ReadsAsEvent(tail)
    BY <1>2 DEF WritePayload, Whole, ReadsAsEvent, Parse
<1>4. tail' \in Seq(Piece)
    BY <1>1, <1>3 DEF Whole, Piece
<1>5. Read(lines, tail') = Append(Read(lines, tail), Parse(tail'))
    BY <1>3, <1>4, ReadMore
<1> QED BY <1>1, <1>2, <1>3, <1>5 DEF Found

\* The newline of a record leaves its event the last one read.
LEMMA NewlineReads ==
    ASSUME FileInv, step = "newline"
    PROVE  /\ Len(Found) = Len(events) + 1 /\ Found[Len(Found)] = pending
           /\ ReadsAsEvent(tail) /\ up /\ log /\ pending \in Event
<1> USE FileFacts
<1>1. up /\ log /\ pending \in Event
    BY DEF FileInv, TypeOK
<1>2. Len(Found) = Len(events) + 1 /\ tail = << Whole(pending) >>
    BY <1>1 DEF FileInv, InStep, Extra
<1>3. ReadsAsEvent(tail) /\ Parse(tail) = pending
    BY <1>2 DEF ReadsAsEvent, Parse, Whole
<1>4. Len(Found) = Len(lines) + 1 /\ Found[Len(lines) + 1] = pending
    BY <1>3, ReadParts DEF Found
<1> QED BY <1>1, <1>2, <1>3, <1>4

\* Every step of the file is a step of SavedLog or changes nothing there.
LEMMA SavedStep ==
    ASSUME FileInv, [Next]_vars
    PROVE  [Saved!SavedNext]_(Saved!savedVars)
<1> USE FileFacts DEF Saved!savedVars
<1>1. ASSUME NEW to \in 0..Len(events), Record(to)
      PROVE  UNCHANGED Saved!savedVars
    BY <1>1 DEF Record, Found, Process, file
<1>2. ASSUME NEW to \in 0..Len(events), RecordUnsaved(to)
      PROVE  \E e \in Event : Saved!HoldUnsaved(e)
    <2>1. NewEvent(to) \in Event
        BY <1>2, NewEventType DEF RecordUnsaved
    <2>2. Saved!HoldUnsaved(NewEvent(to))
        BY <1>2 DEF Saved!HoldUnsaved, RecordUnsaved, CanRecord, Process, file
    <2> QED BY <2>1, <2>2
<1>3. ASSUME RepairTail
      PROVE  UNCHANGED Saved!savedVars
    BY <1>3, RepairStep DEF RepairTail, Found, Process
<1>4. ASSUME WritePayload
      PROVE  \E e \in Event : Saved!Save(e)
    <2>1. Found' = Append(Found, pending) /\ Len(Found) = Len(events) /\ pending \in Event
        BY <1>4, PayloadReads
    <2>2. up /\ log
        BY <1>4 DEF WritePayload, FileInv, TypeOK
    <2>3. Saved!Save(pending)
        BY <1>4, <2>1, <2>2 DEF Saved!Save, WritePayload, Process, Found
    <2> QED BY <2>1, <2>3
<1>5. ASSUME WriteNewline
      PROVE  \E e \in Event : Saved!Hold(e)
    <2>1. /\ Len(Found) = Len(events) + 1 /\ Found[Len(Found)] = pending
          /\ ReadsAsEvent(tail) /\ up /\ log /\ pending \in Event
        BY <1>5, NewlineReads DEF WriteNewline
    <2>2. Found' = Found
        BY <1>5, <2>1, ReadEnded DEF WriteNewline, Found
    <2>3. Saved!Hold(pending)
        BY <1>5, <2>1, <2>2 DEF Saved!Hold, Saved!Reads, WriteNewline, Process, Found
    <2> QED BY <2>1, <2>3
<1>6. ASSUME RepairFails \/ PayloadFails \/ NewlineFails
      PROVE  \E e \in Event : Saved!SealWith(e)
    <2>1. Found' = Found
        BY <1>6, FailStep
    <2>2. up /\ log /\ pending \in Event /\ Seal /\ up' = up /\ step # "idle"
        BY <1>6 DEF RepairFails, PayloadFails, NewlineFails, FileInv, TypeOK
    <2>3. \/ Len(Found) = Len(events)
          \/ Len(Found) = Len(events) + 1 /\ Found[Len(Found)] = pending
        BY <2>2, NewlineReads DEF FileInv, InStep, Extra
    <2>4. Saved!SealWith(pending)
        BY <2>1, <2>2, <2>3 DEF Saved!SealWith, Saved!Reads, Seal, Process, Found
    <2> QED BY <2>2, <2>4
<1>7. ASSUME Crash
      PROVE  Saved!Die
    BY <1>7, CrashStep DEF Saved!Die, Crash, Process, Found
<1>8. ASSUME Load
      PROVE  Saved!Restart
    BY <1>8, LoadStep DEF Saved!Restart, Load, Process, Found
<1>9. ASSUME NEW i \in DOMAIN lines, Damage(i)
      PROVE  \E j \in DOMAIN Found : Saved!Spoil(j)
    BY <1>9, DamageStep DEF Saved!Spoil, Damage, proc, Process, Found
<1>10. CASE UNCHANGED vars
    BY <1>10 DEF vars, Process
<1> QED
    BY <1>1, <1>2, <1>3, <1>4, <1>5, <1>6, <1>7, <1>8, <1>9, <1>10
    DEF Next, Saved!SavedNext, Found

\* The parts of a saved log keep their types, and fit together: what is to be
\* repaired is a torn end, and a write under way has a process behind it.
THEOREM FileKeepsItsShape == Spec => []TypeOK
<1>1. Init => FileInv
    BY FileInit
<1>2. FileInv /\ [Next]_vars => FileInv'
    BY FileStep
<1>3. FileInv => TypeOK
    BY DEF FileInv
<1> QED BY <1>1, <1>2, <1>3, PTL DEF Spec

\* Whatever write fails and whenever the process dies, what a later process
\* finds is what SavedLog promises: the first events recorded, each in the
\* place it was recorded at (JsonlLog::append, Session::record, Session::load).
THEOREM FileKeepsThePromise == Spec => KeepsThePromise
<1>1. Init => FileInv /\ Saved!SavedInit
    BY FileInit DEF Saved!SavedInit, Init, Process, Found
<1>2. FileInv /\ [Next]_vars => FileInv' /\ [Saved!SavedNext]_(Saved!savedVars)
    BY FileStep, SavedStep
<1> QED BY <1>1, <1>2, PTL DEF Spec, KeepsThePromise, Saved!SavedSpec

\* What a process is told of a failed write is true: the disk holds a prefix
\* of what it holds, or one event more (WriteFailure, session.rs).
THEOREM DiskHoldsAPrefix == Spec => []PrefixOnDisk
<1>1. Init => FileInv
    BY FileInit
<1>2. FileInv /\ [Next]_vars => FileInv'
    BY FileStep
<1>3. ASSUME FileInv
      PROVE  PrefixOnDisk
    <2> USE <1>3, FileFacts
    <2>1. \A a, b : Reads(a, b) <=> Saved!Reads(a, b)
        BY DEF Reads, Saved!Reads
    <2>2. SUFFICES ASSUME up
                   PROVE  \/ Saved!NumberedPrefix(Found, events)
                          \/ /\ Len(Found) = Len(events) + 1
                             /\ \A i \in DOMAIN events : Saved!Reads(Found[i], events[i])
        BY DEF PrefixOnDisk, Saved!SavedIsPrefix, Process, Found
    <2>3. ReadsAs(events) /\ (Len(Found) <= Len(events) \/ Len(Found) = Len(events) + 1)
        BY <2>2 DEF FileInv, InStep, Behind, Extra
    <2>4. CASE Len(Found) <= Len(events)
        <3>1. \A i \in DOMAIN Found : i \in DOMAIN events
            BY <2>4
        <3>2. \A i \in DOMAIN Found : Saved!Reads(Found[i], events[i])
            BY <2>1, <2>3, <3>1 DEF ReadsAs
        <3> QED BY <2>4, <3>2 DEF Saved!NumberedPrefix
    <2>5. CASE Len(Found) = Len(events) + 1
        BY <2>1, <2>3, <2>5 DEF ReadsAs
    <2> QED BY <2>3, <2>4, <2>5
<1> QED BY <1>1, <1>2, <1>3, PTL DEF Spec

-----------------------------------------------------------------------------
(* No marker is re-aimed.                                                  *)

\* e, recorded after s, names the event of s its writer meant.
AimsInto(s, e) ==
    e.to # 0 => e.to \in 1..Len(s) /\ s[e.to].n \in {e.meant, Unknown.n}

\* Every marker of s names the event its writer meant.
Aimed(s) ==
    \A i \in DOMAIN s :
        s[i].to # 0 => s[i].to < i /\ s[s[i].to].n \in {s[i].meant, Unknown.n}

\* What is held and what is found are aimed, and so is the event that is on
\* its way from one to the other.
AimInv ==
    /\ FileInv
    /\ Aimed(events) /\ Aimed(Found)
    /\ step # "idle" => AimsInto(events, pending)

\* Recording a marker that is aimed keeps every marker aimed.
LEMMA AimedAppend ==
    ASSUME NEW S, NEW s \in Seq(S), NEW e \in S, \A x \in S : x.to \in Nat,
           Aimed(s), AimsInto(s, e)
    PROVE  Aimed(Append(s, e))
<1> DEFINE w == Append(s, e)
<1>1. w \in Seq(S) /\ Len(w) = Len(s) + 1 /\ Len(s) \in Nat
    OBVIOUS
<1>2. (\A i \in 1..Len(s) : w[i] = s[i]) /\ w[Len(s) + 1] = e
    OBVIOUS
<1>3. DOMAIN s = 1..Len(s) /\ \A i \in 1..Len(s) : s[i] \in S
    OBVIOUS
<1> HIDE DEF w
<1>4. DOMAIN w = 1..(Len(s) + 1)
    BY <1>1
<1>5. ASSUME NEW i \in DOMAIN w, w[i].to # 0
      PROVE  w[i].to < i /\ w[w[i].to].n \in {w[i].meant, Unknown.n}
    <2>1. CASE i \in 1..Len(s)
        <3>1. w[i] = s[i] /\ s[i].to \in Nat
            BY <1>2, <1>3, <2>1
        <3>2. s[i].to < i /\ s[s[i].to].n \in {s[i].meant, Unknown.n}
            BY <1>3, <1>5, <2>1, <3>1 DEF Aimed
        <3>3. s[i].to \in 1..Len(s)
            BY <1>1, <1>5, <2>1, <3>1, <3>2
        <3>4. w[s[i].to] = s[s[i].to]
            BY <1>2, <3>3
        <3> QED BY <3>1, <3>2, <3>4
    <2>2. CASE i = Len(s) + 1
        <3>1. w[i] = e /\ e.to # 0
            BY <1>2, <1>5, <2>2
        <3>2. e.to \in 1..Len(s) /\ s[e.to].n \in {e.meant, Unknown.n}
            BY <3>1 DEF AimsInto
        <3>3. w[e.to] = s[e.to] /\ e.to < i
            BY <1>1, <1>2, <2>2, <3>2
        <3> QED BY <3>1, <3>2, <3>3
    <2> QED BY <1>1, <1>4, <1>5, <2>1, <2>2
<1> QED BY <1>5 DEF Aimed, w

\* Every event and every place that did not read has a position it names.
LEMMA NamesAPosition == \A x \in Event \cup {Unknown} : x.to \in Nat
BY FileAssumption DEF Event, Unknown

\* What is recorded next names an event the process holds.
LEMMA NewEventAims ==
    ASSUME FileInv, NEW to \in 0..Len(events), CanRecord(to)
    PROVE  NewEvent(to) \in Event /\ AimsInto(events, NewEvent(to))
<1>1. NewEvent(to) \in Event /\ to <= Len(events)
    BY NewEventType
<1>2. NewEvent(to).to = to /\ (to # 0 => NewEvent(to).meant = events[to].n)
    BY DEF NewEvent
<1> QED BY <1>1, <1>2, FileFacts DEF AimsInto

\* Reading the same events, some of them no longer, keeps a marker's aim.
LEMMA AimRead ==
    ASSUME FileInv, ReadsAs(events), NEW e, AimsInto(events, e), e.to \in Nat,
           Len(Found) = Len(events)
    PROVE  AimsInto(Found, e)
BY FileFacts DEF ReadsAs, Reads, AimsInto, Unknown

\* Every step keeps every marker aimed.
LEMMA AimStep ==
    ASSUME AimInv, [Next]_vars
    PROVE  AimInv'
<1> USE FileFacts
<1>1. FileInv /\ FileInv'
    BY FileStep DEF AimInv
<1>2. pending \in Event \cup {Unknown} /\ pending.to \in Nat
    BY <1>1, NamesAPosition
<1>3. ASSUME NEW to \in 0..Len(events), Record(to)
      PROVE  AimInv'
    <2>1. AimsInto(events, NewEvent(to))
        BY <1>1, <1>3, NewEventAims DEF Record
    <2> QED BY <1>1, <1>3, <2>1 DEF Record, AimInv, Found, file
<1>4. ASSUME NEW to \in 0..Len(events), RecordUnsaved(to)
      PROVE  AimInv'
    <2>1. AimsInto(events, NewEvent(to)) /\ NewEvent(to) \in Event
        BY <1>1, <1>4, NewEventAims DEF RecordUnsaved
    <2>2. Aimed(Append(events, NewEvent(to)))
        <3> DEFINE T == Event \cup {Unknown}
        <3>1. events \in Seq(T) /\ NewEvent(to) \in T /\ \A x \in T : x.to \in Nat
            BY <1>1, <2>1, NamesAPosition
        <3> HIDE DEF T
        <3> QED BY <2>1, <3>1, AimedAppend DEF AimInv
    <2>3. events' = Append(events, NewEvent(to)) /\ Found' = Found /\ step' = "idle"
        BY <1>4 DEF RecordUnsaved, CanRecord, Found, file
    <2> QED BY <1>1, <2>2, <2>3 DEF AimInv
<1>5. CASE RepairTail
    <2>1. Found' = Found /\ events' = events /\ pending' = pending /\ step # "idle"
        BY <1>1, <1>5, RepairStep DEF RepairTail
    <2> QED BY <1>1, <2>1 DEF AimInv
<1>6. CASE WritePayload
    <2>1. Found' = Append(Found, pending) /\ Len(Found) = Len(events) /\ pending \in Event
        BY <1>1, <1>6, PayloadReads
    <2>2. step # "idle" /\ events' = events /\ pending' = pending /\ up /\ log
        BY <1>1, <1>6 DEF WritePayload, FileInv, TypeOK
    <2>3. AimsInto(Found, pending)
        BY <1>1, <1>2, <2>1, <2>2, AimRead DEF AimInv, FileInv, InStep
    <2>4. Aimed(Append(Found, pending))
        <3> DEFINE T == Event \cup {Unknown}
        <3>1. Found \in Seq(T) /\ pending \in T /\ \A x \in T : x.to \in Nat
            BY <1>1, <1>2, NamesAPosition
        <3> HIDE DEF T
        <3> QED BY <2>3, <3>1, AimedAppend DEF AimInv
    <2> QED BY <1>1, <2>1, <2>2, <2>4 DEF AimInv
<1>7. CASE WriteNewline \/ RepairFails \/ PayloadFails \/ NewlineFails
    <2>1. /\ step # "idle" /\ step' = "idle" /\ events' = Append(events, pending)
        BY <1>7 DEF WriteNewline, RepairFails, PayloadFails, NewlineFails, Seal
    <2>2. Found' = Found
        <3>1. CASE WriteNewline
            BY <1>1, <3>1, NewlineReads, ReadEnded DEF WriteNewline, Found
        <3>2. CASE RepairFails \/ PayloadFails \/ NewlineFails
            BY <1>1, <3>2, FailStep
        <3> QED BY <1>7, <3>1, <3>2
    <2>3. Aimed(Append(events, pending))
        <3> DEFINE T == Event \cup {Unknown}
        <3>1. events \in Seq(T) /\ pending \in T /\ \A x \in T : x.to \in Nat
            BY <1>1, <1>2, NamesAPosition
        <3> HIDE DEF T
        <3> QED BY <2>1, <3>1, AimedAppend DEF AimInv
    <2> QED BY <1>1, <2>1, <2>2, <2>3 DEF AimInv
<1>8. CASE Crash
    <2>1. Found' = Found /\ events' = << >> /\ step' = "idle"
        BY <1>1, <1>8, CrashStep DEF Crash
    <2> QED BY <1>1, <2>1 DEF AimInv, Aimed
<1>9. CASE Load
    <2>1. Found' = Found /\ events' = Found /\ step' = "idle"
        BY <1>1, <1>9, LoadStep DEF Load, FileInv, TypeOK
    <2> QED BY <1>1, <2>1 DEF AimInv
<1>10. ASSUME NEW i \in DOMAIN lines, Damage(i)
       PROVE  AimInv'
    <2>1. i \in DOMAIN Found /\ Found' = [Found EXCEPT ![i] = Unknown]
        BY <1>1, <1>10, DamageStep
    <2>2. events' = events /\ pending' = pending /\ step' = step
        BY <1>10 DEF Damage, proc
    <2>3. Aimed(Found')
        BY <1>1, <2>1 DEF AimInv, Aimed, Unknown
    <2> QED BY <1>1, <2>2, <2>3 DEF AimInv
<1>11. CASE UNCHANGED vars
    BY <1>1, <1>11 DEF vars, AimInv, Found
<1> QED
    BY <1>3, <1>4, <1>5, <1>6, <1>7, <1>8, <1>9, <1>10, <1>11 DEF Next

\* Whatever fails and whenever the process dies, a marker read back names the
\* event its writer named, or a place that no longer reads: never another
\* turn (Session::load keeps the numbering, JsonlLog::repair_tail).
THEOREM MarkersStayAimed == Spec => []MarkersKeepTheirAim
<1>1. Init => AimInv
    BY FileInit DEF Init, AimInv, Aimed, Found, Read, ReadsAsEvent
<1>2. AimInv /\ [Next]_vars => AimInv'
    BY AimStep
<1>3. AimInv => MarkersKeepTheirAim
    BY DEF AimInv, Aimed, MarkersKeepTheirAim, Found
<1> QED BY <1>1, <1>2, <1>3, PTL DEF Spec

=============================================================================
