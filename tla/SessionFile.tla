----------------------------- MODULE SessionFile -----------------------------
(***************************************************************************)
(* The file behind a session (session.rs: JsonlLog, Session::record and    *)
(* Session::load).  A record is a payload and then its newline, two writes *)
(* with no buffer between; the process may die at any point and a write    *)
(* may fail part way.  A load notes a torn end and leaves the file alone;  *)
(* the first append after it puts the end right.                           *)
(*                                                                         *)
(* A line is the sequence of pieces written between two newlines: one      *)
(* whole piece reads as its event, anything else does not read.            *)
(***************************************************************************)
EXTENDS Integers, Sequences

CONSTANTS
    MaxEvents,   \* bound on the events recorded, all processes together
    MaxLoads,    \* bound on restarts
    MaxDamage    \* bound on lines the filesystem damages

ASSUME FileAssumption ==
    MaxEvents \in Nat /\ MaxLoads \in Nat /\ MaxDamage \in Nat

\* An event is its number among all events recorded, and a marker also names
\* a position and the number of the event its writer saw there.
Event == [n : 1..MaxEvents, to : 0..MaxEvents, meant : 0..MaxEvents]
Unknown == [n |-> 0, to |-> 0, meant |-> 0]

Piece == [ev : Event, cut : BOOLEAN]
Whole(e) == [ev |-> e, cut |-> FALSE]
Cut(e)   == [ev |-> e, cut |-> TRUE]

VARIABLES
    lines,     \* the file's terminated lines
    tail,      \* the pieces after the last newline
    up,        \* a process has the session open
    events,    \* Session.events of that process
    log,       \* its JsonlLog is there (not sealed)
    repair,    \* JsonlLog.repair: "none", "separator" or "truncate"
    cutAt,     \* Repair::TruncateTo's length, in lines
    failure,   \* WriteFailure.from_event, -1 for none
    step,      \* what record is about to do: "idle", "repair", "payload", "newline"
    pending,   \* the event it is recording
    count, loads, damage   \* how much of each bound is used

file == << lines, tail >>
proc == << events, log, repair, cutAt, failure, step, pending >>
vars == << lines, tail, up, events, log, repair, cutAt, failure, step, pending,
           count, loads, damage >>

-----------------------------------------------------------------------------

ReadsAsEvent(line) == Len(line) = 1 /\ ~line[1].cut

Parse(line) == IF ReadsAsEvent(line) THEN line[1].ev ELSE Unknown

\* Mutant: a line that does not read is skipped.
ReadSkipping(ls, t) ==
    SelectSeq([i \in DOMAIN ls |-> Parse(ls[i])], LAMBDA e : e # Unknown)
        \o (IF ReadsAsEvent(t) THEN << Parse(t) >> ELSE << >>)

\* What a load reads: every terminated line in its place, and the tail if it
\* is a whole record.
Read(ls, t) ==
    [i \in 1..(Len(ls) + (IF ReadsAsEvent(t) THEN 1 ELSE 0)) |->
        Parse(IF i <= Len(ls) THEN ls[i] ELSE t)]

Init ==
    /\ lines = << >> /\ tail = << >>
    /\ up = TRUE
    /\ events = << >> /\ log = TRUE
    /\ repair = "none" /\ cutAt = 0
    /\ failure = -1
    /\ step = "idle" /\ pending = Unknown
    /\ count = 0 /\ loads = 0 /\ damage = 0

-----------------------------------------------------------------------------
(* Session::record.                                                        *)

\* A marker names an event that reads.
NewEvent(to) ==
    [n |-> count + 1, to |-> to, meant |-> IF to = 0 THEN 0 ELSE events[to].n]

CanRecord(to) ==
    /\ up /\ step = "idle" /\ count < MaxEvents
    /\ to # 0 => events[to] # Unknown

\* A sealed session records in memory only.
RecordUnsaved(to) ==
    /\ CanRecord(to) /\ ~log
    /\ events' = Append(events, NewEvent(to))
    /\ count' = count + 1
    /\ UNCHANGED << file, up, log, repair, cutAt, failure, step, pending, loads, damage >>

Record(to) ==
    /\ CanRecord(to) /\ log
    /\ pending' = NewEvent(to)
    /\ step' = IF repair = "none" THEN "payload" ELSE "repair"
    /\ count' = count + 1
    /\ UNCHANGED << file, up, events, log, repair, cutAt, failure, loads, damage >>

\* Mutant: the log is kept after a failed append.
SealNothing ==
    /\ failure' = Len(events)
    /\ log' = log
    /\ events' = Append(events, pending)
    /\ step' = "idle" /\ pending' = Unknown
    /\ repair' = "none" /\ cutAt' = 0

\* The failed append: the event stays in memory, and the log is dropped.
Seal ==
    /\ failure' = Len(events)
    /\ log' = FALSE
    /\ events' = Append(events, pending)
    /\ step' = "idle" /\ pending' = Unknown
    /\ repair' = "none" /\ cutAt' = 0

RepairTail ==
    /\ up /\ step = "repair"
    /\ \/ /\ repair = "truncate"
          /\ lines' = SubSeq(lines, 1, cutAt) /\ tail' = << >>
       \/ /\ repair = "separator"
          /\ lines' = Append(lines, tail) /\ tail' = << >>
    /\ repair' = "none" /\ cutAt' = 0
    /\ step' = "payload"
    /\ UNCHANGED << up, events, log, failure, pending, count, loads, damage >>

RepairFails ==
    /\ up /\ step = "repair"
    /\ Seal
    /\ UNCHANGED << file, up, count, loads, damage >>

WritePayload ==
    /\ up /\ step = "payload"
    /\ tail' = Append(tail, Whole(pending))
    /\ step' = "newline"
    /\ UNCHANGED << lines, up, events, log, repair, cutAt, failure, pending, count,
                    loads, damage >>

\* A write that fails leaves nothing or a part of the payload.
PayloadFails ==
    /\ up /\ step = "payload"
    /\ tail' \in {tail, Append(tail, Cut(pending))}
    /\ Seal
    /\ UNCHANGED << lines, up, count, loads, damage >>

WriteNewline ==
    /\ up /\ step = "newline"
    /\ lines' = Append(lines, tail) /\ tail' = << >>
    /\ events' = Append(events, pending)
    /\ step' = "idle" /\ pending' = Unknown
    /\ UNCHANGED << up, log, repair, cutAt, failure, count, loads, damage >>

NewlineFails ==
    /\ up /\ step = "newline"
    /\ Seal
    /\ UNCHANGED << file, up, count, loads, damage >>

-----------------------------------------------------------------------------
(* The process dies, and another opens the session.                        *)

Crash ==
    /\ up
    /\ up' = FALSE
    /\ tail' \in IF step = "payload" THEN {tail, Append(tail, Cut(pending))} ELSE {tail}
    /\ events' = << >> /\ log' = FALSE /\ repair' = "none" /\ cutAt' = 0
    /\ failure' = -1 /\ step' = "idle" /\ pending' = Unknown
    /\ UNCHANGED << lines, count, loads, damage >>

Load ==
    /\ ~up /\ loads < MaxLoads
    /\ up' = TRUE /\ log' = TRUE
    /\ events' = Read(lines, tail)
    /\ repair' = IF tail = << >> THEN "none"
                 ELSE IF ReadsAsEvent(tail) THEN "separator" ELSE "truncate"
    /\ cutAt' = IF tail # << >> /\ ~ReadsAsEvent(tail) THEN Len(lines) ELSE 0
    /\ loads' = loads + 1
    /\ UNCHANGED << file, failure, step, pending, count, damage >>

\* The filesystem mangles bytes of a line, its newline left whole.
Damage(i) ==
    /\ damage < MaxDamage
    /\ lines' = [lines EXCEPT ![i] = << Cut(lines[i][1].ev) >>]
    /\ damage' = damage + 1
    /\ UNCHANGED << tail, up, proc, count, loads >>

Next ==
    \/ \E to \in 0..Len(events) : Record(to) \/ RecordUnsaved(to)
    \/ RepairTail \/ RepairFails
    \/ WritePayload \/ PayloadFails
    \/ WriteNewline \/ NewlineFails
    \/ Crash \/ Load
    \/ \E i \in DOMAIN lines : Damage(i)

Spec == Init /\ [][Next]_vars

-----------------------------------------------------------------------------
(* Properties.                                                             *)

\* What the variables hold: a repair is noted for the tail that is there, a
\* cut takes the tail and nothing else, and only a session that writes is
\* part way through a record.
TypeOK ==
    /\ lines \in Seq(Seq(Piece) \ {<< >>}) /\ tail \in Seq(Piece)
    /\ up \in BOOLEAN /\ log \in BOOLEAN
    /\ events \in Seq(Event \cup {Unknown})
    /\ repair \in {"none", "separator", "truncate"}
    /\ repair = "separator" => ReadsAsEvent(tail)
    /\ repair = "truncate" => tail # << >> /\ ~ReadsAsEvent(tail) /\ cutAt = Len(lines)
    /\ failure \in Int
    /\ step \in {"idle", "repair", "payload", "newline"}
    /\ step = "repair" => repair # "none"
    /\ step = "idle" \/ (up /\ log /\ pending \in Event)
    /\ pending \in Event \cup {Unknown}
    /\ count \in 0..MaxEvents /\ loads \in Nat /\ damage \in Nat

Process == IF ~up THEN "down" ELSE IF log THEN "saving" ELSE "sealed"

Saved == INSTANCE SavedLog
    WITH Events <- Event, Unread <- Unknown,
         saved <- Read(lines, tail), memory <- events, process <- Process

\* The file keeps the promise of SavedLog: whatever fails and whenever the
\* process dies, a load finds the first events of what was recorded, each in
\* its place.
KeepsThePromise == Saved!SavedSpec

\* What is on disk is a correctly numbered prefix of the conversation in
\* memory (WriteFailure's doc).
PrefixOnDisk == Saved!SavedIsPrefix

\* A marker that a later process reads names the event its writer named, or
\* one that no longer reads: never another turn.
MarkersKeepTheirAim ==
    LET found == Read(lines, tail) IN
    \A i \in DOMAIN found :
        found[i].to # 0 =>
            /\ found[i].to < i
            /\ found[found[i].to].n \in {found[i].meant, Unknown.n}

=============================================================================
