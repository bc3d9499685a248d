---------------------------- MODULE Observations ----------------------------
(***************************************************************************)
(* Memory: what is said in chats becomes observations in one inbox         *)
(* (capture.rs, and the remember tool), and a dream files the inbox        *)
(* (observe.rs, dream.rs).  Both are passes under one lock across          *)
(* processes (pass_lock.rs); the tool takes no lock.                       *)
(*                                                                         *)
(* A chat is its number of lines; an observation says which lines it       *)
(* covers.  The inbox is a sequence of writes, payloads and newlines: a    *)
(* line with two payloads before its newline is one nobody can parse.      *)
(***************************************************************************)
EXTENDS Naturals, Sequences, FiniteSets

CONSTANTS Processes,   \* the app, a second app, the command line
          NoProcess,
          Logs,        \* chats
          Tools,       \* calls of remember
          MaxLines     \* bound on a chat's lines

VARIABLES
    chat,      \* lines of each log
    cut,       \* capture.json: how far each log was captured
    inbox,     \* the observations file, as it was written
    consumed,  \* dream.json: how far the inbox was consolidated
    filed,     \* how often the line that ends here was filed
    lock,      \* the process that holds pass.lock
    at,        \* where each process is
    work,      \* what its pass holds in memory
    tool       \* where each call of remember is

obsVars == << chat, cut, inbox, consumed, filed, lock, at, work, tool >>

Newline == [kind |-> "newline"]
Saw(l, from, to) == [kind |-> "saw", log |-> l, from |-> from, to |-> to]
Told(r) == [kind |-> "told", tool |-> r]

NoWork == [cut |-> << >>, unread |-> {}, batch |-> {}, out |-> {},
           todo |-> {}, group |-> {}, end |-> 0]

ObsInit ==
    /\ chat = [l \in Logs |-> 0] /\ cut = [l \in Logs |-> 0]
    /\ inbox = << >> /\ consumed = 0 /\ filed = << >>
    /\ lock = NoProcess
    /\ at = [p \in Processes |-> "rest"]
    /\ work = [p \in Processes |-> NoWork]
    /\ tool = [r \in Tools |-> "rest"]

-----------------------------------------------------------------------------
(* The inbox.                                                              *)

Write(piece) ==
    /\ inbox' = Append(inbox, piece)
    /\ filed' = Append(filed, 0)

LineEnds == {i \in DOMAIN inbox : inbox[i] = Newline}

\* The pieces of the line that ends at i.
PiecesOf(i) == {j \in 1..(i - 1) : \A k \in j..(i - 1) : inbox[k] # Newline}

\* A line of one payload parses.
Reads(i) == Cardinality(PiecesOf(i)) = 1

\* Complete lines after the watermark that parse; the others are counted
\* and passed.
Pending == {i \in LineEnds : i > consumed /\ Reads(i)}

-----------------------------------------------------------------------------
(* A pass's hold on the lock.                                              *)

\* Mutant: each process minds only its own passes.
LockFreeHere == TRUE

LockFree == lock = NoProcess

Take(p, kind) ==
    /\ at[p] = "rest" /\ LockFree
    /\ lock' = p
    /\ at' = [at EXCEPT ![p] = kind]
    /\ UNCHANGED << chat, cut, inbox, consumed, filed, work, tool >>

\* Dropped at the end of the pass, whatever ended it.
LetGo(p) ==
    /\ lock' = IF lock = p THEN NoProcess ELSE lock
    /\ at' = [at EXCEPT ![p] = "rest"]
    /\ work' = [work EXCEPT ![p] = NoWork]

\* Stopped, failed or dead: nothing it held in memory is written.
Ends(p) ==
    /\ at[p] # "rest"
    /\ LetGo(p)
    /\ UNCHANGED << chat, cut, inbox, consumed, filed, tool >>

-----------------------------------------------------------------------------
(* Capture.                                                                *)

Says(l) ==
    /\ chat[l] < MaxLines
    /\ chat' = [chat EXCEPT ![l] = @ + 1]
    /\ UNCHANGED << cut, inbox, consumed, filed, lock, at, work, tool >>

Unread == {l \in Logs : cut[l] < chat[l]}

ReadState(p) ==
    /\ at[p] = "capture"
    /\ IF Unread = {}
       THEN LetGo(p)
       ELSE /\ work' = [work EXCEPT ![p] = [NoWork EXCEPT !.cut = cut, !.unread = Unread]]
            /\ at' = [at EXCEPT ![p] = "folds"]
            /\ UNCHANGED lock
    /\ UNCHANGED << chat, cut, inbox, consumed, filed, tool >>

\* The log is read to its present end, which may be past what was listed, or
\* as far as a pass's budget goes, past its first line at least.
Fold(p, l) ==
    /\ at[p] = "folds" /\ l \in work[p].unread
    /\ \E to \in (work[p].cut[l] + 1)..chat[l] :
          work' = [work EXCEPT ![p].unread = @ \ {l},
                               ![p].batch = @ \cup {Saw(l, work[p].cut[l], to)}]
    /\ UNCHANGED << chat, cut, inbox, consumed, filed, lock, at, tool >>

\* Too little new material: left for a later pass.
Defer(p, l) ==
    /\ at[p] = "folds" /\ l \in work[p].unread
    /\ chat[l] - work[p].cut[l] < 2
    /\ work' = [work EXCEPT ![p].unread = @ \ {l}]
    /\ UNCHANGED << chat, cut, inbox, consumed, filed, lock, at, tool >>

\* The model has read the batch; what it says of it is to be appended.
Asked(p) ==
    /\ at[p] = "folds" /\ work[p].batch # {}
    /\ work' = [work EXCEPT ![p].out = work[p].batch]
    /\ at' = [at EXCEPT ![p] = "appends"]
    /\ UNCHANGED << chat, cut, inbox, consumed, filed, lock, tool >>

AppendLine(p) ==
    /\ at[p] = "appends"
    /\ \E o \in work[p].out :
          /\ Write(o)
          /\ work' = [work EXCEPT ![p].out = @ \ {o}]
    /\ at' = [at EXCEPT ![p] = "newline"]
    /\ UNCHANGED << chat, cut, consumed, lock, tool >>

AppendNewline(p) ==
    /\ at[p] = "newline"
    /\ Write(Newline)
    /\ at' = [at EXCEPT ![p] = "appends"]
    /\ UNCHANGED << chat, cut, consumed, lock, work, tool >>

\* How far the logs of the batch were read.
Captured(p) ==
    [l \in Logs |-> LET here == {o \in work[p].batch : o.log = l}
                    IN  IF here = {} THEN work[p].cut[l] ELSE (CHOOSE o \in here : TRUE).to]

\* Mutant: the watermark first, the observations after it.
WriteStateFirst(p) ==
    /\ at[p] = "appends"
    /\ cut' = Captured(p)
    /\ IF work[p].out = {}
       THEN /\ work' = [work EXCEPT ![p].cut = Captured(p), ![p].batch = {}]
            /\ at' = [at EXCEPT ![p] = "folds"]
       ELSE UNCHANGED << work, at >>
    /\ UNCHANGED << chat, inbox, consumed, filed, lock, tool >>

\* Appended first, watermarked second.
WriteState(p) ==
    /\ at[p] = "appends" /\ work[p].out = {}
    /\ cut' = Captured(p)
    /\ work' = [work EXCEPT ![p].cut = Captured(p), ![p].batch = {}]
    /\ at' = [at EXCEPT ![p] = "folds"]
    /\ UNCHANGED << chat, inbox, consumed, filed, lock, tool >>

CaptureDone(p) ==
    /\ at[p] = "folds" /\ work[p].unread = {} /\ work[p].batch = {}
    /\ cut' = work[p].cut
    /\ LetGo(p)
    /\ UNCHANGED << chat, inbox, consumed, filed, tool >>

-----------------------------------------------------------------------------
(* The remember tool, in any process, under no lock.                       *)

Remember(r) ==
    /\ tool[r] = "rest"
    /\ Write(Told(r))
    /\ tool' = [tool EXCEPT ![r] = "newline"]
    /\ UNCHANGED << chat, cut, consumed, lock, at, work >>

RememberEnds(r) ==
    /\ tool[r] = "newline"
    /\ Write(Newline)
    /\ tool' = [tool EXCEPT ![r] = "done"]
    /\ UNCHANGED << chat, cut, consumed, lock, at, work >>

-----------------------------------------------------------------------------
(* The dream: a prefix of what is pending, grouped by where it belongs,    *)
(* one turn a group, the watermark after the last.                         *)

\* Where the line that ends at i belongs: its chat's project, or the vault.
TargetOf(i) == LET o == inbox[i - 1] IN IF o.kind = "saw" THEN o.log ELSE NoProcess

\* The walk stops at the first line that does not fit.
UpTo(last) == {i \in Pending : i <= last}

ReadBacklog(p) ==
    /\ at[p] = "dream"
    /\ IF Pending = {}
       THEN LetGo(p)
       ELSE /\ \E last \in Pending :
                  work' = [work EXCEPT ![p] = [NoWork EXCEPT !.todo = UpTo(last), !.end = last]]
            /\ at' = [at EXCEPT ![p] = "groups"]
            /\ UNCHANGED lock
    /\ UNCHANGED << chat, cut, inbox, consumed, filed, tool >>

StartGroup(p) ==
    /\ at[p] = "groups" /\ work[p].todo # {}
    /\ \E i \in work[p].todo :
          LET group == {j \in work[p].todo : TargetOf(j) = TargetOf(i)} IN
          work' = [work EXCEPT ![p].todo = @ \ group, ![p].group = group]
    /\ at' = [at EXCEPT ![p] = "turn"]
    /\ UNCHANGED << chat, cut, inbox, consumed, filed, lock, tool >>

\* The model's notes stand as it wrote them, whatever comes after.
TurnFiles(p) ==
    /\ at[p] = "turn"
    /\ filed' = [i \in DOMAIN filed |-> filed[i] + IF i \in work[p].group THEN 1 ELSE 0]
    /\ at' = [at EXCEPT ![p] = "filed"]
    /\ UNCHANGED << chat, cut, inbox, consumed, lock, work, tool >>

GroupDone(p) ==
    /\ at[p] = "filed"
    /\ at' = [at EXCEPT ![p] = "groups"]
    /\ UNCHANGED << chat, cut, inbox, consumed, filed, lock, work, tool >>

\* Mutant: what was filed of an interrupted dream is consumed with the rest.
AdvanceAnyway(p) ==
    /\ at[p] \in {"groups", "filed"}
    /\ consumed' = work[p].end
    /\ LetGo(p)
    /\ UNCHANGED << chat, cut, inbox, filed, tool >>

Advance(p) ==
    /\ at[p] = "groups" /\ work[p].todo = {}
    /\ consumed' = work[p].end
    /\ LetGo(p)
    /\ UNCHANGED << chat, cut, inbox, filed, tool >>

-----------------------------------------------------------------------------

CaptureStep(p) ==
    \/ ReadState(p) \/ Asked(p) \/ AppendLine(p) \/ AppendNewline(p)
    \/ WriteState(p) \/ CaptureDone(p)
    \/ \E l \in Logs : Fold(p, l)

Covers(o, l, n) == o.kind = "saw" /\ o.log = l /\ o.from < n /\ n <= o.to

\* The observations of line n of log l.
SeenOf(l, n) == {i \in DOMAIN inbox : Covers(inbox[i], l, n)}

ObsTypeOK ==
    /\ \A l \in Logs : cut[l] <= chat[l] /\ chat[l] \in 0..MaxLines
    /\ consumed \in {0} \cup LineEnds
    /\ DOMAIN filed = DOMAIN inbox
    /\ lock \in Processes \cup {NoProcess}

\* No line is passed by the watermark of its log before an observation of it
\* is in the inbox (capture.rs: "Appended first, watermarked second").
NothingUnseen ==
    \A l \in Logs : \A n \in 1..cut[l] : SeenOf(l, n) # {}

\* Nothing a dream could read is consumed before it was filed, however the
\* batch was cut into groups and wherever a dream ended.
ConsumedIsFiled ==
    \A i \in LineEnds : i <= consumed /\ Reads(i) => filed[i] > 0

\* A call of remember that returned, or an observation a capture went on
\* from, stands on a line that can be read.
RememberedIsRead ==
    \A r \in Tools : tool[r] = "done" =>
        \E i \in LineEnds : Reads(i) /\ inbox[i - 1] = Told(r)

=============================================================================
