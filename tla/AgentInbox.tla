----------------------------- MODULE AgentInbox -----------------------------
(***************************************************************************)
(* A message he sends into a chat whose Claude Code turn is running        *)
(* (agent/inbox.rs): the window's row, the inbox shared by the window and  *)
(* the engine, the feed to the process's stdin, the process, and its       *)
(* stdout.  He may take a message back or send it now while it waits; the  *)
(* turn may be stopped, and the process may die.                           *)
(*                                                                         *)
(* A send now cancels the message's line and writes it again under a fresh *)
(* uuid: the wire of a message is 0 at first and 1 after that.  The turn   *)
(* spawns no subagents and defers no call to his answer.  Each message is  *)
(* taken back, and sent now, at most once in a behaviour.                  *)
(***************************************************************************)
EXTENDS Integers, Sequences, FiniteSets

CONSTANTS
    Messages,   \* what he sends into the turn, numbered in its order
    Settings    \* what may happen in a behaviour: each a set of words of Words

\* A cancel may be answered after TAKE_BACK_WAIT ("slow"), he may stop the turn
\* ("stops"), the process may die ("dies"), the turn may resume a deferred call,
\* with no opening message ("resumes"), he sends more than one message ("more").
Words == {"slow", "stops", "dies", "resumes", "more"}

ASSUME InboxAssumption == Messages \subseteq Nat /\ Settings \subseteq SUBSET Words

VARIABLES
    row,        \* each message in the window: where its row is
    tx,         \* the inbox holds the feed: the turn takes messages
    waiting,    \* written to the feed and not taken, with the wire it is under
    promoting,  \* messages whose send now has its cancel out
    taken,      \* messages the turn took
    left,       \* messages that were waiting when the turn closed
    back,       \* messages a take back cancelled
    idle,       \* a result came and no command has started since
    asks,       \* the cancels sent for a take back and a send now
    feed,       \* lines on their way to the process, "eof" the last
    cli,        \* the process: what it is doing and its command queue
    out,        \* lines of its stdout not read yet
    engine,     \* the engine's read loop
    anyLine,    \* it has read a line
    reads,      \* how often the model was given each message
    his         \* the setting of this behaviour

inboxVars == << tx, waiting, promoting, taken, left, back, idle >>
vars == << row, inboxVars, asks, feed, cli, out, engine, anyLine, reads, his >>

Asks == {"take_back", "send_now"}

User(m, w)      == [type |-> "user", m |-> m, wire |-> w]
Cancel(a, m, w) == [type |-> "cancel", ask |-> a, m |-> m, wire |-> w]
Eof             == [type |-> "eof"]
Started(m, w)   == [type |-> "started", m |-> m, wire |-> w]
Cancelled(m, w) == [type |-> "cancelled", m |-> m, wire |-> w]
Answer(a, m, y) == [type |-> "answer", ask |-> a, m |-> m, yes |-> y]
ResultLine      == [type |-> "result"]
End             == [type |-> "end"]

Init ==
    /\ his \in Settings
    /\ row = [m \in Messages |-> "typed"]
    /\ tx = TRUE /\ waiting = << >> /\ promoting = {}
    /\ taken = {} /\ left = {} /\ back = {} /\ idle = FALSE
    /\ asks = [a \in Asks |-> [m \in Messages |-> "none"]]
    /\ feed = << >> /\ out = << >>
    /\ \E doing \in {"busy"} \cup (IF "resumes" \in his THEN {"idle"} ELSE {}) :
          cli = [doing |-> doing, queue |-> << >>, eof |-> FALSE]
    /\ engine = "reading" /\ anyLine = FALSE
    /\ reads = [m \in Messages |-> 0]

Waits(m) == m \in DOMAIN waiting

\* waiting without m, with m under wire w.
Without(m)  == [n \in DOMAIN waiting \ {m} |-> waiting[n]]
Under(m, w) == [n \in DOMAIN waiting \cup {m} |-> IF n = m THEN w ELSE waiting[n]]

-----------------------------------------------------------------------------
(* The window's commands.                                                  *)

\* Whether a line can be handed to the writer: not without a feed, and not
\* once the writer failed to write a line to a process that is gone.
Hands ==
    IF ~tx THEN {FALSE}
    ELSE IF cli.doing = "exited" /\ feed # << >> THEN BOOLEAN ELSE {TRUE}

\* Put into the running turn, or held until a turn can take it.
Inject(m) ==
    /\ row[m] \in {"typed", "held"} /\ engine # "over"
    /\ \A n \in Messages : n < m => "more" \in his /\ row[n] # "typed"
    /\ \E sent \in Hands :
        IF sent
        THEN /\ waiting' = Under(m, 0)
             /\ feed' = Append(feed, User(m, 0))
             /\ row' = [row EXCEPT ![m] = "into"]
        ELSE /\ row' = [row EXCEPT ![m] = "held"]
             /\ UNCHANGED << waiting, feed >>
    /\ UNCHANGED << tx, promoting, taken, left, back, idle, asks, cli, out, engine, anyLine, reads, his >>

\* What a take back says; told it is his, the window puts the row back into
\* the box when it is still a row.
TakeBackSays(m, what) ==
    /\ asks' = [asks EXCEPT !["take_back"][m] = what]
    /\ row' = IF what = "his" /\ row[m] \in {"into", "held"}
              THEN [row EXCEPT ![m] = "box"] ELSE row

\* The turn's inbox is no longer registered when its command returns.
TakeBackUnregistered(m) ==
    /\ row[m] = "into" /\ asks["take_back"][m] = "none" /\ engine = "returning"
    /\ TakeBackSays(m, "his")
    /\ UNCHANGED << inboxVars, feed, cli, out, engine, anyLine, reads, his >>

\* What a take back finds at once, or the cancel it sends.
TakeBack(m) ==
    /\ row[m] = "into" /\ asks["take_back"][m] = "none"
    /\ IF Waits(m) /\ m \notin left
       THEN \E sent \in Hands :
            IF sent
            THEN /\ feed' = Append(feed, Cancel("take_back", m, waiting[m]))
                 /\ asks' = [asks EXCEPT !["take_back"][m] = "out"]
                 /\ UNCHANGED row
            ELSE TakeBackSays(m, "his") /\ UNCHANGED feed
       ELSE /\ TakeBackSays(m, IF m \in left THEN "his" ELSE "delivered")
            /\ UNCHANGED feed
    /\ UNCHANGED << inboxVars, cli, out, engine, anyLine, reads, his >>

\* An answer came, the turn closed under the question, or the wait ran out.
Settled(a, m) ==
    \/ asks[a][m] \in {"yes", "no", "dropped"}
    \/ asks[a][m] = "out" /\ "slow" \in his

\* Mutant: an idle process is kept open.
CloseIfIdleNever(still) == UNCHANGED << tx, feed >>

\* An idle process kept open only for this message ends now.
CloseIfIdle(still) ==
    IF idle /\ still = << >> /\ tx
    THEN tx' = FALSE /\ feed' = Append(feed, Eof)
    ELSE UNCHANGED << tx, feed >>

TakeBackYes(m) == asks["take_back"][m] = "yes"

TakeBackEnds(m) ==
    /\ Settled("take_back", m)
    /\ IF TakeBackYes(m)
       THEN /\ waiting' = Without(m) /\ promoting' = promoting \ {m}
            /\ back' = back \cup {m}
            /\ CloseIfIdle(Without(m))
            /\ TakeBackSays(m, "his")
       ELSE /\ TakeBackSays(m, IF asks["take_back"][m] = "dropped" /\ m \in left
                               THEN "his" ELSE "delivered")
            /\ UNCHANGED << tx, waiting, promoting, back, feed >>
    /\ UNCHANGED << taken, left, idle, cli, out, engine, anyLine, reads, his >>

SendNow(m) ==
    /\ row[m] = "into" /\ asks["send_now"][m] = "none"
    /\ \E sent \in Hands :
        IF Waits(m) /\ m \notin left /\ sent
        THEN /\ feed' = Append(feed, Cancel("send_now", m, waiting[m]))
             /\ asks' = [asks EXCEPT !["send_now"][m] = "out"]
             /\ promoting' = promoting \cup {m}
        ELSE /\ asks' = [asks EXCEPT !["send_now"][m] = "done"]
             /\ UNCHANGED << feed, promoting >>
    /\ UNCHANGED << row, tx, waiting, taken, left, back, idle, cli, out, engine, anyLine, reads, his >>

\* Mutant: the answer is looked for where it is not.
ResendNever(m) == FALSE

\* Mutant: written again whatever was answered.
ResendAnyway(m) == TRUE

Resend(m) == asks["send_now"][m] = "yes"

\* Cancelled, it is written again under its fresh wire; not cancelled, it
\* keeps its place.  Nothing of it waits when it was taken meanwhile.
SendNowEnds(m) ==
    /\ Settled("send_now", m)
    /\ asks' = [asks EXCEPT !["send_now"][m] = "done"]
    /\ promoting' = promoting \ {m}
    /\ IF Waits(m) /\ Resend(m)
       THEN \E sent \in Hands :
            IF sent
            THEN /\ waiting' = Under(m, 1)
                 /\ feed' = Append(feed, User(m, 1))
                 /\ UNCHANGED left
            ELSE /\ waiting' = Without(m)
                 /\ left' = left \cup {m}
                 /\ UNCHANGED feed
       ELSE UNCHANGED << waiting, feed, left >>
    /\ UNCHANGED << row, tx, taken, back, idle, cli, out, engine, anyLine, reads, his >>

-----------------------------------------------------------------------------
(* The engine's read loop.                                                 *)

\* close(): what waits went nowhere, and every question is dropped.
Close ==
    /\ tx' = FALSE
    /\ feed' = IF tx THEN Append(feed, Eof) ELSE feed
    /\ left' = DOMAIN waiting
    /\ waiting' = << >>
    /\ promoting' = {}
    /\ asks' = [a \in Asks |-> [m \in Messages |->
                   IF asks[a][m] = "out" THEN "dropped" ELSE asks[a][m]]]

\* The turn took it: the window's row leaves.
OnStarted(m, w) ==
    /\ idle' = FALSE
    /\ IF Waits(m) /\ waiting[m] = w
       THEN /\ waiting' = Without(m)
            /\ promoting' = promoting \ {m}
            /\ taken' = taken \cup {m}
            /\ row' = [row EXCEPT ![m] = IF @ = "into" THEN "gone" ELSE @]
       ELSE UNCHANGED << waiting, promoting, taken, row >>
    /\ UNCHANGED << tx, left, back, asks, feed >>

\* A cancelled line is a loss, unless a send now's cancel is out.
OnCancelled(m, w) ==
    /\ IF Waits(m) /\ waiting[m] = w /\ m \notin promoting
       THEN waiting' = Without(m) /\ left' = left \cup {m}
       ELSE UNCHANGED << waiting, left >>
    /\ UNCHANGED << row, tx, promoting, taken, back, idle, asks, feed >>

OnAnswer(a, m, yes) ==
    /\ asks' = IF asks[a][m] = "out"
               THEN [asks EXCEPT ![a][m] = IF yes THEN "yes" ELSE "no"] ELSE asks
    /\ UNCHANGED << row, inboxVars, feed >>

\* The EOF at a result with nothing of his waiting.
OnResult ==
    /\ idle' = TRUE
    /\ IF waiting = << >> /\ tx
       THEN tx' = FALSE /\ feed' = Append(feed, Eof)
       ELSE UNCHANGED << tx, feed >>
    /\ UNCHANGED << row, waiting, promoting, taken, left, back, asks >>

ReadLine ==
    /\ engine = "reading" /\ out # << >> /\ Head(out).type # "end"
    /\ LET l == Head(out) IN
        CASE l.type = "started"   -> OnStarted(l.m, l.wire)
          [] l.type = "cancelled" -> OnCancelled(l.m, l.wire)
          [] l.type = "answer"    -> OnAnswer(l.ask, l.m, l.yes)
          [] l.type = "result"    -> OnResult
    /\ out' = Tail(out)
    /\ anyLine' = TRUE
    /\ UNCHANGED << cli, engine, reads, his >>

\* The process is gone.
ReadEnd ==
    /\ engine = "reading" /\ out # << >> /\ Head(out).type = "end"
    /\ Close
    /\ engine' = "returning"
    /\ out' = << >>
    /\ UNCHANGED << row, taken, back, idle, cli, anyLine, reads, his >>

\* He stops the turn: what waits is cancelled, then the feed ends, then the
\* process is interrupted.  What it writes from here on is shown and is not
\* given to the inbox.
Stop ==
    /\ "stops" \in his /\ engine = "reading"
    /\ engine' = "stopping"
    /\ out' = << >>
    /\ \E order \in [1..Cardinality(DOMAIN waiting) -> DOMAIN waiting] :
        /\ \A m \in DOMAIN waiting : \E n \in DOMAIN order : order[n] = m
        /\ feed' = IF tx THEN feed \o [n \in DOMAIN order |-> Cancel("stop", order[n], waiting[order[n]])]
                   ELSE feed
    /\ UNCHANGED << row, inboxVars, asks, cli, anyLine, reads, his >>

StopCloses ==
    /\ engine = "stopping"
    /\ Close
    /\ engine' = "draining"
    /\ cli' = [cli EXCEPT !.doing = "interrupted"]
    /\ UNCHANGED << row, taken, back, idle, out, anyLine, reads, his >>

\* The rest of its output is read, and the inbox closed once more.
Drained ==
    /\ engine = "draining"
    /\ Close
    /\ engine' = "returning"
    /\ UNCHANGED << row, taken, back, idle, cli, out, anyLine, reads, his >>

\* A resumed turn that prints nothing: nothing of his on its way in, so the
\* feed is closed (one lock to look, another to close).
SilenceChecked ==
    /\ "resumes" \in his /\ engine = "reading" /\ ~anyLine /\ waiting = << >> /\ tx
    /\ engine' = "closing"
    /\ UNCHANGED << row, inboxVars, asks, feed, cli, out, anyLine, reads, his >>

SilenceCloses ==
    /\ engine = "closing"
    /\ Close
    /\ engine' = "reading" /\ anyLine' = TRUE
    /\ UNCHANGED << row, taken, back, idle, cli, out, reads, his >>

\* Mutant: every row sent into the turn leaves with it.
InTheChatAnyway(m) == TRUE

InTheChat(m) == m \in taken

\* The command returns: a row the turn took is in the chat, any other that
\* was sent into it is an ordinary held row again.
TurnEnds ==
    /\ engine = "returning"
    /\ engine' = "over"
    /\ row' = [m \in Messages |->
                  IF row[m] # "into" THEN row[m] ELSE IF InTheChat(m) THEN "gone" ELSE "held"]
    /\ UNCHANGED << inboxVars, asks, feed, cli, out, anyLine, reads, his >>

\* A held row is the next turn's message.
SendNext(m) ==
    /\ engine = "over" /\ row[m] = "held"
    /\ row' = [row EXCEPT ![m] = "gone"]
    /\ reads' = [reads EXCEPT ![m] = @ + 1]
    /\ UNCHANGED << inboxVars, asks, feed, cli, out, engine, anyLine, his >>

-----------------------------------------------------------------------------
(* The process.                                                            *)

\* What it writes reaches the inbox until the engine stops reading for it.
Says(lines) == out' = IF engine \in {"reading", "closing"} THEN out \o lines ELSE out

Queued(m, w) == << m, w >> \in {cli.queue[n] : n \in DOMAIN cli.queue}

\* The queue without it; a line is queued once.
Unqueued(m, w) ==
    LET at == CHOOSE n \in DOMAIN cli.queue : cli.queue[n] = << m, w >>
    IN  SubSeq(cli.queue, 1, at - 1) \o SubSeq(cli.queue, at + 1, Len(cli.queue))

\* A cancel takes a line out of the queue: its lifecycle line comes before
\* the answer.
CliReads ==
    /\ feed # << >> /\ cli.doing # "exited" /\ engine # "over"
    /\ feed' = Tail(feed)
    /\ LET l == Head(feed) IN
        \/ /\ l.type = "user"
           /\ cli' = [cli EXCEPT !.queue = Append(@, << l.m, l.wire >>)]
           /\ UNCHANGED out
        \/ /\ l.type = "cancel" /\ Queued(l.m, l.wire)
           /\ cli' = [cli EXCEPT !.queue = Unqueued(l.m, l.wire)]
           /\ Says(<< Cancelled(l.m, l.wire), Answer(l.ask, l.m, TRUE) >>)
        \/ /\ l.type = "cancel" /\ ~Queued(l.m, l.wire)
           /\ Says(<< Answer(l.ask, l.m, FALSE) >>)
           /\ UNCHANGED cli
        \/ /\ l.type = "eof"
           /\ cli' = [cli EXCEPT !.eof = TRUE]
           /\ UNCHANGED out
    /\ UNCHANGED << row, inboxVars, asks, engine, anyLine, reads, his >>

\* At its next step, or at once when idle, the process gives the model what
\* is queued.
CliTakes ==
    /\ cli.doing \in {"busy", "idle"} /\ cli.queue # << >>
    /\ LET m == Head(cli.queue)[1] IN
        /\ cli' = [cli EXCEPT !.queue = Tail(@), !.doing = "busy"]
        /\ reads' = [reads EXCEPT ![m] = @ + 1]
        /\ Says(<< Started(m, Head(cli.queue)[2]) >>)
    /\ UNCHANGED << row, inboxVars, asks, feed, engine, anyLine, his >>

CliFinishes ==
    /\ cli.doing = "busy"
    /\ cli' = [cli EXCEPT !.doing = "idle"]
    /\ Says(<< ResultLine >>)
    /\ UNCHANGED << row, inboxVars, asks, feed, engine, anyLine, reads, his >>

\* Idle with its stdin ended, or at any time when it dies.
Exits ==
    /\ cli' = [cli EXCEPT !.doing = "exited", !.queue = << >>]
    /\ Says(<< End >>)
    /\ UNCHANGED << row, inboxVars, asks, feed, engine, anyLine, reads, his >>

CliExits == cli.doing = "idle" /\ cli.eof /\ cli.queue = << >> /\ Exits

CliDies == "dies" \in his /\ engine # "over" /\ cli.doing # "exited" /\ Exits

-----------------------------------------------------------------------------

Command(m) ==
    Inject(m) \/ TakeBack(m) \/ TakeBackUnregistered(m) \/ TakeBackEnds(m) \/ SendNow(m) \/ SendNowEnds(m)

Next ==
    \/ \E m \in Messages : Command(m) \/ SendNext(m)
    \/ ReadLine \/ ReadEnd \/ Stop \/ StopCloses \/ Drained
    \/ SilenceChecked \/ SilenceCloses \/ TurnEnds
    \/ CliReads \/ CliTakes \/ CliFinishes \/ CliExits \/ CliDies

Spec == Init /\ [][Next]_vars

\* The engine reads, the process goes on, and the commands waiting for an
\* answer go on once they have it.  Nobody is made to type, stop or die.
FairSpec ==
    /\ Spec
    /\ WF_vars(ReadLine) /\ WF_vars(ReadEnd) /\ WF_vars(TurnEnds)
    /\ WF_vars(CliReads) /\ WF_vars(CliTakes) /\ SF_vars(CliFinishes) /\ WF_vars(CliExits)
    /\ \A m \in Messages : WF_vars(TakeBackEnds(m)) /\ WF_vars(SendNowEnds(m))

-----------------------------------------------------------------------------

\* What the variables hold.
TypeOK ==
    /\ row \in [Messages -> {"typed", "held", "into", "box", "gone"}]
    /\ DOMAIN waiting \subseteq Messages /\ \A m \in DOMAIN waiting : waiting[m] \in {0, 1}
    /\ promoting \subseteq DOMAIN waiting
    /\ taken \cup left \cup back \subseteq Messages
    /\ ~tx => \A n \in 1..(Len(feed) - 1) : feed[n] # Eof
    /\ tx => \A n \in DOMAIN feed : feed[n] # Eof
    /\ engine \in {"reading", "closing", "stopping", "draining", "returning", "over"}
    /\ engine = "over" => ~tx /\ waiting = << >>

\* A row that left the window was given to the model: whatever stops, dies or
\* is asked at once, nothing he typed is lost (inbox.rs: "Nothing he typed is
\* lost on any path").
NothingLost == \A m \in Messages : row[m] = "gone" => reads[m] > 0

\* The model is given no message twice, by this turn and by the next.
GivenOnce == \A m \in Messages : reads[m] <= 1

\* A message back in his box never reached the model (take_back: "either way
\* it never reached the model").
BoxIsUnread == \A m \in Messages : row[m] = "box" => reads[m] = 0

Undisturbed == his \cap {"stops", "dies", "resumes"} = {}
Prompt == Undisturbed /\ "slow" \notin his

\* Both, in a turn with an opening message that is neither stopped nor dies:
\* whatever is asked at once, and however late it is answered, a message is the
\* model's or his, and the model's once.
ReadOnce == Undisturbed => GivenOnce /\ BoxIsUnread

\* A take back says a message was delivered only of one the model was given
\* or may still be given: one that went nowhere is his (take_back: "Cancelled
\* also when the turn ended without taking it").
ToldDeliveredIsTrue ==
    [][\A m \in Messages :
          asks'["take_back"][m] = "delivered" /\ asks["take_back"][m] # "delivered"
             => reads[m] > 0 \/ Waits(m)]_vars

\* A message still waiting can still come, or its fate is about to be read:
\* its line is on its way to the process, or queued in it, or taken, or the
\* answer of a granted cancel is still to come (send_now: "it is still queued,
\* or about to be taken, at the next step").
StillOnItsWay ==
    Prompt => \A m \in DOMAIN waiting :
        LET w == waiting[m] IN
        \/ User(m, w) \in {feed[n] : n \in DOMAIN feed}
        \/ Queued(m, w)
        \/ \E n \in DOMAIN out :
            \/ out[n] \in {Started(m, w), End}
            \/ out[n] = Cancelled(m, w) /\ m \notin promoting
            \/ \E a \in Asks : out[n] = Answer(a, m, TRUE) /\ asks[a][m] = "out"
        \/ \E a \in Asks : asks[a][m] = "yes"

\* Left alone the turn ends: no message keeps an idle process open for ever.
TurnEndsAtLast == <>(engine = "over")

\* It does when every cancel is answered in time.
TurnIsOver == Prompt => TurnEndsAtLast

=============================================================================
