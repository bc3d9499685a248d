------------------------------- MODULE Outbox -------------------------------
(***************************************************************************)
(* Sync, down: chats started on the away server come home to the Mac       *)
(* (sync/pull.rs, fork.rs, and the outbox and ack of mirror.rs), while the *)
(* phone goes on writing in them through serve.rs and he goes on writing   *)
(* in those that came home.                                                *)
(*                                                                         *)
(* A chat's log is its number of records, with the version its Claude Code *)
(* file had at the last of them; equal numbers are equal bytes as long as  *)
(* only the server has written.  The Mac's requests are answered by the    *)
(* server between any two of its other steps.                              *)
(***************************************************************************)
EXTENDS Naturals, FiniteSets

CONSTANTS Chats,       \* chats the server may start
          NoChat,
          MaxRecords   \* bound on a chat's records: two a turn

VARIABLES
    log,       \* the server's logs: records, and the CLI version they name
    cli,       \* the server's Claude Code files; 0 is none
    turn,      \* the chat whose turn runs on the server
    asked,     \* a send that found its chat the server's own
    sending,   \* a send that has its chat's log open, not yet running
    acked,     \* the chats on the server's acked list
    locked,    \* the logs made read-only
    home,      \* the Mac's copies: log, Claude Code file, gone on with by him
    down,      \* the Mac's pull
    ack        \* chats of an acknowledgement the server is half through

downVars == << log, cli, turn, asked, sending, acked, locked, home, down, ack >>
serveVars == << log, cli, turn, asked, sending >>
pullVars == << home, down >>

NoLog  == [n |-> 0, cli |-> 0]
NoPull == [at |-> "rest", todo |-> {}, seen |-> {}, entries |-> << >>,
           chat |-> NoChat, got |-> << >>, placed |-> {}]

Started(c) == log[c].n > 0

OutboxInit ==
    /\ log = [c \in Chats |-> NoLog] /\ cli = [c \in Chats |-> 0]
    /\ turn = NoChat /\ asked = NoChat /\ sending = NoChat
    /\ acked = {} /\ locked = {} /\ ack = {}
    /\ home = [c \in Chats |-> [log |-> NoLog, cli |-> 0, his |-> FALSE]]
    /\ down = NoPull

-----------------------------------------------------------------------------
(* The phone and the server's turns: one turn at a time.                   *)

\* Through the handle its send opened: that the log has been made read-only
\* since does not matter.
Record(c) == log' = [log EXCEPT ![c] = [n |-> @.n + 1, cli |-> cli[c]]]

\* One send at a time is between its question and its claim.
NoSend == asked = NoChat /\ sending = NoChat

\* The log is made, and its handle kept.
NewChat(c) ==
    /\ ~Started(c) /\ turn = NoChat /\ NoSend
    /\ log' = [log EXCEPT ![c] = [n |-> 1, cli |-> 0]]
    /\ sending' = c
    /\ UNCHANGED << cli, turn, asked, acked, locked, home, down, ack >>

\* A chat the Mac has taken down is continued as a copy.
Fork(c, d) ==
    /\ c \in acked /\ ~Started(d) /\ turn = NoChat /\ NoSend
    /\ log[c].n < MaxRecords - 2
    /\ log' = [log EXCEPT ![d] = [n |-> log[c].n, cli |-> cli[c]]]
    /\ cli' = [cli EXCEPT ![d] = cli[c]]
    /\ asked' = d
    /\ UNCHANGED << turn, sending, acked, locked, home, down, ack >>

\* Asked before the log is loaded and the turn's slot is claimed.
SendMore(c) ==
    /\ Started(c) /\ c \notin acked /\ NoSend
    /\ log[c].n < MaxRecords - 2
    /\ asked' = c
    /\ UNCHANGED << log, cli, turn, sending, acked, locked, home, down, ack >>

\* Session::load opens the log for appending, which a read-only one refuses.
LoadLog ==
    /\ asked # NoChat
    /\ sending' = IF asked \in locked THEN NoChat ELSE asked
    /\ asked' = NoChat
    /\ UNCHANGED << log, cli, turn, acked, locked, home, down, ack >>

\* After an await; nobody asks again whose the chat is.
Claim ==
    /\ sending # NoChat /\ turn = NoChat
    /\ Record(sending)
    /\ turn' = sending /\ sending' = NoChat
    /\ UNCHANGED << cli, asked, acked, locked, home, down, ack >>

\* A turn took the slot first: the send is refused, the log stays.
Refused ==
    /\ sending # NoChat /\ turn # NoChat
    /\ sending' = NoChat
    /\ UNCHANGED << log, cli, turn, asked, acked, locked, home, down, ack >>

CliWrites ==
    /\ turn # NoChat /\ cli[turn] = log[turn].cli
    /\ cli' = [cli EXCEPT ![turn] = @ + 1]
    /\ UNCHANGED << log, turn, asked, sending, acked, locked, home, down, ack >>

TurnEnds ==
    /\ turn # NoChat
    /\ cli[turn] > log[turn].cli
    /\ Record(turn)
    /\ turn' = NoChat
    /\ UNCHANGED << cli, asked, sending, acked, locked, home, down, ack >>

\* He continues, on the Mac, a chat that came home.
GoesOn(c) ==
    /\ home[c].log # NoLog /\ ~home[c].his
    /\ home' = [home EXCEPT ![c].his = TRUE]
    /\ UNCHANGED << log, cli, turn, asked, sending, acked, locked, down, ack >>

-----------------------------------------------------------------------------
(* The pull.  The server lists its chats one by one: a chat running a turn *)
(* or already taken down is left out, the others' files are hashed.        *)

OpenOutbox ==
    /\ down.at = "rest"
    /\ down' = [NoPull EXCEPT !.at = "lists", !.todo = {c \in Chats : Started(c)},
                              !.seen = acked]
    /\ UNCHANGED << serveVars, acked, locked, home, ack >>

LeftOut(c) == c \in down.seen \/ turn = c

HashLog(c) ==
    /\ down.at = "lists" /\ c \in down.todo
    /\ down' = IF LeftOut(c) THEN [down EXCEPT !.todo = @ \ {c}]
               ELSE [down EXCEPT !.at = "hashes", !.todo = @ \ {c}, !.chat = c,
                                 !.got = [log |-> log[c]]]
    /\ UNCHANGED << serveVars, acked, locked, home, ack >>

\* The Claude Code file, once the log names it: at the end of a turn.
CliOf(c) == IF log[c].cli = 0 THEN 0 ELSE cli[c]

HashCli ==
    LET c == down.chat IN
    /\ down.at = "hashes"
    /\ down' = [down EXCEPT !.at = "lists",
                   !.entries = [x \in DOMAIN @ \cup {c} |->
                                   IF x = c THEN [log |-> down.got.log, cli |-> CliOf(c)]
                                   ELSE @[x]]]
    /\ UNCHANGED << serveVars, acked, locked, home, ack >>

Listed ==
    /\ down.at = "lists" /\ down.todo = {}
    /\ down' = [down EXCEPT !.at = "pulls"]
    /\ UNCHANGED << serveVars, acked, locked, home, ack >>

Left == DOMAIN down.entries

\* The chat is dealt with in this pass, placed or left on the server.
Past(c, placed) ==
    [down EXCEPT !.at = "pulls",
        !.entries = [x \in Left \ {c} |-> @[x]],
        !.placed = IF placed THEN @ \cup {c} ELSE @]

GetLog(c) ==
    /\ down.at = "pulls" /\ c \in Left
    /\ down' = [down EXCEPT !.at = "cli", !.chat = c, !.got = [log |-> log[c]]]
    /\ UNCHANGED << serveVars, acked, locked, home, ack >>

GetCli ==
    LET c == down.chat IN
    /\ down.at = "cli"
    /\ down' = [down EXCEPT !.at = "places",
                   !.got = [log |-> @.log,
                            cli |-> IF down.entries[c].cli = 0 THEN 0 ELSE CliOf(c)]]
    /\ UNCHANGED << serveVars, acked, locked, home, ack >>

\* Both files are, byte for byte, what the listing hashed.
AsListed(c) == down.got = down.entries[c]

\* Mutant: a file placed by an earlier pass is an error.
MayPlaceNew(have, none, his, new) == have = none

\* place_new: nothing there, or the same bytes.
MayPlace(have, none, his, new) == have = none \/ (have = new /\ ~his)

\* Mutant: the log first, then the session it names.
PlaceLogFirst ==
    LET c == down.chat IN
    /\ down.at = "places"
    /\ home' = IF AsListed(c) /\ MayPlace(home[c].log, NoLog, home[c].his, down.got.log)
               THEN [home EXCEPT ![c].log = down.got.log, ![c].his = FALSE] ELSE home
    /\ down' = [down EXCEPT !.at = "log"]
    /\ UNCHANGED << serveVars, acked, locked, ack >>

PlaceCli ==
    LET c    == down.chat
        pair == home[c]
        fits == AsListed(c) /\ (down.got.cli = 0
                                \/ MayPlace(pair.cli, 0, pair.his, down.got.cli))
    IN  /\ down.at = "places"
        /\ home' = IF fits /\ down.got.cli # 0
                   THEN [home EXCEPT ![c].cli = down.got.cli,
                                     ![c].his = @ /\ pair.cli = 0]
                   ELSE home
        /\ down' = IF fits THEN [down EXCEPT !.at = "log"] ELSE Past(c, FALSE)
        /\ UNCHANGED << serveVars, acked, locked, ack >>

PlaceLog ==
    LET c    == down.chat
        fits == MayPlace(home[c].log, NoLog, home[c].his, down.got.log)
    IN  /\ down.at = "log"
        /\ home' = IF fits THEN [home EXCEPT ![c].log = down.got.log, ![c].his = FALSE] ELSE home
        /\ down' = Past(c, fits)
        /\ UNCHANGED << serveVars, acked, locked, ack >>

PullDone ==
    /\ down.at = "pulls" /\ Left = {} /\ down.placed = {}
    /\ down' = NoPull
    /\ UNCHANGED << serveVars, acked, locked, home, ack >>

\* Mutant: the chats go on the list and their logs stay writable.
AckListsOnly ==
    LET chats == {c \in down.placed : turn # c} IN
    /\ down.at = "pulls" /\ Left = {} /\ down.placed # {} /\ ack = {}
    /\ ack' = chats
    /\ down' = IF chats = {} THEN NoPull ELSE [down EXCEPT !.at = "acks"]
    /\ UNCHANGED << serveVars, acked, locked, home >>

\* The acknowledgement names chats, not what was copied of them; one that
\* runs a turn at this moment is passed over.
Ack ==
    LET chats == {c \in down.placed : turn # c} IN
    /\ down.at = "pulls" /\ Left = {} /\ down.placed # {} /\ ack = {}
    /\ locked' = locked \cup chats
    /\ ack' = chats
    /\ down' = IF chats = {} THEN NoPull ELSE [down EXCEPT !.at = "acks"]
    /\ UNCHANGED << serveVars, acked, home >>

AckListed ==
    /\ ack # {}
    /\ acked' = acked \cup ack
    /\ ack' = {}
    /\ down' = IF down.at = "acks" THEN NoPull ELSE down
    /\ UNCHANGED << serveVars, locked, home >>

PullNext ==
    \/ OpenOutbox \/ HashCli \/ Listed \/ GetCli
    \/ PlaceCli \/ PlaceLog \/ PullDone \/ Ack \/ AckListed
    \/ \E c \in Chats : HashLog(c) \/ GetLog(c)

ServeNext == LoadLog \/ Claim \/ Refused \/ CliWrites \/ TurnEnds

-----------------------------------------------------------------------------

DownTypeOK ==
    /\ \A c \in Chats : log[c].n \in 0..MaxRecords /\ log[c].cli <= cli[c]
    /\ {turn, asked, sending} \subseteq Chats \cup {NoChat}
    /\ acked \subseteq locked /\ locked \subseteq Chats
    /\ ack \subseteq locked
    /\ Left \subseteq Chats /\ down.placed \subseteq Chats

\* What came home, and what he added to it, is never replaced by a later
\* pass (place_new: "Never over an existing file").
NeverOverwritten ==
    [][\A c \in Chats :
          /\ home[c].log # NoLog => home'[c].log = home[c].log
          /\ home[c].cli # 0 => home'[c].cli = home[c].cli
          /\ home[c].his => home'[c].his]_downVars

\* A log at home has the Claude Code file it names beside it, from the
\* moment it is there (place: "a log whose session is missing is not"
\* harmless).
HomeWithItsSession ==
    \A c \in Chats : home[c].log # NoLog => home[c].cli >= home[c].log.cli

\* A send or a turn has the log open.
Open(c) == c \in {sending, turn}

\* A chat on the acked list that nobody has open is never opened or written on
\* the server again, not even by a send that asked whose it was before it was
\* listed; one that had it open when it was locked may end its turn.
AckedStandsStill ==
    [][\A c \in acked : ~Open(c) => log'[c] = log[c] /\ ~Open(c)']_downVars

\* send_with: "the original stays byte-identical".  It does not where a send
\* opened the log before the acknowledgement and claims its turn after it.
AckedUntouched == [][\A c \in acked : log'[c] = log[c]]_downVars

\* Every acknowledged chat is at home as the server has it (ack: "the Mac's
\* copy would be a turn behind").
NothingLeftBehind ==
    \A c \in acked : home[c].log = log[c]

=============================================================================
