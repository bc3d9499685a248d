-------------------------------- MODULE Sync --------------------------------
(***************************************************************************)
(* The two halves of a pass of the desktop (away.rs) over one away server: *)
(* push, then pull, with the Mac quitting or a request failing anywhere in *)
(* it and the server dying between any two writes.                         *)
(***************************************************************************)
EXTENDS Mirror, Outbox

CONSTANTS Settings,    \* what may happen, one set of these per setting
          MaxFaults    \* bound on stops and deaths together

AllMay == {"push",    \* there are files to send, and a push before each pull
           "serve",   \* the phone begins chats on the server
           "edit",    \* he edits, marks and unmarks while passes run
           "two",     \* it begins more than one
           "again",   \* the phone sends more to a chat already begun
           "home",    \* he goes on with a chat that came home
           "fork",    \* the phone goes on with a chat taken down
           "stop",    \* the Mac quits, or a request fails
           "die"}     \* the server dies

ASSUME SyncAssumption ==
    /\ \A s \in Settings : s \subseteq AllMay
    /\ NoChat \notin Chats

VARIABLES may,      \* the setting of this behaviour
          faults    \* stops and deaths so far

vars == << upVars, downVars, may, faults >>

Init ==
    /\ may \in Settings
    /\ faults = 0
    /\ MirrorInit(IF "push" \in may THEN Files ELSE {})
    /\ OutboxInit

\* The push half moves while the pull is at rest, and the other way round.
Push ==
    /\ "push" \in may /\ down.at = "rest"
    /\ PushNext
    /\ UNCHANGED << downVars, may, faults >>

\* A pull follows a push that went through.
Pull ==
    /\ down.at = "rest" => up.at = "sent" \/ "push" \notin may \/ ack # {}
    /\ PullNext
    /\ up' = IF down.at = "rest" /\ down'.at = "lists" THEN UpAt("rest") ELSE up
    /\ UNCHANGED << mine, marked, disk, index, job, may, faults >>

MayBegin(c) == "two" \in may \/ \A d \in Chats \ {c} : ~Started(d)

Serve ==
    /\ \/ ServeNext
       \/ "serve" \in may /\ \E c \in Chats : MayBegin(c) /\ NewChat(c)
       \/ "again" \in may /\ \E c \in Chats : SendMore(c)
       \/ "fork" \in may /\ \E c, d \in Chats : Fork(c, d)
       \/ "home" \in may /\ \E c \in Chats : GoesOn(c)
    /\ UNCHANGED << upVars, may, faults >>

His ==
    /\ "edit" \in may
    /\ \E f \in Files : Edit(f) \/ Mark(f)
    /\ UNCHANGED << downVars, may, faults >>

\* The pass is gone; a request the server has begun is finished.
MacStops ==
    /\ "stop" \in may /\ faults < MaxFaults
    /\ up.at # "rest" \/ down.at # "rest"
    /\ up' = [up EXCEPT !.at = "rest", !.need = {}]
    /\ down' = NoPull
    /\ faults' = faults + 1
    /\ UNCHANGED << mine, marked, disk, index, job, serveVars, acked, locked,
                    home, ack, may >>

\* What the server was doing is gone, and the pass that waited fails.
ServerDies ==
    /\ "die" \in may /\ faults < MaxFaults
    /\ job # NoJob \/ turn # NoChat \/ ~NoSend \/ ack # {} \/ down.at # "rest"
    /\ job' = NoJob /\ ack' = {}
    /\ turn' = NoChat /\ asked' = NoChat /\ sending' = NoChat
    /\ up' = [up EXCEPT !.at = "rest", !.need = {}]
    /\ down' = NoPull
    /\ faults' = faults + 1
    /\ UNCHANGED << mine, marked, disk, index, log, cli, acked, locked, home, may >>

Next == Push \/ Pull \/ Serve \/ His \/ MacStops \/ ServerDies

\* The desktop's loop starts a pass every quarter of an hour and a turn of
\* the server ends by itself.
Spec ==
    /\ Init /\ [][Next]_vars
    /\ WF_vars(Push) /\ WF_vars(Pull)
    /\ WF_vars((LoadLog \/ Claim \/ CliWrites \/ TurnEnds) /\ UNCHANGED << upVars, may, faults >>)

-----------------------------------------------------------------------------

\* The type invariant of both halves.
TypeOK == UpTypeOK /\ DownTypeOK /\ may \in Settings /\ faults \in 0..MaxFaults

\* After a push that went through the mirror is what the Mac has marked; a
\* server that died inside a put may keep a copy it has no index of.
MirrorIsTheMacs == MirrorHasTheMacs /\ ("die" \notin may => MirrorHasNoMore)

\* What came home stays as it is there, and what was acknowledged stands
\* still once nobody has it open.
StandsAtBothEnds == NeverOverwritten /\ AckedStandsStill

\* Between two passes, a chat that stands still and of which nothing older
\* is at home.
Settled(c) ==
    /\ Started(c) /\ c \notin {turn, asked, sending} /\ down.at = "rest"
    /\ home[c].log \in {NoLog, log[c]} /\ home[c].cli \in {0, CliOf(c)}
    /\ ~home[c].his

\* Such a chat, left alone on both sides, comes home and is acknowledged,
\* whatever passes are cut short on the way (pull.rs: "a pass that was cut off
\* before it acknowledged").
ComesHome ==
    may \cap {"again", "home"} = {} =>
        \A c \in Chats : Settled(c) ~> c \in acked

=============================================================================
