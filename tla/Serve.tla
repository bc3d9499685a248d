-------------------------------- MODULE Serve --------------------------------
(***************************************************************************)
(* nightloom serve: the phone's page with the desktop closed (serve.rs,    *)
(* with the chat operations of chat_ops.rs).                               *)
(*                                                                         *)
(* Requests of the phone are served at the same time.  One turn runs at    *)
(* most, in a task of its own, and an action holds its chat while it       *)
(* changes the log.  A turn that meets the plan's usage limit leaves a     *)
(* pause; pressing Resume sends the paused chat on, at once or when the    *)
(* window of the plan opens again.                                         *)
(*                                                                         *)
(* A request loads its chat's log first and claims or holds the chat       *)
(* after, so what it loaded may by then lack what was written since.       *)
(***************************************************************************)
EXTENDS Naturals

CONSTANTS
    Ids,        \* chats
    OnDisk,     \* those there are when it starts
    Requests,   \* requests under way at once, timers of resumes among them
    Uses,       \* how the phone may be used: each a set of Words
    Forking,    \* FORKING, the turn slot's chat while a fork is made
    None,
    MaxPauses   \* bound on the pauses

(***************************************************************************)
(* What may happen besides messages, new chats, changes and resumes.       *)
(*   delete     chats are deleted and put back                             *)
(*   rename     chats are renamed                                          *)
(*   listed     a fork made to be sent to is changed as soon as it is in   *)
(*              the list of chats, before it is answered                   *)
(*   elsewhere  the limit is met in one chat while another is paused       *)
(*   late       what a request loaded is compared with what is written     *)
(*              after, which costs states and concerns WorksOnTheLog only  *)
(*   slow       a turn comes to its end between two looks of one press of  *)
(*              Resume, which waits for nothing there                      *)
(***************************************************************************)
Words == {"delete", "rename", "listed", "elsewhere", "late", "slow"}

Pauses == 1..MaxPauses

Pause == [seq : Pauses, chat : Ids, opens : 0..MaxPauses]

ASSUME ServeAssumption ==
    /\ OnDisk \subseteq Ids /\ Forking \notin Ids /\ None \notin Ids /\ Forking # None
    /\ None \notin Pause
    /\ Uses \subseteq SUBSET Words
    /\ MaxPauses \in Nat

VARIABLES
    uses,       \* how the phone is used in this behaviour
    live,       \* chats in the folder
    trash,      \* chats in its trash
    turn,       \* ServeHost.turn: the chat the turn slot is taken for
    acting,     \* ServeHost.acting
    running,    \* the turns' tasks: [chat, read, over]
    requests,   \* where each request is
    pause,      \* ServeHost.pause: [seq, chat, opens], or None
    resume,     \* ServeHost.resume: [seq, by], or None
    paused,     \* pause_gen
    opened,     \* how often the window of the plan has opened
    sent,       \* history: how often each pause was resumed
    settled,    \* history: pauses resumed, over, or told not to have gone
    bare        \* history: chats made for a message that has not gone

folder == <<live, trash, bare>>
limits == <<pause, resume, paused, opened, sent, settled>>
vars == <<uses, folder, turn, acting, running, requests, limits>>

\* A request: how far it is, what it is for, its chat, what it loaded of the
\* chat's log next to what is there now, the fork it made, and the pause it
\* is to resume.
Idle == [at |-> "idle", kind |-> "", chat |-> None, read |-> None, fork |-> None, for |-> None]

Read == {"whole", "stale", None}

Unborn == Ids \ (live \cup trash)

At(r, at) == [requests EXCEPT ![r].at = at]
Over(r) == [requests EXCEPT ![r] = Idle]

\* Chat c's log is written: what others loaded of it lacks that.
Lacking(read) == IF "late" \in uses /\ read = "whole" THEN "stale" ELSE read
Behind(c, by, rs) ==
    [r \in Requests |->
        IF r # by /\ rs[r].chat = c THEN [rs[r] EXCEPT !.read = Lacking(@)] ELSE rs[r]]
TurnsBehind(c) ==
    {IF t.chat = c THEN [t EXCEPT !.read = Lacking(@)] ELSE t : t \in running}

Init ==
    /\ uses \in Uses
    /\ live = OnDisk /\ trash = {} /\ bare = {}
    /\ turn = None /\ acting = {} /\ running = {}
    /\ requests = [r \in Requests |-> Idle]
    /\ pause = None /\ resume = None /\ paused = 0 /\ opened = 0
    /\ sent = [s \in Pauses |-> 0] /\ settled = {}

----------------------------------------------------------------------------
(***************************************************************************)
(* Messages                                                                *)
(***************************************************************************)

\* send_with: the chat's log is found and loaded.
Send(r, c) ==
    /\ requests[r] = Idle /\ c \in live
    /\ requests' = [requests EXCEPT ![r] =
           [Idle EXCEPT !.at = "loaded", !.kind = "send", !.chat = c, !.read = "whole"]]
    /\ UNCHANGED <<uses, folder, turn, acting, running, limits>>

\* new_chat: no turn runs as it looks.
NewChat(r) ==
    /\ requests[r] = Idle /\ turn = None
    /\ requests' = [requests EXCEPT ![r] = [Idle EXCEPT !.at = "starting", !.kind = "new"]]
    /\ UNCHANGED <<uses, folder, turn, acting, running, limits>>

\* Session::start.
StartChat(r, c) ==
    /\ requests[r].at = "starting" /\ c \in Unborn
    /\ live' = live \cup {c} /\ bare' = bare \cup {c} /\ trash' = trash
    /\ requests' = [requests EXCEPT ![r] = [@ EXCEPT !.at = "loaded", !.chat = c, !.read = "whole"]]
    /\ UNCHANGED <<uses, turn, acting, running, limits>>

\* It fails.
StartFails(r) ==
    /\ requests[r].at = "starting"
    /\ requests' = Over(r)
    /\ UNCHANGED <<uses, folder, turn, acting, running, limits>>

\* Mutant: a chat that is being changed may be claimed.
MayClaimChanging(c) == turn = None

\* claim: the one turn slot is free, and nothing changes the chat.
MayClaim(c) == turn = None /\ c \notin acting

Runs(c, read) == running' = running \cup {[chat |-> c, read |-> read, over |-> FALSE]}

\* claim and spawn_turn, for a message or a resume.
Claim(r) ==
    /\ requests[r].at = "loaded" /\ requests[r].kind \in {"send", "new", "resume", "timer"}
    /\ LET c == requests[r].chat
           p == requests[r].for
       IN  IF MayClaim(c)
           THEN /\ turn' = c /\ Runs(c, requests[r].read)
                /\ bare' = bare \ {c}
                /\ sent' = IF p = None THEN sent ELSE [sent EXCEPT ![p.seq] = @ + 1]
                /\ settled' = IF p = None THEN settled ELSE settled \cup {p.seq}
                /\ requests' = Over(r)
           ELSE /\ requests' = IF p = None THEN Over(r) ELSE At(r, "failed")
                /\ UNCHANGED <<turn, running, bare, sent, settled>>
    /\ UNCHANGED <<uses, live, trash, acting, pause, resume, paused, opened>>

----------------------------------------------------------------------------
(***************************************************************************)
(* A turn's end                                                            *)
(***************************************************************************)

\* A pause of this chat is over, and so is the resume that waits for it.
PauseEnds(c) ==
    /\ settled' = IF pause # None /\ pause.chat = c THEN settled \cup {pause.seq} ELSE settled
    /\ resume' = IF pause # None /\ pause.chat = c /\ resume # None /\ resume.seq = pause.seq
                 THEN None ELSE resume

\* Bound: see slow.
Pressing == \E r \in Requests : requests[r].at \in {"pressed", "scheduling"}

\* The timer after_turn cancels.
Cancelled(rs) == IF resume # None /\ resume' = None THEN [rs EXCEPT ![resume.by] = Idle] ELSE rs

\* run_agent_turn has recorded the turn, and after_turn is over.
TurnEnds(t) ==
    /\ t \in running /\ ~t.over
    /\ Pressing => "slow" \in uses
    /\ PauseEnds(t.chat)
    /\ pause' = IF pause # None /\ pause.chat = t.chat THEN None ELSE pause
    /\ running' = (running \ {t}) \cup {[t EXCEPT !.over = TRUE]}
    /\ requests' = Behind(t.chat, None, Cancelled(requests))
    /\ UNCHANGED <<uses, folder, turn, acting, paused, opened, sent>>

\* The same on the plan's limit, which the CLI may or may not say the end of.
TurnMeetsLimit(t, opens) ==
    /\ t \in running /\ ~t.over
    /\ paused < MaxPauses
    /\ Pressing => "slow" \in uses
    /\ (pause # None /\ pause.chat # t.chat) => "elsewhere" \in uses
    /\ PauseEnds(t.chat)
    /\ paused' = paused + 1
    /\ pause' = [seq |-> paused + 1, chat |-> t.chat, opens |-> opens]
    /\ running' = (running \ {t}) \cup {[t EXCEPT !.over = TRUE]}
    /\ requests' = Behind(t.chat, None, Cancelled(requests))
    /\ UNCHANGED <<uses, folder, turn, acting, opened, sent>>

\* run_agent_turn fails, or is stopped among the council's seats.
TurnFails(t) ==
    /\ t \in running /\ ~t.over
    /\ running' = (running \ {t}) \cup {[t EXCEPT !.over = TRUE]}
    /\ requests' = Behind(t.chat, None, requests)
    /\ UNCHANGED <<uses, folder, turn, acting, limits>>

\* spawn_turn: the slot is free.
TurnFrees(t) ==
    /\ t \in running /\ t.over
    /\ running' = running \ {t} /\ turn' = None
    /\ UNCHANGED <<uses, folder, acting, requests, limits>>

----------------------------------------------------------------------------
(***************************************************************************)
(* Changes to a chat                                                       *)
(***************************************************************************)

\* A fork an edit-and-send is about to name.
Unanswered(c) == \E r \in Requests : requests[r].at = "forked" /\ requests[r].fork = c

\* act, layers: the chat's log is found and loaded.  Which change it is is of
\* no matter before the chat is held.
Change(r, c) ==
    /\ requests[r] = Idle /\ c \in live
    /\ Unanswered(c) => "listed" \in uses
    /\ requests' = [requests EXCEPT ![r] =
           [Idle EXCEPT !.at = "loaded", !.kind = "change", !.chat = c, !.read = "whole"]]
    /\ UNCHANGED <<uses, folder, turn, acting, running, limits>>

\* hold.
Hold(r) ==
    /\ requests[r].at = "loaded" /\ requests[r].kind = "change"
    /\ LET c == requests[r].chat IN
        IF turn # c /\ c \notin acting
        THEN acting' = acting \cup {c} /\ requests' = At(r, "held")
        ELSE acting' = acting /\ requests' = Over(r)
    /\ UNCHANGED <<uses, folder, turn, running, limits>>

\* Acting::drop, when a request is over.
LetGo(r) == acting' = acting \ {requests[r].chat}

\* What cannot be done is refused: no such turn, nothing to edit there.
ChangeFails(r) ==
    /\ requests[r].at = "held"
    /\ LetGo(r) /\ requests' = Over(r)
    /\ UNCHANGED <<uses, folder, turn, running, limits>>

\* Edit and save, remove, restore, rewind, kind, layers.
Edit(r) ==
    /\ requests[r].at = "held"
    /\ LetGo(r) /\ requests' = Behind(requests[r].chat, r, Over(r))
    /\ running' = TurnsBehind(requests[r].chat)
    /\ UNCHANGED <<uses, folder, turn, limits>>

\* move_to_trash.
Delete(r) ==
    /\ requests[r].at = "held" /\ "delete" \in uses
    /\ LET c == requests[r].chat IN
        live' = live \ {c} /\ trash' = IF c \in live THEN trash \cup {c} ELSE trash
    /\ LetGo(r) /\ requests' = Over(r)
    /\ UNCHANGED <<uses, bare, turn, running, limits>>

\* chat_ops::fork, continue_from.
Fork(r, f) ==
    /\ requests[r].at = "held"
    /\ f \in Unborn /\ live' = live \cup {f}
    /\ LetGo(r) /\ requests' = Over(r)
    /\ UNCHANGED <<uses, trash, bare, turn, running, limits>>

\* edit_and_send: the slot first, under a name that is no chat's.
EditClaims(r) ==
    /\ requests[r].at = "held"
    /\ IF MayClaim(Forking)
       THEN turn' = Forking /\ acting' = acting /\ requests' = At(r, "forking")
       ELSE turn' = turn /\ LetGo(r) /\ requests' = Over(r)
    /\ UNCHANGED <<uses, folder, running, limits>>

\* The fork is made.
EditForks(r, f) ==
    /\ requests[r].at = "forking"
    /\ f \in Unborn /\ live' = live \cup {f} /\ bare' = bare \cup {f}
    /\ requests' = [requests EXCEPT ![r] = [@ EXCEPT !.at = "forked", !.fork = f]]
    /\ UNCHANGED <<uses, trash, turn, acting, running, limits>>

\* Mutant: a fork that cannot be made leaves the slot taken.
ForkFailsHolding(r) ==
    /\ requests[r].at = "forking"
    /\ LetGo(r) /\ requests' = Over(r)
    /\ UNCHANGED <<uses, folder, turn, running, limits>>

\* It cannot be made.
ForkFails(r) ==
    /\ requests[r].at = "forking"
    /\ turn' = None /\ LetGo(r) /\ requests' = Over(r)
    /\ UNCHANGED <<uses, folder, running, limits>>

\* The slot is the fork's, and its turn is spawned.
EditSends(r) ==
    /\ requests[r].at = "forked"
    /\ LET f == requests[r].fork IN
        /\ turn' = IF turn = None THEN None ELSE f
        /\ Runs(f, "whole") /\ bare' = bare \ {f}
    /\ LetGo(r) /\ requests' = Over(r)
    /\ UNCHANGED <<uses, live, trash, limits>>

\* undelete.
Undelete(c) ==
    /\ c \in trash
    /\ live' = live \cup {c} /\ trash' = trash \ {c}
    /\ UNCHANGED <<uses, bare, turn, acting, running, requests, limits>>

\* rename_in: no turn runs in the chat as it looks.
Rename(r, c) ==
    /\ requests[r] = Idle /\ "rename" \in uses
    /\ c \in live /\ turn # c
    /\ requests' = [requests EXCEPT ![r] = [Idle EXCEPT !.at = "renaming", !.chat = c]]
    /\ UNCHANGED <<uses, folder, turn, acting, running, limits>>

\* The log is loaded and the title written.
RenameWrites(r) ==
    /\ requests[r].at = "renaming"
    /\ LET c == requests[r].chat IN
        IF c \in live
        THEN requests' = Behind(c, r, Over(r)) /\ running' = TurnsBehind(c)
        ELSE requests' = Over(r) /\ running' = running
    /\ UNCHANGED <<uses, folder, turn, acting, limits>>

----------------------------------------------------------------------------
(***************************************************************************)
(* Resume after the usage limit                                            *)
(***************************************************************************)

\* The window the pause waits for is not open.
Exhausted(p) == p.opens > opened

\* resume_limit reads the pause.
Press(r, c) ==
    /\ requests[r] = Idle
    /\ pause # None /\ pause.chat = c /\ c \in live
    /\ requests' = [requests EXCEPT ![r] =
           [Idle EXCEPT !.at = "pressed", !.kind = "resume", !.chat = c, !.for = pause]]
    /\ UNCHANGED <<uses, folder, turn, acting, running, limits>>

\* Then whether its resume waits already, and whether to wait.
PressLooks(r) ==
    /\ requests[r].at = "pressed"
    /\ LET p == requests[r].for IN
        requests' = IF resume # None /\ resume.seq = p.seq THEN Over(r)
                    ELSE IF Exhausted(p) THEN At(r, "scheduling") ELSE At(r, "resuming")
    /\ UNCHANGED <<uses, folder, turn, acting, running, limits>>

\* The request is answered; its timer goes on.
Schedule(r) ==
    /\ requests[r].at = "scheduling"
    /\ resume' = [seq |-> requests[r].for.seq, by |-> r]
    /\ requests' = [requests EXCEPT ![r] = [@ EXCEPT !.at = "waiting", !.kind = "timer"]]
    /\ UNCHANGED <<uses, folder, turn, acting, running, pause, paused, opened, sent, settled>>

\* The plan's window opens, and RESUME_MARGIN_SECS pass.
WindowOpens ==
    /\ \/ pause # None /\ Exhausted(pause)
       \/ \E r \in Requests : requests[r].for # None /\ Exhausted(requests[r].for)
    /\ opened' = opened + 1
    /\ UNCHANGED <<uses, folder, turn, acting, running, requests, pause, resume, paused, sent, settled>>

\* The timer wakes: another may have taken its place.
Wakes(r) ==
    /\ requests[r].at = "waiting" /\ ~Exhausted(requests[r].for)
    /\ IF resume # None /\ resume.seq = requests[r].for.seq
       THEN resume' = None /\ requests' = At(r, "resuming")
       ELSE resume' = resume /\ requests' = Over(r)
    /\ UNCHANGED <<uses, folder, turn, acting, running, pause, paused, opened, sent, settled>>

\* Mutant: the pause is neither compared nor taken.
TakePauseAnyway(r) ==
    /\ requests[r].at = "resuming"
    /\ requests' = At(r, "taken")
    /\ UNCHANGED <<uses, folder, turn, acting, running, limits>>

\* resume_now: the pause is taken, if it is still the pause.
TakePause(r) ==
    /\ requests[r].at = "resuming"
    /\ IF pause # None /\ pause.seq = requests[r].for.seq
       THEN pause' = None /\ requests' = At(r, "taken")
       ELSE pause' = pause /\ requests' = Over(r)
    /\ UNCHANGED <<uses, folder, turn, acting, running, resume, paused, opened, sent, settled>>

\* send_with, for the resume.
LoadPaused(r) ==
    /\ requests[r].at = "taken"
    /\ requests' = IF requests[r].chat \in live
                   THEN [requests EXCEPT ![r] = [@ EXCEPT !.at = "loaded", !.read = "whole"]]
                   ELSE At(r, "failed")
    /\ UNCHANGED <<uses, folder, turn, acting, running, limits>>

\* Mutant: what a timer could not send is not told of.
PutBackQuietly(r) ==
    /\ requests[r].at = "failed"
    /\ pause' = IF pause = None THEN requests[r].for ELSE pause
    /\ requests' = Over(r)
    /\ UNCHANGED <<uses, folder, turn, acting, running, resume, paused, opened, sent, settled>>

\* Not sent: the pause stands, for another press, and the phone is told.
PutBack(r) ==
    /\ requests[r].at = "failed"
    /\ pause' = IF pause = None THEN requests[r].for ELSE pause
    /\ settled' = settled \cup {requests[r].for.seq}
    /\ requests' = Over(r)
    /\ UNCHANGED <<uses, folder, turn, acting, running, resume, paused, opened, sent>>

----------------------------------------------------------------------------

\* What a request does once it has begun.
GoesOn(r) ==
    \/ StartFails(r) \/ Claim(r) \/ Hold(r) \/ ChangeFails(r) \/ Edit(r) \/ Delete(r)
    \/ EditClaims(r) \/ ForkFails(r) \/ EditSends(r) \/ RenameWrites(r)
    \/ PressLooks(r) \/ Schedule(r) \/ Wakes(r) \/ TakePause(r) \/ LoadPaused(r) \/ PutBack(r)

Begins(r) ==
    \/ NewChat(r)
    \/ \E c \in Ids : Send(r, c) \/ Rename(r, c) \/ Press(r, c) \/ Change(r, c)

Makes(r, c) == StartChat(r, c) \/ Fork(r, c) \/ EditForks(r, c)

TurnGoesOn ==
    \E t \in running :
        \/ TurnEnds(t) \/ TurnFails(t) \/ TurnFrees(t)
        \/ \E opens \in {0, opened + 1} : TurnMeetsLimit(t, opens)

Next ==
    \/ \E r \in Requests : GoesOn(r) \/ Begins(r) \/ \E c \in Ids : Makes(r, c)
    \/ TurnGoesOn
    \/ \E c \in Ids : Undelete(c)
    \/ WindowOpens

Spec == Init /\ [][Next]_vars

\* A request is served, a timer wakes, and time passes.
FairSpec == Spec /\ WF_vars(WindowOpens) /\ \A r \in Requests : WF_vars(GoesOn(r))

----------------------------------------------------------------------------
(***************************************************************************)
(* Properties                                                              *)
(***************************************************************************)

Places == {"idle", "starting", "loaded", "held", "forking", "forked", "renaming", "pressed",
           "scheduling", "waiting", "resuming", "taken", "failed"}

Request == [at : Places, kind : {"", "send", "new", "change", "resume", "timer"},
            chat : Ids \cup {None}, read : Read, fork : Ids \cup {None}, for : Pause \cup {None}]

\* The types.
TypeOK ==
    /\ uses \subseteq Words /\ live \subseteq Ids /\ trash \subseteq Ids /\ bare \subseteq Ids
    /\ turn \in Ids \cup {Forking, None} /\ acting \subseteq Ids
    /\ running \subseteq [chat : Ids, read : Read, over : BOOLEAN]
    /\ requests \in [Requests -> Request]
    /\ pause \in Pause \cup {None} /\ resume \in [seq : Pauses, by : Requests] \cup {None}
    /\ paused \in 0..MaxPauses /\ opened \in 0..MaxPauses
    /\ sent \in [Pauses -> Nat] /\ settled \subseteq Pauses

HoldsChat(r) == requests[r].at \in {"held", "forking", "forked"}
HoldsSlot(r) == requests[r].at \in {"forking", "forked"}

\* The turn slot is taken exactly while one turn runs or its fork is made, and
\* for that chat: it is never taken twice, and no failure leaves it taken,
\* which would refuse every message until the process ends (claim).
SlotIsTheTurns ==
    /\ turn \in Ids => running # {}
    /\ turn = Forking => \E r \in Requests : HoldsSlot(r)
    /\ \A t \in running : turn = t.chat
    /\ \A r \in Requests : HoldsSlot(r) => turn = Forking
    /\ \A t, u \in running : t = u
    /\ \A q, r \in Requests : HoldsSlot(q) /\ HoldsSlot(r) => q = r

NoTurnsChatChanges ==
    \A t \in running, r \in Requests : HoldsChat(r) => requests[r].chat # t.chat

\* "A turn does not start in" a chat an action is changing, nor is one held to
\* be changed while its turn runs, nor by two at once (acting, hold).  A rename
\* holds nothing.
ChangesApart ==
    /\ \A q, r \in Requests : HoldsChat(q) /\ HoldsChat(r) /\ requests[q].chat = requests[r].chat => q = r
    /\ "listed" \notin uses => NoTurnsChatChanges

\* A pause is resumed once, however often he presses and whatever timers wait,
\* and not before the window is open (resume_limit: "never into a window still
\* exhausted").
ResumedOnce ==
    /\ \A s \in Pauses : sent[s] <= 1
    /\ \A r \in Requests :
        requests[r].at \in {"resuming", "taken"} => ~Exhausted(requests[r].for)

\* A resume he was told is scheduled goes, or he is told that it could not, or
\* a turn of its chat has ended the pause.
Scheduled(s) == \E r \in Requests : requests[r].at = "waiting" /\ requests[r].for.seq = s
ScheduledIsSettled == \A s \in Pauses : Scheduled(s) ~> s \in settled

(***************************************************************************)
(* What does not hold of this code (README.md, Divergences).               *)
(***************************************************************************)

\* "A refused start leaves no empty chat" (new_chat).
NoEmptyChat ==
    \A c \in bare \cap live :
        \E r \in Requests :
            requests[r].fork = c \/ (requests[r].kind = "new" /\ requests[r].chat = c)

\* "Each turn here resumes what the log records", and an action changes what
\* the log holds: neither works from a log loaded before the last write to it.
WorksOnTheLog ==
    /\ \A t \in running : t.read = "whole"
    /\ \A r \in Requests : HoldsChat(r) => requests[r].read = "whole"

\* A turn runs in a chat that is in the folder.
TurnsInTheFolder == \A t \in running : t.chat \in live

=============================================================================
