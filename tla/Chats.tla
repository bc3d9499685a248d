-------------------------------- MODULE Chats --------------------------------
(***************************************************************************)
(* The chats the desktop backend holds (chats.rs), and the commands that   *)
(* use them (main.rs: send, open_session, new_session, rename_session,     *)
(* delete_session, restore_session; chat_name.rs: run).                    *)
(*                                                                         *)
(* Commands run at the same time.  The index of held chats is behind a     *)
(* lock that is let go between two calls, so everything a command does     *)
(* with the index is a step of its own, and so is every read of a log      *)
(* file.  A held chat is kept while it is open, while a command has a      *)
(* handle to it, and for good when it is ephemeral.                        *)
(*                                                                         *)
(* A log is its length: a copy in memory that is as long as its file has   *)
(* every event at the place it has on disk.                                *)
(***************************************************************************)
EXTENDS Integers, FiniteSets

CONSTANTS
    Ids,         \* chats
    OnDisk,      \* those with a log when the app starts
    Commands,    \* commands that may be under way at once
    Extra,       \* those of them he uses only as a setting says
    Settings,    \* how he may use the window: each a set of words of Words
    New,         \* New chat: no chat is open
    MaxLength    \* bound on the length of a log

\* The commands that are issued; whether two of them may be at the log files
\* at once ("overlap"); and whether the extra commands are used too, with one new
\* chat ("more").
Words == {"send", "open", "title", "delete", "overlap", "more"}

ASSUME ChatsAssumption ==
    /\ OnDisk \subseteq Ids /\ New \notin Ids
    /\ IsFiniteSet(Commands) /\ Extra \subseteq Commands
    /\ Settings \subseteq SUBSET Words
    /\ MaxLength \in Nat \ {0}

\* Copies of a chat in memory, Arc<Mutex<Session>>: the one it is held as, and
\* those commands have of their own.
Copies == 1..(1 + Cardinality(Commands))
None == 0

VARIABLES
    his,       \* how he uses the window in this behaviour
    focus,     \* Inner.focus
    held,      \* Inner.held: the copy a chat is held as, None if it is not
    made,      \* Inner.made_from_new
    seen,      \* Session.events of each copy of a chat: its length
    mode,      \* "unborn", "normal" or "ephemeral"
    file,      \* where a chat's log is: "none", "logs" or "trash"
    length,    \* of that log
    commands   \* where each is, the chat it is about, and its handle: a copy
               \* of a chat (knew: the chats there were when it began)

index == << his, focus, held, made >>
disk == << file, length >>
vars == << his, focus, held, made, seen, mode, file, length, commands >>

Idle == [at |-> "idle", aim |-> New, chat |-> New, copy |-> None, knew |-> {}]

-----------------------------------------------------------------------------

\* Arc::strong_count beyond the index's own handle, once `cs` is how things are.
InUse(cs, i, k) == \E c \in Commands : cs[c].chat = i /\ cs[c].copy = k

Locked(i, k) ==
    \E c \in Commands :
        commands[c].at = "turn" /\ commands[c].chat = i /\ commands[c].copy = k

Free(c) == ~Locked(commands[c].chat, commands[c].copy)

\* Mutant: a chat in use is let go when it is left.
PruneLeft(h, f) ==
    [i \in Ids |-> IF i = f \/ mode[i] = "ephemeral" THEN h[i] ELSE None]

\* prune: the open chat, a chat in use and an ephemeral one stay.
Prune(h, f) ==
    [i \in Ids |-> IF i = f \/ InUse(commands, i, h[i]) \/ mode[i] = "ephemeral"
                   THEN h[i] ELSE None]

\* A copy of chat i nothing refers to.
Fresh(i) == CHOOSE k \in Copies : ~InUse(commands, i, k) /\ held[i] # k

\* Session::record through a command's handle: memory and, for a chat that
\* keeps a log, the file.
Longer(c) == [seen EXCEPT ![commands[c].chat][commands[c].copy] = @ + 1]

Record(c) ==
    LET i == commands[c].chat IN
    /\ seen[i][commands[c].copy] < MaxLength /\ length[i] < MaxLength
    /\ length' = IF mode[i] = "normal" THEN [length EXCEPT ![i] = @ + 1] ELSE length

\* Commands that found their chat not held and are between there and the end
\* of what they do with its file.
AtFiles == {"absent", "loaded", "titleAbsent", "titleLoaded"}

MayGoToFiles == "overlap" \in his \/ \A c \in Commands : commands[c].at \notin AtFiles

\* Bound: the commands he issues.
May(c, word) ==
    /\ word \in his /\ commands[c] = Idle
    /\ "more" \in his \/ c \notin Extra

Init ==
    /\ his \in Settings
    /\ focus = New /\ made = New
    /\ held = [i \in Ids |-> None]
    /\ seen = [i \in Ids |-> [k \in Copies |-> 0]]
    /\ mode = [i \in Ids |-> IF i \in OnDisk THEN "normal" ELSE "unborn"]
    /\ file = [i \in Ids |-> IF i \in OnDisk THEN "logs" ELSE "none"]
    /\ length = [i \in Ids |-> IF i \in OnDisk THEN 1 ELSE 0]
    /\ commands = [c \in Commands |-> Idle]

\* What follows when the commands stand as cs, the index as h, f, m and the
\* copies as sn: a copy nothing refers to is gone.
Become(cs, h, f, m, sn) ==
    /\ commands' = cs
    /\ held' = h /\ focus' = f /\ made' = m /\ UNCHANGED his
    /\ seen' = [i \in Ids |-> [k \in Copies |->
                   IF InUse(cs, i, k) \/ h[i] = k THEN sn[i][k] ELSE 0]]

Moved(c, at) == [commands EXCEPT ![c].at = at]
Given(c, at, i, k) ==
    [commands EXCEPT ![c] = [at |-> at, aim |-> @.aim, chat |-> i, copy |-> k, knew |-> @.knew]]
Done(c) == [commands EXCEPT ![c] = Idle]

\* A command that has just looked up chat i in the index: h where it is held,
\* a where it is not.
Found(i, h, a) ==
    IF held[i] = None
    THEN [at |-> a, aim |-> i, chat |-> New, copy |-> None, knew |-> {}]
    ELSE [at |-> h, aim |-> i, chat |-> i, copy |-> held[i], knew |-> {}]

-----------------------------------------------------------------------------
(* send, send_agent: a turn in the chat the message was typed into.        *)

\* Chats::target, and target_at for a message queued in another chat.
ReadTarget(c, i) ==
    /\ May(c, "send")
    /\ i = focus \/ (i \in Ids /\ held[i] # None)
    /\ commands' = [commands EXCEPT ![c] =
           IF i = New
           THEN [Idle EXCEPT !.at = "aimed", !.knew = {j \in Ids : mode[j] # "unborn"}]
           ELSE Found(i, "waiting", "aimed")]
    /\ UNCHANGED << index, seen, mode, disk >>

\* start_session: a log is made for a chat that keeps one.
StartAs(i, m) ==
    /\ mode[i] = "unborn"
    /\ "more" \in his => \A j \in Ids \ OnDisk : mode[j] = "unborn"
    /\ mode' = [mode EXCEPT ![i] = m]
    /\ file' = [file EXCEPT ![i] = IF m = "normal" THEN "logs" ELSE "none"]
    /\ length' = [length EXCEPT ![i] = IF m = "normal" THEN 1 ELSE 0]

\* It is held from the start, its maker with a handle to it.
StartedBy(c, i, f, m) ==
    Become(Given(c, "waiting", i, 1), [held EXCEPT ![i] = 1], f, m, [seen EXCEPT ![i][1] = 1])

Joined(c) == Become(Given(c, "waiting", focus, held[focus]), held, focus, made, seen)

\* Mutant: the index is let go and the focus read again (focused_or_start).
StartRereading(c, i, m) ==
    /\ commands[c].at = "aimed"
    /\ IF focus # New /\ held[focus] # None
       THEN Joined(c) /\ UNCHANGED << mode, disk >>
       ELSE StartAs(i, m) /\ StartedBy(c, i, i, i)

\* Mutant: the new chat takes the focus whatever is open by now.
StartFocusing(c, i, m) ==
    /\ commands[c].at = "aimed"
    /\ StartAs(i, m) /\ StartedBy(c, i, i, i)

\* lock_or_start_at for a message typed at New chat: the chat is made and
\* opened; or the one another command has made from this New chat is taken;
\* or, another chat being open by now, it is made without opening it.
Start(c, i, m) ==
    /\ commands[c].at = "aimed"
    /\ IF focus # New /\ focus = made
       THEN /\ IF held[focus] = None
               THEN Become(Done(c), held, focus, made, seen)
               ELSE Joined(c)
            /\ UNCHANGED << mode, disk >>
       ELSE /\ StartAs(i, m)
            /\ IF focus = New THEN StartedBy(c, i, i, i) ELSE StartedBy(c, i, focus, made)

LockTurn(c) ==
    /\ commands[c].at = "waiting" /\ Free(c)
    /\ commands' = Moved(c, "turn")
    /\ UNCHANGED << index, seen, mode, disk >>

TurnRecords(c) ==
    /\ commands[c].at = "turn"
    /\ Record(c)
    /\ seen' = Longer(c)
    /\ UNCHANGED << index, mode, file, commands >>

EndTurn(c) ==
    /\ commands[c].at = "turn"
    /\ Become(Done(c), held, focus, made, seen)
    /\ UNCHANGED << mode, disk >>

-----------------------------------------------------------------------------
(* open_session, new_session.                                              *)

\* focus_held's find.
FindToOpen(c, i) ==
    /\ May(c, "open") /\ mode[i] # "unborn"
    /\ held[i] = None => MayGoToFiles
    /\ commands' = [commands EXCEPT ![c] = Found(i, "found", "absent")]
    /\ UNCHANGED << index, seen, mode, disk >>

\* The rest of focus_held, the index locked again.
FocusFound(c) ==
    /\ commands[c].at = "found"
    /\ LET i == commands[c].aim
       IN  Become(Done(c), Prune(held, i), i, New, seen)
    /\ UNCHANGED << mode, disk >>

LoadFailed(c) ==
    /\ commands[c].at \in {"absent", "titleAbsent"}
    /\ file[commands[c].aim] # "logs"
    /\ commands' = Done(c)
    /\ UNCHANGED << index, seen, mode, disk >>

\* Session::load.
LoadLog(c) ==
    /\ commands[c].at \in {"absent", "titleAbsent"}
    /\ LET i == commands[c].aim IN
        /\ file[i] = "logs"
        /\ seen' = [seen EXCEPT ![i][Fresh(i)] = length[i]]
        /\ commands' = Given(c, IF commands[c].at = "absent" THEN "loaded" ELSE "titleLoaded",
                             i, Fresh(i))
    /\ UNCHANGED << index, mode, disk >>

\* Chats::open: a copy held by now wins over the loaded one.
OpenLoaded(c) ==
    /\ commands[c].at = "loaded"
    /\ LET i == commands[c].aim
           h == IF held[i] # None THEN held ELSE [held EXCEPT ![i] = commands[c].copy]
       IN  Become(Done(c), Prune(h, i), i, New, seen)
    /\ UNCHANGED << mode, disk >>

\* focus_new: New chat, or another project.
FocusNew ==
    /\ "open" \in his
    /\ focus # New
    /\ Become(commands, Prune(held, New), New, New, seen)
    /\ UNCHANGED << mode, disk >>

-----------------------------------------------------------------------------
(* rename_session, set_session_thread and the naming pass: one event.      *)

FindToTitle(c, i) ==
    /\ May(c, "title") /\ mode[i] # "unborn"
    /\ held[i] = None => MayGoToFiles
    /\ commands' = [commands EXCEPT ![c] = Found(i, "titleFound", "titleAbsent")]
    /\ UNCHANGED << index, seen, mode, disk >>

\* Through the held copy when no turn has it, or through the one just loaded.
TitleRecords(c) ==
    /\ \/ commands[c].at = "titleFound" /\ Free(c)
       \/ commands[c].at = "titleLoaded"
    /\ Record(c)
    /\ Become(Done(c), held, focus, made, Longer(c))
    /\ UNCHANGED << mode, file >>

\* A rename is refused while the chat's turn runs; the naming pass waits.
TitleRefused(c) ==
    /\ commands[c].at = "titleFound" /\ ~Free(c)
    /\ Become(Done(c), held, focus, made, seen)
    /\ UNCHANGED << mode, disk >>

-----------------------------------------------------------------------------
(* delete_session, restore_session.                                        *)

\* Chats::forget: refused while a turn holds the chat; New chat is open after
\* it if the chat was held and open.
Forget(c, i) ==
    /\ May(c, "delete")
    /\ file[i] = "logs"
    /\ ~Locked(i, held[i])
    /\ Become([commands EXCEPT ![c] = [Idle EXCEPT !.at = "forgot", !.aim = i]],
              [held EXCEPT ![i] = None],
              IF focus = i /\ held[i] # None THEN New ELSE focus, made, seen)
    /\ UNCHANGED << mode, disk >>

MoveToTrash(c) ==
    /\ commands[c].at = "forgot"
    /\ LET i == commands[c].aim
       IN  file' = IF file[i] = "logs" THEN [file EXCEPT ![i] = "trash"] ELSE file
    /\ commands' = Done(c)
    /\ UNCHANGED << index, seen, mode, length >>

RestoreFromTrash(i) ==
    /\ file[i] = "trash"
    /\ file' = [file EXCEPT ![i] = "logs"]
    /\ UNCHANGED << index, seen, mode, length, commands >>

Next ==
    \/ \E c \in Commands :
        \/ \E i \in Ids \cup {New} : ReadTarget(c, i)
        \/ \E i \in Ids, m \in {"normal", "ephemeral"} : Start(c, i, m)
        \/ LockTurn(c) \/ TurnRecords(c) \/ EndTurn(c)
        \/ \E i \in Ids : FindToOpen(c, i) \/ FindToTitle(c, i) \/ Forget(c, i)
        \/ FocusFound(c) \/ LoadLog(c) \/ LoadFailed(c) \/ OpenLoaded(c)
        \/ TitleRecords(c) \/ TitleRefused(c)
        \/ MoveToTrash(c)
    \/ FocusNew
    \/ \E i \in Ids : RestoreFromTrash(i)

Spec == Init /\ [][Next]_vars

-----------------------------------------------------------------------------
(* Properties.                                                             *)

\* What the variables hold: a chat is held as a copy of itself, one that was
\* not made is nowhere, a turn has its copy to itself and only a chat that
\* keeps a log has a file.
TypeOK ==
    /\ focus \in Ids \cup {New} /\ made \in Ids \cup {New}
    /\ \A i \in Ids :
        /\ held[i] \in Copies \cup {None} /\ seen[i] \in [Copies -> 0..MaxLength]
        /\ mode[i] = "unborn" => held[i] = None /\ focus # i
        /\ mode[i] = "normal" <=> file[i] # "none"
        /\ length[i] \in 0..MaxLength
    /\ \A c, d \in Commands :
        commands[c].at = "turn" /\ commands[d].at = "turn" /\ c # d =>
            << commands[c].chat, commands[c].copy >> # << commands[d].chat, commands[d].copy >>

\* A message typed at New chat lands in a chat made after it was typed,
\* whatever he opens while it is on its way (Chats::lock_or_start_at).
NewMessageInNewChat ==
    \A c \in Commands :
        commands[c].at \in {"waiting", "turn"} /\ commands[c].aim = New =>
            commands[c].chat \notin commands[c].knew

\* An ephemeral chat is only in memory: once made it stays held, however he
\* moves about (prune).
EphemeralStays == \A i \in Ids : mode[i] = "ephemeral" => held[i] # None

\* Where another chat comes on the screen, he asked for it.
OpenedAsHeAsked ==
    focus # New /\ focus' \notin {New, focus} =>
        \E c \in Commands :
            commands[c].at \in {"found", "loaded"} /\ commands[c].aim = focus'

\* What he looks at changes from one chat to another only by his opening it:
\* no turn starting elsewhere, and no chat made in the background, takes the
\* screen.
OnlyOpeningMovesTheFocus == [][OpenedAsHeAsked]_vars

\* The place of an event in a held chat is its place in the chat's log, so a
\* marker recorded through it is aimed the same in both (chats.rs).
HeldCopyIsTheLog ==
    \A i \in Ids :
        held[i] # None /\ mode[i] = "normal" => seen[i][held[i]] = length[i]

\* A turn records into the chat that is held, the one every other command
\* would use.
RunningChatIsHeld ==
    \A c \in Commands :
        commands[c].at = "turn" => held[commands[c].chat] = commands[c].copy

\* The open chat is held (Inner.focus's invariant, chats.rs).
FocusIsHeld == focus # New => held[focus] # None

\* Every chat is held as long as somebody needs it held, an ephemeral one for
\* good; and as long as no chat is deleted and no two commands are at the log
\* files at once, no log has a second writer (chats.rs).
HeldWhileNeeded ==
    /\ EphemeralStays
    /\ his \cap {"delete", "overlap"} = {} =>
           HeldCopyIsTheLog /\ RunningChatIsHeld /\ FocusIsHeld

\* A chat whose turn runs is not in the trash (delete_session).
NoTurnInTheTrash ==
    \A c \in Commands :
        commands[c].at = "turn" => file[commands[c].chat] # "trash"

=============================================================================
