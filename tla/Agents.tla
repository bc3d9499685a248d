-------------------------------- MODULE Agents --------------------------------
(***************************************************************************)
(* The Claude Code agents the window holds, one per chat (agents.rs), the  *)
(* process each may have waiting for the next message (agent/warm.rs), and *)
(* the commands that use them (main.rs: send_agent, prewarm_agent,         *)
(* connect_agent, open_session, new_session, delete_session).              *)
(*                                                                         *)
(* Commands run at the same time.  The index of agents is behind a lock    *)
(* that is let go between two calls; an agent is behind a lock a turn      *)
(* holds from before it locks its chat until it ends, and one that waits   *)
(* for the lock is handed it.  Of a chat there is here what the agents     *)
(* need: whether it is open, held, locked, and the Claude Code             *)
(* conversation its log last recorded.                                     *)
(***************************************************************************)
EXTENDS Integers, FiniteSets

CONSTANTS
    Ids,        \* chats
    OnDisk,     \* those there are when the app starts
    Commands,   \* commands that may be under way at once
    Uses,       \* how he may use the window: each a set of words of UseWords
    New,        \* New chat
    MaxTalks,   \* bound on the conversations started in one chat
    MaxFills    \* bound on the processes an agent starts for a next message

\* At most one command of the rail or the list at a time, and one send at New
\* chat ("careful"); the former with nothing else under way ("calm"); and what
\* there is beside sends: chats opened ("list") and deleted ("delete"), connects
\* and disconnects ("rail"), messages sent to a chat that is not open
\* ("behind"), processes started for a next message ("warm").
UseWords == {"careful", "calm", "list", "delete", "rail", "behind", "warm"}

ASSUME AgentsAssumption ==
    /\ OnDisk \subseteq Ids /\ New \notin Ids
    /\ IsFiniteSet(Ids) /\ IsFiniteSet(Commands)
    /\ Uses \subseteq SUBSET UseWords
    /\ MaxTalks \in Nat \ {0} /\ MaxFills \in Nat \ {0}

VARIABLES
    use,        \* how he uses the window in this behaviour
    focus,      \* chats.rs, Inner.focus
    fromNew,    \* chats.rs, Inner.made_from_new
    live,       \* chats that can be opened
    log,        \* the conversation each chat's log last recorded
    spec,       \* Inner.spec: Off, or the conversation the connection resumes
    entry,      \* Inner.per_chat, and Inner.pending at New
    agent,      \* the agents there are
    commands    \* where each command is

agentVars == << use, focus, fromNew, live, log, spec, entry, agent, commands >>

chats == << focus, fromNew, live, log >>

\* A conversation: the chat it was started in, and which of that chat's it is.
None == [of |-> New, n |-> 0]
Talks == {None} \cup [of : Ids, n : 1..MaxTalks]

\* AgentSpec is here the conversation it resumes; there is none of Off.
Off == [of |-> New, n |-> 1]

Slots == 1..(Cardinality(Ids) + 1 + Cardinality(Commands))
Targets == Ids \cup {New}

\* Entry: its agent, and whether it is of the newest connection's generation.
NoEntry == [slot |-> 0, current |-> FALSE]

\* No process waits.
NoWarm == [key |-> None, n |-> 0]

NewAgent(r) == [resume |-> r, warm |-> NoWarm, fills |-> 0, timers |-> {}]

Idle == [at |-> "idle", kind |-> "", aim |-> New, chat |-> New, slot |-> 0,
         read |-> None, runs |-> None]

-----------------------------------------------------------------------------

\* Where a command has its agent's lock, and where it has its chat's too.
WithAgent == {"locked", "chosen", "named", "turn", "running"}
WithChat == {"named", "turn", "running"}

\* Mutex::try_lock fails: held, or about to be by one that waits for it.
LockedIn(cs, s) == \E c \in Commands : cs[c].slot = s /\ cs[c].at \in WithAgent \cup {"waiting"}
Locked(s) == LockedIn(commands, s)

LockedChat(i) == \E c \in Commands : commands[c].chat = i /\ commands[c].at \in WithChat

\* Slot's Arc is held by the index or by a command.
Kept(s, e, cs) == (\E p \in Targets : e[p].slot = s) \/ (\E c \in Commands : cs[c].slot = s)

Unused == CHOOSE s \in Slots : ~Kept(s, entry, commands)

\* What follows when the index is e, the agents are a and the commands cs: an
\* agent nobody has is dropped, and its waiting process with it.
Become(e, a, cs) ==
    /\ entry' = e /\ commands' = cs
    /\ agent' = [s \in Slots |-> IF Kept(s, e, cs) THEN a[s] ELSE NewAgent(None)]

Usable(p) == entry[p] # NoEntry /\ (entry[p].current \/ Locked(entry[p].slot))

\* prune, when the index is e.
Prune(e) ==
    [p \in Targets |->
        IF e[p].slot # 0 /\ (e[p].current \/ Locked(e[p].slot)) THEN e[p] ELSE NoEntry]

\* Another connection: no entry is of its generation.
Outdated == [p \in Targets |-> [entry[p] EXCEPT !.current = FALSE]]

Moved(c, at) == [commands EXCEPT ![c].at = at]
Done(c) == [commands EXCEPT ![c] = Idle]
Step(c, at) == commands' = Moved(c, at) /\ UNCHANGED << use, chats, spec, entry, agent >>

\* Commands of the rail and of the chat list.
AtTheRail == {"opened", "adopting", "forgetting", "connecting", "windowed", "built"}

\* Bound: what he may start while other commands are under way.
May(word) ==
    /\ word \in use
    /\ "careful" \in use => \A c \in Commands : commands[c].at \notin AtTheRail
    /\ "calm" \in use => \A c \in Commands : commands[c] = Idle

\* A send on its way to a chat it is yet to make, or to give its agent to.
Making(c) ==
    /\ commands[c].kind = "send"
    /\ commands[c].aim = New \/ commands[c].at = "named"

Unborn == {i \in Ids : i \notin live /\ log[i] = None /\ \A c \in Commands : commands[c].aim # i}

MaySend(p) ==
    /\ p = New => Unborn # {}
    /\ "careful" \in use /\ p = New => \A c \in Commands : ~Making(c)
    /\ "calm" \in use => \A c \in Commands : commands[c].at \notin AtTheRail

AgentsInit ==
    /\ use \in Uses
    /\ focus = New /\ fromNew = New /\ live = OnDisk
    /\ log = [i \in Ids |-> IF i \in OnDisk THEN [of |-> i, n |-> 1] ELSE None]
    /\ spec = Off
    /\ entry = [p \in Targets |-> NoEntry]
    /\ agent = [s \in Slots |-> NewAgent(None)]
    /\ commands = [c \in Commands |-> Idle]

-----------------------------------------------------------------------------
(* lock_agent_at, and its like in prewarm_agent.                           *)

\* Agents::slot for the chat a command is about.
Look(c, k, p) ==
    commands' = [commands EXCEPT ![c] =
        IF Usable(p) THEN [Idle EXCEPT !.at = "found", !.kind = k, !.aim = p, !.slot = entry[p].slot]
        ELSE IF spec = Off THEN Idle
        ELSE [Idle EXCEPT !.at = "making", !.kind = k, !.aim = p]]

\* send_agent for the open chat.
Send(c) ==
    /\ commands[c] = Idle /\ MaySend(focus)
    /\ Look(c, "send", focus)
    /\ UNCHANGED << use, chats, spec, entry, agent >>

\* send_agent for a message queued in another chat: its own agent, whatever
\* connection it is of (Agents::existing), else as above.
SendBehind(c, i) ==
    /\ commands[c] = Idle /\ "behind" \in use /\ i \in live /\ i # focus /\ MaySend(i)
    /\ IF entry[i] # NoEntry
       THEN commands' = [commands EXCEPT ![c] =
                [Idle EXCEPT !.at = "found", !.kind = "send", !.aim = i, !.slot = entry[i].slot]]
       ELSE Look(c, "send", i)
    /\ UNCHANGED << use, chats, spec, entry, agent >>

Prewarm(c) ==
    /\ commands[c] = Idle /\ "warm" \in use /\ MaySend(focus)
    /\ Look(c, "warm", focus)
    /\ UNCHANGED << use, chats, spec, entry, agent >>

\* Mutant: the agent is made for a new conversation whatever its chat's log has.
ReadNothing(c) ==
    /\ commands[c].at = "making"
    /\ IF commands[c].aim # New /\ LockedChat(commands[c].aim)
       THEN commands[c].kind = "warm" /\ commands' = Done(c)
       ELSE commands' = Moved(c, "read")
    /\ UNCHANGED << use, chats, spec, entry, agent >>

\* resume_of, its chat's lock taken and let go: a prewarm does not wait for it.
ReadResume(c) ==
    /\ commands[c].at = "making"
    /\ LET i == commands[c].aim IN
        IF i # New /\ LockedChat(i)
        THEN commands[c].kind = "warm" /\ commands' = Done(c)
        ELSE commands' = [Moved(c, "read") EXCEPT ![c].read = IF i = New THEN None ELSE log[i]]
    /\ UNCHANGED << use, chats, spec, entry, agent >>

\* Mutant: the agent is the connection's as it is, set_resume left out.
MakeAsConnected(c) ==
    /\ commands[c].at = "read"
    /\ LET p == commands[c].aim IN
        IF Usable(p)
        THEN Become(entry, agent, [Moved(c, "found") EXCEPT ![c].slot = entry[p].slot, ![c].read = None])
        ELSE IF spec = Off THEN Become(entry, agent, Done(c))
        ELSE Become([entry EXCEPT ![p] = [slot |-> Unused, current |-> TRUE]],
                    [agent EXCEPT ![Unused] = NewAgent(spec)],
                    [Moved(c, "found") EXCEPT ![c].slot = Unused, ![c].read = None])
    /\ UNCHANGED << use, chats, spec >>

\* Agents::make.
Make(c) ==
    /\ commands[c].at = "read"
    /\ LET p == commands[c].aim IN
        IF Usable(p)
        THEN Become(entry, agent, [Moved(c, "found") EXCEPT ![c].slot = entry[p].slot, ![c].read = None])
        ELSE IF spec = Off THEN Become(entry, agent, Done(c))
        ELSE Become([entry EXCEPT ![p] = [slot |-> Unused, current |-> TRUE]],
                    [agent EXCEPT ![Unused] = NewAgent(commands[c].read)],
                    [Moved(c, "found") EXCEPT ![c].slot = Unused, ![c].read = None])
    /\ UNCHANGED << use, chats, spec >>

\* The agent's lock: taken, or waited for; a prewarm gives up.
LockAgent(c) ==
    /\ commands[c].at = "found"
    /\ IF ~Locked(commands[c].slot)
       THEN Become(entry, agent, Moved(c, "locked"))
       ELSE Become(entry, agent, IF commands[c].kind = "send" THEN Moved(c, "waiting") ELSE Done(c))
    /\ UNCHANGED << use, chats, spec >>

GetAgent(c) ==
    /\ commands[c].at = "waiting"
    /\ \A d \in Commands : commands[d].slot = commands[c].slot => commands[d].at \notin WithAgent
    /\ Step(c, "locked")

-----------------------------------------------------------------------------
(* A turn, its agent locked.                                               *)

MakesChat(c, i, f, m) ==
    /\ i \in Unborn /\ live' = live \cup {i}
    /\ focus' = f /\ fromNew' = m
    /\ commands' = [Moved(c, "named") EXCEPT ![c].chat = i, ![c].aim = i]

\* Chats::lock_or_start_at: the target's own chat, or for New chat the one it
\* makes, or the one another command has made from it.
ChooseChat(c, i) ==
    /\ commands[c].at = "locked" /\ commands[c].kind = "send"
    /\ LET aim == commands[c].aim IN
        IF aim # New \/ (focus # New /\ focus = fromNew)
        THEN /\ i = IF aim # New THEN aim ELSE focus
             /\ commands' = [Moved(c, "chosen") EXCEPT ![c].chat = i, ![c].aim = i]
             /\ UNCHANGED << focus, fromNew, live >>
        ELSE IF focus = New THEN MakesChat(c, i, i, i) ELSE MakesChat(c, i, focus, fromNew)
    /\ UNCHANGED << use, log, spec, entry, agent >>

LockChat(c) ==
    /\ commands[c].at = "chosen" /\ ~LockedChat(commands[c].chat)
    /\ Step(c, "turn")

\* Agents::adopt_new.
AdoptNew(c) ==
    /\ commands[c].at = "named"
    /\ LET s == commands[c].slot
           own == entry[New].slot = s
           e == [entry EXCEPT ![commands[c].chat] =
                    [slot |-> s, current |-> own => entry[New].current]]
       IN Become(IF own THEN [e EXCEPT ![New] = NoEntry] ELSE e, agent, Moved(c, "turn"))
    /\ UNCHANGED << use, chats, spec >>

\* drive_as: the process that waits, if it is the one the turn would start
\* (WarmSlot::take kills any other), or one of its own.  A slash command goes
\* to one of its own, and the one that waits is left.
TakeProcess(c, plain) ==
    /\ commands[c].at = "turn"
    /\ commands' = [Moved(c, "running") EXCEPT ![c].runs = agent[commands[c].slot].resume]
    /\ agent' = [agent EXCEPT ![commands[c].slot].warm = IF plain THEN NoWarm ELSE @]
    /\ UNCHANGED << use, chats, spec, entry >>

\* The end of run_agent_turn: the conversation is recorded and followed on; a
\* turn that never began has none.
EndTurn(c, began) ==
    /\ commands[c].at = "running"
    /\ LET i == commands[c].chat
           r == commands[c].runs
           talk == IF r # None THEN r ELSE [of |-> i, n |-> IF log[i].of = i THEN log[i].n + 1 ELSE 1]
       IN  IF began
           THEN /\ talk.n <= MaxTalks
                /\ log' = [log EXCEPT ![i] = talk]
                /\ Become(entry, [agent EXCEPT ![commands[c].slot].resume = talk], Done(c))
           ELSE log' = log /\ Become(entry, agent, Done(c))
    /\ UNCHANGED << use, focus, fromNew, live, spec >>

-----------------------------------------------------------------------------
(* WarmSlot.                                                               *)

\* prewarm_agent, its agent locked: WarmSlot::fill keeps the process there is
\* when it is the one it would start; any other is killed, and one is started
\* unless that fails.
Fill(c) ==
    /\ commands[c].at = "locked" /\ commands[c].kind = "warm"
    /\ LET s == commands[c].slot
           a == agent[s]
           n == a.fills + 1
           busy == commands[c].aim # New /\ LockedChat(commands[c].aim)
       IN  IF busy \/ (a.warm # NoWarm /\ a.warm.key = a.resume)
           THEN Become(entry, agent, Done(c))
           ELSE \/ Become(entry, [agent EXCEPT ![s].warm = NoWarm], Done(c))
                \/ /\ n <= MaxFills
                   /\ Become(entry,
                             [agent EXCEPT ![s] = [a EXCEPT !.warm = [key |-> a.resume, n |-> n],
                                                            !.fills = n, !.timers = @ \cup {n}]],
                             Done(c))
    /\ UNCHANGED << use, chats, spec >>

\* Mutant: a timer kills whatever process waits.
TimerKillsAny(s, n) ==
    /\ n \in agent[s].timers
    /\ agent' = [agent EXCEPT ![s].timers = @ \ {n}, ![s].warm = NoWarm]
    /\ UNCHANGED << use, chats, spec, entry, commands >>

\* MAX_AGE after a fill: the timer kills only the process it was set for.
TimerFires(s, n) ==
    /\ n \in agent[s].timers
    /\ agent' = [agent EXCEPT ![s].timers = @ \ {n},
                              ![s].warm = IF @.n = n THEN NoWarm ELSE @]
    /\ UNCHANGED << use, chats, spec, entry, commands >>

-----------------------------------------------------------------------------
(* The rail and the chat list.                                             *)

\* connect_agent reads the open chat, and then asks the CLI what it is.
ReadOpen(c) ==
    /\ commands[c] = Idle /\ May("rail")
    /\ commands' = [commands EXCEPT ![c] =
           [Idle EXCEPT !.at = "connecting", !.read = IF focus = New THEN None ELSE log[focus]]]
    /\ UNCHANGED << use, chats, spec, entry, agent >>

\* The window's size is of the chat open now, which is locked for it: a turn
\* that runs there is waited for.
AskWindow(c) ==
    /\ commands[c].at = "connecting"
    /\ commands' = [Moved(c, "windowed") EXCEPT ![c].aim = focus]
    /\ UNCHANGED << use, chats, spec, entry, agent >>

ReadWindow(c) ==
    /\ commands[c].at = "windowed"
    /\ commands[c].aim # New => ~LockedChat(commands[c].aim)
    /\ Step(c, "built")

\* CONNECT_TIMEOUT: the rail is told, and nothing is connected.
GiveUp(c) ==
    /\ commands[c].at \in {"connecting", "windowed"}
    /\ commands' = Done(c)
    /\ UNCHANGED << use, chats, spec, entry, agent >>

\* Agents::connect, with the chat open by then.  A turn keeps its agent, and
\* the index is then not pruned.
Connect(c) ==
    /\ commands[c].at = "built"
    /\ spec' = commands[c].read
    /\ IF entry[focus] # NoEntry /\ Locked(entry[focus].slot)
       THEN Become(Outdated, agent, Done(c))
       ELSE Become(Prune([Outdated EXCEPT ![focus] = [slot |-> Unused, current |-> TRUE]]),
                   [agent EXCEPT ![Unused] = NewAgent(commands[c].read)],
                   Done(c))
    /\ UNCHANGED << use, chats >>

\* Agents::disconnect: the rail went to a provider.
Disconnect ==
    /\ May("rail") /\ spec # Off
    /\ spec' = Off
    /\ Become(Prune(Outdated), agent, commands)
    /\ UNCHANGED << use, chats >>

\* open_session focuses the chat; its log is read as it is held, or off the
\* disk.  (A chat that is not held is loaded first, and nothing can run in it.)
OpenChat(c, i) ==
    /\ commands[c] = Idle /\ i \in live /\ May("list")
    /\ focus' = i /\ fromNew' = New
    /\ commands' = [commands EXCEPT ![c] = [Idle EXCEPT !.at = "opened", !.aim = i]]
    /\ UNCHANGED << use, live, log, spec, entry, agent >>

ReadOpened(c) ==
    /\ commands[c].at = "opened"
    /\ commands' = [Moved(c, "adopting") EXCEPT ![c].read = log[commands[c].aim]]
    /\ UNCHANGED << use, chats, spec, entry, agent >>

\* new_session, and the switch to another project.
OpenNew(c) ==
    /\ commands[c] = Idle /\ May("list")
    /\ focus' = New /\ fromNew' = New
    /\ commands' = [commands EXCEPT ![c] = [Idle EXCEPT !.at = "adopting"]]
    /\ UNCHANGED << use, live, log, spec, entry, agent >>

\* adopt_agent_session: the agent of the chat open by then, when it is idle.
Adopt(c) ==
    /\ commands[c].at = "adopting"
    /\ LET s == entry[focus].slot IN
        Become(entry,
               IF s # 0 /\ ~Locked(s) THEN [agent EXCEPT ![s].resume = commands[c].read] ELSE agent,
               Done(c))
    /\ UNCHANGED << use, chats, spec >>

\* delete_session and move_session: Chats::forget refuses a running chat.
Delete(c, i) ==
    /\ commands[c] = Idle /\ i \in live /\ May("delete")
    /\ ~LockedChat(i)
    /\ live' = live \ {i}
    /\ focus' = IF focus = i THEN New ELSE focus
    /\ commands' = [commands EXCEPT ![c] =
           [Idle EXCEPT !.at = "forgetting", !.aim = i, !.kind = IF focus = i THEN "open" ELSE ""]]
    /\ UNCHANGED << use, fromNew, log, spec, entry, agent >>

\* Agents::forget; the open chat's agent is then New chat's.
ForgetAgent(c) ==
    /\ commands[c].at = "forgetting"
    /\ Become([entry EXCEPT ![commands[c].aim] = NoEntry], agent,
              IF commands[c].kind = "open"
              THEN [commands EXCEPT ![c] = [Idle EXCEPT !.at = "adopting"]] ELSE Done(c))
    /\ UNCHANGED << use, chats, spec >>

AgentsNext ==
    \/ \E c \in Commands :
        \/ Send(c) \/ Prewarm(c) \/ ReadResume(c) \/ Make(c) \/ LockAgent(c) \/ GetAgent(c)
        \/ \E i \in Ids : SendBehind(c, i) \/ ChooseChat(c, i) \/ OpenChat(c, i) \/ Delete(c, i)
        \/ LockChat(c) \/ AdoptNew(c) \/ Fill(c)
        \/ \E plain \in BOOLEAN : TakeProcess(c, plain)
        \/ \E began \in BOOLEAN : EndTurn(c, began)
        \/ ReadOpen(c) \/ AskWindow(c) \/ ReadWindow(c) \/ GiveUp(c) \/ Connect(c)
        \/ ReadOpened(c) \/ OpenNew(c) \/ Adopt(c) \/ ForgetAgent(c)
    \/ Disconnect
    \/ \E s \in Slots, n \in 1..MaxFills : TimerFires(s, n)

AgentsSpec == AgentsInit /\ [][AgentsNext]_agentVars

-----------------------------------------------------------------------------
(* Properties.                                                             *)

\* What the variables hold: an agent that is kept is one that was made, an
\* agent and a chat are locked by one command at a time, and a waiting process
\* is the last one its agent started.
AgentsTypeOK ==
    /\ focus \in Targets /\ fromNew \in Targets /\ live \subseteq Ids
    /\ log \in [Ids -> Talks] /\ spec \in Talks \cup {Off}
    /\ \A p \in Targets : entry[p].slot \in Slots \cup {0}
    /\ \A s \in Slots : agent[s].warm # NoWarm => agent[s].warm.n = agent[s].fills
    /\ \A c, d \in Commands : c # d =>
        /\ ~(commands[c].at \in WithAgent /\ commands[d].at \in WithAgent
             /\ commands[c].slot = commands[d].slot)
        /\ ~(commands[c].at \in WithChat /\ commands[d].at \in WithChat
             /\ commands[c].chat = commands[d].chat)

\* An agent is one chat's: no two chats' messages go to one conversation, and
\* none waits for another's turn (agents.rs).
OneChatPerAgent ==
    \A p, q \in Targets : p # q /\ entry[p].slot # 0 => entry[p].slot # entry[q].slot

\* A turn continues a conversation of the chat it runs in, or begins one: it
\* never runs another chat's --resume into this chat's log (Target, chats.rs).
ResumesItsOwn ==
    \A c \in Commands :
        commands[c].at = "running" /\ commands[c].runs # None =>
            commands[c].runs.of = commands[c].chat

\* "An agent's `--resume` is its own chat's" (agents.rs).
OwnAgents == OneChatPerAgent /\ ResumesItsOwn

\* A turn continues the conversation its chat's log last recorded: no switch,
\* reconnect or rebuild of the agent makes the model forget the chat.
ResumesTheLogs ==
    \A c \in Commands :
        commands[c].at = "running" => commands[c].runs = log[commands[c].chat]

\* When nothing of the rail or the list overlaps a turn.
CalmlyResumesTheLogs == "calm" \in use => ResumesTheLogs

\* When an age is over, the process that waits stays or the age is its own.
AgesApart ==
    \A s \in Slots :
        LET a == agent[s]
            b == agent'[s]
        IN  a.timers \ b.timers # {} /\ Kept(s, entry', commands') /\ a.warm # b.warm =>
                a.warm.n \in a.timers \ b.timers

\* A process that waits for his message is killed by age only when it is the
\* one the age is of: a process started since is not (WarmSlot::fill).
OnlyItsOwnTimer == [][AgesApart]_agentVars

=============================================================================
